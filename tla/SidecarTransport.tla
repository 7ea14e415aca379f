-------------------------- MODULE SidecarTransport --------------------------
(***************************************************************************)
(* The request loop and the shutdown of atomyx-runtime: one line of input   *)
(* is one request and one goroutine, answered when its handler returns; the *)
(* loop ends at end of input or once its context is done, waits for the     *)
(* goroutines, and only then does main release what the handlers used.      *)
(***************************************************************************)
EXTENDS Naturals, Sequences, FiniteSets, SequencesExt

CONSTANTS
    Lines,      \* the requests a host may send, each once
    None

VARIABLES
    line,       \* line -> "absent" (never sent), "unsent", "running", "answered"
    reader,     \* Transport.Run: "check", "read", "wait", "returned"
    input,      \* the runtime's stdin: "open", "closed" by itself, "ended" by the host
    main,       \* run(): "serving", "draining", "helpers", "reaping", "session", "exited"
    parentDone  \* the context of every request is cancelled

transportVars == <<line, reader, input, main, parentDone>>

TransportTypeOK ==
    /\ line \in [Lines -> {"absent", "unsent", "running", "answered"}]
    /\ reader \in {"check", "read", "wait", "returned"}
    /\ input \in {"open", "closed", "ended"}
    /\ main \in {"serving", "draining", "helpers", "reaping", "session", "exited"}
    /\ parentDone \in BOOLEAN

\* Of the requests sent, some may have been received before any handler ran.
TransportInit(sent, received) ==
    /\ line = [l \in Lines |-> IF l \in received THEN "running" ELSE IF l \in sent THEN "unsent" ELSE "absent"]
    /\ reader = "check" /\ input = "open" /\ main = "serving" /\ parentDone = FALSE

-----------------------------------------------------------------------------
\* The loop's condition, ctx.Err() == nil.
CheckContext ==
    /\ reader = "check"
    /\ reader' = IF parentDone THEN "wait" ELSE "read"
    /\ UNCHANGED <<line, input, main, parentDone>>

\* A line arrives, even one that ended the wait of a loop already cancelled.
ReadLine(l) ==
    /\ reader = "read" /\ input # "ended" /\ line[l] = "unsent"
    /\ line' = [line EXCEPT ![l] = "running"]
    /\ reader' = "check"
    /\ UNCHANGED <<input, main, parentDone>>

\* End of input, or a read of the stdin that main closed.
ReadFails ==
    /\ reader = "read" /\ input # "open"
    /\ reader' = "wait"
    /\ UNCHANGED <<line, input, main, parentDone>>

\* Mutant: Run does not wait for the goroutines it started.
DrainAtOnce ==
    /\ reader = "wait"
    /\ reader' = "returned"
    /\ UNCHANGED <<line, input, main, parentDone>>

Drain ==
    /\ reader = "wait" /\ \A l \in Lines : line[l] # "running"
    /\ reader' = "returned"
    /\ UNCHANGED <<line, input, main, parentDone>>

\* handleLine writes the response of a handler that returned.
Respond(l) == line[l] = "running" /\ line' = [line EXCEPT ![l] = "answered"]

HostCloses ==
    /\ input # "ended" /\ main # "exited"
    /\ input' = "ended"
    /\ UNCHANGED <<line, reader, main, parentDone>>

Signal ==
    /\ main = "serving"
    /\ main' = "draining" /\ parentDone' = TRUE
    /\ input' = IF input = "open" THEN "closed" ELSE input
    /\ UNCHANGED <<line, reader>>

\* Run has returned: main cancels, if no signal did, and starts to dispose.
LoopDone ==
    /\ main \in {"serving", "draining"} /\ reader = "returned"
    /\ main' = "helpers" /\ parentDone' = TRUE
    /\ UNCHANGED <<line, reader, input>>

MainSteps(from, to) == main = from /\ main' = to /\ UNCHANGED <<line, reader, input, parentDone>>

TransportNext == CheckContext \/ ReadFails \/ Drain \/ LoopDone
=============================================================================
