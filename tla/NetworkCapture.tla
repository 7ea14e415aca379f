--------------------------- MODULE NetworkCapture ---------------------------
(***************************************************************************)
(* netcapture: the capture file that a proxy appends to and FileCapture    *)
(* polls.  A line is written in two halves, so a read may fall between     *)
(* them; the proxy may be restarted, which empties the file; a read may    *)
(* fail.  Requests are numbered in the order they are written; all of them *)
(* match the one pattern that scripts wait for.                            *)
(***************************************************************************)
EXTENDS Naturals, Sequences

CONSTANTS
    Adapters,       \* the --proxy values: a subset of none, unknown and file
    MaxRequests,    \* bound: the requests the app makes
    MaxRestarts     \* bound: the times the capture file is emptied

ASSUME CaptureBounds ==
    /\ Adapters \subseteq {"none", "unknown", "file"} /\ Adapters # {}
    /\ MaxRequests \in Nat /\ MaxRestarts \in Nat

VARIABLES
    adapter,    \* the adapter type the command was given
    file,       \* the halves of lines in the capture file
    begun,      \* the requests the proxy has begun to write
    restarts,   \* the times the file was emptied
    buffer,     \* FileCapture.requests
    lastSize,   \* FileCapture.lastSize, in halves
    mark,       \* history: the requests begun when the capture was last reset
    blind       \* history: the file could not be read at that reset

proxyFile == <<file, begun, restarts>>
reader == <<buffer, lastSize>>
captureVars == <<adapter, proxyFile, reader, mark, blind>>

Requests == 1..MaxRequests
Halves == [request : Requests, half : {1, 2}]

CaptureTypeOK ==
    /\ adapter \in Adapters
    /\ file \in Seq(Halves) /\ begun \in 0..MaxRequests /\ restarts \in 0..MaxRestarts
    /\ buffer \subseteq Requests /\ lastSize \in Nat
    /\ mark \in 0..begun /\ blind \in BOOLEAN

\* The file may hold the traffic of an earlier command; only loadNew ever reads it.
CaptureInit ==
    /\ adapter \in Adapters
    /\ begun \in (IF adapter = "file" /\ MaxRequests > 1 THEN {0, 1} ELSE {0})
    /\ file = IF begun = 0 THEN <<>> ELSE <<[request |-> 1, half |-> 1], [request |-> 1, half |-> 2]>>
    /\ restarts = 0
    /\ buffer = {} /\ lastSize = 0
    /\ mark = 0 /\ blind = FALSE

-----------------------------------------------------------------------------
\* A line is a request if both its halves are in the part that is read: a half that is
\* read on its own does not decode, and is not read again.
Lines(part) ==
    {part[k].request : k \in {l \in 2..Len(part) : part[l].half = 2 /\ part[l - 1].half = 1}}

\* A file shorter than the offset was emptied: everything in it is unread.
Unread == SubSeq(file, (IF Len(file) < lastSize THEN 0 ELSE lastSize) + 1, Len(file))

LoadNew(readable) ==
    IF readable
    THEN buffer' = buffer \cup Lines(Unread) /\ lastSize' = Len(file)
    ELSE UNCHANGED reader

\* The newest match in a buffer, if it has one: reads go forward through the file, so the
\* entry nearest to the buffer's end is the one with the highest number.
FindMatch(requests) == {r \in requests : \A q \in requests : q <= r}

\* Mutant: the buffer is dropped and the offset stays where the last read left it.
ResetBuffer(readable) ==
    /\ buffer' = {} /\ UNCHANGED lastSize
    /\ mark' = begun /\ blind' = ~readable

\* A reset that cannot read the file takes its length for zero.
Reset(readable) ==
    /\ buffer' = {}
    /\ lastSize' = IF readable THEN Len(file) ELSE 0
    /\ mark' = begun /\ blind' = ~readable

ResetCapture ==
    IF adapter = "file" THEN \E readable \in BOOLEAN : Reset(readable)
                        ELSE UNCHANGED <<reader, mark, blind>>

-----------------------------------------------------------------------------
\* The proxy writes the next half of a line, or is restarted.
MidLine == file # <<>> /\ file[Len(file)].half = 1

WriteHalf ==
    /\ adapter = "file"
    /\ \/ /\ MidLine
          /\ file' = Append(file, [request |-> begun, half |-> 2]) /\ UNCHANGED begun
       \/ /\ ~MidLine /\ begun < MaxRequests
          /\ file' = Append(file, [request |-> begun + 1, half |-> 1]) /\ begun' = begun + 1
    /\ UNCHANGED <<adapter, restarts, reader, mark, blind>>

Restart ==
    /\ adapter = "file" /\ restarts < MaxRestarts
    /\ file' = <<>> /\ restarts' = restarts + 1
    /\ UNCHANGED <<adapter, begun, reader, mark, blind>>

Proxy == WriteHalf \/ Restart
=============================================================================
