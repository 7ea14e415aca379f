----------------------------- MODULE RunRecords -----------------------------
(***************************************************************************)
(* The test runs of the MCP server: the one active run of the RunStore in  *)
(* memory, and the records of runs, bugs and screenshots in storage, which *)
(* concurrent tool calls read, write and delete one file at a time.  Any   *)
(* storage call may fail.                                                  *)
(***************************************************************************)
EXTENDS DeviceSession

VARIABLES run,        \* RunStore.active: a run, or 0
          started,    \* runs started so far
          findings,   \* findings[r]: bugs recorded under run r
          runFiles,   \* the runs with a record in storage
          lostRuns,   \* the runs whose save failed, or whose record was deleted
          bugFiles,   \* the bugs with a record in storage, <<run, ordinal>>
          shotFiles   \* the bugs with a screenshot in storage

store == <<run, started, findings, runFiles, lostRuns, bugFiles, shotFiles>>
files == <<runFiles, lostRuns, bugFiles, shotFiles>>

\* The runs this process may start, and one that an earlier process may have left
\* in storage with one bug and its screenshot.
Earlier == Cardinality(Calls) + 1
Runs == 1 .. Earlier

StoreInit ==
  /\ run = 0 /\ started = 0 /\ findings = [r \in Runs |-> 0] /\ lostRuns = {}
  /\ runFiles = IF load.stored THEN {Earlier} ELSE {}
  /\ bugFiles = IF load.stored THEN {<<Earlier, 1>>} ELSE {}
  /\ shotFiles = bugFiles

\* Call c is done, well or badly.
Replies(c, ok) == Finish(c, IF ok THEN "ok" ELSE "error")
StoreCall(c, pc) == call[c].pc = pc /\ UNCHANGED <<run, started, findings>>

------------------------------------------------------------------------------
\* Start marks a run that is still active as failed and hands it over to be saved.
StartRunDrops(c) ==
  /\ Arrives(c, {"start"})
  /\ started' = started + 1
  /\ run' = started'
  /\ call' = [call EXCEPT ![c] = Done(Arriving(c), "ok")]
  /\ UNCHANGED <<findings, files>>
StartRun(c) ==
  /\ Arrives(c, {"start"})
  /\ started' = started + 1
  /\ run' = started'
  /\ call' = [call EXCEPT ![c] = IF run = 0 THEN Done(Arriving(c), "ok")
                                 ELSE [Arriving(c) EXCEPT !.pc = "saveRun", !.held = run]]
  /\ UNCHANGED <<findings, files>>
FinishRun(c) ==
  /\ Arrives(c, {"finish"})
  /\ run' = 0
  /\ call' = [call EXCEPT ![c] = IF run = 0 THEN Done(Arriving(c), "error")
                                 ELSE [Arriving(c) EXCEPT !.pc = "saveRun", !.held = run]]
  /\ UNCHANGED <<started, findings, files>>
SaveRun(c) ==
  /\ StoreCall(c, "saveRun")
  /\ \E ok \in BOOLEAN :
       /\ runFiles' = IF ok THEN runFiles \cup {call[c].held} ELSE runFiles
       /\ lostRuns' = IF ok THEN lostRuns ELSE lostRuns \cup {call[c].held}
       /\ Replies(c, ok)
  /\ UNCHANGED <<bugFiles, shotFiles>>

------------------------------------------------------------------------------
\* report_bug reads the active run and records the bug in a second section, under
\* whatever run is active then; the screenshot is of whatever device is.
ReadCurrent(c) ==
  /\ Arrives(c, {"bug"})
  /\ call' = [call EXCEPT ![c] = IF run = 0 THEN Done(Arriving(c), "error")
                                 ELSE [Arriving(c) EXCEPT !.pc = "record"]]
  /\ UNCHANGED store
RecordBug(c) ==
  /\ call[c].pc = "record"
  /\ findings' = IF run = 0 THEN findings ELSE [findings EXCEPT ![run] = @ + 1]
  /\ IF run = 0 THEN Finish(c, "error")
     ELSE call' = [call EXCEPT ![c].pc = "evidence", ![c].bug = <<run, findings'[run]>>]
  /\ UNCHANGED <<run, started, files>>
FindDevice(c) ==
  /\ StoreCall(c, "evidence")
  /\ call' = [call EXCEPT ![c].pc = IF active = 0 THEN "saveBug" ELSE "screenshot", ![c].drv = active]
  /\ UNCHANGED files
Screenshot(c) ==
  /\ StoreCall(c, "screenshot")
  /\ Answers(c)
  /\ Goto(c, "saveShot")
  /\ UNCHANGED files
SaveShot(c) ==
  /\ StoreCall(c, "saveShot")
  /\ shotFiles' \in {shotFiles, shotFiles \cup {call[c].bug}}
  /\ Goto(c, "saveBug")
  /\ UNCHANGED <<runFiles, lostRuns, bugFiles>>
SaveBug(c) ==
  /\ StoreCall(c, "saveBug")
  /\ \E ok \in BOOLEAN : /\ bugFiles' = IF ok THEN bugFiles \cup {call[c].bug} ELSE bugFiles
                         /\ Replies(c, ok)
  /\ UNCHANGED <<runFiles, lostRuns, shotFiles>>

------------------------------------------------------------------------------
\* The tools on stored records load the record and then write or delete it;
\* nothing keeps another call out in between.
LoadRecord(c) ==
  /\ Arrives(c, {"updateRun", "deleteRun", "deleteBug"})
  /\ \/ /\ op(c).tool = "deleteBug" /\ op(c).record \in bugFiles
        /\ call' = [call EXCEPT ![c] = [Arriving(c) EXCEPT !.pc = "deleteBug", !.bug = op(c).record]]
     \/ /\ op(c).tool # "deleteBug" /\ op(c).record \in runFiles
        /\ call' = [call EXCEPT ![c] = [Arriving(c) EXCEPT !.pc = op(c).tool, !.held = op(c).record]]
     \/ /\ op(c).record \notin (IF op(c).tool = "deleteBug" THEN bugFiles ELSE runFiles)
        /\ call' = [call EXCEPT ![c] = Done(Arriving(c), "error")]
  /\ UNCHANGED store
UpdateRunSummary(c) ==
  /\ StoreCall(c, "updateRun")
  /\ \E ok \in BOOLEAN : /\ runFiles' = IF ok THEN runFiles \cup {call[c].held} ELSE runFiles
                         /\ Replies(c, ok)
  /\ UNCHANGED <<lostRuns, bugFiles, shotFiles>>
DeleteRun(c) ==
  /\ StoreCall(c, "deleteRun")
  /\ \E ok \in BOOLEAN : /\ runFiles' = IF ok THEN runFiles \ {call[c].held} ELSE runFiles
                         /\ lostRuns' = IF ok THEN lostRuns \cup {call[c].held} ELSE lostRuns
                         /\ Replies(c, ok)
  /\ UNCHANGED <<bugFiles, shotFiles>>
DeleteBug(c) ==
  /\ StoreCall(c, "deleteBug")
  /\ \/ bugFiles' = bugFiles \ {call[c].bug} /\ Goto(c, "deleteShot")
     \/ bugFiles' = bugFiles /\ Finish(c, "error")
  /\ UNCHANGED <<runFiles, lostRuns, shotFiles>>
DeleteShot(c) ==
  /\ StoreCall(c, "deleteShot")
  /\ \E ok \in BOOLEAN : /\ shotFiles' = IF ok THEN shotFiles \ {call[c].bug} ELSE shotFiles
                         /\ Replies(c, ok)
  /\ UNCHANGED <<runFiles, lostRuns, bugFiles>>

\* A report or a case study that is only read or written once.
ReadRecords(c) ==
  /\ Arrives(c, {"list"})
  /\ \E ok \in BOOLEAN : call' = [call EXCEPT ![c] = Done(Arriving(c), IF ok THEN "ok" ELSE "error")]
  /\ UNCHANGED store

StoreWork(c) ==
  \/ SaveRun(c) \/ RecordBug(c) \/ FindDevice(c) \/ SaveShot(c) \/ SaveBug(c)
  \/ UpdateRunSummary(c) \/ DeleteRun(c) \/ DeleteBug(c) \/ DeleteShot(c)
StoreStep(c) ==
  /\ \/ StartRun(c) \/ FinishRun(c) \/ ReadCurrent(c) \/ Screenshot(c) \/ LoadRecord(c) \/ ReadRecords(c)
     \/ StoreWork(c)
  /\ LayerUnchanged /\ UNCHANGED session

------------------------------------------------------------------------------
StoreTypeOK ==
  /\ run \in Runs \cup {0} /\ started \in Runs \cup {0} /\ findings \in [Runs -> Nat]
  /\ runFiles \cup lostRuns \subseteq Runs
  /\ bugFiles \cup shotFiles \subseteq Runs \X (Nat \ {0})

\* start_run and finish_run: a run that is no longer active has its record in
\* storage, is about to be saved, or its loss was asked for or reported.
RunsKept ==
  \A r \in 1 .. started :
    \/ r = run \/ r \in runFiles \cup lostRuns
    \/ \E c \in Calls : call[c].pc = "saveRun" /\ call[c].held = r

\* A screenshot is in storage without the bug it belongs to, and no call is about to
\* save the one or delete the other.
Orphan(b) ==
  /\ b \in shotFiles \ bugFiles
  /\ \A c \in Calls : call[c].pc \in {"saveBug", "deleteShot"} => call[c].bug # b

\* report_bug and delete_bug: an orphan screenshot is left only by a call on that very
\* bug whose caller was told of an error.
OrphansReported ==
  \A b \in shotFiles :
    Orphan(b) => \E c \in Calls : /\ op(c).tool \in {"bug", "deleteBug"} /\ call[c].bug = b
                                  /\ call[c].pc \in {"done", "answered"} /\ call[c].result # "ok"

\* No record of the test session gets lost and none is left over, unless a caller was told.
RecordsKept == RunsKept /\ OrphansReported

\* The description of delete_bug (bug_read_tool.go:223): it removes "BOTH" the bug and its
\* screenshot, "so no orphan screenshot payloads are left behind", and "partial-delete
\* states are impossible".
DeleteLeavesNoOrphan ==
  \A c \in Calls : op(c).tool = "deleteBug" /\ call[c].pc = "answered" => ~Orphan(op(c).record)
=============================================================================
