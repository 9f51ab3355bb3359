----------------------------- MODULE DurableRun -----------------------------
(***************************************************************************)
(* run_connector_durably (connectors/durable.py): one call collects a      *)
(* source page by page from the stored checkpoint, commits every page with *)
(* its checkpoint, and settles its ingestion run.  Calls may overlap, fail *)
(* at every step, lose a commit, or be killed.                             *)
(*                                                                         *)
(* The connector is an append-only feed read by offset, as the fixture     *)
(* connector and the paged workers are: record i is at offset i.           *)
(***************************************************************************)
EXTENDS Naturals, FiniteSets

CONSTANTS
  Runs,        \* run ids, one for each call
  PageSize,    \* pagination.page_size
  MaxPages,    \* pagination.max_pages
  MaxRecords,  \* bound: records the source ever publishes
  Overlapping, \* bound: calls in progress at the same time
  MaxFaults    \* bound: lost commits, close errors and kills per behaviour

ASSUME DurableAssumption ==
  /\ PageSize \in Nat \ {0}
  /\ MaxPages \in Nat \ {0}
  /\ MaxRecords \in Nat
  /\ Overlapping \in Nat \ {0}
  /\ MaxFaults \in Nat

VARIABLES
  published,  \* number of records the source has published (external)
  enabled,    \* the operational override of the source
  stored,     \* table ingested_records
  checkpoint, \* connector_states: the offset, 0 where there is no row
  run,        \* table ingestion_runs: status and records_seen
  events,     \* the audit_events of each run
  call,       \* the calls of run_connector_durably
  faults

VARIABLE
  goal        \* history: records published when a run read its last page

db == <<stored, checkpoint, run, events>>
vars == <<published, enabled, stored, checkpoint, run, events, call, faults, goal>>
-----------------------------------------------------------------------------
RunStatus == {"none", "running", "succeeded", "failed", "paused"}
Settled == {"succeeded", "failed", "paused"}

NoBatch == [from |-> 0, to |-> 0, more |-> FALSE]
Batch == [from : 0..MaxRecords, to : 0..MaxRecords, more : BOOLEAN]

Pc == {"off", "check", "open", "load", "collect", "commit", "finish",
       "failing", "closing", "returned", "raised", "killed"}

Call == [pc : Pc, offset : 0..MaxRecords, pages : 0..MaxPages, batch : Batch,
         stop : {"failed", "paused"}, raises : BOOLEAN]

NewCall == [pc |-> "check", offset |-> 0, pages |-> 0, batch |-> NoBatch,
            stop |-> "failed", raises |-> FALSE]

Alive(r) == call[r].pc \notin {"off", "returned", "raised", "killed"}
Least(a, b) == IF a < b THEN a ELSE b

Goto(r, pc) == call' = [call EXCEPT ![r].pc = pc]
Fault == faults < MaxFaults /\ faults' = faults + 1
-----------------------------------------------------------------------------
Init ==
  /\ published = 0
  /\ enabled = TRUE
  /\ stored = {}
  /\ checkpoint = 0
  /\ run = [r \in Runs |-> [status |-> "none", seen |-> 0]]
  /\ events = [r \in Runs |-> {}]
  /\ call = [r \in Runs |-> [NewCall EXCEPT !.pc = "off"]]
  /\ faults = 0
  /\ goal = [r \in Runs |-> 0]

\* The source and the operators.
Publish ==
  /\ published < MaxRecords
  /\ published' = published + 1
  /\ UNCHANGED <<enabled, db, call, faults, goal>>

Toggle ==
  /\ enabled' = ~enabled
  /\ UNCHANGED <<published, db, call, faults, goal>>

Invoke(r) ==
  /\ call[r].pc = "off"
  /\ Cardinality({q \in Runs : Alive(q)}) < Overlapping
  /\ call' = [call EXCEPT ![r] = NewCall]
  /\ UNCHANGED <<published, enabled, db, faults, goal>>

\* assert_source_enabled: a disabled source raises and leaves no run.
Check(r) ==
  /\ call[r].pc = "check"
  /\ call' = [call EXCEPT ![r].pc = IF enabled THEN "open" ELSE "closing",
                          ![r].stop = IF enabled THEN @ ELSE "paused",
                          ![r].raises = ~enabled]
  /\ UNCHANGED <<published, enabled, db, faults, goal>>

Open(r) ==
  /\ call[r].pc = "open"
  /\ run' = [run EXCEPT ![r].status = "running"]
  /\ Goto(r, "load")
  /\ UNCHANGED <<published, enabled, stored, checkpoint, events, faults, goal>>

\* Mutant: the run starts from the beginning.
LoadNothing(r) ==
  /\ call[r].pc = "load"
  /\ call' = [call EXCEPT ![r].pc = "collect", ![r].offset = 0]
  /\ UNCHANGED <<published, enabled, db, faults, goal>>

Load(r) ==
  /\ call[r].pc = "load"
  /\ call' = [call EXCEPT ![r].pc = "collect", ![r].offset = checkpoint]
  /\ UNCHANGED <<published, enabled, db, faults, goal>>

Collect(r) ==
  LET from == call[r].offset
      to   == Least(from + PageSize, published) IN
  /\ call[r].pc = "collect"
  /\ from <= published
  /\ call' = [call EXCEPT ![r].pc = "commit",
                          ![r].batch = [from |-> from, to |-> to, more |-> to < published]]
  /\ goal' = [goal EXCEPT ![r] = published]
  /\ UNCHANGED <<published, enabled, db, faults>>

\* Mutant: only the failures a connector classifies are caught.
CollectFailsUncaught(r, s) ==
  /\ call[r].pc = "collect"
  /\ call' = [call EXCEPT ![r].pc = IF s = "paused" THEN "failing" ELSE "closing",
                          ![r].stop = s, ![r].raises = TRUE]
  /\ UNCHANGED <<published, enabled, db, faults, goal>>

\* Any ConnectorFailure, a cancellation or another exception.
CollectFails(r, s) ==
  /\ call[r].pc = "collect"
  /\ call' = [call EXCEPT ![r].pc = "failing", ![r].stop = s, ![r].raises = TRUE]
  /\ UNCHANGED <<published, enabled, db, faults, goal>>

Page(r) == (call[r].batch.from + 1)..call[r].batch.to

\* What a committed page leaves behind; the loop may go on.
Advance(r, again) ==
  /\ run' = [run EXCEPT ![r].seen = @ + Cardinality(Page(r))]
  /\ call' = [call EXCEPT ![r].pages = @ + 1,
                          ![r].offset = call[r].batch.to,
                          ![r].batch = NoBatch,
                          ![r].pc = IF again THEN "collect" ELSE "finish"]
  /\ UNCHANGED <<published, enabled, events, faults, goal>>

\* Mutants: the checkpoint is committed on its own, before the records; the
\* loop ends after a page that has more behind it; the page limit is ignored.
CommitCheckpointFirst(r) ==
  /\ call[r].pc = "commit"
  /\ IF checkpoint # call[r].batch.to
     THEN /\ checkpoint' = call[r].batch.to
          /\ UNCHANGED <<published, enabled, stored, run, events, call, faults, goal>>
     ELSE /\ stored' = stored \cup Page(r)
          /\ UNCHANGED checkpoint
          /\ Advance(r, call[r].batch.more /\ call[r].pages + 1 < MaxPages)

CommitAndStop(r) ==
  /\ call[r].pc = "commit"
  /\ stored' = stored \cup Page(r)
  /\ checkpoint' = call[r].batch.to
  /\ Advance(r, ~call[r].batch.more /\ call[r].pages + 1 < MaxPages)

CommitWithoutLimit(r) ==
  /\ call[r].pc = "commit"
  /\ stored' = stored \cup Page(r)
  /\ checkpoint' = call[r].batch.to
  /\ Advance(r, call[r].batch.more)

\* Records, checkpoint and counters of the page in one transaction; the loop
\* goes on while there is more and the page limit is not reached.
Commit(r) ==
  /\ call[r].pc = "commit"
  /\ stored' = stored \cup Page(r)
  /\ checkpoint' = call[r].batch.to
  /\ Advance(r, call[r].batch.more /\ call[r].pages + 1 < MaxPages)

\* The success commit.
Finish(r) ==
  /\ call[r].pc = "finish"
  /\ run' = [run EXCEPT ![r].status = "succeeded"]
  /\ events' = [events EXCEPT ![r] = @ \cup {"completed"}]
  /\ Goto(r, "closing")
  /\ UNCHANGED <<published, enabled, stored, checkpoint, faults, goal>>

\* Rolled back, then the run is marked in a commit of its own.
MarkFailed(r) ==
  /\ call[r].pc = "failing"
  /\ run' = [run EXCEPT ![r].status = call[r].stop]
  /\ events' = [events EXCEPT ![r] = @ \cup {"stopped"}]
  /\ Goto(r, "closing")
  /\ UNCHANGED <<published, enabled, stored, checkpoint, faults, goal>>

Close(r) ==
  /\ call[r].pc = "closing"
  /\ Goto(r, IF call[r].raises THEN "raised" ELSE "returned")
  /\ UNCHANGED <<published, enabled, db, faults, goal>>

\* A statement or commit on a page or on the success raises: rolled back,
\* and the run is marked as failed.
LoseCommit(r) ==
  /\ Fault
  /\ call[r].pc \in {"commit", "finish"}
  /\ call' = [call EXCEPT ![r].pc = "failing", ![r].stop = "failed", ![r].raises = TRUE,
                          ![r].batch = NoBatch]
  /\ UNCHANGED <<published, enabled, db, goal>>

\* The check, the insert of the run, the read of the checkpoint or the mark
\* itself raises: nothing marks the run any more.
LoseMark(r) ==
  /\ Fault
  /\ call[r].pc \in {"check", "open", "load", "failing"}
  /\ call' = [call EXCEPT ![r].pc = "closing", ![r].stop = "failed", ![r].raises = TRUE]
  /\ UNCHANGED <<published, enabled, db, goal>>

\* connector.close() raises, which hides whatever happened before.
CloseFails(r) ==
  /\ Fault
  /\ call[r].pc = "closing"
  /\ call' = [call EXCEPT ![r].pc = "raised", ![r].raises = TRUE, ![r].stop = "failed"]
  /\ UNCHANGED <<published, enabled, db, goal>>

Kill(r) ==
  /\ Fault
  /\ Alive(r)
  /\ Goto(r, "killed")
  /\ UNCHANGED <<published, enabled, db, goal>>

Step(r) ==
  \/ Check(r) \/ Open(r) \/ Load(r) \/ Collect(r) \/ Commit(r) \/ Finish(r)
  \/ \E s \in {"failed", "paused"} : CollectFails(r, s)
  \/ MarkFailed(r) \/ Close(r)

Breakdown(r) == LoseCommit(r) \/ LoseMark(r) \/ CloseFails(r) \/ Kill(r)

Next ==
  \/ Publish
  \/ Toggle
  \/ \E r \in Runs : Invoke(r) \/ Step(r) \/ Breakdown(r)

Spec == Init /\ [][Next]_vars
-----------------------------------------------------------------------------
TypeOK ==
  /\ published \in 0..MaxRecords
  /\ enabled \in BOOLEAN
  /\ stored \subseteq 1..MaxRecords
  /\ checkpoint \in 0..MaxRecords
  /\ run \in [Runs -> [status : RunStatus, seen : Nat]]
  /\ events \in [Runs -> SUBSET {"completed", "stopped"}]
  /\ call \in [Runs -> Call]
  /\ faults \in 0..MaxFaults
  /\ goal \in [Runs -> 0..MaxRecords]

\* Everything before the stored checkpoint is stored: no lost commit, kill or
\* second call makes a later run skip a record (connectors/durable.py:95-115).
NothingSkipped == 1..checkpoint \subseteq stored

\* A run that succeeded below its page limit has stored all that was
\* published when it read its last page, the pages of earlier and of
\* overlapping runs included (connectors/durable.py:87-121).
SucceededCaughtUp ==
  \A r \in Runs :
    run[r].status = "succeeded" /\ call[r].pages < MaxPages => 1..goal[r] \subseteq stored

\* No record of the feed is missed, neither by the checkpoint nor by a run that
\* says it has succeeded.
FeedComplete == TypeOK /\ NothingSkipped /\ SucceededCaughtUp

\* A run is settled exactly when its one audit event is there, and a run that
\* still says "running" has its call alive, but for one run per fault
\* (connectors/durable.py:121-173).
RunsAccounted ==
  /\ \A r \in Runs :
       events[r] = CASE run[r].status = "succeeded" -> {"completed"}
                     [] run[r].status \in {"failed", "paused"} -> {"stopped"}
                     [] OTHER -> {}
  /\ Cardinality({r \in Runs : run[r].status = "running" /\ ~Alive(r)}) <= faults
=============================================================================
