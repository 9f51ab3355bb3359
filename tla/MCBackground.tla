---------------------------- MODULE MCBackground ----------------------------
(***************************************************************************)
(* What changes while nobody waits for it: the durable runs of the jobs,   *)
(* the scheduler that queues jobs, and the switches of the sources.  Each  *)
(* is explored by itself: part says which one moves, the others rest, the  *)
(* scheduler with every schedule shut.                                     *)
(***************************************************************************)
EXTENDS JobRuns, SnapshotScheduler, SourceControl, TLC

CONSTANTS hourly, daily

VARIABLE part  \* the component whose behaviours are explored

\* A short schedule from the start and a longer one that starts later.
MCSchedules == {hourly, daily}
MCInterval == hourly :> 1 @@ daily :> 2
MCAnchor == hourly :> 0 @@ daily :> 1

BackgroundInit ==
  /\ part \in {"runs", "scheduler", "switch"}
  /\ JobsInit
  /\ SlotInit
  /\ ControlInit
  /\ part # "scheduler" => open = {}

BackgroundNext ==
  \/ part = "runs" /\ JobsNext /\ UNCHANGED <<part, slotVars, controlVars>>
  \/ part = "scheduler" /\ SlotNext /\ UNCHANGED <<part, allVars, controlVars>>
  \/ part = "switch" /\ ControlNext /\ UNCHANGED <<part, allVars, slotVars>>

\* The fairness of FairJobsSpec and of FairSlotSpec, each for its component.
BackgroundSpec ==
  /\ BackgroundInit /\ [][BackgroundNext]_<<part, allVars, slotVars, controlVars>>
  /\ \A r \in Runs : WF_allVars(part = "runs" /\ Step(r) /\ UNCHANGED jobs)
  /\ WF_slotVars(part = "scheduler" /\ \E p \in Schedulers : Start(p))
  /\ \A p \in Schedulers : WF_slotVars(part = "scheduler" /\ Work(p))
=============================================================================
