---------------------------- MODULE JobLifecycle ----------------------------
(***************************************************************************)
(* What the collection queue promises about the rows of collection_jobs,   *)
(* whatever threads and processes stand behind it: a command has one job,  *)
(* a job moves from pending to running to one final status, one job runs   *)
(* at a time, and a restart of the API closes every job that was left.     *)
(***************************************************************************)
EXTENDS Naturals, FiniteSets

CONSTANTS Jobs, Commands, None

VARIABLES status, command

vars == <<status, command>>

Final == {"succeeded", "paused", "failed"}
ActiveStatus == {"pending", "running"}

Init ==
  /\ status = [j \in Jobs |-> "absent"]
  /\ command = [j \in Jobs |-> None]

\* A job is persisted for a command that has none.
Accept(j, c) ==
  /\ status[j] = "absent"
  /\ \A k \in Jobs : command[k] # c
  /\ status' = [status EXCEPT ![j] = "pending"]
  /\ command' = [command EXCEPT ![j] = c]

\* The queue is closed before the job reaches it.
Reject(j) ==
  /\ status[j] = "pending"
  /\ status' = [status EXCEPT ![j] = "failed"]
  /\ UNCHANGED command

Begin(j) ==
  /\ status[j] = "pending"
  /\ \A k \in Jobs : status[k] # "running"
  /\ status' = [status EXCEPT ![j] = "running"]
  /\ UNCHANGED command

End(j, s) ==
  /\ status[j] = "running"
  /\ status' = [status EXCEPT ![j] = s]
  /\ UNCHANGED command

\* A restart closes all that is open, in one step.
CloseAll ==
  /\ status' = [j \in Jobs |-> IF status[j] \in ActiveStatus THEN "failed" ELSE status[j]]
  /\ UNCHANGED command

Next ==
  \/ \E j \in Jobs, c \in Commands : Accept(j, c)
  \/ \E j \in Jobs : Reject(j) \/ Begin(j) \/ \E s \in Final : End(j, s)
  \/ CloseAll

Spec == Init /\ [][Next]_vars
=============================================================================
