------------------------------ MODULE JobRuns ------------------------------
(***************************************************************************)
(* A collection job and its ingestion run share the run id: the worker of  *)
(* the queue (JobLifecycle, which CollectionJobs implements) calls         *)
(* run_connector_durably (DurableRun) and turns what it returns or raises  *)
(* into the status of the job (collection_jobs.py:209-288).  The two rows  *)
(* are written by different commits.                                       *)
(***************************************************************************)
EXTENDS DurableRun

CONSTANT None

VARIABLES status, command  \* the table collection_jobs, by run id

Queue == INSTANCE JobLifecycle WITH Jobs <- Runs, Commands <- Runs

jobs == <<status, command>>
allVars == <<vars, jobs>>

JobsInit == Init /\ Queue!Init

\* A request is persisted, or refused by a queue that is closing.
Request(r) == (Queue!Accept(r, r) \/ Queue!Reject(r)) /\ UNCHANGED vars

\* The worker marks the job as running and makes the call.
BeginJob(r) == Queue!Begin(r) /\ Invoke(r)

\* The task is gone or its connector cannot be built: no call is made.
AbortJob(r, s) ==
  /\ call[r].pc = "check"
  /\ Queue!End(r, s)
  /\ Goto(r, "raised")
  /\ UNCHANGED <<published, enabled, db, faults, goal>>

\* Mutant: what the call raised is not looked at.
EndJobOptimistically(r) ==
  /\ call[r].pc \in {"returned", "raised"}
  /\ Queue!End(r, "succeeded")
  /\ UNCHANGED vars

EndJob(r) ==
  /\ call[r].pc \in {"returned", "raised"}
  /\ Queue!End(r, IF call[r].pc = "returned" THEN "succeeded" ELSE call[r].stop)
  /\ UNCHANGED vars

\* The process that ran a job died before the end of the job was written: a
\* fault of its own, unless the call was killed with it.
Died == IF \E r \in Runs : status[r] = "running" /\ call[r].pc # "killed"
        THEN Fault
        ELSE UNCHANGED faults

\* Mutant: the jobs are closed while the old process still works on one.
RestartEarly ==
  /\ Died
  /\ Queue!CloseAll
  /\ UNCHANGED <<published, enabled, db, call, goal>>

\* A new process closes what the old one left.
Restart ==
  /\ \A r \in Runs : ~Alive(r)
  /\ Died
  /\ Queue!CloseAll
  /\ UNCHANGED <<published, enabled, db, call, goal>>

JobsNext ==
  \/ \E r \in Runs :
       \/ Request(r) \/ BeginJob(r) \/ EndJob(r)
       \/ \E s \in {"failed", "paused"} : AbortJob(r, s)
       \/ (Step(r) \/ Breakdown(r)) /\ UNCHANGED jobs
  \/ Restart
  \/ (Publish \/ Toggle) /\ UNCHANGED jobs

JobsSpec == JobsInit /\ [][JobsNext]_allVars

\* A call goes on by itself: every await of a connector has its own timeout.
FairJobsSpec == JobsSpec /\ \A r \in Runs : WF_allVars(Step(r) /\ UNCHANGED jobs)
-----------------------------------------------------------------------------
\* A job never says more than its run: a job that succeeded has a run that
\* succeeded, a paused job has a run that paused or that was never opened
\* (docs/operations_api.md:57).
JobTrue ==
  \A r \in Runs :
    /\ status[r] = "succeeded" => run[r].status = "succeeded"
    /\ status[r] = "paused" => run[r].status \in {"paused", "none"}

\* The job of a run and the row of the run agree, but for the faults: nothing
\* is claimed that the run does not say, and the two rows disagree (a failed
\* job whose run succeeded, paused or still says "running") in no more jobs
\* than there were lost commits, close errors, kills and crashes between the
\* two commits (connectors/durable.py:138-178, collection_jobs.py:237-288).
JobsAgree ==
  /\ JobTrue
  /\ Cardinality({r \in Runs : /\ status[r] \in Queue!Final
                               /\ run[r].status \notin {status[r], "none"}}) <= faults

\* The run of a job that is over does not change any more: no call outlives
\* its job.
RunFrozen ==
  [][\A r \in Runs : status[r] \in Queue!Final => run'[r] = run[r]]_allVars

\* The calls of the one-worker queue do not overlap, and so never move the
\* checkpoint back, although it is written without a comparison
\* (connectors/durable.py:75-115).
CheckpointAdvances == [][checkpoint' >= checkpoint]_checkpoint

\* A run that was opened settles, unless a fault kept it from being marked
\* or killed it: failures and cancellations do not leave it running
\* (connectors/durable.py:138-178).
RunsSettle ==
  \A r \in Runs : run[r].status = "running"
    ~> (run[r].status \in Settled \/ (faults > 0 /\ ~Alive(r)))
=============================================================================
