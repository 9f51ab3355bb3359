--------------------------- MODULE JobRuns_proofs ---------------------------
(***************************************************************************)
(* A job and its run agree but for the faults, the run of a job that is    *)
(* over is frozen and the checkpoint never moves back, for any number of   *)
(* jobs, pages, records and faults.                                        *)
(***************************************************************************)
EXTENDS JobRuns, DurableRun_proofs

Status == {"absent", "pending", "running"} \cup Queue!Final

\* Calls are made by the worker that runs their job.
JobFollows(r) ==
  /\ status[r] \in {"absent", "pending"} => call[r].pc = "off"
  /\ status[r] = "running" => call[r].pc # "off"
  /\ status[r] \in Queue!Final => ~Alive(r)

OneRunning == \A q, r \in Runs : status[q] = "running" /\ status[r] = "running" => q = r

\* The call will raise, or has raised.
Raising(r) == call[r].pc = "raised" \/ (call[r].pc = "closing" /\ call[r].raises)

\* What the worker will be told is true of the run.
OutcomeTrue(r) ==
  LET c == call[r] IN
  /\ c.pc \in {"open", "load", "collect", "commit", "finish"} => ~c.raises
  /\ c.pc = "failing" => c.raises
  /\ c.pc = "returned" \/ (c.pc = "closing" /\ ~c.raises) => run[r].status = "succeeded"
  /\ Raising(r) /\ c.stop = "paused" => run[r].status \in {"paused", "none"}

\* A page is committed beyond the stored checkpoint.
Ahead(r) == call[r].pc \in {"collect", "commit"} => checkpoint <= call[r].offset

\* The row of the run says something else than the worker will be told, or
\* than the row of the job says.
Strays(r) ==
  \/ call[r].pc = "killed"
  \/ Raising(r) /\ run[r].status \notin {call[r].stop, "none"}

Disagrees(r) == status[r] \in Queue!Final /\ run[r].status \notin {status[r], "none"}

Owed == {r \in Runs : Disagrees(r) \/ (status[r] = "running" /\ Strays(r))}

OwedCounted == IsFiniteSet(Owed) /\ Cardinality(Owed) <= faults

QueueInv ==
  /\ status \in [Runs -> Status]
  /\ OneRunning
  /\ \A r \in Runs : JobFollows(r) /\ OutcomeTrue(r) /\ Ahead(r)
  /\ JobTrue
  /\ OwedCounted

JobRunsInv == DurableInv /\ QueueInv
-----------------------------------------------------------------------------
(* What a step of a call means for its job.                                *)

LEMMA StepAlone ==
  ASSUME DurableInv, NEW r \in Runs, Step(r) \/ Breakdown(r)
  PROVE  Alone(r)
BY DEF DurableInv, FeedInv, TypeOK, Alone, db, Goto, Step, Breakdown, Check, Open, Load, Collect,
   Commit, Advance, Finish, CollectFails, MarkFailed, Close, LoseCommit, LoseMark, CloseFails, Kill

LEMMA StepEffect ==
  ASSUME DurableInv, NEW r \in Runs, OutcomeTrue(r), Step(r) \/ Breakdown(r)
  PROVE  /\ Alive(r) /\ call'[r].pc # "off" /\ OutcomeTrue(r)'
         /\ \/ faults' = faults /\ (Strays(r)' => Strays(r))
            \/ faults' = faults + 1
<1>1. /\ call \in [Runs -> Call] /\ run \in [Runs -> [status : RunStatus, seen : Nat]]
      /\ call[r] \in Call
  BY DEF DurableInv, FeedInv, TypeOK
<1>2. /\ OutcomeTrue(r)
      /\ call[r].pc \in {"off", "check", "open"} => run[r].status = "none"
      /\ call[r].pc \in Working => run[r].status = "running"
  BY DEF DurableInv, FeedInv, CallSound, RunFollows
<1>3. CASE Check(r)
  <2>1. call'[r].pc # "off" /\ Alive(r) /\ OutcomeTrue(r)'
    BY <1>1, <1>2, <1>3 DEF Check, db, Goto, Alive, OutcomeTrue, Raising, Call
  <2>2. (Strays(r)' => Strays(r)) /\ faults' = faults
    BY <1>1, <1>2, <1>3 DEF Check, db, Goto, Strays, OutcomeTrue, Raising, Call
  <2>3. QED
    BY <2>1, <2>2
<1>4. CASE Open(r)
  <2>1. call'[r].pc # "off" /\ Alive(r) /\ OutcomeTrue(r)'
    BY <1>1, <1>2, <1>4 DEF Open, Goto, Alive, OutcomeTrue, Raising, Call
  <2>2. (Strays(r)' => Strays(r)) /\ faults' = faults
    BY <1>1, <1>2, <1>4 DEF Open, Goto, Strays, OutcomeTrue, Raising, Call
  <2>3. QED
    BY <2>1, <2>2
<1>5. CASE Load(r)
  <2>1. call'[r].pc # "off" /\ Alive(r) /\ OutcomeTrue(r)'
    BY <1>1, <1>2, <1>5 DEF Load, db, Goto, Alive, OutcomeTrue, Raising, Call
  <2>2. (Strays(r)' => Strays(r)) /\ faults' = faults
    BY <1>1, <1>2, <1>5 DEF Load, db, Goto, Strays, OutcomeTrue, Raising, Call
  <2>3. QED
    BY <2>1, <2>2
<1>6. CASE Collect(r)
  <2>1. call'[r].pc # "off" /\ Alive(r) /\ OutcomeTrue(r)'
    BY <1>1, <1>2, <1>6 DEF Collect, db, Goto, Alive, OutcomeTrue, Raising, Call
  <2>2. (Strays(r)' => Strays(r)) /\ faults' = faults
    BY <1>1, <1>2, <1>6 DEF Collect, db, Goto, Strays, OutcomeTrue, Raising, Call
  <2>3. QED
    BY <2>1, <2>2
<1>7. CASE Commit(r)
  <2>1. call'[r].pc # "off" /\ Alive(r) /\ OutcomeTrue(r)'
    BY <1>1, <1>2, <1>7 DEF Commit, Advance, Goto, Alive, OutcomeTrue, Raising, Call
  <2>2. (Strays(r)' => Strays(r)) /\ faults' = faults
    BY <1>1, <1>2, <1>7 DEF Commit, Advance, Goto, Strays, OutcomeTrue, Raising, Call
  <2>3. QED
    BY <2>1, <2>2
<1>8. CASE Finish(r)
  <2>1. call'[r].pc # "off" /\ Alive(r) /\ OutcomeTrue(r)'
    BY <1>1, <1>2, <1>8 DEF Finish, Goto, Alive, OutcomeTrue, Raising, Call
  <2>2. (Strays(r)' => Strays(r)) /\ faults' = faults
    BY <1>1, <1>2, <1>8 DEF Finish, Goto, Strays, OutcomeTrue, Raising, Call
  <2>3. QED
    BY <2>1, <2>2
<1>9. CASE \E s \in {"failed", "paused"} : CollectFails(r, s)
  <2>1. call'[r].pc # "off" /\ Alive(r) /\ OutcomeTrue(r)'
    BY <1>1, <1>2, <1>9 DEF CollectFails, db, Goto, Alive, OutcomeTrue, Raising, Call
  <2>2. (Strays(r)' => Strays(r)) /\ faults' = faults
    BY <1>1, <1>2, <1>9 DEF CollectFails, db, Goto, Strays, OutcomeTrue, Raising, Call
  <2>3. QED
    BY <2>1, <2>2
<1>10. CASE MarkFailed(r)
  <2>1. call'[r].pc # "off" /\ Alive(r) /\ OutcomeTrue(r)'
    BY <1>1, <1>2, <1>10 DEF MarkFailed, Goto, Alive, OutcomeTrue, Raising, Call
  <2>2. (Strays(r)' => Strays(r)) /\ faults' = faults
    BY <1>1, <1>2, <1>10 DEF MarkFailed, Goto, Strays, OutcomeTrue, Raising, Call
  <2>3. QED
    BY <2>1, <2>2
<1>11. CASE Close(r)
  <2>1. call'[r].pc # "off" /\ Alive(r) /\ OutcomeTrue(r)'
    BY <1>1, <1>2, <1>11 DEF Close, db, Goto, Alive, OutcomeTrue, Raising, Call
  <2>2. (Strays(r)' => Strays(r)) /\ faults' = faults
    BY <1>1, <1>2, <1>11 DEF Close, db, Goto, Strays, OutcomeTrue, Raising, Call
  <2>3. QED
    BY <2>1, <2>2
<1>12. CASE LoseCommit(r)
  BY <1>1, <1>2, <1>12 DEF LoseCommit, db, Fault, Goto, Alive, OutcomeTrue, Raising, Call
<1>13. CASE LoseMark(r)
  BY <1>1, <1>2, <1>13 DEF LoseMark, db, Fault, Goto, Alive, OutcomeTrue, Raising, Call
<1>14. CASE CloseFails(r)
  BY <1>1, <1>2, <1>14 DEF CloseFails, db, Fault, Goto, Alive, OutcomeTrue, Raising, Call
<1>15. CASE Kill(r)
  BY <1>1, <1>2, <1>15 DEF Kill, db, Fault, Goto, Alive, OutcomeTrue, Raising, Call
<1>16. QED
  BY <1>3, <1>4, <1>5, <1>6, <1>7, <1>8, <1>9, <1>10, <1>11, <1>12, <1>13, <1>14, <1>15 DEF Step, Breakdown
-----------------------------------------------------------------------------
(* The invariant of the queue and its runs.                                *)

\* Only the job r moves, its call and its run.
JobAlone(r) == Alone(r) /\ \A q \in Runs \ {r} : status'[q] = status[q]

LEMMA OwedStep ==
  ASSUME JobRunsInv, NEW r \in Runs, JobAlone(r),
         \/ faults' = faults /\ (r \in Owed' => r \in Owed)
         \/ faults' = faults + 1
  PROVE  OwedCounted'
<1>1. faults \in Nat /\ faults' \in Nat /\ faults <= faults'
  BY DurableAssumption DEF JobRunsInv, DurableInv, FeedInv, TypeOK
<1>2. IsFiniteSet(Owed) /\ Cardinality(Owed) <= faults
  BY DEF JobRunsInv, QueueInv, OwedCounted
<1>3. ASSUME NEW q \in Runs, q # r, q \in Owed'
      PROVE  q \in Owed
  <2>1. call'[q] = call[q] /\ run'[q] = run[q] /\ status'[q] = status[q]
    BY <1>3 DEF JobAlone, Alone
  <2>2. QED
    BY <1>3, <2>1 DEF Owed, Disagrees, Strays, Raising
<1>4. CASE faults' = faults /\ (r \in Owed' => r \in Owed)
  <2>1. Owed' \subseteq Owed
    <3>1. Owed' \subseteq Runs
      BY DEF Owed
    <3>2. QED
      BY <1>3, <1>4, <3>1
  <2>2. QED
    BY <1>1, <1>2, <1>4, <2>1, NoMore DEF OwedCounted
<1>5. CASE faults' = faults + 1
  <2>1. Owed' \subseteq Owed \cup {r}
    <3>1. Owed' \subseteq Runs
      BY DEF Owed
    <3>2. QED
      BY <1>3, <3>1
  <2>2. QED
    BY <1>1, <1>2, <1>5, <2>1, OneMore DEF OwedCounted
<1>6. QED
  BY <1>4, <1>5

\* The other jobs keep their part.
LEMMA JobStep ==
  ASSUME JobRunsInv, NEW r \in Runs, JobAlone(r), DurableInv', OwedCounted',
         status'[r] \in Status, status' \in [Runs -> Status],
         status'[r] = "running" => \A q \in Runs \ {r} : status[q] # "running",
         JobFollows(r)', OutcomeTrue(r)',
         status'[r] = "succeeded" => run'[r].status = "succeeded",
         status'[r] = "paused" => run'[r].status \in {"paused", "none"},
         \A q \in Runs : Ahead(q)'
  PROVE  JobRunsInv'
<1>1. ASSUME NEW q \in Runs, q # r
      PROVE  /\ JobFollows(q)' /\ OutcomeTrue(q)'
             /\ status'[q] = "succeeded" => run'[q].status = "succeeded"
             /\ status'[q] = "paused" => run'[q].status \in {"paused", "none"}
  <2>1. call'[q] = call[q] /\ run'[q] = run[q] /\ status'[q] = status[q]
    BY <1>1 DEF JobAlone, Alone
  <2>2. JobFollows(q) /\ OutcomeTrue(q) /\ JobTrue
    BY DEF JobRunsInv, QueueInv
  <2>3. QED
    BY <2>1, <2>2 DEF JobFollows, Alive, OutcomeTrue, Raising, JobTrue
<1>2. OneRunning'
  BY DEF JobRunsInv, QueueInv, OneRunning, JobAlone
<1>3. JobTrue'
  BY <1>1 DEF JobTrue
<1>4. \A q \in Runs : JobFollows(q)' /\ OutcomeTrue(q)'
  BY <1>1
<1>5. Status' = Status
  BY DEF Status, Queue!Final
<1>6. QED
  BY <1>2, <1>3, <1>4, <1>5 DEF JobRunsInv, QueueInv

LEMMA JobFacts ==
  ASSUME JobRunsInv, NEW r \in Runs
  PROVE  /\ status[r] \in Status /\ status \in [Runs -> Status]
         /\ call[r] \in Call /\ call \in [Runs -> Call]
         /\ JobFollows(r) /\ OutcomeTrue(r) /\ Ahead(r) /\ JobTrue /\ OneRunning
         /\ call[r].pc \in {"off", "check", "open"} => run[r].status = "none"
         /\ Alive(r) => status[r] = "running"
<1>1. /\ status[r] \in Status /\ status \in [Runs -> Status]
      /\ call[r] \in Call /\ call \in [Runs -> Call]
      /\ JobFollows(r) /\ OutcomeTrue(r) /\ Ahead(r) /\ JobTrue /\ OneRunning
      /\ call[r].pc \in {"off", "check", "open"} => run[r].status = "none"
  BY DEF JobRunsInv, QueueInv, DurableInv, FeedInv, TypeOK, CallSound, RunFollows
<1>2. Alive(r) => status[r] = "running"
  BY <1>1 DEF JobFollows, Alive, Status
<1>3. QED
  BY <1>1, <1>2

LEMMA InitJobRunsInv == JobsInit => JobRunsInv
<1> SUFFICES ASSUME JobsInit PROVE JobRunsInv
  OBVIOUS
<1>1. DurableInv
  BY InitDurableInv DEF JobsInit
<1>2. Owed = {} /\ faults = 0
  BY DEF JobsInit, Init, Queue!Init, Owed, Disagrees, Queue!Final
<1>3. \A r \in Runs : call[r].pc = "off" /\ status[r] = "absent"
  BY DEF JobsInit, Init, Queue!Init, NewCall
<1>4. status \in [Runs -> Status]
  BY DEF JobsInit, Queue!Init, Status
<1>5. OneRunning /\ JobTrue
  BY <1>3 DEF OneRunning, JobTrue
<1>6. \A r \in Runs : JobFollows(r) /\ OutcomeTrue(r) /\ Ahead(r)
  BY <1>3 DEF JobFollows, Queue!Final, OutcomeTrue, Raising, Ahead
<1>7. OwedCounted
  BY <1>2, FS_EmptySet DEF OwedCounted
<1>8. QED
  BY <1>1, <1>4, <1>5, <1>6, <1>7 DEF JobRunsInv, QueueInv

LEMMA RequestJobRunsInv ==
  ASSUME JobRunsInv, NEW r \in Runs, Request(r)
  PROVE  JobRunsInv'
<1>1. UNCHANGED vars /\ UNCHANGED <<published, enabled, stored, checkpoint, run, events, call, faults, goal>>
  BY DEF Request, vars, db
<1>2. PICK s \in {"pending", "failed"} :
        status' = [status EXCEPT ![r] = s] /\ status[r] \in {"absent", "pending"}
  BY DEF Request, Queue!Accept, Queue!Reject
<1>3. status'[r] = s /\ JobAlone(r) /\ status' \in [Runs -> Status] /\ s \in Status
  BY <1>1, <1>2, JobFacts DEF JobAlone, Alone, Status, Queue!Final
<1>4. DurableInv'
  BY <1>1, NextDurableInv DEF JobRunsInv
<1>5. call[r].pc = "off" /\ run[r].status = "none"
  BY <1>2, JobFacts DEF JobFollows
<1>6. r \notin Owed'
  BY <1>1, <1>2, <1>3, <1>5 DEF Owed, Disagrees
<1>7. OwedCounted'
  BY <1>1, <1>3, <1>6, OwedStep
<1>8. JobFollows(r)' /\ OutcomeTrue(r)' /\ \A q \in Runs : Ahead(q)'
  BY <1>1, <1>2, <1>3, <1>5, JobFacts DEF JobFollows, Alive, OutcomeTrue, Raising, Ahead
<1>9. QED
  BY <1>2, <1>3, <1>4, <1>7, <1>8, JobStep

LEMMA BeginJobRunsInv ==
  ASSUME JobRunsInv, NEW r \in Runs, BeginJob(r)
  PROVE  JobRunsInv'
<1>1. /\ status' = [status EXCEPT ![r] = "running"] /\ status[r] = "pending"
      /\ \A q \in Runs : status[q] # "running"
      /\ call' = [call EXCEPT ![r] = NewCall]
      /\ UNCHANGED <<checkpoint, run, events, faults, goal>>
  BY DEF BeginJob, Queue!Begin, Invoke, db
<1>2. /\ status'[r] = "running" /\ call'[r] = NewCall /\ JobAlone(r)
      /\ status' \in [Runs -> Status] /\ "running" \in Status
  BY <1>1, JobFacts DEF JobAlone, Alone, Status
<1>3. DurableInv'
  BY StepDurableInv DEF JobRunsInv, BeginJob
<1>4. call'[r].pc = "check" /\ ~call'[r].raises
  BY <1>2 DEF NewCall
<1>5. r \notin Owed'
  BY <1>2, <1>4 DEF Owed, Disagrees, Queue!Final, Strays, Raising
<1>6. OwedCounted'
  BY <1>1, <1>2, <1>5, OwedStep
<1>7. JobFollows(r)' /\ OutcomeTrue(r)'
  BY <1>2, <1>4 DEF JobFollows, Queue!Final, OutcomeTrue, Raising
<1>8. ASSUME NEW q \in Runs
      PROVE  Ahead(q)'
  <2>1. CASE q = r
    BY <1>4, <2>1 DEF Ahead
  <2>2. CASE q # r
    BY <1>1, <1>2, <2>2, JobFacts DEF JobAlone, Alone, Ahead
  <2>3. QED
    BY <2>1, <2>2
<1>9. QED
  BY <1>1, <1>2, <1>3, <1>6, <1>7, <1>8, JobStep

LEMMA EndJobRunsInv ==
  ASSUME JobRunsInv, NEW r \in Runs, EndJob(r)
  PROVE  JobRunsInv'
<1> DEFINE s == IF call[r].pc = "returned" THEN "succeeded" ELSE call[r].stop
<1>1. UNCHANGED vars /\ UNCHANGED <<published, enabled, stored, checkpoint, run, events, call, faults, goal>>
  BY DEF EndJob, vars, db
<1>2. /\ status' = [status EXCEPT ![r] = s] /\ status[r] = "running"
      /\ call[r].pc \in {"returned", "raised"}
  BY DEF EndJob, Queue!End
<1>3. /\ call[r].stop \in {"failed", "paused"}
      /\ s \in {"succeeded", "failed", "paused"}
      /\ call[r].pc = "returned" => s = "succeeded"
      /\ call[r].pc # "returned" => s = call[r].stop
  BY JobFacts DEF Call
<1> HIDE DEF s
<1>4. status'[r] = s /\ JobAlone(r) /\ status' \in [Runs -> Status] /\ s \in Status
  BY <1>1, <1>2, <1>3, JobFacts DEF JobAlone, Alone, Status, Queue!Final
<1>5. DurableInv'
  BY <1>1, NextDurableInv DEF JobRunsInv
<1>6. r \in Owed' => r \in Owed
  BY <1>1, <1>2, <1>3, <1>4, JobFacts DEF Owed, Disagrees, Strays, Raising, OutcomeTrue
<1>7. OwedCounted'
  BY <1>1, <1>4, <1>6, OwedStep
<1>8. /\ JobFollows(r)' /\ OutcomeTrue(r)' /\ \A q \in Runs : Ahead(q)'
  BY <1>1, <1>2, <1>3, <1>4, JobFacts DEF JobFollows, Alive, OutcomeTrue, Raising, Ahead
<1>9. /\ s = "succeeded" => run[r].status = "succeeded"
      /\ s = "paused" => run[r].status \in {"paused", "none"}
  BY <1>2, <1>3, JobFacts DEF OutcomeTrue, Raising
<1>10. QED
  BY <1>1, <1>3, <1>4, <1>5, <1>7, <1>8, <1>9, JobStep

LEMMA AbortJobRunsInv ==
  ASSUME JobRunsInv, NEW r \in Runs, NEW s \in {"failed", "paused"}, AbortJob(r, s)
  PROVE  JobRunsInv'
<1> DEFINE c == [call[r] EXCEPT !.pc = "raised"]
<1>1. /\ status' = [status EXCEPT ![r] = s] /\ status[r] = "running" /\ call[r].pc = "check"
      /\ call' = [call EXCEPT ![r] = c]
      /\ UNCHANGED <<published, enabled, stored, checkpoint, run, events, faults, goal>>
  BY DEF AbortJob, Queue!End, Goto, db
<1>2. c \in Call /\ c.pc = "raised" /\ c.offset = call[r].offset /\ c.pages = call[r].pages
  BY JobFacts DEF Call, Pc
<1> HIDE DEF c
<1>3. /\ status'[r] = s /\ call'[r] = c /\ JobAlone(r)
      /\ status' \in [Runs -> Status] /\ s \in Status
  BY <1>1, JobFacts DEF JobAlone, Alone, Status, Queue!Final
<1>4. DurableInv'
  <2>1. enabled' \in BOOLEAN /\ faults' \in 0..MaxFaults
    BY <1>1 DEF JobRunsInv, DurableInv, FeedInv, TypeOK
  <2>2. FeedInv'
    BY <1>1, <1>2, <2>1, GotoStep DEF JobRunsInv, DurableInv
  <2>3. run'[r].status = "none"
    BY <1>1, JobFacts
  <2>4. LostCounted'
    BY <1>1, <1>3, <2>3, LostStep DEF JobRunsInv, JobAlone, Lost
  <2>5. QED
    BY <2>2, <2>4 DEF DurableInv
<1>5. run'[r].status = "none"
  BY <1>1, JobFacts
<1>6. OwedCounted'
  <2>1. r \notin Owed'
    BY <1>3, <1>5 DEF Owed, Disagrees
  <2>2. QED
    BY <1>1, <1>3, <2>1, OwedStep
<1>7. JobFollows(r)' /\ OutcomeTrue(r)'
  BY <1>2, <1>3, <1>5 DEF JobFollows, Alive, OutcomeTrue, Raising
<1>8. ASSUME NEW q \in Runs
      PROVE  Ahead(q)'
  <2>1. CASE q = r
    BY <1>2, <1>3, <2>1 DEF Ahead
  <2>2. CASE q # r
    BY <1>1, <1>3, <2>2, JobFacts DEF JobAlone, Alone, Ahead
  <2>3. QED
    BY <2>1, <2>2
<1>9. QED
  BY <1>3, <1>4, <1>5, <1>6, <1>7, <1>8, JobStep

\* The call of the running job is the only one under way, so its pages are
\* committed beyond the checkpoint it started from.
LEMMA StepAhead ==
  ASSUME JobRunsInv, NEW r \in Runs, Step(r) \/ Breakdown(r), Alive(r)
  PROVE  (\A q \in Runs : Ahead(q)') /\ checkpoint' >= checkpoint
<1>1. ASSUME NEW q \in Runs, q # r
      PROVE  call'[q] = call[q] /\ ~Alive(q)
  <2>1. status[r] = "running" /\ (Alive(q) => status[q] = "running")
    BY JobFacts
  <2>2. ~Alive(q)
    BY <1>1, <2>1 DEF JobRunsInv, QueueInv, OneRunning
  <2>3. QED
    BY <1>1, <2>2, StepAlone DEF JobRunsInv, Alone
<1>2. \A q \in Runs : q # r => Ahead(q)'
  BY <1>1 DEF Ahead, Alive
<1>3. checkpoint \in Nat /\ call[r] \in Call /\ call \in [Runs -> Call]
  BY DurableAssumption DEF JobRunsInv, DurableInv, FeedInv, TypeOK
<1>4. CASE Commit(r)
  <2>1. checkpoint' = call[r].batch.to /\ call[r].pc = "commit" /\ call'[r].offset = call[r].batch.to
    BY <1>3, <1>4 DEF Commit, Advance
  <2>2. call[r].offset <= call[r].batch.to
    BY <2>1 DEF JobRunsInv, DurableInv, FeedInv, CallSound, PageSound
  <2>3. checkpoint <= call[r].offset
    BY <2>1, JobFacts DEF Ahead
  <2>4. call[r].offset \in Nat /\ call[r].batch.to \in Nat
    BY CallTypes DEF JobRunsInv, DurableInv, FeedInv
  <2>5. Ahead(r)' /\ checkpoint' >= checkpoint
    BY <1>3, <2>1, <2>2, <2>3, <2>4 DEF Ahead
  <2>6. QED
    BY <1>2, <2>5
<1>5. CASE Load(r)
  BY <1>2, <1>3, <1>5 DEF Load, db, Ahead
<1>6. CASE Collect(r)
  <2>1. checkpoint' = checkpoint /\ call[r].pc = "collect" /\ call'[r].offset = call[r].offset
    BY <1>3, <1>6 DEF Collect, db
  <2>2. Ahead(r)'
    BY <2>1, JobFacts DEF Ahead
  <2>3. QED
    BY <1>2, <1>3, <2>1, <2>2
<1>7. CASE ~(Commit(r) \/ Load(r) \/ Collect(r))
  <2>1. checkpoint' = checkpoint
    BY <1>7 DEF Step, Breakdown, db, Check, Open, Finish, CollectFails, MarkFailed, Close,
       LoseCommit, LoseMark, CloseFails, Kill
  <2>2. call'[r].pc \notin {"collect", "commit"}
    BY <1>3, <1>7 DEF Step, Breakdown, Goto, Check, Open, Finish, CollectFails, MarkFailed, Close,
       LoseCommit, LoseMark, CloseFails, Kill, Call
  <2>3. QED
    BY <1>2, <1>3, <2>1, <2>2 DEF Ahead
<1>8. QED
  BY <1>4, <1>5, <1>6, <1>7

LEMMA StepJobRunsInv ==
  ASSUME JobRunsInv, NEW r \in Runs, Step(r) \/ Breakdown(r), UNCHANGED jobs
  PROVE  JobRunsInv'
<1>1. /\ Alive(r) /\ call'[r].pc # "off" /\ OutcomeTrue(r)'
      /\ \/ faults' = faults /\ (Strays(r)' => Strays(r))
         \/ faults' = faults + 1
  BY StepEffect, JobFacts DEF JobRunsInv
<1>2. status' = status /\ status[r] = "running"
  BY <1>1, JobFacts DEF jobs
<1>3. JobAlone(r)
  BY <1>2, StepAlone DEF JobRunsInv, JobAlone
<1>4. DurableInv'
  BY StepDurableInv DEF JobRunsInv
<1>5. OwedCounted'
  <2>1. CASE faults' = faults /\ (Strays(r)' => Strays(r))
    <3>1. r \in Owed' => r \in Owed
      BY <1>2, <2>1 DEF Owed, Disagrees, Queue!Final
    <3>2. QED
      BY <1>3, <2>1, <3>1, OwedStep
  <2>2. CASE faults' = faults + 1
    BY <1>3, <2>2, OwedStep
  <2>3. QED
    BY <1>1, <2>1, <2>2
<1>6. JobFollows(r)'
  BY <1>1, <1>2 DEF JobFollows, Queue!Final
<1>7. \A q \in Runs : Ahead(q)'
  BY <1>1, StepAhead
<1>8. \A q \in Runs \ {r} : status[q] # "running"
  BY <1>2 DEF JobRunsInv, QueueInv, OneRunning
<1>9. status' \in [Runs -> Status] /\ status'[r] \in Status
  BY <1>2, JobFacts
<1>10. QED
  BY <1>1, <1>2, <1>3, <1>4, <1>5, <1>6, <1>7, <1>8, <1>9, JobStep

LEMMA FaultsDurableInv ==
  ASSUME DurableInv, faults' \in 0..MaxFaults, faults <= faults',
         UNCHANGED <<published, enabled, stored, checkpoint, run, events, call, goal>>
  PROVE  DurableInv'
<1>1. TypeOK' /\ NothingSkipped'
  BY DEF DurableInv, FeedInv, TypeOK, NothingSkipped
<1>2. ASSUME NEW q \in Runs
      PROVE  CallSound(q)'
  <2>1. CallSound(q)
    BY DEF DurableInv, FeedInv
  <2>2. OffsetStored(q)' /\ PagesCounted(q)' /\ PageSound(q)' /\ SuccessTrue(q)'
    BY <2>1 DEF CallSound, OffsetStored, PagesCounted, PageSound, SuccessTrue, CaughtUp
  <2>3. RunFollows(q)'
    BY <2>1, Zenon DEF CallSound, RunFollows
  <2>4. QED
    BY <2>2, <2>3 DEF CallSound
<1>3. LostCounted'
  <2>1. Lost' = Lost /\ faults \in Nat /\ faults' \in Nat
    BY DurableAssumption DEF DurableInv, FeedInv, TypeOK, Lost
  <2>2. QED
    BY <2>1, NoMore DEF DurableInv, LostCounted
<1>4. QED
  BY <1>1, <1>2, <1>3 DEF DurableInv, FeedInv

LEMMA RestartJobRunsInv ==
  ASSUME JobRunsInv, Restart
  PROVE  JobRunsInv'
<1>1. /\ \A r \in Runs : ~Alive(r)
      /\ status' = [r \in Runs |-> IF status[r] \in {"pending", "running"} THEN "failed" ELSE status[r]]
      /\ UNCHANGED <<published, enabled, stored, checkpoint, run, events, call, goal>>
  BY DEF Restart, Queue!CloseAll, Queue!ActiveStatus, db
<1>2. faults \in Nat /\ faults' \in 0..MaxFaults /\ faults <= faults' /\ faults' \in Nat
  BY DurableAssumption DEF Restart, Died, Fault, JobRunsInv, DurableInv, FeedInv, TypeOK
<1>3. DurableInv'
  BY <1>1, <1>2, FaultsDurableInv DEF JobRunsInv
<1>4. ASSUME NEW r \in Runs
      PROVE  /\ status'[r] \in {"absent"} \cup Queue!Final
             /\ status'[r] = status[r] \/ (status[r] \in {"pending", "running"} /\ status'[r] = "failed")
  BY <1>1, JobFacts DEF Status, Queue!Final
<1>5. status' \in [Runs -> Status] /\ Status' = Status /\ OneRunning'
  BY <1>1, <1>4 DEF Status, Queue!Final, OneRunning
<1>6. ASSUME NEW r \in Runs
      PROVE  JobFollows(r)' /\ OutcomeTrue(r)' /\ Ahead(r)'
  <2>1. JobFollows(r)'
    BY <1>1, <1>4, JobFacts DEF JobFollows, Alive, Queue!Final
  <2>2. OutcomeTrue(r)' /\ Ahead(r)'
    BY <1>1, JobFacts DEF OutcomeTrue, Raising, Ahead
  <2>3. QED
    BY <2>1, <2>2
<1>7. JobTrue'
  <2>1. JobTrue
    BY DEF JobRunsInv, QueueInv
  <2>2. \A r \in Runs : status'[r] \in {"succeeded", "paused"} => status'[r] = status[r]
    BY <1>4
  <2>3. QED
    BY <1>1, <2>1, <2>2 DEF JobTrue
<1>8. ASSUME NEW q \in Runs, q \in Owed'
      PROVE  q \in Owed \/ (status[q] = "running" /\ call[q].pc # "killed")
  <2>1. Disagrees(q)'
    BY <1>4, <1>8 DEF Owed, Queue!Final
  <2>2. CASE status'[q] = status[q]
    BY <1>1, <2>1, <2>2 DEF Owed, Disagrees
  <2>3. CASE status[q] = "pending"
    BY <1>1, <2>1, <2>3, JobFacts DEF Disagrees, JobFollows
  <2>4. CASE status[q] = "running"
    BY <2>4 DEF Owed, Strays
  <2>5. QED
    BY <1>4, <2>2, <2>3, <2>4
<1>9. OwedCounted'
  <2>1. CASE \E r \in Runs : status[r] = "running" /\ call[r].pc # "killed"
    <3>1. PICK r \in Runs : status[r] = "running" /\ call[r].pc # "killed"
      BY <2>1
    <3>2. faults' = faults + 1
      BY <2>1 DEF Restart, Died, Fault
    <3>3. Owed' \subseteq Owed \cup {r}
      <4>1. Owed' \subseteq Runs
        BY DEF Owed
      <4>2. \A q \in Runs : status[q] = "running" => q = r
        BY <3>1 DEF JobRunsInv, QueueInv, OneRunning
      <4>3. QED
        BY <1>8, <4>1, <4>2
    <3>4. QED
      BY <1>2, <3>2, <3>3, OneMore DEF JobRunsInv, QueueInv, OwedCounted
  <2>2. CASE ~\E r \in Runs : status[r] = "running" /\ call[r].pc # "killed"
    <3>1. Owed' \subseteq Runs
      BY DEF Owed
    <3>2. Owed' \subseteq Owed
      BY <1>8, <2>2, <3>1
    <3>3. QED
      BY <1>2, <3>2, NoMore DEF JobRunsInv, QueueInv, OwedCounted
  <2>3. QED
    BY <2>1, <2>2
<1>10. QED
  BY <1>3, <1>5, <1>6, <1>7, <1>9 DEF JobRunsInv, QueueInv

\* The source and the operators touch neither the jobs nor the calls.
LEMMA WorldJobRunsInv ==
  ASSUME JobRunsInv, DurableInv', UNCHANGED <<checkpoint, run, call, faults, status>>
  PROVE  JobRunsInv'
<1>1. JobTrue' /\ OneRunning' /\ Status' = Status
  BY DEF JobRunsInv, QueueInv, JobTrue, OneRunning, Status, Queue!Final
<1>2. OwedCounted'
  BY DEF JobRunsInv, QueueInv, OwedCounted, Owed, Disagrees, Strays, Raising
<1>3. \A r \in Runs : JobFollows(r)' /\ OutcomeTrue(r)' /\ Ahead(r)'
  BY DEF JobRunsInv, QueueInv, JobFollows, Alive, OutcomeTrue, Raising, Ahead
<1>4. QED
  BY <1>1, <1>2, <1>3 DEF JobRunsInv, QueueInv

LEMMA NextJobRunsInv == JobRunsInv /\ [JobsNext]_allVars => JobRunsInv'
<1> SUFFICES ASSUME JobRunsInv, [JobsNext]_allVars PROVE JobRunsInv'
  OBVIOUS
<1>1. CASE UNCHANGED allVars
  <2>1. UNCHANGED vars /\ UNCHANGED <<checkpoint, run, call, faults, status>>
    BY <1>1 DEF allVars, vars, db, jobs
  <2>2. QED
    BY <2>1, NextDurableInv, WorldJobRunsInv DEF JobRunsInv
<1>2. CASE (Publish \/ Toggle) /\ UNCHANGED jobs
  <2>1. UNCHANGED <<checkpoint, run, call, faults, status>>
    BY <1>2 DEF Publish, Toggle, db, jobs
  <2>2. QED
    BY <1>2, <2>1, WorldDurableInv, WorldJobRunsInv DEF JobRunsInv
<1>3. QED
  BY <1>1, <1>2, RequestJobRunsInv, BeginJobRunsInv, EndJobRunsInv, AbortJobRunsInv,
     StepJobRunsInv, RestartJobRunsInv
  DEF JobsNext

LEMMA JobRunsInvHolds == JobsSpec => []JobRunsInv
BY InitJobRunsInv, NextJobRunsInv, PTL DEF JobsSpec
-----------------------------------------------------------------------------
\* The job of a run and the row of the run agree, but for the faults: a job
\* never claims what its run does not say, and no more rows disagree than
\* there were lost commits, close errors, kills and crashes between the two
\* commits (connectors/durable.py:138-178, collection_jobs.py:237-288).
THEOREM JobsAgreeWithRuns == JobsSpec => []JobsAgree
<1>1. JobRunsInv => JobsAgree
  <2> SUFFICES ASSUME JobRunsInv PROVE JobsAgree
    OBVIOUS
  <2> DEFINE D == {r \in Runs : status[r] \in Queue!Final /\ run[r].status \notin {status[r], "none"}}
  <2>1. D \subseteq Owed
    BY DEF Owed, Disagrees
  <2>2. faults \in Nat
    BY DurableAssumption DEF JobRunsInv, DurableInv, FeedInv, TypeOK
  <2>3. IsFiniteSet(Owed) /\ Cardinality(Owed) <= faults
    BY DEF JobRunsInv, QueueInv, OwedCounted
  <2>4. Cardinality(D) <= faults
    <3> HIDE DEF D
    <3>1. QED
      BY <2>1, <2>2, <2>3, NoMore
  <2>5. QED
    BY <2>4 DEF JobRunsInv, QueueInv, JobsAgree
<1>2. QED
  BY <1>1, JobRunsInvHolds, PTL

\* The run of a job that is over does not change any more: a call is only
\* under way while its job is running (collection_jobs.py:209-288).
THEOREM RunsFrozen == JobsSpec => RunFrozen
<1>1. JobRunsInv /\ [JobsNext]_allVars
        => [\A r \in Runs : status[r] \in Queue!Final => run'[r] = run[r]]_allVars
  <2> SUFFICES ASSUME JobRunsInv, JobsNext, NEW q \in Runs, status[q] \in Queue!Final
               PROVE  run'[q] = run[q]
    OBVIOUS
  <2>1. ASSUME NEW r \in Runs, Step(r) \/ Breakdown(r)
        PROVE  run'[q] = run[q]
    <3>1. Alive(r) /\ ~Alive(q)
      BY <2>1, StepEffect, JobFacts DEF JobRunsInv, JobFollows
    <3>2. QED
      BY <2>1, <3>1, StepAlone DEF JobRunsInv, Alone
  <2>2. CASE ~\E r \in Runs : Step(r) \/ Breakdown(r)
    <3>1. UNCHANGED run
      BY <2>2 DEF JobsNext, Request, BeginJob, Invoke, EndJob, AbortJob, Restart, Publish, Toggle,
         vars, db
    <3>2. QED
      BY <3>1
  <2>3. QED
    BY <2>1, <2>2
<1>2. QED
  BY <1>1, JobRunsInvHolds, PTL DEF JobsSpec, RunFrozen

\* The checkpoint of a source never moves back, although a page commits it
\* without a comparison: the queue has one worker, so no call commits between
\* the read and the write of another (connectors/durable.py:75-115).
THEOREM CheckpointMonotone == JobsSpec => CheckpointAdvances
<1>1. JobRunsInv /\ [JobsNext]_allVars => [checkpoint' >= checkpoint]_checkpoint
  <2> SUFFICES ASSUME JobRunsInv, [JobsNext]_allVars, checkpoint' # checkpoint
               PROVE  checkpoint' >= checkpoint
    OBVIOUS
  <2>1. PICK r \in Runs : Step(r) \/ Breakdown(r)
    BY DEF JobsNext, Request, BeginJob, Invoke, EndJob, AbortJob, Restart, Publish, Toggle,
       allVars, vars, db
  <2>2. Alive(r)
    BY <2>1, StepEffect, JobFacts DEF JobRunsInv
  <2>3. QED
    BY <2>1, <2>2, StepAhead
<1>2. QED
  BY <1>1, JobRunsInvHolds, PTL DEF JobsSpec, CheckpointAdvances
=============================================================================
