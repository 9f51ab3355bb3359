----------------------- MODULE CollectionJobs_proofs -----------------------
(***************************************************************************)
(* Type correctness of the collection queue, one job per command, agreeing *)
(* answers and at most one external run per job, for any number of jobs,   *)
(* commands, threads and processes, with or without overlapping processes  *)
(* and lost commits.                                                       *)
(***************************************************************************)
EXTENDS CollectionJobs, TLAPS

Typed == TypeOK /\ Formed

\* Updates of one field, or two, of one entry of a table of records.
LEMMA RowUpdate ==
  ASSUME row \in [Jobs -> Row], NEW j \in Jobs,
         NEW s \in ActiveStatus \cup FinalStatus, NEW e \in ErrorCode
  PROVE  /\ [row EXCEPT ![j].status = s] \in [Jobs -> Row]
         /\ [row EXCEPT ![j].status = s, ![j].error = e] \in [Jobs -> Row]
<1>1. row[j] \in Row
  OBVIOUS
<1>2. [row[j] EXCEPT !.status = s] \in Row
  BY <1>1 DEF Row
<1>3. [[row[j] EXCEPT !.status = s] EXCEPT !.error = e] \in Row
  BY <1>2 DEF Row
<1>4. QED
  BY <1>2, <1>3

LEMMA ThreadUpdate ==
  ASSUME thread \in [Threads -> ThreadState], NEW t \in Threads, NEW j \in Jobs
  PROVE  /\ [thread EXCEPT ![t].pc = "insert"] \in [Threads -> ThreadState]
         /\ [thread EXCEPT ![t].pc = "submit", ![t].job = j] \in [Threads -> ThreadState]
<1>1. thread[t] \in ThreadState
  OBVIOUS
<1>2. [thread[t] EXCEPT !.pc = "insert"] \in ThreadState
  BY <1>1 DEF ThreadState
<1>3. [[thread[t] EXCEPT !.pc = "submit"] EXCEPT !.job = j] \in ThreadState
  BY <1>1 DEF ThreadState
<1>4. QED
  BY <1>2, <1>3

LEMMA InitTyped == Init => Typed
BY JobsAssumption DEF Init, Typed, TypeOK, Formed, Row, NoRow, Event, ThreadState, IdleThread,
   WorkerState, IdleWorker, Answer, ActiveStatus, FinalStatus, ErrorCode

LEMMA ThreadTyped ==
  ASSUME Typed, NEW t \in Threads, ThreadStep(t)
  PROVE  Typed'
<1> USE DEF Typed, TypeOK, Formed, Row, Event, ThreadState, IdleThread, WorkerState, Answer,
            ActiveStatus, FinalStatus, ErrorCode, db, Rest, Log
<1>1. CASE Admit(t)
  BY <1>1 DEF Admit
<1>2. CASE Refuse(t)
  BY <1>2 DEF Refuse
<1>3. ASSUME NEW j \in Jobs, Insert(t, j)
      PROVE  Typed'
  <2>1. thread[t].command \in Commands /\ thread[t].task \in Tasks /\ thread[t].proc \in Procs
    BY <1>3 DEF Insert
  <2>2. row' \in [Jobs -> Row]
    BY <1>3, <2>1 DEF Insert
  <2>3. audit' \in [Jobs -> Seq(Event)]
    BY <1>3 DEF Insert
  <2>4. thread' \in [Threads -> ThreadState]
    BY <1>3, ThreadUpdate DEF Insert
  <2>5. QED
    BY <1>3, <2>1, <2>2, <2>3, <2>4 DEF Insert
<1>4. CASE InsertConflict(t)
  BY <1>4 DEF InsertConflict
<1>5. CASE Submit(t)
  <2>1. thread[t].job \in Jobs /\ thread[t].command \in Commands /\ thread[t].task \in Tasks
    BY <1>5 DEF Submit
  <2>2. queue' \in [Procs -> Seq(Jobs)]
    BY <1>5, <2>1 DEF Submit
  <2>3. answers' \subseteq Answer
    BY <1>5, <2>1 DEF Submit
  <2>4. QED
    BY <1>5, <2>1, <2>2, <2>3 DEF Submit
<1>6. CASE SubmitRefused(t)
  <2>1. thread[t].job \in Jobs
    BY <1>6 DEF SubmitRefused
  <2>2. row' \in [Jobs -> Row]
    BY <1>6, <2>1, RowUpdate DEF SubmitRefused
  <2>3. QED
    BY <1>6, <2>1, <2>2 DEF SubmitRefused
<1>7. QED
  BY <1>1, <1>2, <1>3, <1>4, <1>5, <1>6 DEF ThreadStep

LEMMA RequestTyped ==
  ASSUME Typed, NEW p \in Procs, NEW c \in Commands, NEW k \in Tasks
  PROVE  /\ \A j \in Jobs : Replay(p, c, k, j) => Typed'
         /\ \A t \in Threads : Lookup(t, p, c, k) => Typed'
<1> USE DEF Typed, TypeOK, Formed, ThreadState, WorkerState, Answer, db
<1>1. ASSUME NEW j \in Jobs, Replay(p, c, k, j)
      PROVE  Typed'
  BY <1>1 DEF Replay
<1>2. ASSUME NEW t \in Threads, Lookup(t, p, c, k)
      PROVE  Typed'
  BY <1>2 DEF Lookup
<1>3. QED
  BY <1>1, <1>2

LEMMA WorkerTyped ==
  ASSUME Typed, NEW p \in Procs, WorkerStep(p) \/ LoseWrite(p)
  PROVE  Typed'
<1> USE DEF Typed, TypeOK, Formed, Row, Event, WorkerState, IdleWorker,
            ActiveStatus, FinalStatus, ErrorCode, db, Log
<1>1. CASE Fetch(p)
  <2>1. Head(queue[p]) \in Jobs /\ Tail(queue[p]) \in Seq(Jobs)
    BY <1>1 DEF Fetch
  <2>2. queue' \in [Procs -> Seq(Jobs)] /\ worker' \in [Procs -> WorkerState]
    BY <1>1, <2>1 DEF Fetch
  <2>3. QED
    BY <1>1, <2>1, <2>2 DEF Fetch
<1>2. CASE Begin(p)
  <2>1. worker[p].job \in Jobs
    BY <1>2 DEF Begin
  <2>2. row' \in [Jobs -> Row]
    BY <1>2, <2>1, RowUpdate DEF Begin
  <2>3. runs' \in [Jobs -> Nat]
    BY <1>2, <2>1 DEF Begin
  <2>4. worker' \in [Procs -> WorkerState]
    BY <1>2 DEF Begin
  <2>5. QED
    BY <1>2, <2>1, <2>2, <2>3, <2>4 DEF Begin
<1>3. CASE Succeed(p)
  <2>1. worker[p].job \in Jobs
    BY <1>3 DEF Succeed
  <2>2. row' \in [Jobs -> Row]
    BY <1>3, <2>1, RowUpdate DEF Succeed
  <2>3. audit' \in [Jobs -> Seq(Event)]
    BY <1>3 DEF Succeed
  <2>4. QED
    BY <1>3, <2>1, <2>2, <2>3 DEF Succeed
<1>4. ASSUME NEW s \in {"paused", "failed"}, Stop(p, s)
      PROVE  Typed'
  <2>1. worker[p].job \in Jobs
    BY <1>4 DEF Stop
  <2>2. row' \in [Jobs -> Row]
    BY <1>4, <2>1, RowUpdate DEF Stop
  <2>3. audit' \in [Jobs -> Seq(Event)]
    BY <1>4 DEF Stop
  <2>4. QED
    BY <1>4, <2>1, <2>2, <2>3 DEF Stop
<1>5. CASE LoseWrite(p)
  BY <1>5, JobsAssumption DEF LoseWrite
<1>6. QED
  BY <1>1, <1>2, <1>3, <1>4, <1>5 DEF WorkerStep

LEMMA ProcessTyped ==
  ASSUME Typed, NEW p \in Procs,
         Start(p) \/ Reconcile(p) \/ Shutdown(p) \/ Exit(p) \/ Crash(p)
  PROVE  Typed'
<1> USE DEF Typed, TypeOK, Formed, db
<1>1. CASE Start(p)
  BY <1>1 DEF Start, StartReading, ActiveJobs
<1>2. CASE Reconcile(p)
  <2>1. ASSUME NEW j \in Jobs
        PROVE  row'[j] \in Row
    <3>1. row[j] \in Row
      OBVIOUS
    <3>2. [row[j] EXCEPT !.status = "failed", !.error = "api_restarted"] \in Row
      BY <3>1 DEF Row, FinalStatus, ErrorCode
    <3>3. CASE j \in orphans
      <4>1. row'[j] = [row[j] EXCEPT !.status = "failed", !.error = "api_restarted"]
        BY <1>2, <3>3 DEF Reconcile
      <4>2. QED
        BY <3>2, <4>1, Zenon
    <3>4. CASE j \notin orphans
      BY <1>2, <3>1, <3>4 DEF Reconcile
    <3>5. QED
      BY <3>3, <3>4
  <2>2. audit' \in [Jobs -> Seq(Event)]
    <3>1. \A j \in Jobs : Append(audit[j], "orphaned") \in Seq(Event)
      BY DEF Event
    <3>2. QED
      BY <1>2, <3>1 DEF Reconcile
  <2>3. row' \in [Jobs -> Row]
    BY <1>2, <2>1 DEF Reconcile
  <2>4. QED
    BY <1>2, <2>2, <2>3 DEF Reconcile
<1>3. CASE Shutdown(p)
  BY <1>3 DEF Shutdown
<1>4. CASE Exit(p)
  BY <1>4 DEF Exit, EndThreads, ThreadState, IdleThread
<1>5. CASE Crash(p)
  BY <1>5 DEF Crash, EndThreads, ThreadState, IdleThread, WorkerState, IdleWorker
<1>6. QED
  BY <1>1, <1>2, <1>3, <1>4, <1>5

LEMMA NextTyped == Typed /\ [Next]_vars => Typed'
<1> SUFFICES ASSUME Typed, [Next]_vars PROVE Typed'
  OBVIOUS
<1>1. CASE UNCHANGED vars
  BY <1>1 DEF vars, db, Typed, TypeOK, Formed
<1>2. CASE Next
  BY <1>2, ThreadTyped, RequestTyped, WorkerTyped, ProcessTyped DEF Next
<1>3. QED
  BY <1>1, <1>2

\* Type correctness of every variable, together with the shape of threads
\* and workers, which the steps that use a thread's or a worker's job need.
THEOREM TypeCorrect == Spec => [](TypeOK /\ Formed)
BY InitTyped, NextTyped, PTL DEF Spec, Typed
-----------------------------------------------------------------------------
(* JobInv is inductive.  Every step but Insert keeps the rows and their     *)
(* commands (RowsKept), and every step but Insert, Submit and Fetch only    *)
(* gives claims up (ClaimsShrink).                                         *)

LEMMA InitJobInv == Init => JobInv
BY InitTyped DEF Init, JobInv, Typed, AbsentBlank, SubmitsOwnRow, HeldRowsExist, OneJobPerCommand,
   AnswersStored, ClaimsFresh, ClaimsExclusive, RunAtMostOnce, Exists, Holding, InQueue, Fetched,
   NoRow, IdleThread, IdleWorker

\* No row appears or disappears, none changes its command or its task, and a
\* row that does not exist stays blank.
RowsKept ==
  /\ \A j \in Jobs : Exists(j) => /\ row'[j].status # "absent"
                                  /\ row'[j].command = row[j].command
                                  /\ row'[j].task = row[j].task
  /\ \A j \in Jobs : ~Exists(j) => row'[j] = row[j] /\ runs'[j] = runs[j]

LEMMA KeptRows ==
  ASSUME JobInv, RowsKept
  PROVE  /\ AbsentBlank'
         /\ OneJobPerCommand'
         /\ (answers' = answers => AnswersStored')
         /\ \A j \in Jobs : Exists(j) => Exists(j)'
<1>1. AbsentBlank'
  BY DEF JobInv, RowsKept, AbsentBlank, Exists
<1>2. OneJobPerCommand'
  BY DEF JobInv, RowsKept, OneJobPerCommand, Exists
<1>3. answers' = answers => AnswersStored'
  <2>1. \A a \in answers : a.job \in Jobs
    BY DEF JobInv, TypeOK, Answer
  <2>2. QED
    BY <2>1 DEF JobInv, RowsKept, AnswersStored, Exists
<1>4. QED
  BY <1>1, <1>2, <1>3 DEF RowsKept, Exists

\* No claim is gained, and the job of a claim that is kept is not started.
ClaimsGivenUp ==
  /\ \A j \in Jobs :
       /\ \A t \in Threads : Holding(t, j)' => Holding(t, j)
       /\ \A p \in Procs : InQueue(p, j)' => InQueue(p, j)
       /\ \A p \in Procs : Fetched(p, j)' => Fetched(p, j)
  /\ \A p \in Procs : queue'[p] = queue[p] \/ queue'[p] = <<>>
  /\ \A j \in Jobs : (\E t \in Threads : Holding(t, j)') \/ (\E p \in Procs : InQueue(p, j)' \/ Fetched(p, j)')
       => runs'[j] = runs[j]

LEMMA ClaimsShrink ==
  ASSUME JobInv, RowsKept, ClaimsGivenUp
  PROVE  ClaimsFresh' /\ ClaimsExclusive'
<1>1. ClaimsFresh'
  <2>1. ASSUME NEW j \in Jobs, NEW t \in Threads, Holding(t, j)'
        PROVE  Fresh(j)'
    <3>1. Fresh(j) /\ runs'[j] = runs[j]
      BY <2>1 DEF ClaimsGivenUp, JobInv, ClaimsFresh
    <3>2. QED
      BY <3>1, KeptRows DEF Fresh
  <2>2. ASSUME NEW j \in Jobs, NEW p \in Procs, InQueue(p, j)' \/ Fetched(p, j)'
        PROVE  Fresh(j)'
    <3>1. Fresh(j) /\ runs'[j] = runs[j]
      BY <2>2 DEF ClaimsGivenUp, JobInv, ClaimsFresh
    <3>2. QED
      BY <3>1, KeptRows DEF Fresh
  <2>3. QED
    BY <2>1, <2>2 DEF ClaimsFresh
<1>2. ASSUME NEW p \in Procs, NEW i \in 1..Len(queue[p])', NEW k \in 1..Len(queue[p])',
             queue'[p][i] = queue'[p][k]
      PROVE  i = k
  <2>1. CASE queue'[p] = queue[p]
    BY <1>2, <2>1 DEF JobInv, ClaimsExclusive
  <2>2. CASE queue'[p] = <<>>
    BY <2>2
  <2>3. QED
    BY <2>1, <2>2 DEF ClaimsGivenUp
<1>3. ClaimsExclusive'
  BY <1>2 DEF ClaimsGivenUp, JobInv, ClaimsExclusive
<1>4. QED
  BY <1>1, <1>3


\* The steps that leave the table and the run counts alone.
LEMMA QuietStep ==
  ASSUME JobInv, Typed',
         UNCHANGED <<row, runs>>, ClaimsGivenUp,
         \A t \in Threads : thread'[t].pc = "submit" => thread'[t] = thread[t],
         \A p \in Procs : worker'[p].pc = "idle" \/ worker'[p] = worker[p],
         \A j \in orphans' : Exists(j),
         AnswersStored'
  PROVE  JobInv'
<1>1. RowsKept
  BY DEF RowsKept, Exists
<1>2. SubmitsOwnRow'
  BY DEF JobInv, SubmitsOwnRow
<1>3. HeldRowsExist'
  BY DEF JobInv, HeldRowsExist, Exists
<1>4. RunAtMostOnce'
  BY DEF JobInv, RunAtMostOnce
<1>5. QED
  BY <1>1, <1>2, <1>3, <1>4, KeptRows, ClaimsShrink DEF JobInv, Typed

LEMMA RequestJobInv ==
  ASSUME JobInv, NEW p \in Procs, NEW c \in Commands, NEW k \in Tasks
  PROVE  /\ \A j \in Jobs : Replay(p, c, k, j) => JobInv'
         /\ \A t \in Threads : Lookup(t, p, c, k) => JobInv'
<1>1. ASSUME NEW j \in Jobs, Replay(p, c, k, j)
      PROVE  JobInv'
  <2>1. Typed'
    BY <1>1, RequestTyped DEF JobInv, Typed
  <2>2. AnswersStored'
    BY <1>1 DEF Replay, db, JobInv, AnswersStored, Exists
  <2>3. ClaimsGivenUp
    BY <1>1 DEF Replay, db, ClaimsGivenUp, Holding, InQueue, Fetched
  <2>4. QED
    BY <1>1, <2>1, <2>2, <2>3, QuietStep DEF Replay, db, JobInv, HeldRowsExist
<1>2. ASSUME NEW t \in Threads, Lookup(t, p, c, k)
      PROVE  JobInv'
  <2>1. Typed'
    BY <1>2, RequestTyped DEF JobInv, Typed
  <2>2. AnswersStored'
    BY <1>2 DEF Lookup, db, JobInv, AnswersStored, Exists
  <2>3. \A u \in Threads : thread'[u].pc = "submit" => thread'[u] = thread[u]
    BY <1>2 DEF Lookup, JobInv, TypeOK
  <2>4. ClaimsGivenUp
    BY <1>2, <2>3 DEF Lookup, db, ClaimsGivenUp, Holding, InQueue, Fetched
  <2>5. QED
    BY <1>2, <2>1, <2>2, <2>3, <2>4, QuietStep DEF Lookup, db, JobInv, HeldRowsExist
<1>3. QED
  BY <1>1, <1>2

LEMMA InsertJobInv ==
  ASSUME JobInv, NEW t \in Threads, NEW n \in Jobs, Insert(t, n)
  PROVE  JobInv'
<1> DEFINE c == thread[t].command
<1>1. Typed'
  BY ThreadTyped DEF JobInv, Typed, ThreadStep
<1>2. /\ thread[t].pc = "insert" /\ c \in Commands /\ ~HasRow(c) /\ ~Exists(n)
      /\ row'[n] = [status |-> "pending", command |-> c, task |-> thread[t].task, error |-> "none"]
      /\ \A j \in Jobs \ {n} : row'[j] = row[j]
      /\ thread'[t].pc = "submit" /\ thread'[t].job = n
      /\ thread'[t].command = c /\ thread'[t].task = thread[t].task
      /\ \A u \in Threads \ {t} : thread'[u] = thread[u]
      /\ UNCHANGED <<orphans, queue, worker, answers, runs>>
  <2>1. thread \in [Threads -> ThreadState] /\ row \in [Jobs -> Row]
    BY DEF JobInv, TypeOK
  <2>2. thread' = [thread EXCEPT ![t] = [thread[t] EXCEPT !.pc = "submit", !.job = n]]
    BY <2>1 DEF Insert
  <2>3. thread[t] \in ThreadState
    BY <2>1
  <2>4. c \in Commands
    BY DEF Insert, JobInv, Formed
  <2>5. QED
    BY <2>1, <2>2, <2>3, <2>4 DEF Insert, ThreadState
<1>3. Exists(n)' /\ \A j \in Jobs : Exists(j) => j # n /\ Exists(j)'
  BY <1>2 DEF Exists
<1>4. \A j \in Jobs : Exists(j)' => j = n \/ Exists(j)
  BY <1>2 DEF Exists
<1>5. runs[n] = 0
  BY <1>2 DEF JobInv, AbsentBlank
<1>6. AbsentBlank'
  BY <1>2, <1>3, <1>4 DEF JobInv, AbsentBlank, Exists
<1>7. SubmitsOwnRow'
  <2>1. \A u \in Threads : thread[u].pc = "submit" => thread[u].job \in Jobs
    BY DEF JobInv, Formed
  <2>2. QED
    BY <1>2, <1>3, <2>1 DEF JobInv, SubmitsOwnRow, Exists
<1>8. HeldRowsExist'
  <2>1. /\ \A p \in Procs : worker[p].pc # "idle" => worker[p].job \in Jobs
        /\ orphans \subseteq Jobs
    BY DEF JobInv, Formed, TypeOK
  <2>2. QED
    BY <1>2, <1>3, <2>1 DEF JobInv, HeldRowsExist
<1>9. OneJobPerCommand'
  BY <1>2, <1>3, <1>4 DEF JobInv, OneJobPerCommand, HasRow, Exists
<1>10. AnswersStored'
  <2>1. \A a \in answers : a.job \in Jobs
    BY DEF JobInv, TypeOK, Answer
  <2>2. QED
    BY <1>2, <1>3, <2>1 DEF JobInv, AnswersStored
<1>11. \A u \in Threads, j \in Jobs : Holding(u, j)' <=> Holding(u, j) \/ (u = t /\ j = n)
  BY <1>2 DEF Holding
<1>12. \A p \in Procs, j \in Jobs : /\ InQueue(p, j)' <=> InQueue(p, j)
                                    /\ Fetched(p, j)' <=> Fetched(p, j)
  BY <1>2 DEF InQueue, Fetched
<1>13. /\ \A u \in Threads : ~Holding(u, n)
       /\ \A p \in Procs : ~InQueue(p, n) /\ ~Fetched(p, n)
  BY <1>2 DEF JobInv, ClaimsFresh, Fresh
<1>14. ClaimsFresh'
  BY <1>2, <1>3, <1>5, <1>11, <1>12 DEF JobInv, ClaimsFresh, Fresh
<1>15. ClaimsExclusive'
  BY <1>2, <1>11, <1>12, <1>13 DEF JobInv, ClaimsExclusive
<1>16. RunAtMostOnce'
  BY <1>2 DEF JobInv, RunAtMostOnce
<1>17. QED
  BY <1>1, <1>6, <1>7, <1>8, <1>9, <1>10, <1>14, <1>15, <1>16 DEF JobInv, Typed

\* What appending to a queue and taking its head do to its members.
LEMMA MemberOfAppend ==
  ASSUME NEW s \in Seq(Jobs), NEW n \in Jobs, NEW j \in Jobs
  PROVE  (\E i \in 1..Len(Append(s, n)) : Append(s, n)[i] = j)
           <=> (\E i \in 1..Len(s) : s[i] = j) \/ j = n
<1>1. Len(s) \in Nat /\ Len(Append(s, n)) = Len(s) + 1
  OBVIOUS
<1>2. \A i \in 1..Len(s) : Append(s, n)[i] = s[i]
  OBVIOUS
<1>3. Append(s, n)[Len(s) + 1] = n
  OBVIOUS
<1>4. QED
  BY <1>1, <1>2, <1>3

LEMMA MemberOfTail ==
  ASSUME NEW s \in Seq(Jobs), s # <<>>, NEW j \in Jobs,
         \A i, k \in 1..Len(s) : s[i] = s[k] => i = k
  PROVE  /\ (\E i \in 1..Len(Tail(s)) : Tail(s)[i] = j)
              <=> (\E i \in 1..Len(s) : s[i] = j) /\ j # Head(s)
         /\ \A i, k \in 1..Len(Tail(s)) : Tail(s)[i] = Tail(s)[k] => i = k
         /\ \E i \in 1..Len(s) : s[i] = Head(s)
<1>1. Len(s) \in Nat /\ Len(s) > 0 /\ Len(Tail(s)) = Len(s) - 1
  OBVIOUS
<1>2. \A i \in 1..Len(Tail(s)) : Tail(s)[i] = s[i + 1]
  OBVIOUS
<1>3. Head(s) = s[1]
  OBVIOUS
<1>4. ASSUME NEW i \in 1..Len(s), i # 1
      PROVE  i - 1 \in 1..Len(Tail(s)) /\ Tail(s)[i - 1] = s[i]
  BY <1>1, <1>2, <1>4
<1>5. ASSUME NEW i \in 1..Len(Tail(s))
      PROVE  i + 1 \in 1..Len(s) /\ i + 1 # 1
  BY <1>1
<1>6. QED
  BY <1>1, <1>2, <1>3, <1>4, <1>5

LEMMA SubmitJobInv ==
  ASSUME JobInv, NEW t \in Threads, Submit(t)
  PROVE  JobInv'
<1> DEFINE n == thread[t].job
           q == thread[t].proc
<1>1. Typed'
  BY ThreadTyped DEF JobInv, Typed, ThreadStep
<1>2. /\ thread[t].pc = "submit" /\ n \in Jobs /\ q \in Procs
      /\ queue' = [queue EXCEPT ![q] = Append(@, n)]
      /\ thread' = [thread EXCEPT ![t] = IdleThread]
      /\ UNCHANGED <<row, worker, orphans, runs>>
  BY DEF Submit, Rest, db, JobInv, Formed
<1>3. queue \in [Procs -> Seq(Jobs)] /\ thread \in [Threads -> ThreadState]
  BY DEF JobInv, TypeOK
<1>4. RowsKept
  BY <1>2 DEF RowsKept, Exists
<1>5. \A u \in Threads, j \in Jobs : Holding(u, j)' <=> Holding(u, j) /\ u # t
  BY <1>2, <1>3 DEF Holding, IdleThread
<1>6. \A p \in Procs, j \in Jobs : Fetched(p, j)' <=> Fetched(p, j)
  BY <1>2 DEF Fetched
<1>7. \A p \in Procs, j \in Jobs : InQueue(p, j)' <=> InQueue(p, j) \/ (p = q /\ j = n)
  <2>1. ASSUME NEW p \in Procs, NEW j \in Jobs
        PROVE  InQueue(p, j)' <=> InQueue(p, j) \/ (p = q /\ j = n)
    <3>1. CASE p # q
      BY <1>2, <1>3, <3>1 DEF InQueue
    <3>2. CASE p = q
      <4>1. queue'[p] = Append(queue[p], n) /\ queue[p] \in Seq(Jobs)
        BY <1>2, <1>3, <3>2
      <4>2. (\E i \in 1..Len(Append(queue[p], n)) : Append(queue[p], n)[i] = j)
              <=> (\E i \in 1..Len(queue[p]) : queue[p][i] = j) \/ j = n
        BY <1>2, <4>1, MemberOfAppend, Zenon
      <4>3. InQueue(p, j)' <=> InQueue(p, j) \/ j = n
        BY <4>1, <4>2, Zenon DEF InQueue
      <4>4. QED
        BY <3>2, <4>3
    <3>3. QED
      BY <3>1, <3>2
  <2>2. QED
    BY <2>1
<1>8. Holding(t, n)
  BY <1>2 DEF Holding
<1>9. \A p \in Procs : ~InQueue(p, n) /\ ~Fetched(p, n)
  BY <1>8, <1>2 DEF JobInv, ClaimsExclusive
<1>10. ASSUME NEW p \in Procs, NEW i \in 1..Len(queue'[p]), NEW k \in 1..Len(queue'[p]),
              queue'[p][i] = queue'[p][k]
       PROVE  i = k
  <2>1. CASE p # q
    BY <1>2, <1>3, <1>10, <2>1 DEF JobInv, ClaimsExclusive
  <2>2. CASE p = q
    <3>1. queue'[p] = Append(queue[p], n) /\ queue[p] \in Seq(Jobs)
      BY <1>2, <1>3, <2>2
    <3>2. /\ Len(queue'[p]) = Len(queue[p]) + 1
          /\ queue'[p][Len(queue[p]) + 1] = n
          /\ \A m \in 1..Len(queue[p]) : queue'[p][m] = queue[p][m]
          /\ Len(queue[p]) \in Nat
      BY <3>1, <1>2
    <3>3. \A m \in 1..Len(queue[p]) : queue[p][m] # n
      BY <1>9 DEF InQueue
    <3>4. \A m, l \in 1..Len(queue[p]) : queue[p][m] = queue[p][l] => m = l
      BY DEF JobInv, ClaimsExclusive
    <3>5. /\ i \in 1..Len(queue[p]) \/ i = Len(queue[p]) + 1
          /\ k \in 1..Len(queue[p]) \/ k = Len(queue[p]) + 1
      <4>1. \A l \in Nat : \A m \in 1..(l + 1) : m \in 1..l \/ m = l + 1
        OBVIOUS
      <4>2. QED
        BY <3>2, <4>1
    <3>6. CASE i \in 1..Len(queue[p]) /\ k \in 1..Len(queue[p])
      BY <1>10, <3>2, <3>4, <3>6, Zenon
    <3>7. CASE i \in 1..Len(queue[p]) /\ k = Len(queue[p]) + 1
      BY <1>10, <3>2, <3>3, <3>7, Zenon
    <3>8. CASE i = Len(queue[p]) + 1 /\ k \in 1..Len(queue[p])
      BY <1>10, <3>2, <3>3, <3>8, Zenon
    <3>9. QED
      BY <3>5, <3>6, <3>7, <3>8, Zenon
  <2>3. QED
    BY <2>1, <2>2
<1>11. Fresh(n)
  BY <1>8, <1>2 DEF JobInv, ClaimsFresh
<1>12. ClaimsFresh'
  BY <1>2, <1>5, <1>6, <1>7, <1>11 DEF JobInv, ClaimsFresh, Fresh, Exists
<1>13. ClaimsExclusive'
  <2>1. ASSUME NEW j \in Jobs, NEW u \in Threads
        PROVE  /\ \A w \in Threads : Holding(u, j)' /\ Holding(w, j)' => u = w
               /\ \A p \in Procs : Holding(u, j)' => ~InQueue(p, j)' /\ ~Fetched(p, j)'
    BY <1>2, <1>5, <1>6, <1>7, <1>8 DEF JobInv, ClaimsExclusive
  <2>2. ASSUME NEW j \in Jobs, NEW p \in Procs, NEW r \in Procs
        PROVE  /\ InQueue(p, j)' /\ InQueue(r, j)' => p = r
               /\ Fetched(p, j)' /\ Fetched(r, j)' => p = r
               /\ ~(InQueue(p, j)' /\ Fetched(r, j)')
    BY <1>2, <1>6, <1>7, <1>9 DEF JobInv, ClaimsExclusive
  <2>3. QED
    BY <1>10, <2>1, <2>2 DEF ClaimsExclusive
<1>14. AnswersStored'
  <2>1. \A a \in answers' :
          a \in answers \/ a = [command |-> thread[t].command, task |-> thread[t].task, job |-> n]
    BY DEF Submit
  <2>2. Exists(n) /\ row[n].command = thread[t].command /\ row[n].task = thread[t].task
    BY <1>2 DEF JobInv, SubmitsOwnRow, Exists
  <2>3. QED
    BY <1>2, <2>1, <2>2 DEF JobInv, AnswersStored, Exists
<1>15. SubmitsOwnRow'
  BY <1>2, <1>3 DEF JobInv, SubmitsOwnRow, IdleThread
<1>16. HeldRowsExist' /\ RunAtMostOnce'
  BY <1>2 DEF JobInv, HeldRowsExist, RunAtMostOnce, Exists
<1>17. QED
  BY <1>1, <1>4, <1>12, <1>13, <1>14, <1>15, <1>16, KeptRows DEF JobInv, Typed


LEMMA SubmitRefusedJobInv ==
  ASSUME JobInv, NEW t \in Threads, SubmitRefused(t)
  PROVE  JobInv'
<1> DEFINE n == thread[t].job
<1>1. Typed'
  BY ThreadTyped DEF JobInv, Typed, ThreadStep
<1>2. /\ thread[t].pc = "submit" /\ n \in Jobs
      /\ row' = [row EXCEPT ![n].status = "failed", ![n].error = "queue_unavailable"]
      /\ thread' = [thread EXCEPT ![t] = IdleThread]
      /\ UNCHANGED <<queue, worker, orphans, answers, runs>>
  BY DEF SubmitRefused, Rest, JobInv, Formed
<1>3. row \in [Jobs -> Row] /\ thread \in [Threads -> ThreadState]
  BY DEF JobInv, TypeOK
<1>4. Exists(n)
  BY <1>2 DEF JobInv, SubmitsOwnRow, Exists
<1>5. RowsKept
  BY <1>2, <1>3, <1>4 DEF RowsKept, Exists, Row
<1>6. ClaimsGivenUp
  BY <1>2, <1>3 DEF ClaimsGivenUp, Holding, InQueue, Fetched, IdleThread
<1>7. SubmitsOwnRow'
  <2>1. \A u \in Threads : thread'[u].pc = "submit" => u # t /\ thread'[u] = thread[u]
    BY <1>2, <1>3 DEF IdleThread
  <2>2. \A u \in Threads : thread[u].pc = "submit" => thread[u].job \in Jobs
    BY DEF JobInv, Formed
  <2>3. QED
    BY <1>5, <2>1, <2>2 DEF JobInv, SubmitsOwnRow, RowsKept, Exists
<1>8. HeldRowsExist'
  <2>1. /\ \A p \in Procs : worker[p].pc # "idle" => worker[p].job \in Jobs
        /\ orphans \subseteq Jobs
    BY DEF JobInv, Formed, TypeOK
  <2>2. QED
    BY <1>2, <1>5, <2>1, KeptRows DEF JobInv, HeldRowsExist
<1>9. RunAtMostOnce'
  BY <1>2 DEF JobInv, RunAtMostOnce
<1>10. QED
  BY <1>1, <1>2, <1>5, <1>6, <1>7, <1>8, <1>9, KeptRows, ClaimsShrink DEF JobInv, Typed

LEMMA ThreadJobInv ==
  ASSUME JobInv, NEW t \in Threads, ThreadStep(t)
  PROVE  JobInv'
<1>1. Typed'
  BY ThreadTyped DEF JobInv, Typed
<1>2. CASE Admit(t) \/ Refuse(t) \/ InsertConflict(t)
  <2>1. UNCHANGED <<row, runs, orphans, queue, worker, answers>>
    BY <1>2 DEF Admit, Refuse, InsertConflict, db
  <2>2. \A u \in Threads : thread'[u].pc = "submit" => thread'[u] = thread[u]
    BY <1>2 DEF Admit, Refuse, InsertConflict, Rest, IdleThread, JobInv, TypeOK, ThreadState
  <2>3. ClaimsGivenUp
    BY <2>1, <2>2 DEF ClaimsGivenUp, Holding, InQueue, Fetched
  <2>4. AnswersStored'
    BY <2>1 DEF JobInv, AnswersStored, Exists
  <2>5. QED
    BY <1>1, <2>1, <2>2, <2>3, <2>4, QuietStep DEF JobInv, HeldRowsExist
<1>3. QED
  BY <1>2, InsertJobInv, SubmitJobInv, SubmitRefusedJobInv DEF ThreadStep

LEMMA FetchJobInv ==
  ASSUME JobInv, NEW q \in Procs, Fetch(q)
  PROVE  JobInv'
<1> DEFINE n == Head(queue[q])
<1>1. Typed'
  BY WorkerTyped DEF JobInv, Typed, WorkerStep
<1>2. queue[q] \in Seq(Jobs) /\ queue[q] # <<>> /\ n \in Jobs
  BY DEF Fetch, JobInv, TypeOK
<1>3. /\ \A i, k \in 1..Len(queue[q]) : queue[q][i] = queue[q][k] => i = k
      /\ InQueue(q, n)
  BY <1>2, MemberOfTail DEF JobInv, ClaimsExclusive, InQueue
<1>4. /\ queue' = [queue EXCEPT ![q] = Tail(queue[q])]
      /\ UNCHANGED <<row, thread, orphans, answers, runs>>
      /\ queue \in [Procs -> Seq(Jobs)] /\ worker \in [Procs -> WorkerState]
      /\ worker[q].pc = "idle"
  BY DEF Fetch, db, JobInv, TypeOK
<1>5. \A p \in Procs, j \in Jobs : InQueue(p, j)' <=> InQueue(p, j) /\ ~(p = q /\ j = n)
  <2>1. ASSUME NEW p \in Procs, NEW j \in Jobs
        PROVE  InQueue(p, j)' <=> InQueue(p, j) /\ ~(p = q /\ j = n)
    <3>1. CASE p # q
      BY <1>4, <3>1 DEF InQueue
    <3>2. CASE p = q
      <4>1. queue'[p] = Tail(queue[q])
        BY <1>4, <3>2
      <4>2. QED
        BY <1>2, <1>3, <3>2, <4>1, MemberOfTail DEF InQueue
    <3>3. QED
      BY <3>1, <3>2
  <2>2. QED
    BY <2>1
<1>6. \A p \in Procs : \A i, k \in 1..Len(queue'[p]) : queue'[p][i] = queue'[p][k] => i = k
  <2>1. ASSUME NEW p \in Procs
        PROVE  \A i, k \in 1..Len(queue'[p]) : queue'[p][i] = queue'[p][k] => i = k
    <3>1. CASE p # q
      BY <1>4, <3>1 DEF JobInv, ClaimsExclusive
    <3>2. CASE p = q
      <4>1. queue'[p] = Tail(queue[q])
        BY <1>4, <3>2
      <4>2. \A i, k \in 1..Len(Tail(queue[q])) : Tail(queue[q])[i] = Tail(queue[q])[k] => i = k
        BY <1>2, <1>3, MemberOfTail, Zenon
      <4>3. QED
        BY <4>1, <4>2, Zenon
    <3>3. QED
      BY <3>1, <3>2
  <2>2. QED
    BY <2>1
<1>7. \A p \in Procs, j \in Jobs : Fetched(p, j)' => Fetched(p, j) \/ (p = q /\ j = n)
  BY <1>4 DEF Fetch, Fetched
<1>8. \A t \in Threads, j \in Jobs : Holding(t, j)' <=> Holding(t, j)
  BY <1>4 DEF Holding
<1>9. Fresh(n) /\ RowsKept
  BY <1>2, <1>3, <1>4 DEF JobInv, ClaimsFresh, RowsKept, Exists
<1>10. ClaimsFresh'
  BY <1>4, <1>5, <1>7, <1>8, <1>9 DEF JobInv, ClaimsFresh, Fresh, Exists
<1>11. ClaimsExclusive'
  <2>1. ASSUME NEW j \in Jobs, NEW t \in Threads
        PROVE  /\ \A u \in Threads : Holding(t, j)' /\ Holding(u, j)' => t = u
               /\ \A p \in Procs : Holding(t, j)' => ~InQueue(p, j)' /\ ~Fetched(p, j)'
    BY <1>2, <1>3, <1>5, <1>7, <1>8 DEF JobInv, ClaimsExclusive
  <2>2. ASSUME NEW j \in Jobs, NEW p \in Procs, NEW r \in Procs
        PROVE  /\ InQueue(p, j)' /\ InQueue(r, j)' => p = r
               /\ Fetched(p, j)' /\ Fetched(r, j)' => p = r
               /\ ~(InQueue(p, j)' /\ Fetched(r, j)')
    BY <1>2, <1>3, <1>5, <1>7 DEF JobInv, ClaimsExclusive
  <2>3. QED
    BY <1>6, <2>1, <2>2 DEF ClaimsExclusive
<1>12. HeldRowsExist'
  <2>1. \A p \in Procs : worker'[p] = worker[p] \/ (p = q /\ worker'[p].job = n)
    BY <1>4 DEF Fetch
  <2>2. Exists(n)
    BY <1>9 DEF Fresh
  <2>3. QED
    BY <1>4, <2>1, <2>2 DEF JobInv, HeldRowsExist, Exists
<1>13. SubmitsOwnRow' /\ RunAtMostOnce' /\ AnswersStored'
  BY <1>4 DEF JobInv, SubmitsOwnRow, RunAtMostOnce, AnswersStored, Exists
<1>14. QED
  BY <1>1, <1>9, <1>10, <1>11, <1>12, <1>13, KeptRows DEF JobInv, Typed

LEMMA BeginJobInv ==
  ASSUME JobInv, NEW q \in Procs, Begin(q)
  PROVE  JobInv'
<1> DEFINE n == worker[q].job
<1>1. Typed'
  BY WorkerTyped DEF JobInv, Typed, WorkerStep
<1>2. /\ n \in Jobs /\ worker[q].pc = "fetched" /\ Exists(n)
      /\ row' = [row EXCEPT ![n].status = "running"]
      /\ runs' = [runs EXCEPT ![n] = @ + 1]
      /\ worker' = [worker EXCEPT ![q].pc = "running"]
      /\ UNCHANGED <<thread, queue, orphans, answers>>
  BY DEF Begin, JobInv, Formed, HeldRowsExist
<1>3. /\ row \in [Jobs -> Row] /\ runs \in [Jobs -> Nat] /\ worker \in [Procs -> WorkerState]
  BY DEF JobInv, TypeOK
<1>4. Fetched(q, n) /\ Fresh(n)
  BY <1>2 DEF Fetched, JobInv, ClaimsFresh
<1>5. RowsKept
  BY <1>2, <1>3 DEF RowsKept, Exists, Row
<1>6. /\ \A t \in Threads : ~Holding(t, n)
      /\ \A p \in Procs : ~InQueue(p, n)
      /\ \A p \in Procs : Fetched(p, n) => p = q
  BY <1>2, <1>4 DEF JobInv, ClaimsExclusive
<1>7. \A p \in Procs, j \in Jobs : Fetched(p, j)' => Fetched(p, j) /\ p # q
  BY <1>2, <1>3 DEF Fetched, WorkerState
<1>8. ClaimsGivenUp
  <2>1. \A p \in Procs, j \in Jobs : InQueue(p, j)' <=> InQueue(p, j)
    BY <1>2 DEF InQueue
  <2>2. \A t \in Threads, j \in Jobs : Holding(t, j)' <=> Holding(t, j)
    BY <1>2 DEF Holding
  <2>3. \A j \in Jobs : j # n => runs'[j] = runs[j]
    BY <1>2, <1>3
  <2>4. QED
    BY <1>2, <1>6, <1>7, <2>1, <2>2, <2>3 DEF ClaimsGivenUp
<1>9. RunAtMostOnce'
  BY <1>2, <1>3, <1>4 DEF JobInv, RunAtMostOnce, Fresh
<1>10. HeldRowsExist'
  <2>1. \A p \in Procs : worker'[p].job = worker[p].job /\ (worker'[p].pc # "idle" => worker[p].pc # "idle")
    BY <1>2, <1>3 DEF WorkerState
  <2>2. /\ \A p \in Procs : worker[p].pc # "idle" => worker[p].job \in Jobs
        /\ orphans \subseteq Jobs
    BY DEF JobInv, Formed, TypeOK
  <2>3. QED
    BY <1>2, <1>5, <2>1, <2>2, KeptRows DEF JobInv, HeldRowsExist
<1>11. SubmitsOwnRow'
  <2>1. \A u \in Threads : thread[u].pc = "submit" => thread[u].job \in Jobs
    BY DEF JobInv, Formed
  <2>2. QED
    BY <1>2, <1>5, <2>1 DEF JobInv, SubmitsOwnRow, RowsKept, Exists
<1>12. QED
  BY <1>1, <1>2, <1>5, <1>8, <1>9, <1>10, <1>11, KeptRows, ClaimsShrink DEF JobInv, Typed


\* Succeed and Stop: the row of the worker's job is closed, whatever it says.
LEMMA FinishJobInv ==
  ASSUME JobInv, NEW q \in Procs,
         Succeed(q) \/ \E s \in {"paused", "failed"} : Stop(q, s)
  PROVE  JobInv'
<1> DEFINE n == worker[q].job
<1>1. Typed'
  BY WorkerTyped DEF JobInv, Typed, WorkerStep
<1>2. /\ n \in Jobs /\ Exists(n)
      /\ \/ row' = [row EXCEPT ![n].status = "succeeded"]
         \/ \E s \in {"paused", "failed"} : row' = [row EXCEPT ![n].status = s, ![n].error = "stopped"]
      /\ worker' = [worker EXCEPT ![q] = IdleWorker]
      /\ UNCHANGED <<thread, queue, orphans, answers, runs>>
  BY DEF Succeed, Stop, JobInv, Formed, HeldRowsExist
<1>3. row \in [Jobs -> Row] /\ worker \in [Procs -> WorkerState]
  BY DEF JobInv, TypeOK
<1>4. RowsKept
  BY <1>2, <1>3 DEF RowsKept, Exists, Row
<1>5. \A p \in Procs : worker'[p].pc # "idle" => worker'[p] = worker[p]
  BY <1>2, <1>3 DEF IdleWorker
<1>6. ClaimsGivenUp
  BY <1>2, <1>5 DEF ClaimsGivenUp, Holding, InQueue, Fetched
<1>7. HeldRowsExist'
  <2>1. /\ \A p \in Procs : worker[p].pc # "idle" => worker[p].job \in Jobs
        /\ orphans \subseteq Jobs
    BY DEF JobInv, Formed, TypeOK
  <2>2. QED
    BY <1>2, <1>4, <1>5, <2>1, KeptRows DEF JobInv, HeldRowsExist
<1>8. SubmitsOwnRow'
  <2>1. \A u \in Threads : thread[u].pc = "submit" => thread[u].job \in Jobs
    BY DEF JobInv, Formed
  <2>2. QED
    BY <1>2, <1>4, <2>1 DEF JobInv, SubmitsOwnRow, RowsKept, Exists
<1>9. RunAtMostOnce'
  BY <1>2 DEF JobInv, RunAtMostOnce
<1>10. QED
  BY <1>1, <1>2, <1>4, <1>6, <1>7, <1>8, <1>9, KeptRows, ClaimsShrink DEF JobInv, Typed

LEMMA WorkerJobInv ==
  ASSUME JobInv, NEW q \in Procs, WorkerStep(q) \/ LoseWrite(q)
  PROVE  JobInv'
<1>1. CASE LoseWrite(q)
  <2>1. Typed'
    BY <1>1, WorkerTyped DEF JobInv, Typed
  <2>2. UNCHANGED <<row, runs, orphans, queue, thread, answers>>
    BY <1>1 DEF LoseWrite, db
  <2>3. \A p \in Procs : worker'[p].pc = "idle" \/ worker'[p] = worker[p]
    BY <1>1 DEF LoseWrite, IdleWorker, JobInv, TypeOK
  <2>4. ClaimsGivenUp
    BY <2>2, <2>3 DEF ClaimsGivenUp, Holding, InQueue, Fetched
  <2>5. AnswersStored'
    BY <2>2 DEF JobInv, AnswersStored, Exists
  <2>6. QED
    BY <2>1, <2>2, <2>3, <2>4, <2>5, QuietStep DEF JobInv, HeldRowsExist
<1>2. QED
  BY <1>1, FetchJobInv, BeginJobInv, FinishJobInv DEF WorkerStep

LEMMA ReconcileJobInv ==
  ASSUME JobInv, NEW q \in Procs, Reconcile(q)
  PROVE  JobInv'
<1>1. Typed'
  BY ProcessTyped DEF JobInv, Typed
<1>2. /\ row' = [j \in Jobs |-> IF j \in orphans
                                THEN [row[j] EXCEPT !.status = "failed", !.error = "api_restarted"]
                                ELSE row[j]]
      /\ orphans' = {}
      /\ UNCHANGED <<worker, thread, queue, answers, runs>>
  BY DEF Reconcile
<1>3. row \in [Jobs -> Row]
  BY DEF JobInv, TypeOK
<1>4. RowsKept
  <2>1. ASSUME NEW j \in Jobs
        PROVE  /\ Exists(j) => row'[j].status # "absent"
               /\ row'[j].command = row[j].command /\ row'[j].task = row[j].task
               /\ ~Exists(j) => row'[j] = row[j]
    <3>1. CASE j \in orphans
      BY <1>2, <1>3, <3>1 DEF JobInv, HeldRowsExist, Row
    <3>2. CASE j \notin orphans
      BY <1>2, <3>2 DEF Exists
    <3>3. QED
      BY <3>1, <3>2
  <2>2. QED
    BY <1>2, <2>1 DEF RowsKept
<1>5. ClaimsGivenUp
  BY <1>2 DEF ClaimsGivenUp, Holding, InQueue, Fetched
<1>6. HeldRowsExist'
  <2>1. \A p \in Procs : worker[p].pc # "idle" => worker[p].job \in Jobs
    BY DEF JobInv, Formed
  <2>2. QED
    BY <1>2, <1>4, <2>1, KeptRows DEF JobInv, HeldRowsExist
<1>7. SubmitsOwnRow'
  <2>1. thread' = thread
    BY <1>2
  <2>2. ASSUME NEW u \in Threads, thread[u].pc = "submit"
        PROVE  /\ row'[thread[u].job].status # "absent"
               /\ row'[thread[u].job].command = thread[u].command
               /\ row'[thread[u].job].task = thread[u].task
    <3>1. thread[u].job \in Jobs
      BY <2>2 DEF JobInv, Formed
    <3>2. /\ row[thread[u].job].status # "absent"
          /\ row[thread[u].job].command = thread[u].command
          /\ row[thread[u].job].task = thread[u].task
      BY <2>2 DEF JobInv, SubmitsOwnRow
    <3>3. QED
      BY <1>4, <3>1, <3>2 DEF RowsKept, Exists
  <2>3. QED
    BY <2>1, <2>2 DEF SubmitsOwnRow
<1>8. RunAtMostOnce'
  BY <1>2 DEF JobInv, RunAtMostOnce
<1>9. QED
  BY <1>1, <1>2, <1>4, <1>5, <1>6, <1>7, <1>8, KeptRows, ClaimsShrink DEF JobInv, Typed

LEMMA ProcessJobInv ==
  ASSUME JobInv, NEW q \in Procs,
         Start(q) \/ Reconcile(q) \/ Shutdown(q) \/ Exit(q) \/ Crash(q)
  PROVE  JobInv'
<1>1. CASE Start(q) \/ Shutdown(q) \/ Exit(q) \/ Crash(q)
  <2>1. Typed'
    BY <1>1, ProcessTyped DEF JobInv, Typed
  <2>2. UNCHANGED <<row, runs, answers>>
    BY <1>1 DEF Start, StartReading, Shutdown, Exit, Crash, EndThreads, db
  <2>3. \A t \in Threads : thread'[t].pc = "submit" => thread'[t] = thread[t]
    BY <1>1 DEF Start, StartReading, Shutdown, Exit, Crash, EndThreads, IdleThread
  <2>4. \A p \in Procs : worker'[p].pc = "idle" \/ worker'[p] = worker[p]
    BY <1>1 DEF Start, StartReading, Shutdown, Exit, Crash, EndThreads, IdleWorker, JobInv, TypeOK
  <2>5. \A p \in Procs : queue'[p] = queue[p] \/ queue'[p] = <<>>
    BY <1>1 DEF Start, StartReading, Shutdown, Exit, Crash, EndThreads, JobInv, TypeOK
  <2>6. \A j \in orphans' : Exists(j)
    BY <1>1 DEF Start, StartReading, Shutdown, Exit, Crash, EndThreads, JobInv, HeldRowsExist,
                ActiveJobs, Active, ActiveStatus, Exists
  <2>7. ClaimsGivenUp
    BY <2>2, <2>3, <2>4, <2>5 DEF ClaimsGivenUp, Holding, InQueue, Fetched
  <2>8. AnswersStored'
    BY <2>2 DEF JobInv, AnswersStored, Exists
  <2>9. QED
    BY <2>1, <2>2, <2>3, <2>4, <2>6, <2>7, <2>8, QuietStep
<1>2. QED
  BY <1>1, ReconcileJobInv

LEMMA NextJobInv == JobInv /\ [Next]_vars => JobInv'
<1> SUFFICES ASSUME JobInv, [Next]_vars PROVE JobInv'
  OBVIOUS
<1>1. CASE UNCHANGED vars
  <2>1. Typed'
    BY <1>1, NextTyped DEF JobInv, Typed
  <2>2. ClaimsGivenUp /\ AnswersStored'
    BY <1>1 DEF vars, db, ClaimsGivenUp, Holding, InQueue, Fetched, JobInv, AnswersStored, Exists
  <2>3. QED
    BY <1>1, <2>1, <2>2, QuietStep DEF vars, db, JobInv, HeldRowsExist
<1>2. CASE Next
  BY <1>2, ThreadJobInv, RequestJobInv, WorkerJobInv, ProcessJobInv DEF Next
<1>3. QED
  BY <1>1, <1>2

LEMMA JobInvHolds == Spec => []JobInv
BY InitJobInv, NextJobInv, PTL DEF Spec

\* Two rows never carry the same command.
THEOREM CommandsUnique == Spec => []OneJobPerCommand
<1>1. JobInv => OneJobPerCommand
  BY DEF JobInv
<1>2. QED
  BY <1>1, JobInvHolds, PTL

\* All answers for one idempotency key name the same stored job and request.
THEOREM AnswersConsistent == Spec => []AnswersAgree
<1>1. JobInv => AnswersAgree
  <2> SUFFICES ASSUME JobInv PROVE AnswersAgree
    OBVIOUS
  <2>1. ASSUME NEW a \in answers, NEW b \in answers, a.command = b.command
        PROVE  a = b
    <3>1. a \in Answer /\ b \in Answer
      BY DEF JobInv, TypeOK
    <3>2. a.job \in Jobs /\ b.job \in Jobs
      BY <3>1 DEF Answer
    <3>3. a.job = b.job
      BY <2>1, <3>2 DEF JobInv, AnswersStored, OneJobPerCommand
    <3>4. a.task = b.task
      BY <3>3 DEF JobInv, AnswersStored
    <3>5. QED
      BY <2>1, <3>1, <3>3, <3>4 DEF Answer
  <2>2. QED
    BY <2>1 DEF AnswersAgree, JobInv, AnswersStored
<1>2. QED
  BY <1>1, JobInvHolds, PTL

\* No replay, shutdown, crash or restart starts the external run of a job a
\* second time.
THEOREM NoRepeatedRun == Spec => []RunAtMostOnce
<1>1. JobInv => RunAtMostOnce
  BY DEF JobInv
<1>2. QED
  BY <1>1, JobInvHolds, PTL

=============================================================================
