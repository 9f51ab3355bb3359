----------------------- MODULE CollectionRows_proofs -----------------------
(***************************************************************************)
(* While one API process serves at a time: final rows are final, the rows  *)
(* that are active, running or left without an owner are bounded, and the  *)
(* rows implement the job lifecycle, for any number of jobs, commands,     *)
(* threads, processes and lost commits.                                    *)
(***************************************************************************)
EXTENDS CollectionJobs_proofs, FiniteSetTheorems

Started(p) == proc[p] \in {"starting", "up", "draining"}

\* At most one process is there, and it alone has queued work, a worker that
\* is not idle and threads in flight.
OneProcess ==
  /\ \A p, q \in Procs : Started(p) /\ Started(q) => p = q
  /\ \A p \in Procs : /\ worker[p].pc # "idle" => Live(p)
                      /\ queue[p] # <<>> => proc[p] = "up"
  /\ \A t \in Threads : thread[t].pc # "idle" => Live(thread[t].proc)

\* A thread has a job only to submit it, and an idle worker has none.
NoSpareJobs ==
  /\ \A t \in Threads : thread[t].pc # "submit" => thread[t].job = None
  /\ \A p \in Procs : worker[p].pc = "idle" => worker[p].job = None

\* What is claimed is pending, and what a worker runs says "running".
ClaimsPending ==
  /\ \A t \in Threads, j \in Jobs : Holding(t, j) => row[j].status = "pending"
  /\ \A p \in Procs, j \in Jobs : InQueue(p, j) \/ Fetched(p, j) => row[j].status = "pending"
  /\ \A p \in Procs : worker[p].pc = "running" => row[worker[p].job].status = "running"

\* A process that starts has read all the rows that are active.
OrphansCurrent == \A p \in Procs : proc[p] = "starting" => orphans = ActiveJobs

RowInv == JobInv /\ OneProcess /\ NoSpareJobs /\ ClaimsPending /\ OrphansCurrent

\* The bounds.  A thread between the count and the insert has its place.
Inserters == {t \in Threads : thread[t].pc = "insert"}
PlacesCounted ==
  /\ IsFiniteSet(ActiveJobs)
  /\ Cardinality(ActiveJobs) + Cardinality(Inserters) <= QueueLimit + Cardinality(Threads) - 1

\* The rows that say "running" beside the one the worker of p has.
RunningRows == {j \in Jobs : row[j].status = "running"}
Beside(p) == {j \in RunningRows : worker[p].job # j}
RunningCounted ==
  /\ Cardinality(RunningRows) <= 1 + faults
  /\ \A p \in Procs : Live(p) => Cardinality(Beside(p)) <= faults

Unowned(p) == {j \in ActiveJobs : ~Owned(p, j)}
OwnersCounted == \A p \in Procs : proc[p] = "up" => Cardinality(Unowned(p)) <= faults

BoundsInv == RowInv /\ PlacesCounted /\ RunningCounted /\ OwnersCounted
-----------------------------------------------------------------------------
(* RowInv is inductive while no two processes overlap.                     *)

LEMMA Shapes ==
  ASSUME JobInv
  PROVE  /\ row \in [Jobs -> Row] /\ thread \in [Threads -> ThreadState]
         /\ worker \in [Procs -> WorkerState] /\ queue \in [Procs -> Seq(Jobs)]
         /\ proc \in [Procs -> {"off", "starting", "up", "draining", "gone"}]
         /\ orphans \subseteq Jobs /\ faults \in Nat /\ faults <= MaxFaults
         /\ \A u \in Threads : thread[u].pc # "idle" =>
              thread[u].proc \in Procs /\ thread[u].command \in Commands
         /\ \A u \in Threads : thread[u].pc = "submit" => thread[u].job \in Jobs
         /\ \A p \in Procs : worker[p].pc # "idle" => worker[p].job \in Jobs
         /\ None \notin Jobs /\ None \notin Procs
BY JobsAssumption DEF JobInv, TypeOK, Formed

LEMMA InitRowInv == Init => RowInv
<1> SUFFICES ASSUME Init PROVE RowInv
  OBVIOUS
<1>1. OneProcess /\ NoSpareJobs /\ OrphansCurrent
  BY DEF Init, OneProcess, Started, Live, IdleWorker, IdleThread, NoSpareJobs, OrphansCurrent
<1>2. ClaimsPending
  BY DEF Init, ClaimsPending, Holding, InQueue, Fetched, IdleWorker, IdleThread
<1>3. QED
  BY <1>1, <1>2, InitJobInv DEF RowInv

\* The steps that leave the rows alone and at most give claims up.
LEMMA ClaimsLeft ==
  ASSUME RowInv, row' = row,
         \A t \in Threads : thread'[t].pc = "submit" => thread'[t] = thread[t],
         \A p \in Procs : worker'[p] = worker[p] \/ worker'[p].pc = "idle",
         \A p \in Procs : queue'[p] = queue[p] \/ queue'[p] = <<>>
  PROVE  ClaimsPending'
<1>1. \A t \in Threads, j \in Jobs : Holding(t, j)' => Holding(t, j)
  BY DEF Holding
<1>2. \A p \in Procs, j \in Jobs : InQueue(p, j)' => InQueue(p, j)
  BY DEF InQueue
<1>3. \A p \in Procs, j \in Jobs : Fetched(p, j)' => Fetched(p, j)
  BY DEF Fetched
<1>4. QED
  BY <1>1, <1>2, <1>3 DEF RowInv, ClaimsPending

\* While a process serves, none is starting.
LEMMA NoneStarting ==
  ASSUME RowInv, NEW p \in Procs, Live(p)
  PROVE  \A q \in Procs : proc[q] # "starting" /\ (Live(q) => q = p)
BY DEF RowInv, OneProcess, Started, Live

\* A thread or worker step keeps what concerns the processes.
LEMMA ServingStep ==
  ASSUME RowInv, NEW p \in Procs, Live(p), proc' = proc, JobInv',
         \A q \in Procs \ {p} : worker'[q] = worker[q] /\ queue'[q] = queue[q],
         worker'[p].pc = "idle" => worker'[p].job = None,
         queue'[p] # <<>> => proc[p] = "up",
         \A u \in Threads : /\ thread'[u].pc # "idle" => Live(thread'[u].proc)
                            /\ thread'[u].pc # "submit" => thread'[u].job = None,
         ClaimsPending'
  PROVE  RowInv'
<1>1. OneProcess'
  BY DEF RowInv, OneProcess, Started, Live
<1>2. NoSpareJobs'
  BY DEF RowInv, NoSpareJobs
<1>3. OrphansCurrent'
  BY NoneStarting DEF OrphansCurrent
<1>4. QED
  BY <1>1, <1>2, <1>3 DEF RowInv

LEMMA ThreadFacts ==
  ASSUME RowInv, NEW t \in Threads, thread[t].pc # "idle"
  PROVE  thread[t].proc \in Procs /\ Live(thread[t].proc)
BY Shapes DEF RowInv, OneProcess

\* The threads that are not t, and what is not theirs.
LEMMA OtherThreads ==
  ASSUME RowInv, NEW u \in Threads
  PROVE  /\ thread[u].pc # "idle" => Live(thread[u].proc)
         /\ thread[u].pc # "submit" => thread[u].job = None
BY DEF RowInv, OneProcess, NoSpareJobs

LEMMA RequestRowInv ==
  ASSUME RowInv, NEW p \in Procs, NEW c \in Commands, NEW k \in Tasks,
         (\E j \in Jobs : Replay(p, c, k, j)) \/ (\E t \in Threads : Lookup(t, p, c, k))
  PROVE  RowInv'
<1>1. /\ JobInv' /\ Live(p) /\ row' = row /\ proc' = proc /\ worker' = worker /\ queue' = queue
  BY RequestJobInv DEF RowInv, Replay, Lookup, db, Live
<1>2. \A u \in Threads :
        \/ thread'[u] = thread[u]
        \/ thread'[u] = [pc |-> "admit", proc |-> p, command |-> c, task |-> k, job |-> None]
  BY Shapes DEF RowInv, Replay, Lookup, db
<1>3. \A u \in Threads : thread'[u].pc = "submit" => thread'[u] = thread[u]
  BY <1>2
<1>4. ClaimsPending'
  BY <1>1, <1>3, ClaimsLeft
<1>5. \A u \in Threads : /\ thread'[u].pc # "idle" => Live(thread'[u].proc)
                         /\ thread'[u].pc # "submit" => thread'[u].job = None
  BY <1>1, <1>2, OtherThreads
<1>6. QED
  BY <1>1, <1>4, <1>5, ServingStep DEF RowInv, OneProcess, NoSpareJobs

LEMMA InsertEffect ==
  ASSUME JobInv, NEW t \in Threads, NEW n \in Jobs, Insert(t, n)
  PROVE  /\ thread[t].pc = "insert" /\ row[n].status = "absent" /\ ~HasRow(thread[t].command)
         /\ row'[n].status = "pending" /\ row'[n].command = thread[t].command
         /\ \A j \in Jobs \ {n} : row'[j] = row[j]
         /\ thread'[t].pc = "submit" /\ thread'[t].job = n /\ thread'[t].proc = thread[t].proc
         /\ \A u \in Threads \ {t} : thread'[u] = thread[u]
         /\ UNCHANGED <<proc, orphans, queue, worker, faults>>
<1>1. thread \in [Threads -> ThreadState] /\ thread[t] \in ThreadState /\ row \in [Jobs -> Row]
  BY Shapes
<1>2. thread' = [thread EXCEPT ![t] = [thread[t] EXCEPT !.pc = "submit", !.job = n]]
  BY <1>1 DEF Insert
<1>3. QED
  BY <1>1, <1>2 DEF Insert, ThreadState, Exists

LEMMA InsertRowInv ==
  ASSUME RowInv, NEW t \in Threads, NEW n \in Jobs, Insert(t, n)
  PROVE  RowInv'
<1>1. /\ thread[t].pc = "insert" /\ row[n].status = "absent"
      /\ row'[n].status = "pending"
      /\ \A j \in Jobs \ {n} : row'[j] = row[j]
      /\ thread'[t].pc = "submit" /\ thread'[t].job = n /\ thread'[t].proc = thread[t].proc
      /\ \A u \in Threads \ {t} : thread'[u] = thread[u]
      /\ UNCHANGED <<proc, orphans, queue, worker>>
  BY InsertEffect DEF RowInv
<1>2. thread[t].proc \in Procs /\ Live(thread[t].proc)
  BY <1>1, ThreadFacts
<1>3. JobInv'
  BY InsertJobInv DEF RowInv
<1>4. ClaimsPending'
  <2>1. \A u \in Threads, j \in Jobs : Holding(u, j)' => Holding(u, j) \/ j = n
    BY <1>1 DEF Holding
  <2>2. \A p \in Procs, j \in Jobs : InQueue(p, j)' \/ Fetched(p, j)' => InQueue(p, j) \/ Fetched(p, j)
    BY <1>1 DEF InQueue, Fetched
  <2>3. \A p \in Procs : worker[p].pc = "running" =>
          worker[p].job \in Jobs /\ row[worker[p].job].status = "running"
    BY Shapes DEF RowInv, ClaimsPending
  <2>4. QED
    BY <1>1, <2>1, <2>2, <2>3 DEF RowInv, ClaimsPending
<1>5. \A u \in Threads : /\ thread'[u].pc # "idle" => Live(thread'[u].proc)
                         /\ thread'[u].pc # "submit" => thread'[u].job = None
  BY <1>1, <1>2, OtherThreads
<1>6. QED
  BY <1>1, <1>2, <1>3, <1>4, <1>5, ServingStep DEF RowInv, OneProcess, NoSpareJobs

LEMMA SubmitEffect ==
  ASSUME RowInv, NEW t \in Threads, Submit(t)
  PROVE  LET p == thread[t].proc  n == thread[t].job IN
         /\ thread[t].pc = "submit" /\ p \in Procs /\ n \in Jobs /\ proc[p] = "up"
         /\ Holding(t, n) /\ row[n].status = "pending"
         /\ \A q \in Procs \ {p} : queue'[q] = queue[q]
         /\ \A q \in Procs, j \in Jobs : InQueue(q, j)' <=> InQueue(q, j) \/ (q = p /\ j = n)
         /\ thread'[t] = IdleThread
         /\ \A u \in Threads \ {t} : thread'[u] = thread[u]
         /\ UNCHANGED <<row, proc, orphans, worker, faults>>
<1> DEFINE p == thread[t].proc
           n == thread[t].job
<1>1. /\ thread[t].pc = "submit" /\ p \in Procs /\ n \in Jobs /\ proc[p] = "up"
      /\ UNCHANGED <<row, proc, orphans, worker, faults>>
      /\ queue' = [queue EXCEPT ![p] = Append(queue[p], n)]
      /\ thread' = [thread EXCEPT ![t] = IdleThread]
  BY Shapes DEF RowInv, Submit, Rest, db
<1>2. thread'[t] = IdleThread /\ \A u \in Threads \ {t} : thread'[u] = thread[u]
  BY <1>1, Shapes DEF RowInv
<1>3. Holding(t, n) /\ row[n].status = "pending"
  BY <1>1 DEF Holding, RowInv, ClaimsPending
<1>4. /\ queue'[p] = Append(queue[p], n) /\ queue[p] \in Seq(Jobs)
      /\ \A q \in Procs \ {p} : queue'[q] = queue[q]
  BY <1>1, Shapes DEF RowInv
<1>5. ASSUME NEW q \in Procs, NEW j \in Jobs
      PROVE  InQueue(q, j)' <=> InQueue(q, j) \/ (q = p /\ j = n)
  <2>1. CASE q # p
    BY <1>4, <2>1 DEF InQueue
  <2>2. CASE q = p
    <3>1. queue'[q] = Append(queue[q], n) /\ queue[q] \in Seq(Jobs) /\ n \in Jobs
      BY <1>1, <1>4, <2>2
    <3>2. (\E i \in 1..Len(Append(queue[q], n)) : Append(queue[q], n)[i] = j)
            <=> (\E i \in 1..Len(queue[q]) : queue[q][i] = j) \/ j = n
      BY <3>1, MemberOfAppend, Zenon
    <3>3. InQueue(q, j)' <=> InQueue(q, j) \/ j = n
      BY <3>1, <3>2, Zenon DEF InQueue
    <3>4. QED
      BY <2>2, <3>3
  <2>3. QED
    BY <2>1, <2>2
<1>6. QED
  BY <1>1, <1>2, <1>3, <1>4, <1>5

LEMMA SubmitRowInv ==
  ASSUME RowInv, NEW t \in Threads, Submit(t)
  PROVE  RowInv'
<1> DEFINE p == thread[t].proc
           n == thread[t].job
<1>1. /\ thread[t].pc = "submit" /\ p \in Procs /\ n \in Jobs /\ proc[p] = "up"
      /\ Holding(t, n) /\ row[n].status = "pending"
      /\ \A q \in Procs \ {p} : queue'[q] = queue[q]
      /\ \A q \in Procs, j \in Jobs : InQueue(q, j)' <=> InQueue(q, j) \/ (q = p /\ j = n)
      /\ thread'[t] = IdleThread
      /\ \A u \in Threads \ {t} : thread'[u] = thread[u]
      /\ UNCHANGED <<row, proc, orphans, worker>>
  BY SubmitEffect
<1>2. JobInv' /\ Live(p)
  BY <1>1, SubmitJobInv DEF RowInv, Live
<1> HIDE DEF p, n
<1>3. ClaimsPending'
  <2>1. \A u \in Threads, j \in Jobs : Holding(u, j)' => Holding(u, j)
    BY <1>1 DEF Holding, IdleThread
  <2>2. \A q \in Procs, j \in Jobs : Fetched(q, j)' => Fetched(q, j)
    BY <1>1 DEF Fetched
  <2>3. QED
    BY <1>1, <2>1, <2>2 DEF RowInv, ClaimsPending
<1>4. \A u \in Threads : /\ thread'[u].pc # "idle" => Live(thread'[u].proc)
                         /\ thread'[u].pc # "submit" => thread'[u].job = None
  BY <1>1, OtherThreads DEF IdleThread
<1>5. QED
  BY <1>1, <1>2, <1>3, <1>4, ServingStep DEF RowInv, NoSpareJobs

LEMMA RefusedEffect ==
  ASSUME RowInv, NEW t \in Threads, SubmitRefused(t)
  PROVE  LET p == thread[t].proc  n == thread[t].job IN
         /\ thread[t].pc = "submit" /\ p \in Procs /\ n \in Jobs /\ proc[p] = "draining"
         /\ Holding(t, n) /\ row[n].status = "pending"
         /\ row'[n].status = "failed" /\ row'[n].command = row[n].command
         /\ \A j \in Jobs \ {n} : row'[j] = row[j]
         /\ thread'[t] = IdleThread
         /\ \A u \in Threads \ {t} : thread'[u] = thread[u]
         /\ UNCHANGED <<proc, orphans, queue, worker, faults>>
<1> DEFINE p == thread[t].proc
           n == thread[t].job
<1>1. /\ thread[t].pc = "submit" /\ p \in Procs /\ n \in Jobs /\ proc[p] = "draining"
      /\ UNCHANGED <<proc, orphans, queue, worker, faults>>
      /\ row' = [row EXCEPT ![n].status = "failed", ![n].error = "queue_unavailable"]
      /\ thread' = [thread EXCEPT ![t] = IdleThread]
  BY Shapes DEF RowInv, SubmitRefused, Rest
<1>2. thread'[t] = IdleThread /\ \A u \in Threads \ {t} : thread'[u] = thread[u]
  BY <1>1, Shapes DEF RowInv
<1>3. Holding(t, n) /\ row[n].status = "pending"
  BY <1>1 DEF Holding, RowInv, ClaimsPending
<1>4. row \in [Jobs -> Row] /\ row[n] \in Row
  BY <1>1, Shapes DEF RowInv
<1>5. /\ row'[n].status = "failed" /\ row'[n].command = row[n].command
      /\ \A j \in Jobs \ {n} : row'[j] = row[j]
  BY <1>1, <1>4 DEF Row
<1>6. QED
  BY <1>1, <1>2, <1>3, <1>5

LEMMA RefusedRowInv ==
  ASSUME RowInv, NEW t \in Threads, SubmitRefused(t)
  PROVE  RowInv'
<1> DEFINE p == thread[t].proc
           n == thread[t].job
<1>1. /\ thread[t].pc = "submit" /\ p \in Procs /\ n \in Jobs /\ proc[p] = "draining"
      /\ Holding(t, n) /\ row[n].status = "pending"
      /\ \A j \in Jobs \ {n} : row'[j] = row[j]
      /\ thread'[t] = IdleThread
      /\ \A u \in Threads \ {t} : thread'[u] = thread[u]
      /\ UNCHANGED <<proc, orphans, queue, worker>>
  BY RefusedEffect
<1>2. JobInv' /\ Live(p)
  BY <1>1, SubmitRefusedJobInv DEF RowInv, Live
<1> HIDE DEF p, n
<1>3. ClaimsPending'
  <2>1. \A u \in Threads, j \in Jobs : Holding(u, j)' => Holding(u, j) /\ u # t
    BY <1>1 DEF Holding, IdleThread
  <2>2. \A q \in Procs, j \in Jobs : /\ Fetched(q, j)' => Fetched(q, j)
                                     /\ InQueue(q, j)' => InQueue(q, j)
    BY <1>1 DEF Fetched, InQueue
  <2>3. /\ \A u \in Threads : Holding(u, n) => u = t
        /\ \A q \in Procs : ~InQueue(q, n) /\ ~Fetched(q, n)
    BY <1>1 DEF RowInv, JobInv, ClaimsExclusive
  <2>4. \A q \in Procs : worker[q].pc = "running" =>
          worker[q].job \in Jobs /\ row[worker[q].job].status = "running"
    BY Shapes DEF RowInv, ClaimsPending
  <2>5. \A q \in Procs : worker'[q].pc = "running" => row'[worker'[q].job].status = "running"
    BY <1>1, <2>4
  <2>6. \A u \in Threads, j \in Jobs : Holding(u, j)' => row'[j].status = "pending"
    BY <1>1, <2>1, <2>3 DEF RowInv, ClaimsPending
  <2>7. ASSUME NEW q \in Procs, NEW j \in Jobs, InQueue(q, j)' \/ Fetched(q, j)'
        PROVE  row'[j].status = "pending"
    <3>1. InQueue(q, j) \/ Fetched(q, j)
      BY <1>1, <2>7 DEF InQueue, Fetched
    <3>2. row[j].status = "pending"
      BY <3>1 DEF RowInv, ClaimsPending
    <3>3. j # n
      BY <2>3, <3>1
    <3>4. QED
      BY <1>1, <3>2, <3>3
  <2>8. QED
    BY <2>5, <2>6, <2>7 DEF ClaimsPending
<1>4. \A u \in Threads : /\ thread'[u].pc # "idle" => Live(thread'[u].proc)
                         /\ thread'[u].pc # "submit" => thread'[u].job = None
  BY <1>1, OtherThreads DEF IdleThread
<1>5. QED
  BY <1>1, <1>2, <1>3, <1>4, ServingStep DEF RowInv, OneProcess, NoSpareJobs

\* Admit, Refuse and InsertConflict.
LEMMA WaitEffect ==
  ASSUME RowInv, NEW t \in Threads, Admit(t) \/ Refuse(t) \/ InsertConflict(t)
  PROVE  /\ thread[t].pc \in {"admit", "insert"}
         /\ \/ thread'[t].pc = "insert" /\ thread'[t].job = None /\ thread'[t].proc = thread[t].proc
               /\ Cardinality(ActiveJobs) < QueueLimit
            \/ thread'[t] = IdleThread
         /\ \A u \in Threads \ {t} : thread'[u] = thread[u]
         /\ UNCHANGED <<row, proc, orphans, queue, worker, faults>>
<1>1. thread \in [Threads -> ThreadState] /\ thread[t] \in ThreadState
  BY Shapes DEF RowInv
<1>2. CASE Admit(t)
  <2>1. thread' = [thread EXCEPT ![t] = [thread[t] EXCEPT !.pc = "insert"]] /\ thread[t].pc = "admit"
    BY <1>2 DEF Admit
  <2>2. thread[t].job = None
    BY <2>1, OtherThreads
  <2>3. QED
    BY <1>1, <1>2, <2>1, <2>2 DEF Admit, ThreadState, db
<1>3. CASE Refuse(t) \/ InsertConflict(t)
  BY <1>1, <1>3 DEF Refuse, InsertConflict, Rest, db
<1>4. QED
  BY <1>2, <1>3

LEMMA WaitRowInv ==
  ASSUME RowInv, NEW t \in Threads, Admit(t) \/ Refuse(t) \/ InsertConflict(t)
  PROVE  RowInv'
<1>1. /\ thread[t].pc \in {"admit", "insert"}
      /\ \/ thread'[t].pc = "insert" /\ thread'[t].job = None /\ thread'[t].proc = thread[t].proc
         \/ thread'[t] = IdleThread
      /\ \A u \in Threads \ {t} : thread'[u] = thread[u]
      /\ UNCHANGED <<row, proc, orphans, queue, worker>>
  BY WaitEffect
<1>2. JobInv' /\ thread[t].proc \in Procs /\ Live(thread[t].proc)
  BY <1>1, ThreadFacts, ThreadJobInv DEF RowInv, ThreadStep
<1>3. \A u \in Threads : thread'[u].pc = "submit" => thread'[u] = thread[u]
  BY <1>1 DEF IdleThread
<1>4. ClaimsPending'
  BY <1>1, <1>3, ClaimsLeft
<1>5. \A u \in Threads : /\ thread'[u].pc # "idle" => Live(thread'[u].proc)
                         /\ thread'[u].pc # "submit" => thread'[u].job = None
  BY <1>1, <1>2, OtherThreads DEF IdleThread
<1>6. QED
  BY <1>1, <1>2, <1>4, <1>5, ServingStep DEF RowInv, OneProcess, NoSpareJobs

LEMMA FetchEffect ==
  ASSUME RowInv, NEW p \in Procs, Fetch(p)
  PROVE  \E n \in Jobs :
           /\ Live(p) /\ proc[p] = "up" /\ worker[p].pc = "idle" /\ row[n].status = "pending"
           /\ InQueue(p, n)
           /\ worker'[p] = [pc |-> "fetched", job |-> n]
           /\ \A q \in Procs \ {p} : worker'[q] = worker[q] /\ queue'[q] = queue[q]
           /\ \A q \in Procs, j \in Jobs : InQueue(q, j)' <=> InQueue(q, j) /\ ~(q = p /\ j = n)
           /\ UNCHANGED <<row, proc, orphans, thread, faults>>
<1> DEFINE n == Head(queue[p])
<1>1. queue[p] \in Seq(Jobs) /\ queue[p] # <<>> /\ n \in Jobs
  BY Shapes DEF RowInv, Fetch
<1>2. /\ \A i, k \in 1..Len(queue[p]) : queue[p][i] = queue[p][k] => i = k
      /\ InQueue(p, n)
  BY <1>1, MemberOfTail DEF RowInv, JobInv, ClaimsExclusive, InQueue
<1>3. row[n].status = "pending"
  BY <1>1, <1>2 DEF RowInv, ClaimsPending
<1>4. /\ Live(p) /\ worker[p].pc = "idle"
      /\ queue' = [queue EXCEPT ![p] = Tail(queue[p])]
      /\ worker' = [worker EXCEPT ![p] = [pc |-> "fetched", job |-> n]]
      /\ UNCHANGED <<row, proc, orphans, thread, faults>>
  BY <1>3 DEF Fetch, db
<1>5. /\ worker'[p] = [pc |-> "fetched", job |-> n] /\ queue'[p] = Tail(queue[p])
      /\ \A q \in Procs \ {p} : worker'[q] = worker[q] /\ queue'[q] = queue[q]
  BY <1>4, Shapes DEF RowInv
<1>6. ASSUME NEW q \in Procs, NEW j \in Jobs
      PROVE  InQueue(q, j)' <=> InQueue(q, j) /\ ~(q = p /\ j = n)
  <2>1. CASE q # p
    BY <1>5, <2>1 DEF InQueue
  <2>2. CASE q = p
    <3>1. /\ queue'[q] = Tail(queue[q]) /\ queue[q] \in Seq(Jobs) /\ queue[q] # <<>>
          /\ n = Head(queue[q])
          /\ \A i, k \in 1..Len(queue[q]) : queue[q][i] = queue[q][k] => i = k
      BY <1>1, <1>2, <1>5, <2>2
    <3>2. (\E i \in 1..Len(Tail(queue[q])) : Tail(queue[q])[i] = j)
            <=> (\E i \in 1..Len(queue[q]) : queue[q][i] = j) /\ j # Head(queue[q])
      BY <3>1, MemberOfTail, Zenon
    <3>3. InQueue(q, j)' <=> InQueue(q, j) /\ j # n
      BY <3>1, <3>2, Zenon DEF InQueue
    <3>4. QED
      BY <2>2, <3>3
  <2>3. QED
    BY <2>1, <2>2
<1>7. proc[p] = "up"
  BY <1>1 DEF RowInv, OneProcess
<1>8. QED
  BY <1>1, <1>2, <1>3, <1>4, <1>5, <1>6, <1>7

LEMMA FetchRowInv ==
  ASSUME RowInv, NEW p \in Procs, Fetch(p)
  PROVE  RowInv'
<1>1. PICK n \in Jobs :
        /\ Live(p) /\ proc[p] = "up" /\ row[n].status = "pending"
        /\ worker'[p] = [pc |-> "fetched", job |-> n]
        /\ \A q \in Procs \ {p} : worker'[q] = worker[q] /\ queue'[q] = queue[q]
        /\ \A q \in Procs, j \in Jobs : InQueue(q, j)' <=> InQueue(q, j) /\ ~(q = p /\ j = n)
        /\ UNCHANGED <<row, proc, orphans, thread>>
  BY FetchEffect
<1>2. JobInv'
  BY FetchJobInv DEF RowInv
<1>3. ClaimsPending'
  <2>1. \A u \in Threads, j \in Jobs : Holding(u, j)' => Holding(u, j)
    BY <1>1 DEF Holding
  <2>2. \A q \in Procs, j \in Jobs : Fetched(q, j)' => Fetched(q, j) \/ j = n
    BY <1>1 DEF Fetched
  <2>3. \A q \in Procs : worker'[q].pc = "running" => worker'[q] = worker[q]
    BY <1>1
  <2>4. QED
    BY <1>1, <2>1, <2>2, <2>3 DEF RowInv, ClaimsPending
<1>4. \A u \in Threads : /\ thread'[u].pc # "idle" => Live(thread'[u].proc)
                         /\ thread'[u].pc # "submit" => thread'[u].job = None
  BY <1>1, OtherThreads
<1>5. QED
  BY <1>1, <1>2, <1>3, <1>4, ServingStep

LEMMA BeginEffect ==
  ASSUME RowInv, NEW p \in Procs, Begin(p)
  PROVE  LET n == worker[p].job IN
         /\ Live(p) /\ worker[p].pc = "fetched" /\ n \in Jobs /\ Fetched(p, n)
         /\ row[n].status = "pending"
         /\ row'[n].status = "running" /\ row'[n].command = row[n].command
         /\ \A j \in Jobs \ {n} : row'[j] = row[j]
         /\ worker'[p].pc = "running" /\ worker'[p].job = n
         /\ \A q \in Procs \ {p} : worker'[q] = worker[q]
         /\ UNCHANGED <<proc, orphans, thread, queue, faults>>
<1> DEFINE n == worker[p].job
<1>1. Live(p) /\ worker[p].pc = "fetched" /\ n \in Jobs /\ Fetched(p, n)
  BY Shapes DEF RowInv, Begin, Fetched
<1>2. row[n].status = "pending"
  BY <1>1 DEF RowInv, ClaimsPending
<1>3. /\ row \in [Jobs -> Row] /\ row[n] \in Row
      /\ worker \in [Procs -> WorkerState] /\ worker[p] \in WorkerState
  BY <1>1, Shapes DEF RowInv
<1>4. /\ row' = [row EXCEPT ![n].status = "running"]
      /\ worker' = [worker EXCEPT ![p].pc = "running"]
      /\ UNCHANGED <<proc, orphans, thread, queue, faults>>
  BY DEF Begin
<1>5. /\ row'[n].status = "running" /\ row'[n].command = row[n].command
      /\ \A j \in Jobs \ {n} : row'[j] = row[j]
  BY <1>1, <1>3, <1>4 DEF Row
<1>6. /\ worker'[p].pc = "running" /\ worker'[p].job = n
      /\ \A q \in Procs \ {p} : worker'[q] = worker[q]
  BY <1>3, <1>4 DEF WorkerState
<1>7. QED
  BY <1>1, <1>2, <1>4, <1>5, <1>6

LEMMA BeginRowInv ==
  ASSUME RowInv, NEW p \in Procs, Begin(p)
  PROVE  RowInv'
<1> DEFINE n == worker[p].job
<1>1. /\ Live(p) /\ worker[p].pc = "fetched" /\ n \in Jobs /\ Fetched(p, n)
      /\ row'[n].status = "running"
      /\ \A j \in Jobs \ {n} : row'[j] = row[j]
      /\ worker'[p].pc = "running" /\ worker'[p].job = n
      /\ \A q \in Procs \ {p} : worker'[q] = worker[q]
      /\ UNCHANGED <<proc, orphans, thread, queue>>
  BY BeginEffect
<1>2. JobInv'
  BY BeginJobInv DEF RowInv
<1> HIDE DEF n
<1>3. ClaimsPending'
  <2>1. /\ \A u \in Threads : ~Holding(u, n)
        /\ \A q \in Procs : ~InQueue(q, n) /\ (Fetched(q, n) => q = p)
    BY <1>1 DEF RowInv, JobInv, ClaimsExclusive
  <2>2. ASSUME NEW u \in Threads, NEW j \in Jobs, Holding(u, j)'
        PROVE  row'[j].status = "pending"
    <3>1. Holding(u, j)
      BY <1>1, <2>2 DEF Holding
    <3>2. QED
      BY <1>1, <2>1, <3>1 DEF RowInv, ClaimsPending
  <2>3. ASSUME NEW q \in Procs, NEW j \in Jobs, InQueue(q, j)' \/ Fetched(q, j)'
        PROVE  row'[j].status = "pending"
    <3>1. InQueue(q, j) \/ (Fetched(q, j) /\ q # p)
      BY <1>1, <2>3 DEF InQueue, Fetched
    <3>2. j # n
      BY <2>1, <3>1
    <3>3. QED
      BY <1>1, <3>1, <3>2 DEF RowInv, ClaimsPending
  <2>4. ASSUME NEW q \in Procs, worker'[q].pc = "running"
        PROVE  row'[worker'[q].job].status = "running"
    <3>1. CASE q = p
      BY <1>1, <3>1
    <3>2. CASE q # p
      <4>1. worker'[q] = worker[q] /\ worker[q].pc = "running"
        BY <1>1, <2>4, <3>2
      <4>2. worker[q].job \in Jobs /\ row[worker[q].job].status = "running"
        BY <4>1, Shapes DEF RowInv, ClaimsPending
      <4>3. QED
        BY <1>1, <4>1, <4>2
    <3>3. QED
      BY <3>1, <3>2
  <2>5. QED
    BY <2>2, <2>3, <2>4 DEF ClaimsPending
<1>4. \A u \in Threads : /\ thread'[u].pc # "idle" => Live(thread'[u].proc)
                         /\ thread'[u].pc # "submit" => thread'[u].job = None
  BY <1>1, OtherThreads
<1>5. QED
  BY <1>1, <1>2, <1>3, <1>4, ServingStep DEF RowInv, OneProcess

\* Succeed, Stop and LoseWrite: the worker rests, the row is closed or stays.
LEMMA EndEffect ==
  ASSUME RowInv, NEW p \in Procs,
         Succeed(p) \/ (\E s \in {"paused", "failed"} : Stop(p, s)) \/ LoseWrite(p)
  PROVE  LET n == worker[p].job IN
         /\ Live(p) /\ worker[p].pc # "idle" /\ n \in Jobs
         /\ \/ /\ row[n].status = "running" /\ row'[n].status \in FinalStatus
               /\ row'[n].command = row[n].command /\ faults' = faults
            \/ row' = row /\ faults' = faults + 1
         /\ \A j \in Jobs \ {n} : row'[j] = row[j]
         /\ worker'[p] = IdleWorker
         /\ \A q \in Procs \ {p} : worker'[q] = worker[q]
         /\ UNCHANGED <<proc, orphans, thread, queue>>
<1> DEFINE n == worker[p].job
<1>1. Live(p) /\ worker[p].pc # "idle" /\ n \in Jobs
  BY Shapes DEF RowInv, Succeed, Stop, LoseWrite
<1>2. /\ row \in [Jobs -> Row] /\ row[n] \in Row /\ worker \in [Procs -> WorkerState]
  BY <1>1, Shapes DEF RowInv
<1>3. /\ worker' = [worker EXCEPT ![p] = IdleWorker]
      /\ UNCHANGED <<proc, orphans, thread, queue>>
  BY DEF Succeed, Stop, LoseWrite, db
<1>4. CASE Succeed(p)
  <2>1. row[n].status = "running"
    BY <1>4 DEF Succeed, RowInv, ClaimsPending
  <2>2. row' = [row EXCEPT ![n].status = "succeeded"] /\ faults' = faults
    BY <1>4 DEF Succeed
  <2>3. QED
    BY <1>1, <1>2, <1>3, <2>1, <2>2 DEF Row, FinalStatus
<1>5. ASSUME NEW s \in {"paused", "failed"}, Stop(p, s)
      PROVE  /\ row[n].status = "running" /\ row'[n].status \in FinalStatus
             /\ row'[n].command = row[n].command /\ faults' = faults
             /\ \A j \in Jobs \ {n} : row'[j] = row[j]
  <2>1. row[n].status = "running"
    BY <1>5 DEF Stop, RowInv, ClaimsPending
  <2>2. row' = [row EXCEPT ![n].status = s, ![n].error = "stopped"] /\ faults' = faults
    BY <1>5 DEF Stop
  <2>3. QED
    BY <1>1, <1>2, <2>1, <2>2 DEF Row, FinalStatus
<1>6. CASE LoseWrite(p)
  BY <1>1, <1>2, <1>3, <1>6 DEF LoseWrite, db
<1>7. QED
  BY <1>1, <1>2, <1>3, <1>4, <1>5, <1>6

LEMMA EndRowInv ==
  ASSUME RowInv, NEW p \in Procs,
         Succeed(p) \/ (\E s \in {"paused", "failed"} : Stop(p, s)) \/ LoseWrite(p)
  PROVE  RowInv'
<1> DEFINE n == worker[p].job
<1>1. /\ Live(p) /\ worker[p].pc # "idle" /\ n \in Jobs
      /\ row[n].status = "running" \/ row' = row
      /\ \A j \in Jobs \ {n} : row'[j] = row[j]
      /\ worker'[p] = IdleWorker
      /\ \A q \in Procs \ {p} : worker'[q] = worker[q]
      /\ UNCHANGED <<proc, orphans, thread, queue>>
  BY EndEffect
<1>2. JobInv'
  BY WorkerJobInv DEF RowInv, WorkerStep
<1> HIDE DEF n
<1>3. ClaimsPending'
  <2>1. ASSUME NEW j \in Jobs, row[j].status = "pending"
        PROVE  row'[j].status = "pending"
    BY <1>1, <2>1
  <2>2. ASSUME NEW u \in Threads, NEW j \in Jobs, Holding(u, j)'
        PROVE  row'[j].status = "pending"
    <3>1. Holding(u, j)
      BY <1>1, <2>2 DEF Holding
    <3>2. QED
      BY <2>1, <3>1 DEF RowInv, ClaimsPending
  <2>3. ASSUME NEW q \in Procs, NEW j \in Jobs, InQueue(q, j)' \/ Fetched(q, j)'
        PROVE  row'[j].status = "pending"
    <3>1. InQueue(q, j) \/ Fetched(q, j)
      BY <1>1, <2>3 DEF InQueue, Fetched, IdleWorker
    <3>2. QED
      BY <2>1, <3>1 DEF RowInv, ClaimsPending
  <2>4. \A q \in Procs : worker'[q].pc # "running"
    <3>1. \A q \in Procs : q # p => worker[q].pc = "idle"
      BY <1>1, NoneStarting DEF RowInv, OneProcess
    <3>2. QED
      BY <1>1, <3>1 DEF IdleWorker
  <2>5. QED
    BY <2>2, <2>3, <2>4 DEF ClaimsPending
<1>4. \A u \in Threads : /\ thread'[u].pc # "idle" => Live(thread'[u].proc)
                         /\ thread'[u].pc # "submit" => thread'[u].job = None
  BY <1>1, OtherThreads
<1>5. QED
  BY <1>1, <1>2, <1>3, <1>4, ServingStep DEF RowInv, OneProcess, IdleWorker
-----------------------------------------------------------------------------
(* The steps of the processes.                                             *)

LEMMA StartRowInv ==
  ASSUME RowInv, ~Overlap, NEW p \in Procs, Start(p)
  PROVE  RowInv' /\ UNCHANGED <<row, faults, thread>> /\ \A q \in Procs : ~Live(q)'
<1>1. /\ \A q \in Procs : proc[q] \in {"off", "gone"}
      /\ proc'[p] = "starting" /\ \A q \in Procs \ {p} : proc'[q] = proc[q]
      /\ orphans' = ActiveJobs
      /\ UNCHANGED <<row, queue, worker, thread, faults>>
  BY Shapes DEF RowInv, Start, StartReading, db
<1>2. \A q \in Procs : ~Live(q) /\ ~Live(q)'
  BY <1>1 DEF Live
<1>3. \A q \in Procs : worker[q].pc = "idle" /\ queue[q] = <<>>
  BY <1>1, <1>2 DEF RowInv, OneProcess
<1>4. \A t \in Threads : thread[t].pc = "idle"
  BY <1>2, ThreadFacts
<1>5. OneProcess'
  BY <1>1, <1>3, <1>4 DEF OneProcess, Started
<1>6. NoSpareJobs'
  BY <1>1 DEF RowInv, NoSpareJobs
<1>7. OrphansCurrent'
  BY <1>1 DEF OrphansCurrent, ActiveJobs, Active
<1>8. ClaimsPending'
  BY <1>1, ClaimsLeft
<1>9. QED
  BY <1>1, <1>2, <1>5, <1>6, <1>7, <1>8, ProcessJobInv DEF RowInv

\* A starting process is alone and closes every row that is active.
LEMMA ReconcileEffect ==
  ASSUME RowInv, NEW p \in Procs, Reconcile(p)
  PROVE  /\ proc[p] = "starting" /\ orphans = ActiveJobs
         /\ proc'[p] = "up" /\ \A q \in Procs \ {p} : proc'[q] = proc[q] /\ ~Started(q)
         /\ \A q \in Procs : worker[q].pc = "idle" /\ queue[q] = <<>>
         /\ \A t \in Threads : thread[t].pc = "idle"
         /\ \A j \in Jobs : row'[j].command = row[j].command
         /\ \A j \in ActiveJobs : row'[j].status = "failed"
         /\ \A j \in Jobs \ ActiveJobs : row'[j] = row[j]
         /\ UNCHANGED <<queue, worker, thread, faults>>
<1>1. /\ proc[p] = "starting" /\ proc' = [proc EXCEPT ![p] = "up"]
      /\ row' = [j \in Jobs |-> IF j \in orphans
                                THEN [row[j] EXCEPT !.status = "failed", !.error = "api_restarted"]
                                ELSE row[j]]
      /\ UNCHANGED <<queue, worker, thread, faults>>
  BY DEF Reconcile
<1>2. orphans = ActiveJobs
  BY <1>1 DEF RowInv, OrphansCurrent
<1>3. proc'[p] = "up" /\ \A q \in Procs \ {p} : proc'[q] = proc[q] /\ ~Started(q)
  BY <1>1, Shapes DEF RowInv, OneProcess, Started
<1>4. \A q \in Procs : ~Live(q)
  BY <1>1, <1>3 DEF Live, Started
<1>5. \A q \in Procs : worker[q].pc = "idle" /\ queue[q] = <<>>
  BY <1>4 DEF RowInv, OneProcess, Live
<1>6. \A t \in Threads : thread[t].pc = "idle"
  BY <1>4, ThreadFacts
<1>7. row \in [Jobs -> Row]
  BY Shapes DEF RowInv
<1>8. ASSUME NEW j \in Jobs
      PROVE  /\ row'[j].command = row[j].command
             /\ j \in ActiveJobs => row'[j].status = "failed"
             /\ j \notin ActiveJobs => row'[j] = row[j]
  <2>1. row[j] \in Row
    BY <1>7
  <2>2. CASE j \in orphans
    BY <1>1, <1>2, <2>1, <2>2 DEF Row
  <2>3. CASE j \notin orphans
    BY <1>1, <1>2, <2>3
  <2>4. QED
    BY <2>2, <2>3
<1>9. QED
  BY <1>1, <1>2, <1>3, <1>5, <1>6, <1>8 DEF ActiveJobs

LEMMA ReconcileRowInv ==
  ASSUME RowInv, NEW p \in Procs, Reconcile(p)
  PROVE  RowInv'
<1>1. /\ proc[p] = "starting"
      /\ proc'[p] = "up" /\ \A q \in Procs \ {p} : proc'[q] = proc[q] /\ ~Started(q)
      /\ \A q \in Procs : worker[q].pc = "idle" /\ queue[q] = <<>>
      /\ \A t \in Threads : thread[t].pc = "idle"
      /\ UNCHANGED <<queue, worker, thread>>
  BY ReconcileEffect
<1>2. OneProcess'
  BY <1>1 DEF OneProcess, Started
<1>3. NoSpareJobs'
  BY <1>1 DEF RowInv, NoSpareJobs
<1>4. OrphansCurrent'
  BY <1>1 DEF OrphansCurrent, Started
<1>5. ClaimsPending'
  <2>1. \A t \in Threads, j \in Jobs : ~Holding(t, j)'
    BY <1>1 DEF Holding
  <2>2. \A q \in Procs, j \in Jobs : ~InQueue(q, j)' /\ ~Fetched(q, j)'
    BY <1>1 DEF InQueue, Fetched
  <2>3. QED
    BY <1>1, <2>1, <2>2 DEF ClaimsPending
<1>6. QED
  BY <1>2, <1>3, <1>4, <1>5, ProcessJobInv DEF RowInv

\* Shutdown, Exit and Crash leave the rows and give claims up.
LEMMA LeaveEffect ==
  ASSUME RowInv, NEW p \in Procs, Shutdown(p) \/ Exit(p) \/ Crash(p)
  PROVE  /\ Started(p)
         /\ \/ proc[p] = "up" /\ proc'[p] = "draining" /\ UNCHANGED <<worker, thread>>
            \/ /\ proc'[p] = "gone" /\ worker'[p].pc = "idle"
               /\ \A t \in Threads : thread[t].proc = p => thread'[t] = IdleThread
         /\ \A q \in Procs \ {p} : proc'[q] = proc[q] /\ worker'[q] = worker[q]
         /\ worker'[p] = worker[p] \/ worker'[p] = IdleWorker
         /\ queue'[p] = <<>> /\ \A q \in Procs \ {p} : queue'[q] = queue[q]
         /\ \A t \in Threads : thread'[t] = thread[t] \/ thread'[t] = IdleThread
         /\ proc[p] # "starting" => orphans' = orphans
         /\ row' = row /\ faults' = faults
<1>1. /\ proc \in [Procs -> {"off", "starting", "up", "draining", "gone"}]
      /\ worker \in [Procs -> WorkerState] /\ queue \in [Procs -> Seq(Jobs)]
  BY Shapes DEF RowInv
<1>2. CASE Shutdown(p)
  BY <1>1, <1>2 DEF Shutdown, Started, db
<1>3. CASE Exit(p)
  <2>1. queue[p] = <<>>
    BY <1>3 DEF Exit, RowInv, OneProcess
  <2>2. QED
    BY <1>1, <1>3, <2>1 DEF Exit, Started, EndThreads, db
<1>4. CASE Crash(p)
  BY <1>1, <1>4 DEF Crash, Started, EndThreads, db, IdleWorker
<1>5. QED
  BY <1>2, <1>3, <1>4

LEMMA LeaveRowInv ==
  ASSUME RowInv, NEW p \in Procs, Shutdown(p) \/ Exit(p) \/ Crash(p)
  PROVE  RowInv'
<1>1. /\ Started(p)
      /\ \/ proc[p] = "up" /\ proc'[p] = "draining" /\ UNCHANGED <<worker, thread>>
         \/ /\ proc'[p] = "gone" /\ worker'[p].pc = "idle"
            /\ \A t \in Threads : thread[t].proc = p => thread'[t] = IdleThread
      /\ \A q \in Procs \ {p} : proc'[q] = proc[q] /\ worker'[q] = worker[q]
      /\ worker'[p] = worker[p] \/ worker'[p] = IdleWorker
      /\ queue'[p] = <<>> /\ \A q \in Procs \ {p} : queue'[q] = queue[q]
      /\ \A t \in Threads : thread'[t] = thread[t] \/ thread'[t] = IdleThread
      /\ row' = row
  BY LeaveEffect
<1>2. \A q \in Procs \ {p} : ~Started(q) /\ ~Started(q)'
  BY <1>1 DEF RowInv, OneProcess, Started
<1>3. OneProcess'
  <2>1. \A q, r \in Procs : Started(q)' /\ Started(r)' => q = r
    BY <1>2
  <2>2. \A q \in Procs : /\ worker'[q].pc # "idle" => Live(q)'
                         /\ queue'[q] # <<>> => proc'[q] = "up"
    BY <1>1, <1>2 DEF RowInv, OneProcess, Live, Started, IdleWorker
  <2>3. ASSUME NEW t \in Threads, thread'[t].pc # "idle"
        PROVE  Live(thread[t].proc)'
    <3>1. thread'[t] = thread[t] /\ thread[t].pc # "idle"
      BY <1>1, <2>3 DEF IdleThread
    <3>2. thread[t].proc = p
      BY <1>2, <3>1, ThreadFacts DEF Live, Started
    <3>3. proc'[p] = "draining"
      BY <1>1, <2>3, <3>2 DEF IdleThread
    <3>4. QED
      BY <3>1, <3>2, <3>3 DEF Live
  <2>4. QED
    BY <2>1, <2>2, <2>3 DEF OneProcess
<1>4. NoSpareJobs'
  BY <1>1 DEF RowInv, NoSpareJobs, IdleThread, IdleWorker
<1>5. OrphansCurrent'
  BY <1>1, <1>2 DEF OrphansCurrent, Started
<1>6. ClaimsPending'
  BY <1>1, ClaimsLeft DEF IdleThread, IdleWorker
<1>7. QED
  BY <1>3, <1>4, <1>5, <1>6, ProcessJobInv DEF RowInv

LEMMA NextRowInv ==
  ASSUME ~Overlap, RowInv, [Next]_vars
  PROVE  RowInv'
<1>1. CASE UNCHANGED vars
  <2>1. JobInv'
    BY <1>1, NextJobInv DEF RowInv
  <2>2. ClaimsPending'
    BY <1>1, ClaimsLeft DEF vars, db
  <2>3. (OneProcess /\ NoSpareJobs)'
    BY <1>1 DEF vars, db, RowInv, OneProcess, NoSpareJobs, Started, Live
  <2>4. OrphansCurrent'
    BY <1>1 DEF vars, db, RowInv, OrphansCurrent, ActiveJobs, Active
  <2>5. QED
    BY <2>1, <2>2, <2>3, <2>4 DEF RowInv
<1>2. ASSUME NEW t \in Threads, ThreadStep(t)
      PROVE  RowInv'
  BY <1>2, InsertRowInv, SubmitRowInv, RefusedRowInv, WaitRowInv DEF ThreadStep
<1>3. ASSUME NEW p \in Procs, WorkerStep(p) \/ LoseWrite(p)
      PROVE  RowInv'
  BY <1>3, FetchRowInv, BeginRowInv, EndRowInv DEF WorkerStep
<1>4. ASSUME NEW p \in Procs, Start(p) \/ Reconcile(p) \/ Shutdown(p) \/ Exit(p) \/ Crash(p)
      PROVE  RowInv'
  BY <1>4, StartRowInv, ReconcileRowInv, LeaveRowInv
<1>5. QED
  BY <1>1, <1>2, <1>3, <1>4, RequestRowInv DEF Next

\* RowInv holds throughout, while one process serves at a time.
LEMMA RowInvHolds ==
  ASSUME ~Overlap
  PROVE  Spec => []RowInv
BY InitRowInv, NextRowInv, PTL DEF Spec
-----------------------------------------------------------------------------
(* Final rows.                                                             *)

LEMMA FinalKept ==
  ASSUME RowInv, [Next]_vars
  PROVE  \A j \in Jobs : Final(j) => row'[j] = row[j]
<1> SUFFICES ASSUME NEW j \in Jobs, Final(j) PROVE row'[j] = row[j]
  OBVIOUS
<1>0. row[j].status \notin {"absent", "pending", "running"} /\ j \notin ActiveJobs
  BY DEF Final, FinalStatus, ActiveJobs, Active, ActiveStatus
<1>1. CASE UNCHANGED vars
  BY <1>1 DEF vars, db
<1>2. ASSUME NEW t \in Threads, ThreadStep(t)
      PROVE  row'[j] = row[j]
  <2>1. ASSUME NEW n \in Jobs, Insert(t, n)
        PROVE  row'[j] = row[j]
    BY <1>0, <2>1, InsertEffect DEF RowInv
  <2>2. CASE Submit(t)
    BY <2>2 DEF Submit, db
  <2>3. CASE SubmitRefused(t)
    BY <1>0, <2>3, RefusedEffect
  <2>4. CASE Admit(t) \/ Refuse(t) \/ InsertConflict(t)
    BY <2>4, WaitEffect
  <2>5. QED
    BY <1>2, <2>1, <2>2, <2>3, <2>4 DEF ThreadStep
<1>3. ASSUME NEW p \in Procs, WorkerStep(p) \/ LoseWrite(p)
      PROVE  row'[j] = row[j]
  <2>1. CASE Fetch(p)
    BY <2>1 DEF Fetch, db
  <2>2. CASE Begin(p)
    BY <1>0, <2>2, BeginEffect
  <2>3. CASE Succeed(p) \/ (\E s \in {"paused", "failed"} : Stop(p, s)) \/ LoseWrite(p)
    BY <1>0, <2>3, EndEffect
  <2>4. QED
    BY <1>3, <2>1, <2>2, <2>3 DEF WorkerStep
<1>4. ASSUME NEW p \in Procs, Start(p) \/ Reconcile(p) \/ Shutdown(p) \/ Exit(p) \/ Crash(p)
      PROVE  row'[j] = row[j]
  <2>1. CASE Start(p)
    BY <2>1 DEF Start, StartReading, db
  <2>2. CASE Reconcile(p)
    BY <1>0, <2>2, ReconcileEffect
  <2>3. CASE Shutdown(p) \/ Exit(p) \/ Crash(p)
    BY <2>3 DEF Shutdown, Exit, Crash, db
  <2>4. QED
    BY <1>4, <2>1, <2>2, <2>3
<1>5. CASE \E p \in Procs, c \in Commands, k \in Tasks :
             \/ \E n \in Jobs : Replay(p, c, k, n)
             \/ \E t \in Threads : Lookup(t, p, c, k)
  BY <1>5 DEF Replay, Lookup, db
<1>6. QED
  BY <1>1, <1>2, <1>3, <1>4, <1>5 DEF Next

\* A final row keeps its status and error code for ever, as long as one
\* process serves at a time.
THEOREM FinalStaysFinal ==
  ASSUME ~Overlap
  PROVE  Spec => FinalIsFinal
<1>1. RowInv /\ [Next]_vars => [\A j \in Jobs : Final(j) => row'[j] = row[j]]_row
  BY FinalKept
<1>2. QED
  BY <1>1, RowInvHolds, PTL DEF Spec, FinalIsFinal
-----------------------------------------------------------------------------
(* The bounds.                                                             *)

LEMMA AtMost ==
  ASSUME NEW T, IsFiniteSet(T), NEW S, S \subseteq T
  PROVE  IsFiniteSet(S) /\ Cardinality(S) <= Cardinality(T)
         /\ Cardinality(S) \in Nat /\ Cardinality(T) \in Nat
BY FS_Subset, FS_CardinalityType

LEMMA AtMostOneMore ==
  ASSUME NEW T, IsFiniteSet(T), NEW x, NEW S, S \subseteq T \cup {x}
  PROVE  IsFiniteSet(S) /\ Cardinality(S) <= Cardinality(T) + 1
         /\ Cardinality(S) \in Nat /\ Cardinality(T) \in Nat
<1>1. /\ IsFiniteSet(T \cup {x}) /\ Cardinality(T) \in Nat
      /\ Cardinality(T \cup {x}) = IF x \in T THEN Cardinality(T) ELSE Cardinality(T) + 1
  BY FS_AddElement, FS_CardinalityType
<1>2. QED
  BY <1>1, AtMost

LEMMA FiniteParts ==
  ASSUME BoundsInv
  PROVE  /\ IsFiniteSet(ActiveJobs) /\ IsFiniteSet(Inserters) /\ IsFiniteSet(RunningRows)
         /\ RunningRows \subseteq ActiveJobs /\ Inserters \subseteq Threads
         /\ Cardinality(Inserters) <= Cardinality(Threads)
         /\ Cardinality(ActiveJobs) \in Nat /\ Cardinality(Inserters) \in Nat
         /\ Cardinality(RunningRows) \in Nat /\ Cardinality(Threads) \in Nat
         /\ \A p \in Procs : IsFiniteSet(Beside(p)) /\ IsFiniteSet(Unowned(p))
                             /\ Cardinality(Beside(p)) \in Nat /\ Cardinality(Unowned(p)) \in Nat
         /\ faults \in Nat /\ QueueLimit \in Nat
<1>1. IsFiniteSet(ActiveJobs) /\ IsFiniteSet(Threads) /\ faults \in Nat /\ QueueLimit \in Nat
  BY JobsAssumption, Shapes DEF BoundsInv, PlacesCounted, RowInv
<1>2. /\ RunningRows \subseteq ActiveJobs /\ Inserters \subseteq Threads
      /\ \A p \in Procs : Beside(p) \subseteq ActiveJobs /\ Unowned(p) \subseteq ActiveJobs
  BY DEF RunningRows, ActiveJobs, Active, ActiveStatus, Inserters, Beside, Unowned
<1>3. QED
  BY <1>1, <1>2, AtMost

\* Steps that at most take members away keep each bound.
LEMMA PlacesKept ==
  ASSUME BoundsInv, ActiveJobs' \subseteq ActiveJobs, Inserters' \subseteq Inserters
  PROVE  PlacesCounted'
<1>1. /\ IsFiniteSet(ActiveJobs') /\ Cardinality(ActiveJobs') <= Cardinality(ActiveJobs)
      /\ Cardinality(ActiveJobs') \in Nat
  BY FiniteParts, AtMost
<1>2. Cardinality(Inserters') <= Cardinality(Inserters) /\ Cardinality(Inserters') \in Nat
  BY FiniteParts, AtMost
<1>3. QED
  BY <1>1, <1>2, FiniteParts DEF BoundsInv, PlacesCounted

LEMMA RunningKept ==
  ASSUME BoundsInv, faults' = faults, RunningRows' \subseteq RunningRows,
         \A p \in Procs : Live(p)' => Live(p) /\ Beside(p)' \subseteq Beside(p)
  PROVE  RunningCounted'
<1>1. Cardinality(RunningRows') <= Cardinality(RunningRows) /\ Cardinality(RunningRows') \in Nat
  BY FiniteParts, AtMost
<1>2. ASSUME NEW p \in Procs, Live(p)'
      PROVE  Cardinality(Beside(p)') <= faults
  <2>1. IsFiniteSet(Beside(p)) /\ Beside(p)' \subseteq Beside(p) /\ Live(p)
    BY <1>2, FiniteParts
  <2>2. Cardinality(Beside(p)') <= Cardinality(Beside(p)) /\ Cardinality(Beside(p)') \in Nat
    BY <2>1, AtMost
  <2>3. QED
    BY <2>1, <2>2, FiniteParts DEF BoundsInv, RunningCounted
<1>3. QED
  BY <1>1, <1>2, FiniteParts DEF BoundsInv, RunningCounted

LEMMA OwnersKept ==
  ASSUME BoundsInv, faults' = faults,
         \A p \in Procs : proc'[p] = "up" => proc[p] = "up" /\ Unowned(p)' \subseteq Unowned(p)
  PROVE  OwnersCounted'
<1>1. ASSUME NEW p \in Procs, proc'[p] = "up"
      PROVE  Cardinality(Unowned(p)') <= faults
  <2>1. IsFiniteSet(Unowned(p)) /\ Unowned(p)' \subseteq Unowned(p) /\ proc[p] = "up"
    BY <1>1, FiniteParts
  <2>2. Cardinality(Unowned(p)') <= Cardinality(Unowned(p)) /\ Cardinality(Unowned(p)') \in Nat
    BY <2>1, AtMost
  <2>3. QED
    BY <2>1, <2>2, FiniteParts DEF BoundsInv, OwnersCounted
<1>2. QED
  BY <1>1 DEF OwnersCounted

LEMMA InitBounds == Init => BoundsInv
<1> SUFFICES ASSUME Init PROVE BoundsInv
  OBVIOUS
<1>1. /\ ActiveJobs = {} /\ Inserters = {} /\ RunningRows = {} /\ faults = 0
      /\ \A p \in Procs : ~Live(p) /\ proc[p] # "up"
  BY DEF Init, ActiveJobs, Active, ActiveStatus, Inserters, RunningRows, NoRow, IdleThread, Live
<1>2. IsFiniteSet({}) /\ Cardinality({}) = 0 /\ Cardinality(Threads) \in Nat /\ QueueLimit \in Nat \ {0}
  BY FS_EmptySet, FS_CardinalityType, JobsAssumption
<1>3. PlacesCounted /\ RunningCounted /\ OwnersCounted
  BY <1>1, <1>2 DEF PlacesCounted, RunningCounted, OwnersCounted
<1>4. QED
  BY <1>3, InitRowInv DEF BoundsInv

\* The rows, the workers and the threads that submit are as they were.
LEMMA QuietBounds ==
  ASSUME BoundsInv, UNCHANGED <<row, proc, worker, queue, faults>>,
         \A u \in Threads : thread[u].pc = "submit" => thread'[u] = thread[u]
  PROVE  RunningCounted' /\ OwnersCounted'
<1>1. RunningRows' = RunningRows /\ ActiveJobs' = ActiveJobs
  BY DEF RunningRows, ActiveJobs, Active
<1>2. \A p \in Procs : Live(p)' => Live(p) /\ Beside(p)' \subseteq Beside(p)
  BY <1>1 DEF Live, Beside
<1>3. ASSUME NEW p \in Procs, NEW j \in Jobs, Owned(p, j)
      PROVE  Owned(p, j)'
  <2>1. CASE InQueue(p, j)
    BY <2>1 DEF Owned, InQueue
  <2>2. CASE worker[p].job = j
    BY <2>2 DEF Owned
  <2>3. CASE \E t \in ThreadsOf(p) : thread[t].job = j
    <3>1. PICK t \in Threads : thread[t].proc = p /\ thread[t].job = j
      BY <2>3 DEF ThreadsOf
    <3>2. thread[t].pc = "submit"
      BY <3>1, OtherThreads, Shapes DEF BoundsInv, RowInv
    <3>3. thread'[t].proc = p /\ thread'[t].job = j
      BY <3>1, <3>2
    <3>4. QED
      BY <3>3 DEF Owned, ThreadsOf
  <2>4. QED
    BY <1>3, <2>1, <2>2, <2>3 DEF Owned
<1>4. \A p \in Procs : Unowned(p)' \subseteq Unowned(p)
  BY <1>1, <1>3 DEF Unowned, ActiveJobs
<1>5. QED
  BY <1>1, <1>2, <1>4, RunningKept, OwnersKept

LEMMA RequestBounds ==
  ASSUME BoundsInv, NEW p \in Procs, NEW c \in Commands, NEW k \in Tasks,
         (\E j \in Jobs : Replay(p, c, k, j)) \/ (\E t \in Threads : Lookup(t, p, c, k))
  PROVE  BoundsInv'
<1>1. UNCHANGED <<row, proc, worker, queue, faults>>
  BY DEF Replay, Lookup, db
<1>2. \A u \in Threads :
        \/ thread'[u] = thread[u]
        \/ /\ thread[u].pc = "idle"
           /\ thread'[u] = [pc |-> "admit", proc |-> p, command |-> c, task |-> k, job |-> None]
  BY Shapes DEF BoundsInv, RowInv, Replay, Lookup, db
<1>3. /\ ActiveJobs' \subseteq ActiveJobs /\ Inserters' \subseteq Inserters
      /\ \A u \in Threads : thread[u].pc = "submit" => thread'[u] = thread[u]
  BY <1>1, <1>2 DEF ActiveJobs, Active, Inserters
<1>4. QED
  BY <1>1, <1>3, QuietBounds, PlacesKept, RequestRowInv DEF BoundsInv

\* A thread that passes the count has its place among the threads.
LEMMA WaitBounds ==
  ASSUME BoundsInv, NEW t \in Threads, Admit(t) \/ Refuse(t) \/ InsertConflict(t)
  PROVE  BoundsInv'
<1>1. /\ thread[t].pc \in {"admit", "insert"}
      /\ \/ thread'[t].pc = "insert" /\ Cardinality(ActiveJobs) < QueueLimit
         \/ thread'[t] = IdleThread
      /\ \A u \in Threads \ {t} : thread'[u] = thread[u]
      /\ UNCHANGED <<row, proc, queue, worker, faults>>
  BY WaitEffect DEF BoundsInv
<1>2. RunningCounted' /\ OwnersCounted'
  BY <1>1, QuietBounds
<1>3. ActiveJobs' = ActiveJobs
  BY <1>1 DEF ActiveJobs, Active
<1>4. PlacesCounted'
  <2>1. CASE thread'[t] = IdleThread
    <3>1. Inserters' \subseteq Inserters
      BY <1>1, <2>1 DEF Inserters, IdleThread
    <3>2. QED
      BY <1>3, <3>1, PlacesKept
  <2>2. CASE Cardinality(ActiveJobs) < QueueLimit
    <3>1. Inserters' \subseteq Threads
      BY DEF Inserters
    <3>2. Cardinality(Inserters') <= Cardinality(Threads) /\ Cardinality(Inserters') \in Nat
      BY <3>1, AtMost, JobsAssumption
    <3>3. QED
      BY <1>3, <2>2, <3>2, FiniteParts DEF PlacesCounted
  <2>3. QED
    BY <1>1, <2>1, <2>2
<1>5. QED
  BY <1>2, <1>4, WaitRowInv DEF BoundsInv

\* The row takes the place of the thread that inserts it, and is held by it.
LEMMA InsertBounds ==
  ASSUME BoundsInv, NEW t \in Threads, NEW n \in Jobs, Insert(t, n)
  PROVE  BoundsInv'
<1>1. /\ thread[t].pc = "insert" /\ row[n].status = "absent"
      /\ row'[n].status = "pending"
      /\ \A j \in Jobs \ {n} : row'[j] = row[j]
      /\ thread'[t].pc = "submit" /\ thread'[t].job = n /\ thread'[t].proc = thread[t].proc
      /\ \A u \in Threads \ {t} : thread'[u] = thread[u]
      /\ UNCHANGED <<proc, queue, worker, faults>>
  BY InsertEffect DEF BoundsInv, RowInv
<1>2. RowInv /\ RowInv'
  BY InsertRowInv DEF BoundsInv
<1>3. /\ ActiveJobs' = ActiveJobs \cup {n} /\ n \notin ActiveJobs
      /\ Inserters' = Inserters \ {t} /\ t \in Inserters
  BY <1>1 DEF ActiveJobs, Active, ActiveStatus, Inserters
<1>4. PlacesCounted'
  <2>1. IsFiniteSet(ActiveJobs') /\ Cardinality(ActiveJobs') = Cardinality(ActiveJobs) + 1
    BY <1>3, FiniteParts, FS_AddElement
  <2>2. Cardinality(Inserters') = Cardinality(Inserters) - 1
    BY <1>3, FiniteParts, FS_RemoveElement
  <2>3. QED
    BY <2>1, <2>2, FiniteParts DEF BoundsInv, PlacesCounted
<1>5. RunningCounted'
  <2>1. RunningRows' \subseteq RunningRows
    BY <1>1 DEF RunningRows
  <2>2. \A p \in Procs : Live(p)' => Live(p) /\ Beside(p)' \subseteq Beside(p)
    BY <1>1, <2>1 DEF Live, Beside
  <2>3. QED
    BY <1>1, <2>1, <2>2, RunningKept
<1>6. OwnersCounted'
  <2>1. Live(thread[t].proc) /\ thread[t].proc \in Procs /\ thread[t].job = None /\ None \notin Jobs
    BY <1>1, <1>2, ThreadFacts, OtherThreads, Shapes DEF RowInv
  <2>2. ASSUME NEW p \in Procs, proc'[p] = "up", NEW j \in Unowned(p)'
        PROVE  j \in Unowned(p)
    <3>1. p = thread[t].proc
      BY <1>1, <1>2, <2>1, <2>2, NoneStarting DEF Live
    <3>2. Owned(p, n)'
      BY <1>1, <3>1 DEF Owned, ThreadsOf
    <3>3. j \in ActiveJobs /\ j # n
      BY <1>3, <2>2, <3>2 DEF Unowned
    <3>4. ~Owned(p, j)'
      BY <2>2 DEF Unowned
    <3>5. ~InQueue(p, j) /\ worker[p].job # j
      BY <1>1, <3>4 DEF Owned, InQueue
    <3>6. ASSUME NEW u \in Threads, thread[u].proc = p, thread[u].job = j
          PROVE  FALSE
      <4>1. u # t
        BY <2>1, <3>3, <3>6 DEF ActiveJobs
      <4>2. thread'[u].proc = p /\ thread'[u].job = j
        BY <1>1, <3>6, <4>1
      <4>3. QED
        BY <3>4, <4>2 DEF Owned, ThreadsOf
    <3>7. QED
      BY <3>3, <3>5, <3>6 DEF Unowned, Owned, ThreadsOf
  <2>3. QED
    BY <1>1, <2>2, OwnersKept
<1>7. QED
  BY <1>2, <1>4, <1>5, <1>6 DEF BoundsInv

\* The thread gives the job to the queue.
LEMMA SubmitBounds ==
  ASSUME BoundsInv, NEW t \in Threads, Submit(t)
  PROVE  BoundsInv'
<1> DEFINE p == thread[t].proc
           n == thread[t].job
<1>1. /\ thread[t].pc = "submit" /\ p \in Procs /\ n \in Jobs /\ proc[p] = "up"
      /\ \A q \in Procs, j \in Jobs : InQueue(q, j)' <=> InQueue(q, j) \/ (q = p /\ j = n)
      /\ thread'[t] = IdleThread
      /\ \A u \in Threads \ {t} : thread'[u] = thread[u]
      /\ UNCHANGED <<row, proc, worker, faults>>
  BY SubmitEffect DEF BoundsInv
<1>2. thread[t].proc = p /\ thread[t].job = n
  OBVIOUS
<1>3. RowInv'
  BY SubmitRowInv DEF BoundsInv
<1> HIDE DEF p, n
<1>4. /\ ActiveJobs' = ActiveJobs /\ RunningRows' = RunningRows /\ Inserters' \subseteq Inserters
      /\ \A q \in Procs : Live(q)' => Live(q) /\ Beside(q)' \subseteq Beside(q)
  BY <1>1 DEF ActiveJobs, Active, RunningRows, Inserters, IdleThread, Live, Beside
<1>5. ASSUME NEW q \in Procs, NEW j \in Jobs, Owned(q, j)
      PROVE  Owned(q, j)'
  <2>1. CASE InQueue(q, j)
    BY <1>1, <2>1 DEF Owned
  <2>2. CASE worker[q].job = j
    BY <1>1, <2>2 DEF Owned
  <2>3. CASE \E u \in ThreadsOf(q) : thread[u].job = j
    <3>1. PICK u \in Threads : thread[u].proc = q /\ thread[u].job = j
      BY <2>3 DEF ThreadsOf
    <3>2. CASE u = t
      BY <1>1, <1>2, <3>1, <3>2 DEF Owned
    <3>3. CASE u # t
      BY <1>1, <3>1, <3>3 DEF Owned, ThreadsOf
    <3>4. QED
      BY <3>2, <3>3
  <2>4. QED
    BY <1>5, <2>1, <2>2, <2>3 DEF Owned
<1>6. \A q \in Procs : proc'[q] = "up" => proc[q] = "up" /\ Unowned(q)' \subseteq Unowned(q)
  BY <1>1, <1>4, <1>5 DEF Unowned, ActiveJobs
<1>7. QED
  BY <1>1, <1>3, <1>4, <1>6, PlacesKept, RunningKept, OwnersKept DEF BoundsInv

\* The executor is closed: no process is "up".
LEMMA RefusedBounds ==
  ASSUME BoundsInv, NEW t \in Threads, SubmitRefused(t)
  PROVE  BoundsInv'
<1> DEFINE p == thread[t].proc
           n == thread[t].job
<1>1. /\ p \in Procs /\ n \in Jobs /\ proc[p] = "draining"
      /\ row'[n].status = "failed"
      /\ \A j \in Jobs \ {n} : row'[j] = row[j]
      /\ thread'[t] = IdleThread
      /\ \A u \in Threads \ {t} : thread'[u] = thread[u]
      /\ UNCHANGED <<proc, worker, faults>>
  BY RefusedEffect DEF BoundsInv
<1> HIDE DEF p, n
<1>2. /\ ActiveJobs' \subseteq ActiveJobs /\ RunningRows' \subseteq RunningRows
      /\ Inserters' \subseteq Inserters
  BY <1>1 DEF ActiveJobs, Active, ActiveStatus, RunningRows, Inserters, IdleThread
<1>3. \A q \in Procs : Live(q)' => Live(q) /\ Beside(q)' \subseteq Beside(q)
  BY <1>1, <1>2 DEF Live, Beside
<1>4. \A q \in Procs : proc'[q] # "up"
  BY <1>1, NoneStarting DEF BoundsInv, Live
<1>5. QED
  BY <1>1, <1>2, <1>3, <1>4, PlacesKept, RunningKept, OwnersKept, RefusedRowInv DEF BoundsInv

\* The job moves from the queue to the worker, which had none.
LEMMA FetchBounds ==
  ASSUME BoundsInv, NEW p \in Procs, Fetch(p)
  PROVE  BoundsInv'
<1>1. PICK n \in Jobs :
        /\ Live(p) /\ worker[p].pc = "idle" /\ row[n].status = "pending"
        /\ worker'[p] = [pc |-> "fetched", job |-> n]
        /\ \A q \in Procs \ {p} : worker'[q] = worker[q]
        /\ \A q \in Procs, j \in Jobs : InQueue(q, j)' <=> InQueue(q, j) /\ ~(q = p /\ j = n)
        /\ UNCHANGED <<row, proc, thread, faults>>
  BY FetchEffect DEF BoundsInv
<1>2. worker[p].job = None /\ None \notin Jobs
  BY <1>1, Shapes DEF BoundsInv, RowInv, NoSpareJobs
<1>3. /\ ActiveJobs' = ActiveJobs /\ RunningRows' = RunningRows /\ Inserters' = Inserters
  BY <1>1 DEF ActiveJobs, Active, RunningRows, Inserters
<1>4. \A q \in Procs : Live(q)' => Live(q) /\ Beside(q)' \subseteq Beside(q)
  BY <1>1, <1>2, <1>3 DEF Live, Beside, RunningRows
<1>5. ASSUME NEW q \in Procs, NEW j \in Jobs, Owned(q, j)
      PROVE  Owned(q, j)'
  <2>1. CASE InQueue(q, j)
    <3>1. InQueue(q, j)' \/ worker'[q].job = j
      BY <1>1, <2>1
    <3>2. QED
      BY <3>1 DEF Owned
  <2>2. CASE worker[q].job = j
    <3>1. q # p
      BY <1>2, <2>2
    <3>2. QED
      BY <1>1, <2>2, <3>1 DEF Owned
  <2>3. CASE \E u \in ThreadsOf(q) : thread[u].job = j
    BY <1>1, <2>3 DEF Owned, ThreadsOf
  <2>4. QED
    BY <1>5, <2>1, <2>2, <2>3 DEF Owned
<1>6. \A q \in Procs : proc'[q] = "up" => proc[q] = "up" /\ Unowned(q)' \subseteq Unowned(q)
  BY <1>1, <1>3, <1>5 DEF Unowned, ActiveJobs
<1>7. QED
  BY <1>1, <1>3, <1>4, <1>6, PlacesKept, RunningKept, OwnersKept, FetchRowInv DEF BoundsInv

\* Before it begins, the worker's row is none of those that say "running".
LEMMA BeginBounds ==
  ASSUME BoundsInv, NEW p \in Procs, Begin(p)
  PROVE  BoundsInv'
<1> DEFINE n == worker[p].job
<1>1. /\ Live(p) /\ n \in Jobs /\ row[n].status = "pending"
      /\ row'[n].status = "running"
      /\ \A j \in Jobs \ {n} : row'[j] = row[j]
      /\ worker'[p].job = n
      /\ \A q \in Procs \ {p} : worker'[q] = worker[q]
      /\ UNCHANGED <<proc, thread, queue, faults>>
  BY BeginEffect DEF BoundsInv
<1>2. worker[p].job = n
  OBVIOUS
<1> HIDE DEF n
<1>3. ActiveJobs' = ActiveJobs /\ Inserters' = Inserters /\ RunningRows' = RunningRows \cup {n}
  BY <1>1 DEF ActiveJobs, Active, ActiveStatus, Inserters, RunningRows
<1>4. Beside(p) = RunningRows /\ Beside(p)' = RunningRows
  BY <1>1, <1>2, <1>3 DEF Beside, RunningRows
<1>5. RunningCounted'
  <2>1. Cardinality(RunningRows) <= faults
    BY <1>1, <1>4 DEF BoundsInv, RunningCounted
  <2>2. Cardinality(RunningRows') <= Cardinality(RunningRows) + 1 /\ Cardinality(RunningRows') \in Nat
    BY <1>3, FiniteParts, AtMostOneMore
  <2>3. \A q \in Procs : Live(q)' => q = p
    BY <1>1, NoneStarting DEF BoundsInv, Live
  <2>4. QED
    BY <1>1, <1>4, <2>1, <2>2, <2>3, FiniteParts DEF RunningCounted
<1>6. \A q \in Procs, j \in Jobs : Owned(q, j) => Owned(q, j)'
  BY <1>1, <1>2 DEF Owned, InQueue, ThreadsOf
<1>7. \A q \in Procs : proc'[q] = "up" => proc[q] = "up" /\ Unowned(q)' \subseteq Unowned(q)
  BY <1>1, <1>3, <1>6 DEF Unowned, ActiveJobs
<1>8. QED
  BY <1>1, <1>3, <1>5, <1>7, PlacesKept, OwnersKept, BeginRowInv DEF BoundsInv

\* The worker rests: its row is closed, or one more commit is lost.
LEMMA EndBounds ==
  ASSUME BoundsInv, NEW p \in Procs,
         Succeed(p) \/ (\E s \in {"paused", "failed"} : Stop(p, s)) \/ LoseWrite(p)
  PROVE  BoundsInv'
<1> DEFINE n == worker[p].job
<1>1. /\ Live(p) /\ n \in Jobs
      /\ \/ row'[n].status \in FinalStatus /\ faults' = faults
         \/ row' = row /\ faults' = faults + 1
      /\ \A j \in Jobs \ {n} : row'[j] = row[j]
      /\ worker'[p] = IdleWorker
      /\ \A q \in Procs \ {p} : worker'[q] = worker[q]
      /\ UNCHANGED <<proc, thread, queue>>
  BY EndEffect DEF BoundsInv
<1>2. worker[p].job = n /\ IdleWorker.job = None /\ None \notin Jobs
  BY JobsAssumption DEF IdleWorker
<1> HIDE DEF n
<1>3. /\ ActiveJobs' \subseteq ActiveJobs /\ RunningRows' \subseteq RunningRows
      /\ Inserters' = Inserters
      /\ faults' = faults => n \notin ActiveJobs' /\ n \notin RunningRows'
  BY <1>1, FiniteParts DEF ActiveJobs, Active, ActiveStatus, FinalStatus, RunningRows, Inserters
<1>4. RowInv' /\ PlacesCounted'
  BY <1>3, PlacesKept, EndRowInv DEF BoundsInv
<1>5. \A q \in Procs : Live(q)' => q = p
  BY <1>1, NoneStarting DEF BoundsInv, Live
<1>6. ASSUME NEW j \in Jobs, j # n, Owned(p, j)
      PROVE  Owned(p, j)'
  BY <1>1, <1>2, <1>6 DEF Owned, InQueue, ThreadsOf
<1>7. Unowned(p)' \subseteq Unowned(p) \cup {n} /\ Beside(p)' \subseteq Beside(p) \cup {n}
  BY <1>2, <1>3, <1>6 DEF Unowned, Beside, ActiveJobs, RunningRows
<1>8. CASE faults' = faults
  <2>1. Unowned(p)' \subseteq Unowned(p) /\ Beside(p)' \subseteq Beside(p)
    BY <1>3, <1>7, <1>8 DEF Unowned, Beside
  <2>2. \A q \in Procs : Live(q)' => Live(q) /\ Beside(q)' \subseteq Beside(q)
    BY <1>1, <1>5, <2>1
  <2>3. \A q \in Procs : proc'[q] = "up" => proc[q] = "up" /\ Unowned(q)' \subseteq Unowned(q)
    BY <1>1, <1>5, <2>1 DEF Live
  <2>4. QED
    BY <1>3, <1>4, <1>8, <2>2, <2>3, RunningKept, OwnersKept DEF BoundsInv
<1>9. CASE faults' = faults + 1
  <2>1. /\ Cardinality(Unowned(p)') <= Cardinality(Unowned(p)) + 1
        /\ Cardinality(Unowned(p)') \in Nat
    BY <1>7, FiniteParts, AtMostOneMore
  <2>2. /\ Cardinality(Beside(p)') <= Cardinality(Beside(p)) + 1
        /\ Cardinality(Beside(p)') \in Nat
    BY <1>7, FiniteParts, AtMostOneMore
  <2>3. Cardinality(RunningRows') <= Cardinality(RunningRows) /\ Cardinality(RunningRows') \in Nat
    BY <1>3, FiniteParts, AtMost
  <2>4. RunningCounted'
    BY <1>1, <1>5, <1>9, <2>2, <2>3, FiniteParts DEF BoundsInv, RunningCounted
  <2>5. OwnersCounted'
    BY <1>1, <1>5, <1>9, <2>1, FiniteParts DEF BoundsInv, OwnersCounted, Live
  <2>6. QED
    BY <1>4, <2>4, <2>5 DEF BoundsInv
<1>10. QED
  BY <1>1, <1>8, <1>9

\* No process is "up" after Start, Shutdown, Exit and Crash; the sets only
\* shrink.
LEMMA ProcessBounds ==
  ASSUME BoundsInv, ~Overlap, NEW p \in Procs,
         Start(p) \/ Shutdown(p) \/ Exit(p) \/ Crash(p)
  PROVE  BoundsInv'
<1>1. CASE Start(p)
  <2>1. /\ UNCHANGED <<row, faults, thread>>
        /\ \A q \in Procs : ~Live(q)'
    BY <1>1, StartRowInv DEF BoundsInv
  <2>2. /\ ActiveJobs' = ActiveJobs /\ RunningRows' = RunningRows /\ Inserters' = Inserters
    BY <2>1 DEF ActiveJobs, Active, RunningRows, Inserters
  <2>3. \A q \in Procs : proc'[q] # "up"
    BY <2>1 DEF Live
  <2>4. QED
    BY <1>1, <2>1, <2>2, <2>3, PlacesKept, RunningKept, OwnersKept, StartRowInv DEF BoundsInv
<1>2. CASE Shutdown(p) \/ Exit(p) \/ Crash(p)
  <2>1. /\ Started(p)
        /\ \/ proc[p] = "up" /\ proc'[p] = "draining" /\ UNCHANGED worker
           \/ proc'[p] = "gone"
        /\ \A q \in Procs \ {p} : proc'[q] = proc[q]
        /\ \A u \in Threads : thread'[u] = thread[u] \/ thread'[u] = IdleThread
        /\ UNCHANGED <<row, faults>>
    BY <1>2, LeaveEffect DEF BoundsInv
  <2>2. \A q \in Procs \ {p} : ~Started(q)'
    BY <2>1 DEF BoundsInv, RowInv, OneProcess, Started
  <2>3. /\ ActiveJobs' = ActiveJobs /\ RunningRows' = RunningRows /\ Inserters' \subseteq Inserters
    BY <2>1 DEF ActiveJobs, Active, RunningRows, Inserters, IdleThread
  <2>4. \A q \in Procs : Live(q)' => Live(q) /\ Beside(q)' \subseteq Beside(q)
    <3>1. ASSUME NEW q \in Procs, Live(q)'
          PROVE  q = p /\ proc[p] = "up" /\ UNCHANGED worker
      BY <2>1, <2>2, <3>1 DEF Live, Started
    <3>2. QED
      BY <2>3, <3>1 DEF Live, Beside
  <2>5. \A q \in Procs : proc'[q] # "up"
    BY <2>1, <2>2 DEF Started
  <2>6. QED
    BY <1>2, <2>1, <2>3, <2>4, <2>5, PlacesKept, RunningKept, OwnersKept, LeaveRowInv DEF BoundsInv
<1>3. QED
  BY <1>1, <1>2

\* A start leaves no row active.
LEMMA ReconcileBounds ==
  ASSUME BoundsInv, NEW p \in Procs, Reconcile(p)
  PROVE  BoundsInv'
<1>1. /\ \A j \in ActiveJobs : row'[j].status = "failed"
      /\ \A j \in Jobs \ ActiveJobs : row'[j] = row[j]
      /\ UNCHANGED <<thread, faults>>
  BY ReconcileEffect DEF BoundsInv
<1>2. ActiveJobs' = {} /\ Inserters' = Inserters
  BY <1>1 DEF ActiveJobs, Active, ActiveStatus, Inserters
<1>3. RunningRows' = {} /\ \A q \in Procs : Beside(q)' = {} /\ Unowned(q)' = {}
  <2>1. RunningRows' = {}
    BY <1>2 DEF ActiveJobs, Active, ActiveStatus, RunningRows
  <2>2. QED
    BY <1>2, <2>1 DEF Beside, Unowned
<1>4. PlacesCounted'
  BY <1>2, PlacesKept
<1>5. RunningCounted' /\ OwnersCounted'
  <2>1. Cardinality({}) = 0 /\ faults' = faults /\ faults \in Nat
    BY <1>1, FS_EmptySet, FiniteParts
  <2>2. RunningCounted'
    BY <1>3, <2>1 DEF RunningCounted
  <2>3. OwnersCounted'
    BY <1>3, <2>1 DEF OwnersCounted
  <2>4. QED
    BY <2>2, <2>3
<1>6. QED
  BY <1>4, <1>5, ReconcileRowInv DEF BoundsInv

LEMMA NextBounds ==
  ASSUME ~Overlap, BoundsInv, [Next]_vars
  PROVE  BoundsInv'
<1>1. CASE UNCHANGED vars
  <2>1. RunningCounted' /\ OwnersCounted'
    BY <1>1, QuietBounds DEF vars, db
  <2>2. ActiveJobs' = ActiveJobs /\ Inserters' = Inserters
    BY <1>1 DEF vars, db, ActiveJobs, Active, Inserters
  <2>3. QED
    BY <2>1, <2>2, PlacesKept, NextRowInv DEF BoundsInv
<1>2. ASSUME NEW t \in Threads, ThreadStep(t)
      PROVE  BoundsInv'
  BY <1>2, InsertBounds, SubmitBounds, RefusedBounds, WaitBounds DEF ThreadStep
<1>3. ASSUME NEW p \in Procs, WorkerStep(p) \/ LoseWrite(p)
      PROVE  BoundsInv'
  BY <1>3, FetchBounds, BeginBounds, EndBounds DEF WorkerStep
<1>4. ASSUME NEW p \in Procs, Start(p) \/ Reconcile(p) \/ Shutdown(p) \/ Exit(p) \/ Crash(p)
      PROVE  BoundsInv'
  BY <1>4, ProcessBounds, ReconcileBounds
<1>5. QED
  BY <1>1, <1>2, <1>3, <1>4, RequestBounds DEF Next

LEMMA BoundsHold ==
  ASSUME ~Overlap
  PROVE  Spec => []BoundsInv
BY InitBounds, NextBounds, PTL DEF Spec

\* Races at the limit never admit more rows than the limit and the threads
\* between count and insert; at most one row beside the lost commits says
\* "running"; and while a process serves, every active row but one per lost
\* commit is still owned by it.
THEOREM RowsWithinBounds ==
  ASSUME ~Overlap
  PROVE  Spec => []RowsBounded
<1>1. ASSUME BoundsInv PROVE RowsBounded
  <2>1. QueueOverrunBounded
    BY <1>1, FiniteParts DEF BoundsInv, PlacesCounted, QueueOverrunBounded
  <2>2. RunningBounded
    BY <1>1 DEF BoundsInv, RunningCounted, RunningRows, RunningBounded
  <2>3. LostJobsBounded
    BY <1>1 DEF BoundsInv, OwnersCounted, Unowned, LostJobsBounded
  <2>4. QED
    BY <2>1, <2>2, <2>3 DEF RowsBounded
<1>2. QED
  BY <1>1, BoundsHold, PTL
-----------------------------------------------------------------------------
(* The rows implement the lifecycle, while no commit is lost.              *)

Statuses == [j \in Jobs |-> row[j].status]
JobCommands == [j \in Jobs |-> row[j].command]

\* One row changes its status, from what it was.
LEMMA OneStatus ==
  ASSUME NEW n \in Jobs, NEW s, row'[n].status = s, row'[n].command = row[n].command,
         \A j \in Jobs \ {n} : row'[j] = row[j]
  PROVE  Statuses' = [Statuses EXCEPT ![n] = s] /\ JobCommands' = JobCommands
<1>1. \A j \in Jobs : row'[j].command = row[j].command
                      /\ row'[j].status = IF j = n THEN s ELSE row[j].status
  OBVIOUS
<1>2. QED
  BY <1>1 DEF Statuses, JobCommands

\* Without lost commits the rows that say "running" are the worker's.
LEMMA NoneBeside ==
  ASSUME BoundsInv, MaxFaults = 0, NEW p \in Procs, Live(p)
  PROVE  Beside(p) = {}
<1>1. faults = 0 /\ IsFiniteSet(Beside(p)) /\ Cardinality(Beside(p)) \in Nat
  BY FiniteParts, Shapes DEF BoundsInv, RowInv
<1>2. Cardinality(Beside(p)) = 0
  BY <1>1 DEF BoundsInv, RunningCounted
<1>3. QED
  BY <1>1, <1>2, FS_EmptySet

LEMMA InitLifecycle == Init => Lifecycle!Init
BY DEF Init, NoRow, Lifecycle!Init

LEMMA InsertAccepts ==
  ASSUME BoundsInv, NEW t \in Threads, NEW n \in Jobs, Insert(t, n)
  PROVE  Lifecycle!Next
<1>1. PICK c \in Commands :
        /\ thread[t].command = c /\ row[n].status = "absent" /\ ~HasRow(c)
        /\ row'[n].status = "pending" /\ row'[n].command = c
        /\ \A j \in Jobs \ {n} : row'[j] = row[j]
  BY InsertEffect, Shapes DEF BoundsInv, RowInv
<1>2. None \notin Commands
  BY JobsAssumption
<1>3. \A k \in Jobs : row[k].command # c
  BY <1>1, <1>2 DEF HasRow, BoundsInv, RowInv, JobInv, AbsentBlank
<1>4. /\ Statuses' = [Statuses EXCEPT ![n] = "pending"]
      /\ JobCommands' = [JobCommands EXCEPT ![n] = c]
  <2>1. \A j \in Jobs :
          /\ row'[j].command = IF j = n THEN c ELSE row[j].command
          /\ row'[j].status = IF j = n THEN "pending" ELSE row[j].status
    BY <1>1
  <2>2. QED
    BY <2>1 DEF Statuses, JobCommands
<1>5. Lifecycle!Accept(n, c)
  BY <1>1, <1>3, <1>4 DEF Lifecycle!Accept, Statuses, JobCommands
<1>6. QED
  BY <1>5 DEF Lifecycle!Next

LEMMA RefusedRejects ==
  ASSUME BoundsInv, NEW t \in Threads, SubmitRefused(t)
  PROVE  Lifecycle!Next
<1>1. PICK n \in Jobs :
        /\ row[n].status = "pending"
        /\ row'[n].status = "failed" /\ row'[n].command = row[n].command
        /\ \A j \in Jobs \ {n} : row'[j] = row[j]
  BY RefusedEffect DEF BoundsInv
<1>2. Statuses' = [Statuses EXCEPT ![n] = "failed"] /\ JobCommands' = JobCommands
  BY <1>1, OneStatus
<1>3. Lifecycle!Reject(n)
  BY <1>1, <1>2 DEF Lifecycle!Reject, Statuses, JobCommands
<1>4. QED
  BY <1>3 DEF Lifecycle!Next

LEMMA BeginBegins ==
  ASSUME BoundsInv, MaxFaults = 0, NEW p \in Procs, Begin(p)
  PROVE  Lifecycle!Next
<1>1. PICK n \in Jobs :
        /\ n = worker[p].job /\ row[n].status = "pending" /\ Live(p)
        /\ row'[n].status = "running" /\ row'[n].command = row[n].command
        /\ \A j \in Jobs \ {n} : row'[j] = row[j]
  BY BeginEffect DEF BoundsInv
<1>2. \A k \in Jobs : row[k].status # "running"
  BY <1>1, NoneBeside DEF Beside, RunningRows
<1>3. Statuses' = [Statuses EXCEPT ![n] = "running"] /\ JobCommands' = JobCommands
  BY <1>1, OneStatus
<1>4. Lifecycle!Begin(n)
  BY <1>1, <1>2, <1>3 DEF Lifecycle!Begin, Statuses, JobCommands
<1>5. QED
  BY <1>4 DEF Lifecycle!Next

LEMMA EndEnds ==
  ASSUME BoundsInv, MaxFaults = 0, NEW p \in Procs,
         Succeed(p) \/ (\E s \in {"paused", "failed"} : Stop(p, s)) \/ LoseWrite(p)
  PROVE  Lifecycle!Next \/ UNCHANGED Lifecycle!vars
<1>1. PICK n \in Jobs :
        /\ \/ /\ row[n].status = "running" /\ row'[n].status \in FinalStatus
              /\ row'[n].command = row[n].command
           \/ row' = row
        /\ \A j \in Jobs \ {n} : row'[j] = row[j]
  BY EndEffect DEF BoundsInv
<1>2. CASE row' = row
  BY <1>2 DEF Lifecycle!vars
<1>3. CASE /\ row[n].status = "running" /\ row'[n].status \in FinalStatus
           /\ row'[n].command = row[n].command
  <2>1. PICK s \in FinalStatus : row'[n].status = s
    BY <1>3
  <2>2. Statuses' = [Statuses EXCEPT ![n] = s] /\ JobCommands' = JobCommands
    BY <1>1, <1>3, <2>1, OneStatus
  <2>3. Lifecycle!End(n, s)
    BY <1>1, <1>3, <2>2 DEF Lifecycle!End, Statuses, JobCommands
  <2>4. s \in Lifecycle!Final
    BY DEF Lifecycle!Final, FinalStatus
  <2>5. QED
    BY <2>3, <2>4 DEF Lifecycle!Next
<1>4. QED
  BY <1>1, <1>2, <1>3

LEMMA ReconcileCloses ==
  ASSUME BoundsInv, NEW p \in Procs, Reconcile(p)
  PROVE  Lifecycle!Next
<1>1. /\ \A j \in Jobs : row'[j].command = row[j].command
      /\ \A j \in ActiveJobs : row'[j].status = "failed"
      /\ \A j \in Jobs \ ActiveJobs : row'[j] = row[j]
  BY ReconcileEffect DEF BoundsInv
<1>2. \A j \in Jobs :
        row'[j].status = IF row[j].status \in ActiveStatus THEN "failed" ELSE row[j].status
  BY <1>1 DEF ActiveJobs, Active
<1>3. Lifecycle!CloseAll
  BY <1>1, <1>2 DEF Lifecycle!CloseAll, Lifecycle!ActiveStatus, ActiveStatus
<1>4. QED
  BY <1>3 DEF Lifecycle!Next

LEMMA NextLifecycle ==
  ASSUME BoundsInv, ~Overlap, MaxFaults = 0, [Next]_vars
  PROVE  Lifecycle!Next \/ UNCHANGED Lifecycle!vars
<1>1. CASE row' = row
  BY <1>1 DEF Lifecycle!vars
<1>2. ASSUME NEW t \in Threads, ThreadStep(t)
      PROVE  Lifecycle!Next \/ row' = row
  BY <1>2, InsertAccepts, RefusedRejects
     DEF ThreadStep, Admit, Refuse, InsertConflict, Submit, db
<1>3. ASSUME NEW p \in Procs, WorkerStep(p) \/ LoseWrite(p)
      PROVE  Lifecycle!Next \/ UNCHANGED Lifecycle!vars
  <2>1. CASE Fetch(p)
    BY <1>1, <2>1 DEF Fetch, db
  <2>2. QED
    BY <1>3, <2>1, BeginBegins, EndEnds DEF WorkerStep
<1>4. ASSUME NEW p \in Procs, Start(p) \/ Reconcile(p) \/ Shutdown(p) \/ Exit(p) \/ Crash(p)
      PROVE  Lifecycle!Next \/ row' = row
  BY <1>4, ReconcileCloses DEF Start, StartReading, Shutdown, Exit, Crash, db
<1>5. ASSUME NEW p \in Procs, NEW c \in Commands, NEW k \in Tasks,
             (\E j \in Jobs : Replay(p, c, k, j)) \/ (\E t \in Threads : Lookup(t, p, c, k))
      PROVE  row' = row
  BY <1>5 DEF Replay, Lookup, db
<1>6. CASE UNCHANGED vars
  BY <1>1, <1>6 DEF vars, db
<1>7. QED
  BY <1>1, <1>2, <1>3, <1>4, <1>5, <1>6 DEF Next

\* While one process serves at a time and no commit of the executor is lost,
\* the table implements the job lifecycle, step by step, whatever threads and
\* processes stand behind it.
THEOREM RefinesLifecycle ==
  ASSUME ~Overlap, MaxFaults = 0
  PROVE  Spec => ImplementsLifecycle
<1>1. BoundsInv /\ [Next]_vars => [Lifecycle!Next]_(Lifecycle!vars)
  BY NextLifecycle
<1>2. QED
  BY <1>1, InitLifecycle, BoundsHold, PTL DEF Spec, ImplementsLifecycle, Lifecycle!Spec
=============================================================================
