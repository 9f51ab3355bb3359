--------------------------- MODULE CollectionJobs ---------------------------
(***************************************************************************)
(* The persisted collection queue: operators' requests (api/collection.py) *)
(* and the snapshot scheduler (snapshot_schedules.py) insert job rows and  *)
(* hand them to the one-worker executor of their API process               *)
(* (collection_jobs.py), which may be shut down, killed and started again. *)
(*                                                                         *)
(* A step is one database statement that decides or one commit: the code   *)
(* reads in one statement and writes in a later commit, and every other    *)
(* thread or process may act in between.                                   *)
(***************************************************************************)
EXTENDS Naturals, Sequences, FiniteSets

CONSTANTS
  Jobs,         \* job ids (uuid4); at least one for every command
  Commands,     \* command hashes: (actor, idempotency key) or (schedule, slot)
  SlotCommands, \* the commands of the snapshot scheduler
  Tasks,        \* allowlisted tasks a request can name
  Procs,        \* API process instances, each started at most once
  Threads,      \* request threads and scheduler threads, over all processes
  QueueLimit,   \* the 20 of api/collection.py:189 and snapshot_schedules.py:223
  Overlap,      \* may a process start while an old one drains its worker?
  MaxFaults,    \* bound: lost commits of the executor per behaviour
  None          \* no job, no process, no command

ASSUME JobsAssumption ==
  /\ SlotCommands \subseteq Commands
  /\ QueueLimit \in Nat \ {0}
  /\ MaxFaults \in Nat
  /\ IsFiniteSet(Threads)
  /\ Overlap \in BOOLEAN
  /\ None \notin Jobs \cup Commands \cup Tasks \cup Procs

VARIABLES
  row,      \* the table collection_jobs
  audit,    \* the audit_events of each job, in order
  proc,     \* life of each API process
  orphans,  \* rows read by a process that is starting, not yet written
  queue,    \* the work queue of each process's ThreadPoolExecutor
  worker,   \* the single pool thread of each process
  thread,   \* the request and scheduler threads
  faults    \* lost commits so far

VARIABLES
  answers,  \* history: the acknowledged jobs, as the clients know them
  runs      \* history: how often the external run of a job was started

db == <<row, audit>>
vars == <<row, audit, proc, orphans, queue, worker, thread, faults, answers, runs>>
-----------------------------------------------------------------------------
ActiveStatus == {"pending", "running"}
FinalStatus == {"succeeded", "paused", "failed"}
ErrorCode == {"none", "api_restarted", "queue_unavailable", "stopped"}

Row == [status : ActiveStatus \cup FinalStatus \cup {"absent"},
        command : Commands \cup {None},
        task : Tasks \cup {None},
        error : ErrorCode]

NoRow == [status |-> "absent", command |-> None, task |-> None, error |-> "none"]

Event == {"queued", "orphaned", "succeeded", "stopped"}

ThreadState == [pc : {"idle", "admit", "insert", "submit"},
                proc : Procs \cup {None},
                command : Commands \cup {None},
                task : Tasks \cup {None},
                job : Jobs \cup {None}]

IdleThread == [pc |-> "idle", proc |-> None, command |-> None, task |-> None, job |-> None]

WorkerState == [pc : {"idle", "fetched", "running"}, job : Jobs \cup {None}]

IdleWorker == [pc |-> "idle", job |-> None]

Answer == [command : Commands, task : Tasks, job : Jobs]

Exists(j) == row[j].status # "absent"
Active(j) == row[j].status \in ActiveStatus
Final(j)  == row[j].status \in FinalStatus

ActiveJobs == {j \in Jobs : Active(j)}
HasRow(c) == \E j \in Jobs : Exists(j) /\ row[j].command = c
Log(j, e) == audit' = [audit EXCEPT ![j] = Append(@, e)]

Live(p) == proc[p] \in {"up", "draining"}
ThreadsOf(p) == {t \in Threads : thread[t].proc = p}
Rest(t) == thread' = [thread EXCEPT ![t] = IdleThread]
EndThreads(p) ==
  thread' = [t \in Threads |-> IF thread[t].proc = p THEN IdleThread ELSE thread[t]]
-----------------------------------------------------------------------------
Init ==
  /\ row = [j \in Jobs |-> NoRow]
  /\ audit = [j \in Jobs |-> <<>>]
  /\ proc = [p \in Procs |-> "off"]
  /\ orphans = {}
  /\ queue = [p \in Procs |-> <<>>]
  /\ worker = [p \in Procs |-> IdleWorker]
  /\ thread = [t \in Threads |-> IdleThread]
  /\ faults = 0
  /\ answers = {}
  /\ runs = [j \in Jobs |-> 0]
-----------------------------------------------------------------------------
(* Requests and scheduler ticks.                                           *)

\* Mutant: the stored request is not compared with the new one.
ReplayAnyRequest(p, c, k, j) ==
  /\ proc[p] = "up"
  /\ c \notin SlotCommands
  /\ Exists(j)
  /\ row[j].command = c
  /\ answers' = answers \cup {[command |-> c, task |-> k, job |-> j]}
  /\ UNCHANGED <<db, proc, orphans, queue, worker, thread, faults, runs>>

\* The same key with the same request is answered with the stored job; the
\* same key with another request is a 409, which changes nothing.
Replay(p, c, k, j) ==
  /\ proc[p] = "up"
  /\ c \notin SlotCommands
  /\ Exists(j)
  /\ row[j].command = c
  /\ row[j].task = k
  /\ answers' = answers \cup {[command |-> c, task |-> k, job |-> j]}
  /\ UNCHANGED <<db, proc, orphans, queue, worker, thread, faults, runs>>

\* No job has the command yet: the thread goes on to the readiness, source
\* and queue checks.  A process has one scheduler thread.
Lookup(t, p, c, k) ==
  /\ thread[t].pc = "idle"
  /\ proc[p] = "up"
  /\ c \in SlotCommands => \A u \in ThreadsOf(p) : thread[u].command \notin SlotCommands
  /\ ~HasRow(c)
  /\ thread' = [thread EXCEPT
       ![t] = [pc |-> "admit", proc |-> p, command |-> c, task |-> k, job |-> None]]
  /\ UNCHANGED <<db, proc, orphans, queue, worker, faults, answers, runs>>

\* Mutant: off by one at the limit.
AdmitAtLimit(t) ==
  /\ thread[t].pc = "admit"
  /\ Cardinality(ActiveJobs) <= QueueLimit
  /\ thread' = [thread EXCEPT ![t].pc = "insert"]
  /\ UNCHANGED <<db, proc, orphans, queue, worker, faults, answers, runs>>

Admit(t) ==
  /\ thread[t].pc = "admit"
  /\ Cardinality(ActiveJobs) < QueueLimit
  /\ thread' = [thread EXCEPT ![t].pc = "insert"]
  /\ UNCHANGED <<db, proc, orphans, queue, worker, faults, answers, runs>>

\* Not ready (503), source disabled (409), or queue full (429): the first
\* two depend on state outside this module and may happen at any time.
Refuse(t) ==
  /\ thread[t].pc = "admit"
  /\ Rest(t)
  /\ UNCHANGED <<db, proc, orphans, queue, worker, faults, answers, runs>>

\* Mutant: no unique index behind the lookup.
InsertUnchecked(t, j) ==
  /\ thread[t].pc = "insert"
  /\ ~Exists(j)
  /\ row' = [row EXCEPT ![j] = [status |-> "pending", command |-> thread[t].command,
                                task |-> thread[t].task, error |-> "none"]]
  /\ Log(j, "queued")
  /\ thread' = [thread EXCEPT ![t].pc = "submit", ![t].job = j]
  /\ UNCHANGED <<proc, orphans, queue, worker, faults, answers, runs>>

Insert(t, j) ==
  /\ thread[t].pc = "insert"
  /\ ~HasRow(thread[t].command)
  /\ ~Exists(j)
  /\ row' = [row EXCEPT ![j] = [status |-> "pending", command |-> thread[t].command,
                                task |-> thread[t].task, error |-> "none"]]
  /\ Log(j, "queued")
  /\ thread' = [thread EXCEPT ![t].pc = "submit", ![t].job = j]
  /\ UNCHANGED <<proc, orphans, queue, worker, faults, answers, runs>>

\* The unique index on command_hash refuses the commit.
InsertConflict(t) ==
  /\ thread[t].pc = "insert"
  /\ HasRow(thread[t].command)
  /\ Rest(t)
  /\ UNCHANGED <<db, proc, orphans, queue, worker, faults, answers, runs>>

Submit(t) ==
  LET th == thread[t] IN
  /\ th.pc = "submit"
  /\ proc[th.proc] = "up"
  /\ queue' = [queue EXCEPT ![th.proc] = Append(@, th.job)]
  /\ answers' = IF th.command \in SlotCommands THEN answers
                ELSE answers \cup {[command |-> th.command, task |-> th.task, job |-> th.job]}
  /\ Rest(t)
  /\ UNCHANGED <<db, proc, orphans, worker, faults, runs>>

\* Mutant: the error code is written into the status column.
SubmitRefusedSwapped(t) ==
  LET th == thread[t] IN
  /\ th.pc = "submit"
  /\ proc[th.proc] = "draining"
  /\ row' = [row EXCEPT ![th.job].status = "queue_unavailable", ![th.job].error = "none"]
  /\ Rest(t)
  /\ UNCHANGED <<audit, proc, orphans, queue, worker, faults, answers, runs>>

\* The executor is closed: submit raises RuntimeError and a new session marks
\* the row, without an audit event.
SubmitRefused(t) ==
  LET th == thread[t] IN
  /\ th.pc = "submit"
  /\ proc[th.proc] = "draining"
  /\ row' = [row EXCEPT ![th.job].status = "failed", ![th.job].error = "queue_unavailable"]
  /\ Rest(t)
  /\ UNCHANGED <<audit, proc, orphans, queue, worker, faults, answers, runs>>
-----------------------------------------------------------------------------
(* The executor's only pool thread.                                        *)

\* Mutant: the pool has a second thread.
FetchBeside(p) ==
  /\ Live(p)
  /\ worker[p].pc \in {"idle", "running"}
  /\ queue[p] # <<>>
  /\ queue' = [queue EXCEPT ![p] = Tail(@)]
  /\ worker' = IF row[Head(queue[p])].status = "pending"
               THEN [worker EXCEPT ![p] = [pc |-> "fetched", job |-> Head(queue[p])]]
               ELSE worker
  /\ UNCHANGED <<db, proc, orphans, thread, faults, answers, runs>>

\* A job that is no longer pending when its turn comes is skipped.
Fetch(p) ==
  /\ Live(p)
  /\ worker[p].pc = "idle"
  /\ queue[p] # <<>>
  /\ queue' = [queue EXCEPT ![p] = Tail(@)]
  /\ worker' = IF row[Head(queue[p])].status = "pending"
               THEN [worker EXCEPT ![p] = [pc |-> "fetched", job |-> Head(queue[p])]]
               ELSE worker
  /\ UNCHANGED <<db, proc, orphans, thread, faults, answers, runs>>

Begin(p) ==
  LET j == worker[p].job IN
  /\ Live(p)
  /\ worker[p].pc = "fetched"
  /\ row' = [row EXCEPT ![j].status = "running"]
  /\ runs' = [runs EXCEPT ![j] = @ + 1]
  /\ worker' = [worker EXCEPT ![p].pc = "running"]
  /\ UNCHANGED <<audit, proc, orphans, queue, thread, faults, answers>>

Succeed(p) ==
  LET j == worker[p].job IN
  /\ Live(p)
  /\ worker[p].pc = "running"
  /\ row' = [row EXCEPT ![j].status = "succeeded"]
  /\ Log(j, "succeeded")
  /\ worker' = [worker EXCEPT ![p] = IdleWorker]
  /\ UNCHANGED <<proc, orphans, queue, thread, faults, answers, runs>>

\* Task unavailable, connector failure (paused for PAUSE_CATEGORIES) or any
\* other exception.
Stop(p, s) ==
  LET j == worker[p].job IN
  /\ Live(p)
  /\ worker[p].pc = "running"
  /\ row' = [row EXCEPT ![j].status = s, ![j].error = "stopped"]
  /\ Log(j, "stopped")
  /\ worker' = [worker EXCEPT ![p] = IdleWorker]
  /\ UNCHANGED <<proc, orphans, queue, thread, faults, answers, runs>>

\* A commit of the worker raises: the exception ends in the future nobody
\* reads and the row stays as it was.
LoseWrite(p) ==
  /\ Live(p)
  /\ worker[p].pc \in {"fetched", "running"}
  /\ faults < MaxFaults
  /\ faults' = faults + 1
  /\ worker' = [worker EXCEPT ![p] = IdleWorker]
  /\ UNCHANGED <<db, proc, orphans, queue, thread, answers, runs>>
-----------------------------------------------------------------------------
(* The life of an API process.                                             *)

StartReading(p, found) ==
  /\ proc[p] = "off"
  /\ \A q \in Procs : proc[q] \in {"off", "gone"} \cup (IF Overlap THEN {"draining"} ELSE {})
  /\ proc' = [proc EXCEPT ![p] = "starting"]
  /\ orphans' = found
  /\ UNCHANGED <<db, queue, worker, thread, faults, answers, runs>>

\* Mutants: only the pending rows, only the running rows, or every row that
\* did not succeed is taken for an orphan.
StartForgettingRunning(p) == StartReading(p, {j \in Jobs : row[j].status = "pending"})
StartForgettingPending(p) == StartReading(p, {j \in Jobs : row[j].status = "running"})
StartClosingPaused(p) == StartReading(p, {j \in Jobs : Exists(j) /\ row[j].status # "succeeded"})

\* Startup reads the active rows before anything is served.  One process
\* serves at a time (docs/local_console.md:40).
Start(p) == StartReading(p, ActiveJobs)

\* Mutant: orphans are queued again instead of closed.
ReconcileRequeue(p) ==
  /\ proc[p] = "starting"
  /\ proc' = [proc EXCEPT ![p] = "up"]
  /\ row' = [j \in Jobs |-> IF j \in orphans THEN [row[j] EXCEPT !.status = "pending"] ELSE row[j]]
  /\ \E q \in [1..Cardinality(orphans) -> orphans] :
       /\ {q[i] : i \in DOMAIN q} = orphans
       /\ queue' = [queue EXCEPT ![p] = q]
  /\ orphans' = {}
  /\ UNCHANGED <<audit, worker, thread, faults, answers, runs>>

Reconcile(p) ==
  /\ proc[p] = "starting"
  /\ proc' = [proc EXCEPT ![p] = "up"]
  /\ row' = [j \in Jobs |-> IF j \in orphans
                            THEN [row[j] EXCEPT !.status = "failed", !.error = "api_restarted"]
                            ELSE row[j]]
  /\ audit' = [j \in Jobs |-> IF j \in orphans THEN Append(audit[j], "orphaned") ELSE audit[j]]
  /\ orphans' = {}
  /\ UNCHANGED <<queue, worker, thread, faults, answers, runs>>

\* The executor closes and drops its queued futures; the running job and the
\* threads in flight are not waited for.
Shutdown(p) ==
  /\ proc[p] = "up"
  /\ proc' = [proc EXCEPT ![p] = "draining"]
  /\ queue' = [queue EXCEPT ![p] = <<>>]
  /\ UNCHANGED <<db, orphans, worker, thread, faults, answers, runs>>

\* The interpreter joins the pool thread and the request threads before the
\* process ends; the scheduler thread is a daemon and dies where it is.
Exit(p) ==
  /\ proc[p] = "draining"
  /\ worker[p].pc = "idle"
  /\ \A t \in ThreadsOf(p) : thread[t].command \in SlotCommands
  /\ proc' = [proc EXCEPT ![p] = "gone"]
  /\ EndThreads(p)
  /\ UNCHANGED <<db, orphans, queue, worker, faults, answers, runs>>

Crash(p) ==
  /\ proc[p] \in {"starting", "up", "draining"}
  /\ proc' = [proc EXCEPT ![p] = "gone"]
  /\ orphans' = IF proc[p] = "starting" THEN {} ELSE orphans
  /\ queue' = [queue EXCEPT ![p] = <<>>]
  /\ worker' = [worker EXCEPT ![p] = IdleWorker]
  /\ EndThreads(p)
  /\ UNCHANGED <<db, faults, answers, runs>>
-----------------------------------------------------------------------------
ThreadStep(t) ==
  \/ Admit(t)
  \/ Refuse(t)
  \/ \E j \in Jobs : Insert(t, j)
  \/ InsertConflict(t)
  \/ Submit(t)
  \/ SubmitRefused(t)

WorkerStep(p) ==
  \/ Fetch(p)
  \/ Begin(p)
  \/ Succeed(p)
  \/ \E s \in {"paused", "failed"} : Stop(p, s)

Next ==
  \/ \E p \in Procs, c \in Commands, k \in Tasks :
       \/ \E j \in Jobs : Replay(p, c, k, j)
       \/ \E t \in Threads : Lookup(t, p, c, k)
  \/ \E t \in Threads : ThreadStep(t)
  \/ \E p \in Procs :
       \/ WorkerStep(p)
       \/ LoseWrite(p)
       \/ Start(p)
       \/ Reconcile(p)
       \/ Shutdown(p)
       \/ Exit(p)
       \/ Crash(p)

\* Threads and the worker run when they can; connectors end by their own
\* timeouts; a stopped API is started again (compose restarts it).
Fairness ==
  /\ \A t \in Threads : WF_vars(ThreadStep(t))
  /\ \A p \in Procs : WF_vars(WorkerStep(p)) /\ WF_vars(Reconcile(p)) /\ WF_vars(Exit(p))
  /\ WF_vars(\E p \in Procs : Start(p))

Spec == Init /\ [][Next]_vars
FairSpec == Spec /\ Fairness
-----------------------------------------------------------------------------
(* Properties.                                                             *)

TypeOK ==
  /\ row \in [Jobs -> Row]
  /\ audit \in [Jobs -> Seq(Event)]
  /\ proc \in [Procs -> {"off", "starting", "up", "draining", "gone"}]
  /\ orphans \subseteq Jobs
  /\ queue \in [Procs -> Seq(Jobs)]
  /\ worker \in [Procs -> WorkerState]
  /\ thread \in [Threads -> ThreadState]
  /\ faults \in 0..MaxFaults
  /\ answers \subseteq Answer
  /\ runs \in [Jobs -> Nat]

\* Two rows never carry the same command, although the lookup of a command
\* and the insert of its job are separate steps of concurrent threads
\* (api/collection.py:170-216, snapshot_schedules.py:212-254).
OneJobPerCommand ==
  \A j, k \in Jobs : Exists(j) /\ Exists(k) /\ row[j].command = row[k].command => j = k

\* Every answer a client ever got for one idempotency key names the same job
\* and the same request, and that job is stored: retries from several threads,
\* restarts and crashes included (docs/operations_api.md:51).
AnswersAgree ==
  \A a \in answers :
    /\ Exists(a.job) /\ row[a.job].command = a.command /\ row[a.job].task = a.task
    /\ \A b \in answers : a.command = b.command => a = b

\* The limit is counted before the insert, so concurrent threads overrun it;
\* never by more than the threads that can be between count and insert
\* (api/collection.py:187-216).
QueueOverrunBounded ==
  Cardinality(ActiveJobs) <= QueueLimit + Cardinality(Threads) - 1

\* The external run of a job is started at most once: no replay, restart or
\* shutdown repeats external requests (docs/operations_api.md:57).
RunAtMostOnce == \A j \in Jobs : runs[j] <= 1

\* The rows that say "running" are at most the one the worker runs and one
\* for each lost commit, also after a crash (collection_jobs.py:181-216).
RunningBounded ==
  Cardinality({j \in Jobs : row[j].status = "running"}) <= 1 + faults

InQueue(p, j) == \E i \in 1..Len(queue[p]) : queue[p][i] = j
Owned(p, j) ==
  \/ InQueue(p, j)
  \/ worker[p].job = j
  \/ \E t \in ThreadsOf(p) : thread[t].job = j

\* While a process serves, every active row is in its queue, in its worker or
\* about to be submitted by one of its threads, but for one row per lost
\* commit (collection_jobs.py:185-216).
LostJobsBounded ==
  \A p \in Procs : proc[p] = "up" =>
    Cardinality({j \in ActiveJobs : ~Owned(p, j)}) <= faults

\* Races at the limit and lost commits are bounded together: how many rows are
\* active, how many say "running", and how many are active with nobody left in
\* the process to run them.
RowsBounded == QueueOverrunBounded /\ RunningBounded /\ LostJobsBounded

\* A final row keeps its status and its error code for ever
\* (collection_jobs.py:209-288): no late worker, thread or restart
\* overwrites it.
FinalIsFinal ==
  [][\A j \in Jobs : Final(j) => row'[j] = row[j]]_row

\* The rows implement the lifecycle, step by step.
Lifecycle ==
  INSTANCE JobLifecycle WITH status <- [j \in Jobs |-> row[j].status],
                             command <- [j \in Jobs |-> row[j].command]

ImplementsLifecycle == Lifecycle!Spec

\* An active job reaches a final status, unless the API is not started any
\* more: a crash or a shutdown leaves nothing open once it is back.
JobsSettle ==
  \A j \in Jobs : Active(j) ~> (Final(j) \/ \A p \in Procs : proc[p] = "gone")
-----------------------------------------------------------------------------
(* The parts of the inductive invariant behind OneJobPerCommand,           *)
(* AnswersAgree and RunAtMostOnce.                                         *)

\* A thread that is not idle has a process and a request, a thread about to
\* submit and a worker that is not idle have a job.
Formed ==
  /\ \A t \in Threads :
       /\ thread[t].pc # "idle" =>
            thread[t].proc \in Procs /\ thread[t].command \in Commands /\ thread[t].task \in Tasks
       /\ thread[t].pc = "submit" => thread[t].job \in Jobs
  /\ \A p \in Procs : worker[p].pc # "idle" => worker[p].job \in Jobs

\* A job a thread is about to submit is the row that thread inserted.
SubmitsOwnRow ==
  \A t \in Threads : thread[t].pc = "submit" =>
    LET r == row[thread[t].job] IN
    r.status # "absent" /\ r.command = thread[t].command /\ r.task = thread[t].task

\* The workers and a starting process hold rows that exist.
HeldRowsExist ==
  /\ \A p \in Procs : worker[p].pc # "idle" => Exists(worker[p].job)
  /\ \A j \in orphans : Exists(j)

AnswersStored ==
  \A a \in answers :
    Exists(a.job) /\ row[a.job].command = a.command /\ row[a.job].task = a.task

\* A row that does not exist is blank.
AbsentBlank == \A j \in Jobs : ~Exists(j) => row[j].command = None /\ runs[j] = 0

Fresh(j) == Exists(j) /\ runs[j] = 0
Holding(t, j) == thread[t].pc = "submit" /\ thread[t].job = j
Fetched(p, j) == worker[p].pc = "fetched" /\ worker[p].job = j

\* The right to start a job is held in one place only: the thread that will
\* submit it, a position of a queue, or a worker that took it; and a job
\* whose right is held was never started.
ClaimsFresh ==
  \A j \in Jobs :
    /\ \A t \in Threads : Holding(t, j) => Fresh(j)
    /\ \A p \in Procs : InQueue(p, j) \/ Fetched(p, j) => Fresh(j)

ClaimsExclusive ==
  /\ \A j \in Jobs, t \in Threads :
       /\ \A u \in Threads : Holding(t, j) /\ Holding(u, j) => t = u
       /\ \A p \in Procs : Holding(t, j) => ~InQueue(p, j) /\ ~Fetched(p, j)
  /\ \A j \in Jobs, p \in Procs, q \in Procs :
       /\ InQueue(p, j) /\ InQueue(q, j) => p = q
       /\ Fetched(p, j) /\ Fetched(q, j) => p = q
       /\ ~(InQueue(p, j) /\ Fetched(q, j))
  /\ \A p \in Procs : \A i, k \in 1..Len(queue[p]) : queue[p][i] = queue[p][k] => i = k

JobInv ==
  /\ TypeOK
  /\ Formed
  /\ AbsentBlank
  /\ SubmitsOwnRow
  /\ HeldRowsExist
  /\ OneJobPerCommand
  /\ AnswersStored
  /\ ClaimsFresh
  /\ ClaimsExclusive
  /\ RunAtMostOnce
-----------------------------------------------------------------------------
(* What the documentation says and the code does not keep.                 *)

\* docs/operations_api.md:57: a restart closes the jobs of the previous
\* process as failed/api_restarted; what to do next is left to a person.
OrphansStayClosed ==
  [][\A j \in Jobs : row[j].error = "api_restarted" /\ row[j].status = "failed"
         => row'[j].status = "failed"]_row

\* docs/operations_api.md:51 and :61: at most the limit's number of rows are
\* pending or running at any time.
QueueLimitHolds == Cardinality(ActiveJobs) <= QueueLimit
=============================================================================
