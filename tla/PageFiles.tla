------------------------------ MODULE PageFiles ------------------------------
(***************************************************************************)
(* The files behind one collected page: the job and result files of the    *)
(* worker process (runtime/isolated_process.py), the worker's own atomic   *)
(* write of its result, the content-addressed raw archive                  *)
(* (connectors/archive.py), and then the commit of the records that name   *)
(* the archive file.  Calls run in threads and processes of their own,     *)
(* may be cancelled or killed, and may archive the same bytes at once.     *)
(***************************************************************************)
EXTENDS Naturals, FiniteSets

CONSTANTS PageCalls,  \* collected pages; their bytes are identical
          PageKills   \* bound: kills of a caller per behaviour

ASSUME PageAssumption == PageKills \in Nat

VARIABLES
  pageCall,    \* where run_json_worker, then store, then the commit is
  pageWorker,  \* the worker process of the call
  pageJob,     \* files of the call in <workspace>/jobs
  pageArchive, \* state of the archive file of these bytes
  pageTemp,    \* calls whose temporary of the archive file exists
  pageRecords, \* committed records that name the archive file
  pageKilled

pageVars == <<pageCall, pageWorker, pageJob, pageArchive, pageTemp, pageRecords, pageKilled>>
pageStore == <<pageArchive, pageTemp, pageRecords>>
-----------------------------------------------------------------------------
PagePc == {"idle", "job", "spawn", "wait", "ending", "read", "failing", "cancelling",
           "store", "temporary", "replace", "commit",
           "stored", "raised", "cancelled", "killed"}
PageGo(c, pc) == pageCall' = [pageCall EXCEPT ![c] = pc]
PageOver(c) == pageCall[c] \in {"stored", "raised", "cancelled", "killed"}
PageRuns(c) == pageWorker[c] \in {"running", "writing"}

PageInit ==
  /\ pageCall = [c \in PageCalls |-> "idle"]
  /\ pageWorker = [c \in PageCalls |-> "none"]
  /\ pageJob = [c \in PageCalls |-> {}]
  /\ pageArchive = "absent"
  /\ pageTemp = {}
  /\ pageRecords = {}
  /\ pageKilled = 0

\* run_json_worker: the job file is put in place.
PageWriteJob(c) ==
  \/ /\ pageCall[c] = "idle"
     /\ PageGo(c, "job")
     /\ pageJob' = [pageJob EXCEPT ![c] = {"temporary"}]
     /\ UNCHANGED <<pageWorker, pageStore, pageKilled>>
  \/ /\ pageCall[c] = "job"
     /\ PageGo(c, "spawn")
     /\ pageJob' = [pageJob EXCEPT ![c] = {"job"}]
     /\ UNCHANGED <<pageWorker, pageStore, pageKilled>>

\* The directory, the temporary or its replacement fails, before the try whose
\* finally would remove a temporary that exists by then.
PageJobFails(c) ==
  /\ pageCall[c] \in {"idle", "job"}
  /\ PageGo(c, "raised")
  /\ \/ UNCHANGED pageJob
     \/ pageJob' = [pageJob EXCEPT ![c] = {"temporary"}]
  /\ UNCHANGED <<pageWorker, pageStore, pageKilled>>

\* The process starts, or does not (its environment, the operating system).
PageSpawn(c) ==
  /\ pageCall[c] = "spawn"
  /\ \/ PageGo(c, "wait") /\ pageWorker' = [pageWorker EXCEPT ![c] = "running"]
     \/ PageGo(c, "failing") /\ UNCHANGED pageWorker
  /\ UNCHANGED <<pageJob, pageStore, pageKilled>>

\* The worker: a partial file, moved over the result, exit 0; or a crash.
PageWorkerWrites(c) ==
  /\ pageWorker[c] = "running"
  /\ pageWorker' = [pageWorker EXCEPT ![c] = "writing"]
  /\ pageJob' = [pageJob EXCEPT ![c] = @ \cup {"part"}]
  /\ UNCHANGED <<pageCall, pageStore, pageKilled>>

PageWorkerEnds(c) ==
  \/ /\ pageWorker[c] = "writing"
     /\ pageWorker' = [pageWorker EXCEPT ![c] = "done"]
     /\ pageJob' = [pageJob EXCEPT ![c] = (@ \ {"part"}) \cup {"result"}]
     /\ UNCHANGED <<pageCall, pageStore, pageKilled>>
  \/ /\ PageRuns(c)
     /\ pageWorker' = [pageWorker EXCEPT ![c] = "dead"]
     /\ UNCHANGED <<pageCall, pageJob, pageStore, pageKilled>>

\* The process ended: no result or exit status other than 0 is a failure.
PageWaited(c) ==
  /\ pageCall[c] = "wait"
  /\ ~PageRuns(c)
  /\ PageGo(c, IF pageWorker[c] = "done" /\ "result" \in pageJob[c] THEN "read" ELSE "failing")
  /\ UNCHANGED <<pageWorker, pageJob, pageStore, pageKilled>>

\* Mutant: the process is told to stop but not waited for.
PageTimeoutNoWait(c) ==
  /\ pageCall[c] = "wait"
  /\ PageGo(c, "failing")
  /\ UNCHANGED <<pageWorker, pageJob, pageStore, pageKilled>>

\* Time is up: terminate, wait, kill.
PageTimeout(c) ==
  \/ /\ pageCall[c] = "wait"
     /\ PageGo(c, "ending")
     /\ UNCHANGED <<pageWorker, pageJob, pageStore, pageKilled>>
  \/ /\ pageCall[c] = "ending"
     /\ PageGo(c, "failing")
     /\ pageWorker' = [pageWorker EXCEPT ![c] = IF PageRuns(c) THEN "dead" ELSE @]
     /\ UNCHANGED <<pageJob, pageStore, pageKilled>>

\* A process that was being started is closed by asyncio; one that is waited
\* for goes on.
PageCancel(c) ==
  /\ pageCall[c] \in {"spawn", "wait", "ending"}
  /\ PageGo(c, "cancelling")
  /\ UNCHANGED <<pageWorker, pageJob, pageStore, pageKilled>>

\* The finally clause, after a result that is read (its size and JSON may
\* still make it a failure), a failure or a cancellation.  The removals are taken
\* to succeed.
PageTidy(c) ==
  /\ pageCall[c] \in {"read", "failing", "cancelling"}
  /\ pageJob' = [pageJob EXCEPT ![c] = @ \ {"temporary", "job", "result"}]
  /\ \/ pageCall[c] = "read" /\ PageGo(c, "store")
     \/ pageCall[c] \in {"read", "failing"} /\ PageGo(c, "raised")
     \/ pageCall[c] = "cancelling" /\ PageGo(c, "cancelled")
  /\ UNCHANGED <<pageWorker, pageStore, pageKilled>>

\* FileRawResponseArchive.store: existing bytes are reused.
PageStore(c) ==
  /\ pageCall[c] = "store"
  /\ PageGo(c, IF pageArchive = "absent" THEN "temporary" ELSE "commit")
  /\ UNCHANGED <<pageWorker, pageJob, pageStore, pageKilled>>

\* Mutant: the bytes are written at their final path.
PageCompressInPlace(c) ==
  /\ pageCall[c] = "temporary"
  /\ pageArchive' = "partial"
  /\ PageGo(c, "replace")
  /\ UNCHANGED <<pageWorker, pageJob, pageTemp, pageRecords, pageKilled>>

PageCompress(c) ==
  /\ pageCall[c] = "temporary"
  /\ pageTemp' = pageTemp \cup {c}
  /\ PageGo(c, "replace")
  /\ UNCHANGED <<pageWorker, pageJob, pageArchive, pageRecords, pageKilled>>

PageReplace(c) ==
  /\ pageCall[c] = "replace"
  /\ pageArchive' = "complete"
  /\ pageTemp' = pageTemp \ {c}
  /\ PageGo(c, "commit")
  /\ UNCHANGED <<pageWorker, pageJob, pageRecords, pageKilled>>

\* store raises; its finally removes the temporary.
PageStoreFails(c) ==
  /\ pageCall[c] \in {"store", "temporary", "replace"}
  /\ pageTemp' = pageTemp \ {c}
  /\ PageGo(c, "raised")
  /\ UNCHANGED <<pageWorker, pageJob, pageArchive, pageRecords, pageKilled>>

\* The durable runner commits the records, or rolls back.
PageCommit(c) ==
  /\ pageCall[c] = "commit"
  /\ \/ pageRecords' = pageRecords \cup {c} /\ PageGo(c, "stored")
     \/ PageGo(c, "raised") /\ UNCHANGED pageRecords
  /\ UNCHANGED <<pageWorker, pageJob, pageArchive, pageTemp, pageKilled>>

\* The caller is killed: nothing is tidied, its worker lives on.
PageKill(c) ==
  /\ pageKilled < PageKills
  /\ pageKilled' = pageKilled + 1
  /\ pageCall[c] # "idle" /\ ~PageOver(c)
  /\ PageGo(c, "killed")
  /\ UNCHANGED <<pageWorker, pageJob, pageStore>>

PageNext ==
  \E c \in PageCalls :
    \/ PageWriteJob(c) \/ PageJobFails(c) \/ PageSpawn(c)
    \/ PageWorkerWrites(c) \/ PageWorkerEnds(c)
    \/ PageWaited(c) \/ PageTimeout(c) \/ PageCancel(c) \/ PageTidy(c)
    \/ PageStore(c) \/ PageCompress(c) \/ PageReplace(c) \/ PageStoreFails(c)
    \/ PageCommit(c) \/ PageKill(c)

PageSpec == PageInit /\ [][PageNext]_pageVars
-----------------------------------------------------------------------------
PageTypeOK ==
  /\ pageCall \in [PageCalls -> PagePc]
  /\ pageWorker \in [PageCalls -> {"none", "running", "writing", "done", "dead"}]
  /\ pageJob \in [PageCalls -> SUBSET {"temporary", "job", "part", "result"}]
  /\ pageArchive \in {"absent", "partial", "complete"}
  /\ pageTemp \subseteq PageCalls
  /\ pageRecords \subseteq PageCalls
  /\ pageKilled \in 0..PageKills

\* A call whose process started and that answered or raised has left no process
\* behind and no job or result file, now or later, whatever the race between its
\* time limit and a late answer (a half written result of a stopped worker
\* stays, and only a cancelled or killed call leaves its worker running).  A call
\* that failed earlier has nothing behind it but, at most, the temporary of a job
\* file that never came into place.
PageLeavesNothing ==
  \A c \in PageCalls :
    pageCall[c] \in {"store", "temporary", "replace", "commit", "stored", "raised"}
      => /\ ~PageRuns(c)
         /\ \/ pageJob[c] \subseteq {"part"}
            \/ /\ pageCall[c] = "raised" /\ pageWorker[c] = "none"
               /\ pageJob[c] = {"temporary"}

\* Every committed record names an archive file that is complete, with calls
\* that archive the same bytes at once and kills between the steps.
PageRecordsArchived == pageRecords # {} => pageArchive = "complete"

\* Both sides of a call that fails at any point: nothing it left can be taken
\* for a job or a result later, and nothing it archived is missed by a record
\* (isolated_process.py:67, archive.py:91).
PageKept == PageLeavesNothing /\ PageRecordsArchived
=============================================================================
