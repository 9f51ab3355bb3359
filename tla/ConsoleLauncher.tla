-------------------------- MODULE ConsoleLauncher --------------------------
(***************************************************************************)
(* The supervisors of the local console (console_launcher.py) on one       *)
(* Windows machine and one runtime directory: the instance lock, the state *)
(* file runtime.json that the scripts read, and the two children, API and  *)
(* page, each on its port. A supervisor may be killed at any step; that is *)
(* how scripts/stop-console.ps1 stops it, which then writes the state file *)
(* itself.  Every write of the state file may fail: a script that reads it *)
(* and a full disk make os.replace raise.                                  *)
(***************************************************************************)
EXTENDS Naturals, FiniteSets

CONSTANTS
  LaunchRuns,   \* processes that run main
  LaunchNobody,
  LaunchKills   \* bound: kills of supervisors

ASSUME LaunchAssumption == LaunchNobody \notin LaunchRuns /\ LaunchKills \in Nat

VARIABLES
  launchPc,       \* where each supervisor is
  launchStopped,  \* stop_event
  launchLock,     \* who holds console.lock
  launchFile,     \* runtime.json
  launchChildren, \* live children: whose, which, in the kill job, listening
  launchScript,   \* stop-console.ps1 for each supervisor it has terminated
  launchKilled,   \* history: where a supervisor was killed, or "no"
  launchUnsaid    \* history: supervisors whose last word could not be written

launchHistory == <<launchKilled, launchUnsaid>>
launchVars == <<launchPc, launchStopped, launchLock, launchFile, launchChildren,
                launchScript, launchHistory>>
-----------------------------------------------------------------------------
LaunchPorts == {"api", "ui"}
LaunchPcs == {"out", "locked", "ports", "migrate", "api", "api_add", "api_wait",
              "ui", "ui_add", "ui_wait", "ready", "ending", "unlocked", "over"}

LaunchAdding == [api |-> "api_add", ui |-> "ui_add"]
LaunchWaiting == [api |-> "api_wait", ui |-> "ui_wait"]

LaunchInit ==
  /\ launchPc = [s \in LaunchRuns |-> "out"]
  /\ launchStopped = [s \in LaunchRuns |-> FALSE]
  /\ launchLock = LaunchNobody
  /\ launchFile = [by |-> LaunchNobody, status |-> "stopped"]
  /\ launchChildren = {}
  /\ launchScript = [s \in LaunchRuns |-> "none"]
  /\ launchKilled = [s \in LaunchRuns |-> "no"]
  /\ launchUnsaid = {}

LaunchGo(s, from, to) == launchPc[s] = from /\ launchPc' = [launchPc EXCEPT ![s] = to]
LaunchState(s, status) == launchFile' = [by |-> s, status |-> status]
LaunchWasKilled(s) == launchKilled[s] # "no"
LaunchOwn(s) == {c \in launchChildren : c.by = s}

\* InstanceLock.acquire: the lock, or exit 3.
LaunchAcquire(s) ==
  /\ \/ /\ launchLock = LaunchNobody
        /\ LaunchGo(s, "out", "locked")
        /\ launchLock' = s
     \/ /\ launchLock # LaunchNobody
        /\ LaunchGo(s, "out", "over")
        /\ UNCHANGED launchLock
  /\ UNCHANGED <<launchStopped, launchFile, launchChildren, launchScript, launchHistory>>

LaunchStarting(s) ==
  /\ LaunchGo(s, "locked", "ports")
  /\ LaunchState(s, "starting")
  /\ UNCHANGED <<launchStopped, launchLock, launchChildren, launchScript, launchHistory>>

\* The directories or the first state fail before the try: the process ends,
\* and the system frees its lock.
LaunchQuits(s) ==
  /\ LaunchGo(s, "locked", "over")
  /\ launchLock' = LaunchNobody
  /\ UNCHANGED <<launchStopped, launchFile, launchChildren, launchScript, launchHistory>>

\* port_available of both ports; then the migration of the database.
LaunchPrepare(s) ==
  /\ \/ LaunchGo(s, "ports", "migrate") /\ \A c \in launchChildren : ~c.listens
     \/ LaunchGo(s, "migrate", "api")
  /\ UNCHANGED <<launchStopped, launchLock, launchFile, launchChildren, launchScript, launchHistory>>

\* start_child: Popen, and then the child is put into the kill job.
LaunchChild(s, port) ==
  /\ LaunchGo(s, port, LaunchAdding[port])
  /\ launchChildren' = launchChildren \cup
       {[by |-> s, port |-> port, job |-> FALSE, listens |-> FALSE]}
  /\ UNCHANGED <<launchStopped, launchLock, launchFile, launchScript, launchHistory>>

LaunchJob(s, port) ==
  /\ LaunchGo(s, LaunchAdding[port], LaunchWaiting[port])
  /\ launchChildren' = {IF c.by = s THEN [c EXCEPT !.job = TRUE] ELSE c : c \in launchChildren}
  /\ UNCHANGED <<launchStopped, launchLock, launchFile, launchScript, launchHistory>>

\* wait_http: the child lives, and whoever listens on its port answers 200.
LaunchAnswered(s, port) ==
  /\ \E c \in LaunchOwn(s) : c.port = port
  /\ \E c \in launchChildren : c.port = port /\ c.listens
  /\ IF port = "api" THEN LaunchGo(s, "api_wait", "ui") /\ UNCHANGED launchFile
     ELSE LaunchGo(s, "ui_wait", "ready") /\ LaunchState(s, "ready")
  /\ UNCHANGED <<launchStopped, launchLock, launchChildren, launchScript, launchHistory>>

\* A last word of s, which may fail to be written.
LaunchSays(s, status) ==
  \/ LaunchState(s, status) /\ UNCHANGED launchUnsaid
  \/ UNCHANGED launchFile /\ launchUnsaid' = launchUnsaid \cup {s}

\* An exception before `ready', or a child that is gone after it.
LaunchFails(s) ==
  /\ \/ launchPc[s] \in {"ports", "migrate", "api", "api_add", "api_wait", "ui", "ui_add", "ui_wait"}
     \/ launchPc[s] = "ready" /\ \E port \in LaunchPorts : ~\E c \in LaunchOwn(s) : c.port = port
  /\ LaunchSays(s, "failed")
  /\ launchPc' = [launchPc EXCEPT ![s] = "ending"]
  /\ UNCHANGED <<launchStopped, launchLock, launchChildren, launchScript, launchKilled>>

\* A signal sets the event; the loop looks at it once the console is ready.
LaunchSignal(s) ==
  /\ launchPc[s] \notin {"out", "over"}
  /\ ~launchStopped[s]
  /\ launchStopped' = [launchStopped EXCEPT ![s] = TRUE]
  /\ UNCHANGED <<launchPc, launchLock, launchFile, launchChildren, launchScript, launchHistory>>

LaunchLeave(s) ==
  /\ LaunchGo(s, "ready", "ending")
  /\ launchStopped[s]
  /\ UNCHANGED <<launchStopped, launchLock, launchFile, launchChildren, launchScript, launchHistory>>

\* Mutant: the lock is released before the children are stopped.
LaunchReleaseFirst(s) ==
  /\ LaunchGo(s, "ending", "unlocked")
  /\ launchLock' = LaunchNobody
  /\ UNCHANGED <<launchStopped, launchFile, launchChildren, launchScript, launchHistory>>

\* finally: each child is stopped in turn, then the lock is released.
LaunchRelease(s) ==
  /\ \/ /\ launchPc[s] = "ending"
        /\ \E c \in LaunchOwn(s) : launchChildren' = launchChildren \ {c}
        /\ UNCHANGED <<launchPc, launchLock>>
     \/ /\ LaunchOwn(s) = {}
        /\ LaunchGo(s, "ending", "unlocked")
        /\ launchLock' = LaunchNobody
        /\ UNCHANGED launchChildren
  /\ UNCHANGED <<launchStopped, launchFile, launchScript, launchHistory>>

\* Mutant: the last word is the failure, also without a signal.
LaunchLastFailed(s) ==
  /\ LaunchGo(s, "unlocked", "over")
  /\ LaunchState(s, IF launchStopped[s] THEN "stopped" ELSE "failed")
  /\ UNCHANGED <<launchStopped, launchLock, launchChildren, launchScript, launchHistory>>

\* After the lock: `stopped', if a signal came at any time.
LaunchLast(s) ==
  /\ LaunchGo(s, "unlocked", "over")
  /\ IF launchStopped[s] THEN LaunchSays(s, "stopped")
     ELSE UNCHANGED <<launchFile, launchUnsaid>>
  /\ UNCHANGED <<launchStopped, launchLock, launchChildren, launchScript, launchKilled>>

\* A child binds its port, or it ends: because the port is taken, or by itself.
LaunchBind ==
  /\ \E c \in launchChildren :
       /\ ~c.listens /\ \A d \in launchChildren : d.port = c.port => ~d.listens
       /\ launchChildren' = (launchChildren \ {c}) \cup {[c EXCEPT !.listens = TRUE]}
  /\ UNCHANGED <<launchPc, launchStopped, launchLock, launchFile, launchScript, launchHistory>>

LaunchDies ==
  /\ \E c \in launchChildren :
       launchChildren' = launchChildren \ {c}
  /\ UNCHANGED <<launchPc, launchStopped, launchLock, launchFile, launchScript, launchHistory>>

\* The supervisor is terminated (by stop-console.ps1, which took its process from
\* the state file, or by anyone), or an error ends its finally clause: the system
\* frees its lock and its job, and the job takes the children in it down a moment
\* later (LaunchDies).
LaunchKill(s) ==
  /\ launchPc[s] \notin {"out", "over"}
  /\ Cardinality({q \in LaunchRuns : LaunchWasKilled(q)}) < LaunchKills
  /\ launchKilled' = [launchKilled EXCEPT ![s] = launchPc[s]]
  /\ \/ UNCHANGED launchScript
     \/ launchFile.by = s /\ launchScript' = [launchScript EXCEPT ![s] = "wait"]
  /\ launchPc' = [launchPc EXCEPT ![s] = "over"]
  /\ launchLock' = IF launchLock = s THEN LaunchNobody ELSE launchLock
  /\ UNCHANGED <<launchStopped, launchFile, launchChildren, launchUnsaid>>

\* stop-console.ps1 waits until nobody listens on the ports, then writes the
\* state it had read as `stopped'; it gives up, or fails to write.
LaunchScripted(s) ==
  /\ \/ /\ launchScript[s] = "wait" /\ \A c \in launchChildren : ~c.listens
        /\ launchScript' = [launchScript EXCEPT ![s] = "write"]
        /\ UNCHANGED launchFile
     \/ /\ launchScript[s] = "write" /\ LaunchState(s, "stopped")
        /\ launchScript' = [launchScript EXCEPT ![s] = "none"]
     \/ /\ launchScript[s] # "none"
        /\ launchScript' = [launchScript EXCEPT ![s] = "none"]
        /\ UNCHANGED launchFile
  /\ UNCHANGED <<launchPc, launchStopped, launchLock, launchChildren, launchHistory>>

LaunchNext ==
  \/ \E s \in LaunchRuns :
       \/ LaunchAcquire(s) \/ LaunchStarting(s) \/ LaunchQuits(s) \/ LaunchPrepare(s)
       \/ \E port \in LaunchPorts : LaunchChild(s, port) \/ LaunchJob(s, port) \/ LaunchAnswered(s, port)
       \/ LaunchFails(s) \/ LaunchSignal(s) \/ LaunchLeave(s)
       \/ LaunchRelease(s) \/ LaunchLast(s) \/ LaunchKill(s) \/ LaunchScripted(s)
  \/ LaunchBind \/ LaunchDies

LaunchSpec == LaunchInit /\ [][LaunchNext]_launchVars
-----------------------------------------------------------------------------
LaunchTypeOK ==
  /\ launchPc \in [LaunchRuns -> LaunchPcs]
  /\ launchStopped \in [LaunchRuns -> BOOLEAN]
  /\ launchLock \in LaunchRuns \cup {LaunchNobody}
  /\ launchFile \in [by : LaunchRuns \cup {LaunchNobody},
                     status : {"starting", "ready", "failed", "stopped"}]
  /\ launchChildren \subseteq
       [by : LaunchRuns, port : LaunchPorts, job : BOOLEAN, listens : BOOLEAN]
  /\ launchScript \in [LaunchRuns -> {"none", "wait", "write"}]
  /\ launchKilled \in [LaunchRuns -> LaunchPcs \cup {"no"}]
  /\ Cardinality({s \in LaunchRuns : LaunchWasKilled(s)}) <= LaunchKills
  /\ launchUnsaid \subseteq LaunchRuns

\* Where a supervisor is, or was when it was killed.
LaunchAt(s) == IF LaunchWasKilled(s) THEN launchKilled[s] ELSE launchPc[s]

\* One console at a time: children live under the supervisor that holds the
\* lock, or under one that was killed, and a child is outside the kill job only
\* where its supervisor is, or was killed, between its start and the job, or
\* while it ends.  What runtime.json says is the word of the holder, unless it
\* says `stopped'; and `ready' is said of no supervisor that ended by itself and
\* could write its last word (console_launcher.py:251-308).
LaunchOneConsole ==
  /\ \A c \in launchChildren :
       /\ launchLock = c.by \/ LaunchWasKilled(c.by)
       /\ ~c.job => LaunchAt(c.by) \in {LaunchAdding[c.port], "ending"}
  /\ launchLock # LaunchNobody /\ launchPc[launchLock] # "locked" =>
       launchFile.by = launchLock \/ launchFile.status = "stopped"
  /\ launchFile.status = "ready" =>
       \/ launchPc[launchFile.by] \in {"ready", "ending", "unlocked"}
       \/ LaunchWasKilled(launchFile.by) \/ launchFile.by \in launchUnsaid

\* docs/local_console.md:17: the close script ends the supervisor that the state
\* file names, and both children end with it.  So every child is of the supervisor
\* that holds the lock and that the file names, or is in the kill job of one that
\* was killed.
LaunchClosable ==
  \A c \in launchChildren :
    \/ launchLock = c.by /\ launchFile.by = c.by
    \/ LaunchWasKilled(c.by) /\ c.job
=============================================================================
