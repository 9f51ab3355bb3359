----------------------------- MODULE HookCircuit -----------------------------
(***************************************************************************)
(* The authorized Hook connector (connectors/authorized_hook.py) and its   *)
(* command line: a reviewed runner, one worker process for each page, and  *)
(* the circuit of consecutive failures kept in <workspace>/circuit.json    *)
(* across runs.  A run is one invocation of the command line; nothing      *)
(* stops two of them from overlapping.                                     *)
(***************************************************************************)
EXTENDS Naturals, FiniteSets

CONSTANTS
  HookRuns,       \* invocations of the command line in progress
  HookThreshold,  \* policy.circuit_failure_threshold
  HookPages,      \* pages the worker serves in a cycle
  HookVersions    \* bound: versions of the runner, 1..HookVersions

ASSUME HookAssumption ==
  /\ HookThreshold \in Nat \ {0}
  /\ HookPages \in Nat \ {0}
  /\ HookVersions \in Nat \ {0}

VARIABLES
  hookCircuit,  \* circuit.json: consecutive_failures, open
  hookRunner,   \* version of the runner in src
  hookApproval, \* registry: the reviewed version (permission, hash, fingerprint)
  hookStored,   \* connector_states: cursor, and the approval it was made under
  hookRun,      \* the runs
  hookStreak,   \* history: counted failures since the last success or reset
  hookClean     \* history: no overlap, and no run killed before it counted

hookWorld == <<hookRunner, hookApproval>>
hookHistory == <<hookStreak, hookClean>>
hookVars == <<hookCircuit, hookWorld, hookStored, hookRun, hookHistory>>
-----------------------------------------------------------------------------
\* What can be wrong with a page of the worker, by the category it is given:
\* authentication, permission, policy_violation and schema_drift open the
\* circuit at once, the other categories (crash, resource_exhausted,
\* rate_limit, transient_upstream, invalid_config) only in a row.
HookDrift == {"not_json", "unknown_field", "protocol", "target", "fingerprint",
              "envelope", "cursor", "prohibited_key"}
HookBadRecord == {"record_field", "record_identity"}
HookDenied == {"worker_401", "worker_403", "no_credential"}
HookTransient == {"worker_429", "worker_upstream", "crash", "timeout", "output_size",
                  "too_many_records", "record_size", "credential_name"}
HookDefect == HookDrift \cup HookBadRecord \cup HookDenied \cup HookTransient
HookCategory(defect) == IF defect \in HookTransient THEN "gradual" ELSE "immediate"

HookMark == [cursor : 0..(HookPages - 1), approval : 0..HookVersions]
HookClosed == [count |-> 0, open |-> FALSE]
HookIdle == [pc |-> "idle", approval |-> 1, mark |-> [cursor |-> 0, approval |-> 0],
             category |-> "none", count |-> 0]

\* Counts matter up to HookThreshold; overlapping runs could raise them for ever.
HookUp(count) == IF count > HookThreshold THEN count ELSE count + 1

HookAlive(p) == hookRun[p].pc # "idle"
HookOthers(p) == {q \in HookRuns \ {p} : HookAlive(q)}
HookSet(p, r) == hookRun' = [hookRun EXCEPT ![p] = r]
HookGo(p, pc) == HookSet(p, [hookRun[p] EXCEPT !.pc = pc])

HookInit ==
  /\ hookCircuit = HookClosed
  /\ hookRunner = 1 /\ hookApproval = 1
  /\ hookStored = HookIdle.mark
  /\ hookRun = [p \in HookRuns |-> HookIdle]
  /\ hookStreak = [count |-> 0, immediate |-> FALSE]
  /\ hookClean = TRUE

\* The operators replace the runner and review it.
HookReplaceRunner ==
  /\ hookRunner < HookVersions
  /\ hookRunner' = hookRunner + 1
  /\ UNCHANGED <<hookCircuit, hookApproval, hookStored, hookRun, hookHistory>>

HookReview ==
  /\ hookApproval # hookRunner
  /\ hookApproval' = hookRunner
  /\ UNCHANGED <<hookCircuit, hookRunner, hookStored, hookRun, hookHistory>>

\* main: loads the approval; --reset-circuit closes the circuit first.
HookStart(p, reset) ==
  /\ ~HookAlive(p)
  /\ HookSet(p, [HookIdle EXCEPT !.pc = "open", !.approval = hookApproval])
  /\ hookCircuit' = IF reset THEN HookClosed ELSE hookCircuit
  /\ hookStreak' = IF reset THEN [count |-> 0, immediate |-> FALSE] ELSE hookStreak
  /\ hookClean' = (hookClean /\ HookOthers(p) = {})
  /\ UNCHANGED <<hookWorld, hookStored>>

\* collect, before the worker: circuit, approval of the checkpoint.
HookAllowed(r) == ~hookCircuit.open /\ r.mark.approval \in {0, r.approval}

\* The first page: the stored checkpoint, validate (the hash of the runner).
\* A refusal ends the run and is not a failure of the worker.
HookFirstPage(p) ==
  LET r == [hookRun[p] EXCEPT !.mark = hookStored] IN
  /\ r.pc = "open"
  /\ HookSet(p, IF r.approval = hookRunner /\ HookAllowed(r)
                THEN [r EXCEPT !.pc = "worker"] ELSE HookIdle)
  /\ UNCHANGED <<hookCircuit, hookWorld, hookStored, hookHistory>>

\* authorization_expires_at has passed.
HookExpire(p) ==
  /\ hookRun[p].pc \in {"open", "page"}
  /\ HookSet(p, HookIdle)
  /\ UNCHANGED <<hookCircuit, hookWorld, hookStored, hookHistory>>

HookNextPage(p) ==
  /\ hookRun[p].pc = "page"
  /\ HookSet(p, IF HookAllowed(hookRun[p])
                THEN [hookRun[p] EXCEPT !.pc = "worker"] ELSE HookIdle)
  /\ UNCHANGED <<hookCircuit, hookWorld, hookStored, hookHistory>>

\* _run_worker and _build_batch accept the page.
HookAnswer(p) ==
  /\ hookRun[p].pc = "worker"
  /\ HookGo(p, "succeeded")
  /\ UNCHANGED <<hookCircuit, hookWorld, hookStored, hookHistory>>

\* They raise a ConnectorFailure, which collect catches and counts.
HookFail(p, defect) ==
  LET category == HookCategory(defect) IN
  /\ hookRun[p].pc = "worker"
  /\ HookSet(p, [HookIdle EXCEPT !.pc = "failed", !.category = category])
  /\ hookStreak' = [count |-> HookUp(hookStreak.count),
                    immediate |-> hookStreak.immediate \/ category = "immediate"]
  /\ UNCHANGED <<hookCircuit, hookWorld, hookStored, hookClean>>

\* _build_batch raises what is no ConnectorFailure: with the archive, which the
\* command line always sets, the records are indexed for it by their identity
\* before _record looks at them, and one that is no object, or has no such key,
\* raises a TypeError or a KeyError. _record_failure is not called, the durable
\* runner ends the run, the circuit file stays as it is.  (Without the archive
\* _record would refuse it as policy_violation or schema_drift.)
HookEscape(p) ==
  /\ hookRun[p].pc = "worker"
  /\ HookSet(p, HookIdle)
  /\ UNCHANGED <<hookCircuit, hookWorld, hookStored, hookStreak, hookClean>>

\* Mutant: the limit itself is allowed.
HookTripsLate(count, category) == category = "immediate" \/ count > HookThreshold

HookTrips(count, category) == category = "immediate" \/ count >= HookThreshold

\* _record_failure: reads the file, then writes it.
HookCount(p) ==
  /\ hookRun[p].pc = "failed"
  /\ HookSet(p, [hookRun[p] EXCEPT !.pc = "write", !.count = HookUp(hookCircuit.count)])
  /\ UNCHANGED <<hookCircuit, hookWorld, hookStored, hookHistory>>

HookWrite(p) ==
  LET r == hookRun[p] IN
  /\ r.pc = "write"
  /\ hookCircuit' = [count |-> r.count, open |-> HookTrips(r.count, r.category)]
  /\ HookSet(p, HookIdle)
  /\ UNCHANGED <<hookWorld, hookStored, hookHistory>>

\* _record_success
HookClose(p) ==
  /\ hookRun[p].pc = "succeeded"
  /\ hookCircuit' = HookClosed
  /\ hookStreak' = [count |-> 0, immediate |-> FALSE]
  /\ HookGo(p, "commit")
  /\ UNCHANGED <<hookWorld, hookStored, hookClean>>

\* The durable runner commits the page with its checkpoint; a run that reaches
\* its page limit ends although there is more.
HookCommit(p) ==
  LET r == hookRun[p]
      more == r.mark.cursor + 1 < HookPages
      mark == [cursor |-> IF more THEN r.mark.cursor + 1 ELSE 0, approval |-> r.approval] IN
  /\ r.pc = "commit"
  /\ hookStored' = mark
  /\ \/ more /\ HookSet(p, [r EXCEPT !.pc = "page", !.mark = mark])
     \/ HookSet(p, HookIdle)
  /\ UNCHANGED <<hookCircuit, hookWorld, hookHistory>>

\* The run ends early for a cause outside the page: an exception of the archive,
\* the circuit file or the database, a cancellation, a kill.  Two runs share the
\* temporary of circuit.json, so either of them may also fail to replace it.
HookBreak(p) ==
  /\ HookAlive(p)
  /\ hookClean' = (hookClean /\ hookRun[p].pc \notin {"failed", "write"})
  /\ HookSet(p, HookIdle)
  /\ UNCHANGED <<hookCircuit, hookWorld, hookStored, hookStreak>>

HookNext ==
  \/ HookReplaceRunner \/ HookReview
  \/ \E p \in HookRuns :
       \/ \E reset \in BOOLEAN : HookStart(p, reset)
       \/ HookFirstPage(p) \/ HookNextPage(p) \/ HookExpire(p)
       \/ HookAnswer(p) \/ HookClose(p) \/ HookCommit(p)
       \/ \E defect \in HookDefect : HookFail(p, defect)
       \/ HookEscape(p) \/ HookCount(p) \/ HookWrite(p) \/ HookBreak(p)

HookSpec == HookInit /\ [][HookNext]_hookVars
-----------------------------------------------------------------------------
HookTypeOK ==
  /\ hookCircuit \in [count : Nat, open : BOOLEAN]
  /\ hookRunner \in 1..HookVersions
  /\ hookApproval \in 1..HookVersions
  /\ hookStored \in HookMark
  /\ hookRun \in [HookRuns -> [
       pc : {"idle", "open", "worker", "failed", "write", "succeeded", "commit", "page"},
       approval : 1..HookVersions, mark : HookMark,
       category : {"none", "gradual", "immediate"}, count : Nat]]
  /\ hookStreak \in [count : Nat, immediate : BOOLEAN]
  /\ hookClean \in BOOLEAN

\* Where runs do not overlap and none is killed between a failure and its
\* record, the circuit is open exactly when collect counted HookThreshold
\* failures in a row, in however many runs, or one for a reason that a retry
\* cannot cure; so the threshold-th counted failure is the last of its row, and
\* what ends a run uncounted (an exception that is no ConnectorFailure, an
\* expired approval, a changed runner) neither opens nor closes the circuit and
\* neither breaks nor lengthens the row.
HookOpensInTime ==
  hookClean /\ (\A p \in HookRuns : hookRun[p].pc \notin {"failed", "write"})
    => /\ hookCircuit.open <=> (hookStreak.immediate \/ hookStreak.count >= HookThreshold)
       /\ hookStreak.count <= HookThreshold

\* docs/authorized_hook.md:31: the circuit stays open until the operator resets
\* it, so an open circuit is closed by a start with --reset-circuit only.
HookStaysOpen ==
  [][hookCircuit.open /\ ~hookCircuit'.open
       => \E p \in HookRuns : HookStart(p, TRUE)]_hookVars
=============================================================================
