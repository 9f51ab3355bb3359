----------------------------- MODULE PluginRuns -----------------------------
(***************************************************************************)
(* Processing plugins (processing/runner.py, processing/host.py,           *)
(* processing/persistence.py): the eligible documents go to a worker       *)
(* process in batches, each answer is checked on both sides, and the       *)
(* attempt is stored with the outputs of all batches or with none.         *)
(***************************************************************************)
EXTENDS Naturals, FiniteSets

CONSTANTS
  PlugDocs,      \* documents of the attempt, in order: their quality status
  PlugAccepted,  \* manifest.accepted_quality_statuses
  PlugBatch,     \* manifest.max_batch_records
  PlugAttempts   \* bound: attempts

ASSUME PlugAssumption ==
  IsFiniteSet(DOMAIN PlugDocs) /\ PlugBatch \in Nat \ {0} /\ PlugAttempts \in Nat

VARIABLES
  plugEnabled,   \* the manifest: enabled (and so approved)
  plugReviewed,  \* the source of the runner has the manifest's hash
  plugNow,       \* the attempt in progress
  plugRuns       \* plugin_runs with their plugin_outputs, in the order they were stored

plugVars == <<plugEnabled, plugReviewed, plugNow, plugRuns>>
-----------------------------------------------------------------------------
PlugIds == DOMAIN PlugDocs
PlugEligible == {d \in PlugIds : PlugDocs[d] \in PlugAccepted}
PlugIdle == [pc |-> "idle", todo |-> {}, job |-> {}, result |-> {}, outputs |-> {}]

PlugInit ==
  /\ plugEnabled = FALSE /\ plugReviewed = TRUE
  /\ plugNow = PlugIdle
  /\ plugRuns = {}

PlugConfigure ==
  /\ \/ plugEnabled' = ~plugEnabled /\ UNCHANGED plugReviewed
     \/ plugReviewed' = ~plugReviewed /\ UNCHANGED plugEnabled
  /\ UNCHANGED <<plugNow, plugRuns>>

\* persist_plugin_execution: the row and its outputs in one transaction.
PlugFinish(status, sent, outputs, error) ==
  /\ plugNow' = PlugIdle
  /\ plugRuns' = plugRuns \cup {[number |-> Cardinality(plugRuns) + 1, status |-> status, sent |-> sent,
                                 skipped |-> Cardinality(PlugIds) - sent, outputs |-> outputs, error |-> error]}

PlugMayRun == plugNow.pc = "idle" /\ Cardinality(plugRuns) < PlugAttempts

\* Disabled, no readable source, another hash: no worker is started.
PlugRefuse ==
  /\ PlugMayRun
  /\ \/ ~plugEnabled /\ PlugFinish("disabled", 0, {}, "none")
     \/ plugEnabled /\ PlugFinish("failed", 0, {}, "plugin_unavailable")
     \/ plugEnabled /\ ~plugReviewed /\ PlugFinish("failed", 0, {}, "runner_hash_mismatch")
  /\ UNCHANGED <<plugEnabled, plugReviewed>>

PlugStart ==
  /\ PlugMayRun
  /\ plugEnabled /\ plugReviewed
  /\ plugNow' = [PlugIdle EXCEPT !.pc = "batch", !.todo = PlugEligible]
  /\ UNCHANGED <<plugEnabled, plugReviewed, plugRuns>>

\* The next batch: the first documents that were not sent.
PlugSend ==
  /\ plugNow.pc = "batch" /\ plugNow.todo # {}
  /\ \E job \in SUBSET plugNow.todo :
       /\ job # {} /\ Cardinality(job) <= PlugBatch
       /\ job # plugNow.todo => Cardinality(job) = PlugBatch
       /\ \A sent \in job, later \in plugNow.todo \ job : sent < later
       /\ plugNow' = [plugNow EXCEPT !.pc = "host", !.job = job, !.todo = @ \ job]
  /\ UNCHANGED <<plugEnabled, plugReviewed, plugRuns>>

\* Mutant: identities of other batches pass.
PlugValidAny(ids) == ids \subseteq PlugIds

\* _validate_outputs of the host, _validate_result of the core.
PlugValid(ids) == ids \subseteq plugNow.job

\* The plugin returns outputs for these documents, with declared fields and
\* types, and the host writes them.
PlugAnswer(ids) ==
  /\ plugNow.pc = "host" /\ PlugValid(ids)
  /\ plugNow' = [plugNow EXCEPT !.pc = "batch",
       !.outputs = @ \cup {[document |-> d, job |-> plugNow.job] : d \in ids}]
  /\ UNCHANGED <<plugEnabled, plugReviewed, plugRuns>>

\* Mutant: what earlier batches brought is stored with the failure.
PlugFailPartly(error) ==
  /\ plugNow.pc = "host"
  /\ PlugFinish("failed", Cardinality(PlugEligible), plugNow.outputs, error)
  /\ UNCHANGED <<plugEnabled, plugReviewed>>

\* The worker stops (exit codes 20 and 23: invalid_output, 22: plugin_crash,
\* time or output limit), or the core refuses its answer.
PlugFail(error) ==
  /\ plugNow.pc = "host"
  /\ PlugFinish("failed", Cardinality(PlugEligible), {}, error)
  /\ UNCHANGED <<plugEnabled, plugReviewed>>

PlugSucceed ==
  /\ plugNow.pc = "batch" /\ plugNow.todo = {}
  /\ IF Cardinality({o.document : o \in plugNow.outputs}) = Cardinality(plugNow.outputs)
     THEN PlugFinish("succeeded", Cardinality(PlugEligible), plugNow.outputs, "none")
     ELSE PlugFinish("failed", Cardinality(PlugEligible), {}, "duplicate_output_identity")
  /\ UNCHANGED <<plugEnabled, plugReviewed>>

\* Killed or cancelled, or the database refuses: the attempt leaves nothing.
PlugBreak ==
  /\ plugNow.pc # "idle"
  /\ plugNow' = PlugIdle
  /\ UNCHANGED <<plugEnabled, plugReviewed, plugRuns>>

PlugNext ==
  \/ PlugConfigure \/ PlugRefuse \/ PlugStart \/ PlugSend \/ PlugSucceed \/ PlugBreak
  \/ \E ids \in SUBSET PlugIds : PlugAnswer(ids)
  \/ \E error \in {"invalid_output", "plugin_crash", "timeout"} : PlugFail(error)

PlugSpec == PlugInit /\ [][PlugNext]_plugVars
-----------------------------------------------------------------------------
PlugTypeOK ==
  /\ plugEnabled \in BOOLEAN /\ plugReviewed \in BOOLEAN
  /\ plugNow.pc \in {"idle", "batch", "host"}
  /\ plugNow.todo \subseteq PlugIds /\ plugNow.job \subseteq PlugIds
  /\ \A run \in plugRuns : /\ run.status \in {"disabled", "failed", "succeeded"}
                           /\ run.sent + run.skipped = Cardinality(PlugIds)

\* A stored attempt has outputs only if every batch of it succeeded; then each
\* output is of a document the plugin was sent, in the batch it was sent in,
\* and of no document twice.
PlugWhole ==
  \A run \in plugRuns :
    /\ run.outputs # {} => run.status = "succeeded"
    /\ \A output \in run.outputs : output.document \in PlugEligible \cap output.job
    /\ \A one, other \in run.outputs : one.document = other.document => one = other
=============================================================================
