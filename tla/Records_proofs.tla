--------------------------- MODULE Records_proofs ---------------------------
(***************************************************************************)
(* What becomes of records and files, for every value of the constants,    *)
(* each component by itself as in MCRecords.                               *)
(***************************************************************************)
EXTENDS MCRecords, WellFoundedInduction, FiniteSetTheorems, TLAPS

(* Plugin attempts.  A document is sent once, so what was answered is      *)
(* disjoint from what is sent and from what is still to be sent.           *)
PlugSound(outputs) ==
  /\ \A output \in outputs : output.document \in PlugEligible \cap output.job
  /\ \A one, other \in outputs : one.document = other.document => one = other

PlugRunWhole(run) ==
  /\ run.outputs # {} => run.status = "succeeded"
  /\ PlugSound(run.outputs)

PlugInv ==
  /\ plugNow \in [pc : {"idle", "batch", "host"}, todo : SUBSET PlugIds, job : SUBSET PlugIds,
                  outputs : SUBSET [document : PlugIds, job : SUBSET PlugIds], result : {{}}]
  /\ plugNow.pc # "idle" =>
       /\ PlugSound(plugNow.outputs)
       /\ plugNow.todo \subseteq PlugEligible
       /\ \A output \in plugNow.outputs : output.document \notin plugNow.todo
  /\ plugNow.pc = "host" =>
       /\ plugNow.job \subseteq PlugEligible /\ plugNow.job \cap plugNow.todo = {}
       /\ \A output \in plugNow.outputs : output.document \notin plugNow.job
  /\ \A run \in plugRuns : PlugRunWhole(run)

LEMMA PlugIdleInv ==
  ASSUME plugNow' = PlugIdle, \A run \in plugRuns' : PlugRunWhole(run)
  PROVE  PlugInv'
<1>1. PlugIdle.pc = "idle" /\ PlugIdle \in [pc : {"idle", "batch", "host"},
        todo : SUBSET PlugIds, job : SUBSET PlugIds,
        outputs : SUBSET [document : PlugIds, job : SUBSET PlugIds], result : {{}}]
  BY DEF PlugIdle
<1>2. QED
  BY <1>1 DEF PlugInv

\* Whatever ends an attempt stores a whole one.
LEMMA PlugFinishStep ==
  ASSUME PlugInv, NEW status, NEW sent, NEW outputs, NEW error,
         PlugFinish(status, sent, outputs, error),
         outputs # {} => status = "succeeded", PlugSound(outputs)
  PROVE  PlugInv'
<1> DEFINE run == [number |-> Cardinality(plugRuns) + 1, status |-> status, sent |-> sent,
                   skipped |-> Cardinality(PlugIds) - sent, outputs |-> outputs, error |-> error]
<1>1. plugNow' = PlugIdle /\ plugRuns' = plugRuns \cup {run}
  BY DEF PlugFinish
<1>2. run.status = status /\ run.outputs = outputs
  OBVIOUS
<1> HIDE DEF run
<1>3. \A x \in plugRuns' : PlugRunWhole(x)
  BY <1>1, <1>2 DEF PlugInv, PlugRunWhole
<1>4. QED
  BY <1>1, <1>3, PlugIdleInv

LEMMA PlugEndStep ==
  ASSUME PlugInv,
         \/ PlugRefuse \/ PlugSucceed \/ PlugBreak
         \/ \E error \in {"invalid_output", "plugin_crash", "timeout"} : PlugFail(error)
  PROVE  PlugInv'
<1>1. PlugSound({})
  BY DEF PlugSound
<1>2. CASE PlugRefuse
  BY <1>1, <1>2, PlugFinishStep DEF PlugRefuse
<1>3. CASE PlugSucceed
  <2>1. PlugSound(plugNow.outputs)
    BY <1>3 DEF PlugInv, PlugSucceed
  <2>2. QED
    BY <1>1, <1>3, <2>1, PlugFinishStep DEF PlugSucceed
<1>4. CASE PlugBreak
  BY <1>4, PlugIdleInv DEF PlugInv, PlugBreak
<1>5. CASE \E error \in {"invalid_output", "plugin_crash", "timeout"} : PlugFail(error)
  BY <1>1, <1>5, PlugFinishStep DEF PlugFail
<1>6. QED
  BY <1>2, <1>3, <1>4, <1>5

LEMMA PlugStartStep ==
  ASSUME PlugInv, PlugStart PROVE PlugInv'
<1>1. plugNow' = [PlugIdle EXCEPT !.pc = "batch", !.todo = PlugEligible] /\ plugRuns' = plugRuns
  BY DEF PlugStart
<1>2. PlugEligible \subseteq PlugIds
  BY DEF PlugEligible
<1>3. /\ plugNow' \in [pc : {"idle", "batch", "host"}, todo : SUBSET PlugIds, job : SUBSET PlugIds,
                       outputs : SUBSET [document : PlugIds, job : SUBSET PlugIds], result : {{}}]
      /\ plugNow'.pc = "batch" /\ plugNow'.todo = PlugEligible /\ plugNow'.outputs = {}
  BY <1>1, <1>2 DEF PlugIdle
<1>4. QED
  BY <1>1, <1>3 DEF PlugInv, PlugSound

LEMMA PlugSendStep ==
  ASSUME PlugInv, PlugSend PROVE PlugInv'
<1>1. PICK job \in SUBSET plugNow.todo :
        plugNow' = [plugNow EXCEPT !.pc = "host", !.job = job, !.todo = @ \ job]
  BY DEF PlugSend
<1>2. plugRuns' = plugRuns /\ plugNow.pc = "batch"
  BY DEF PlugSend
<1>3. /\ plugNow' \in [pc : {"idle", "batch", "host"}, todo : SUBSET PlugIds, job : SUBSET PlugIds,
                       outputs : SUBSET [document : PlugIds, job : SUBSET PlugIds], result : {{}}]
      /\ plugNow'.pc = "host" /\ plugNow'.todo = plugNow.todo \ job /\ plugNow'.job = job
      /\ plugNow'.outputs = plugNow.outputs
  BY <1>1 DEF PlugInv
<1>4. QED
  BY <1>2, <1>3 DEF PlugInv

LEMMA PlugAnswerStep ==
  ASSUME PlugInv, NEW ids \in SUBSET PlugIds, PlugAnswer(ids) PROVE PlugInv'
<1> DEFINE added == {[document |-> d, job |-> plugNow.job] : d \in ids}
<1>1. /\ plugNow.pc = "host" /\ ids \subseteq plugNow.job /\ plugRuns' = plugRuns
      /\ plugNow' = [plugNow EXCEPT !.pc = "batch", !.outputs = @ \cup added]
  BY DEF PlugAnswer, PlugValid
<1>2. /\ plugNow.job \subseteq PlugEligible /\ plugNow.job \in SUBSET PlugIds
      /\ plugNow.job \cap plugNow.todo = {}
      /\ \A output \in plugNow.outputs : output.document \notin plugNow.job
  BY <1>1 DEF PlugInv
<1>3. ASSUME NEW output \in added
      PROVE  /\ output.document \in ids /\ output.job = plugNow.job
             /\ output = [document |-> output.document, job |-> plugNow.job]
             /\ output \in [document : PlugIds, job : SUBSET PlugIds]
  <2>1. PICK d \in ids : output = [document |-> d, job |-> plugNow.job]
    OBVIOUS
  <2>2. QED
    BY <1>2, <2>1
<1> HIDE DEF added
<1>4. /\ plugNow' \in [pc : {"idle", "batch", "host"}, todo : SUBSET PlugIds, job : SUBSET PlugIds,
                       outputs : SUBSET [document : PlugIds, job : SUBSET PlugIds], result : {{}}]
      /\ plugNow'.pc = "batch" /\ plugNow'.todo = plugNow.todo
      /\ plugNow'.outputs = plugNow.outputs \cup added
  BY <1>1, <1>3 DEF PlugInv
<1>5. PlugSound(plugNow.outputs \cup added)
  <2>1. \A one, other \in added : one.document = other.document => one = other
    BY <1>3
  <2>2. \A one \in added, other \in plugNow.outputs : one.document # other.document
    BY <1>1, <1>2, <1>3
  <2>3. \A output \in added : output.document \in PlugEligible \cap output.job
    BY <1>1, <1>2, <1>3
  <2>4. QED
    BY <1>1, <2>1, <2>2, <2>3 DEF PlugInv, PlugSound
<1>6. \A output \in plugNow.outputs \cup added : output.document \notin plugNow.todo
  BY <1>1, <1>2, <1>3 DEF PlugInv
<1>7. QED
  BY <1>1, <1>4, <1>5, <1>6 DEF PlugInv

LEMMA PlugInvHolds == PlugSpec => []PlugInv
<1>1. PlugInit => PlugInv
  BY DEF PlugInit, PlugInv, PlugIdle
<1>2. PlugInv /\ (UNCHANGED plugVars \/ PlugConfigure) => PlugInv'
  BY DEF PlugInv, plugVars, PlugConfigure
<1>3. PlugInv /\ [PlugNext]_plugVars => PlugInv'
  BY <1>2, PlugEndStep, PlugStartStep, PlugSendStep, PlugAnswerStep DEF PlugNext
<1>4. QED
  BY <1>1, <1>3, PTL DEF PlugSpec

\* An attempt is stored with the outputs of all its batches or with none, and
\* each output is of a document of the batch it came with (processing/runner.py).
THEOREM AttemptsWhole == PlugSpec => []PlugWhole
<1>1. PlugInv => PlugWhole
  BY DEF PlugInv, PlugRunWhole, PlugSound, PlugWhole
<1>2. QED
  BY <1>1, PlugInvHolds, PTL
-----------------------------------------------------------------------------
(* The search profiles.  While a call goes through the directories, those  *)
(* it knows, has in hand and has still to load are all that are published. *)
ProfWork(save) == save.now \cup save.todo

ProfInv ==
  /\ profDisk \in [published : [ProfIds -> SUBSET ProfFiles], pending : SUBSET ProfFiles]
  /\ profSave \in [pc : {"loading", "idle", "reload", "policy", "task", "stage"},
                   todo : SUBSET ProfIds, now : SUBSET ProfIds, saving : SUBSET ProfIds]
  /\ \A x \in ProfPublished : profDisk.published[x] = ProfFiles
  /\ profKnown \subseteq ProfPublished
  /\ profTasks \subseteq profKnown
  /\ profTasks \subseteq profKeywords /\ profTasks \subseteq profPolicies
  /\ profAnswered \subseteq ProfPublished
  /\ profSave.pc \in {"reload", "policy", "task", "stage"} =>
       ProfPublished = profKnown \cup ProfWork(profSave)
  /\ profSave.pc \in {"policy", "task"} => profSave.now \subseteq profKeywords
  /\ profSave.pc = "task" => profSave.now \subseteq profPolicies
  /\ profSave.pc = "reload" => profSave.now = {}
  /\ profSave.pc = "stage" => ProfWork(profSave) = {} /\ Cardinality(profKnown) < ProfLimit
  /\ Cardinality(profSave.saving) <= 1
  /\ Cardinality(ProfPublished) <= ProfLimit

LEMMA ProfFinite == \A profiles \in SUBSET ProfIds : IsFiniteSet(profiles) /\ Cardinality(profiles) \in Nat
BY ProfAssumption, FS_Subset, FS_CardinalityType

\* The steps that publish nothing.
LEMMA ProfQuietStep ==
  ASSUME ProfInv, UNCHANGED profDisk.published,
         profDisk' \in [published : [ProfIds -> SUBSET ProfFiles], pending : SUBSET ProfFiles]
  PROVE  /\ ProfPublished' = ProfPublished
         /\ \A x \in ProfPublished' : profDisk'.published[x] = ProfFiles
         /\ Cardinality(ProfPublished') <= ProfLimit
BY DEF ProfInv, ProfPublished

LEMMA ProfReloadStep ==
  ASSUME ProfInv, NEW saving \in SUBSET ProfIds, Cardinality(saving) <= 1, ProfReload(saving),
         UNCHANGED <<profDisk, profCatalog, profAnswered>>
  PROVE  ProfInv'
<1>1. /\ ProfPublished' = ProfPublished /\ ProfPublished \subseteq ProfIds
      /\ UNCHANGED <<profKeywords, profPolicies, profTasks, profKnown>>
  BY DEF ProfPublished, profCatalog
<1>2. /\ profSave' \in [pc : {"loading", "idle", "reload", "policy", "task", "stage"},
                        todo : SUBSET ProfIds, now : SUBSET ProfIds, saving : SUBSET ProfIds]
      /\ profSave'.pc = "reload" /\ profSave'.todo = ProfPublished \ profKnown
      /\ profSave'.now = {} /\ profSave'.saving = saving
  BY <1>1 DEF ProfReload
<1>3. QED
  BY <1>1, <1>2 DEF ProfInv, ProfWork

\* Registration: sets, policy, task, and the answer.
LEMMA ProfRegisterStep ==
  ASSUME ProfInv, ProfSets \/ ProfPolicy \/ ProfTask PROVE ProfInv'
<1>1. /\ UNCHANGED <<profDisk, profAnswered>>
      /\ ProfPublished' = ProfPublished
  BY DEF ProfSets, ProfPolicy, ProfTask, ProfPublished
<1>2. CASE ProfSets
  <2>1. PICK x \in profSave.todo :
          /\ profKeywords' = profKeywords \cup {x}
          /\ profSave' = [profSave EXCEPT !.pc = "policy", !.todo = @ \ {x}, !.now = {x}]
    BY <1>2 DEF ProfSets
  <2>2. UNCHANGED <<profPolicies, profTasks, profKnown>> /\ profSave.pc = "reload"
    BY <1>2 DEF ProfSets
  <2>3. /\ profSave' \in [pc : {"loading", "idle", "reload", "policy", "task", "stage"},
                          todo : SUBSET ProfIds, now : SUBSET ProfIds, saving : SUBSET ProfIds]
        /\ profSave'.pc = "policy" /\ profSave'.todo = profSave.todo \ {x}
        /\ profSave'.now = {x} /\ profSave'.saving = profSave.saving
    BY <2>1 DEF ProfInv
  <2>4. ProfWork(profSave)' = ProfWork(profSave)
    BY <2>2, <2>3 DEF ProfInv, ProfWork
  <2>5. QED
    BY <1>1, <2>1, <2>2, <2>3, <2>4 DEF ProfInv
<1>3. CASE ProfPolicy
  <2>1. /\ profPolicies' = profPolicies \cup profSave.now
        /\ profSave' = [profSave EXCEPT !.pc = "task"]
        /\ UNCHANGED <<profKeywords, profTasks, profKnown>> /\ profSave.pc = "policy"
    BY <1>3 DEF ProfPolicy
  <2>2. /\ profSave' \in [pc : {"loading", "idle", "reload", "policy", "task", "stage"},
                          todo : SUBSET ProfIds, now : SUBSET ProfIds, saving : SUBSET ProfIds]
        /\ profSave'.pc = "task" /\ profSave'.todo = profSave.todo
        /\ profSave'.now = profSave.now /\ profSave'.saving = profSave.saving
    BY <2>1 DEF ProfInv
  <2>3. QED
    BY <1>1, <2>1, <2>2 DEF ProfInv, ProfWork
<1>4. CASE ProfTask
  <2>1. /\ profTasks' = profTasks \cup profSave.now /\ profKnown' = profKnown \cup profSave.now
        /\ profSave' = [profSave EXCEPT !.pc = "reload", !.now = {}]
        /\ UNCHANGED <<profKeywords, profPolicies>> /\ profSave.pc = "task"
    BY <1>4 DEF ProfTask
  <2>2. /\ profSave' \in [pc : {"loading", "idle", "reload", "policy", "task", "stage"},
                          todo : SUBSET ProfIds, now : SUBSET ProfIds, saving : SUBSET ProfIds]
        /\ profSave'.pc = "reload" /\ profSave'.todo = profSave.todo
        /\ profSave'.now = {} /\ profSave'.saving = profSave.saving
    BY <2>1 DEF ProfInv
  <2>3. QED
    BY <1>1, <2>1, <2>2 DEF ProfInv, ProfWork
<1>5. QED
  BY <1>2, <1>3, <1>4

\* The call ends, or its process: the answer, a failed write, a kill.
LEMMA ProfEndStep ==
  ASSUME ProfInv, ProfReply \/ ProfWriteFails \/ ProfKill PROVE ProfInv'
<1>1. /\ profSave' \in [pc : {"loading", "idle", "reload", "policy", "task", "stage"},
                        todo : SUBSET ProfIds, now : SUBSET ProfIds, saving : SUBSET ProfIds]
      /\ profSave'.pc \in {"idle", "loading"} /\ Cardinality(profSave'.saving) <= 1
  <2>1. /\ profSave' = ProfIdle \/ profSave' = [ProfIdle EXCEPT !.pc = "loading"]
    BY DEF ProfReply, ProfWriteFails, ProfKill
  <2>2. Cardinality({}) = 0
    BY FS_EmptySet
  <2>3. QED
    BY <2>1, <2>2 DEF ProfIdle
<1>2. /\ profDisk' \in [published : [ProfIds -> SUBSET ProfFiles], pending : SUBSET ProfFiles]
      /\ profDisk'.published = profDisk.published
  BY DEF ProfInv, ProfReply, ProfWriteFails, ProfKill
<1>3. /\ ProfPublished' = ProfPublished
      /\ \A x \in ProfPublished' : profDisk'.published[x] = ProfFiles
      /\ Cardinality(ProfPublished') <= ProfLimit
  BY <1>2, ProfQuietStep
<1>4. /\ profKnown' \subseteq profKnown
      /\ profTasks' \subseteq profKnown' /\ profTasks' \subseteq profKeywords'
      /\ profTasks' \subseteq profPolicies'
      /\ profAnswered' \subseteq profAnswered \cup profKnown
  BY DEF ProfInv, ProfReply, ProfWriteFails, ProfKill, profCatalog
<1>5. QED
  BY <1>1, <1>2, <1>3, <1>4 DEF ProfInv

LEMMA ProfStageStep ==
  ASSUME ProfInv, ProfStage PROVE ProfInv'
<1>1. /\ UNCHANGED <<profKeywords, profPolicies, profTasks, profKnown, profAnswered>>
      /\ profSave' = [profSave EXCEPT !.pc = "stage"]
  BY DEF ProfStage, profCatalog
<1>2. /\ profDisk' \in [published : [ProfIds -> SUBSET ProfFiles], pending : SUBSET ProfFiles]
      /\ profDisk'.published = profDisk.published
  BY DEF ProfInv, ProfStage, ProfFiles
<1>3. /\ ProfPublished' = ProfPublished
      /\ \A x \in ProfPublished' : profDisk'.published[x] = ProfFiles
      /\ Cardinality(ProfPublished') <= ProfLimit
  BY <1>2, ProfQuietStep
<1>4. /\ profSave' \in [pc : {"loading", "idle", "reload", "policy", "task", "stage"},
                        todo : SUBSET ProfIds, now : SUBSET ProfIds, saving : SUBSET ProfIds]
      /\ profSave'.pc = "stage" /\ profSave'.todo = profSave.todo
      /\ profSave'.now = profSave.now /\ profSave'.saving = profSave.saving
  BY <1>1 DEF ProfInv
<1>5. /\ ProfWork(profSave) = {} /\ Cardinality(profKnown) < ProfLimit
      /\ profSave.pc \in {"reload", "stage"}
  BY DEF ProfInv, ProfWork, ProfStage
<1>6. ProfWork(profSave)' = {}
  BY <1>4, <1>5 DEF ProfWork
<1>7. QED
  BY <1>1, <1>2, <1>3, <1>4, <1>5, <1>6 DEF ProfInv

\* Publishing adds the one profile of the call, within the limit.
LEMMA ProfPublishStep ==
  ASSUME ProfInv, ProfPublish PROVE ProfInv'
<1>1. /\ UNCHANGED <<profKeywords, profPolicies, profTasks, profKnown, profAnswered>>
      /\ profSave' = [profSave EXCEPT !.pc = "reload", !.todo = profSave.saving]
      /\ profSave.pc = "stage"
      /\ profDisk' = [pending |-> {},
           published |-> [x \in ProfIds |-> IF x \in profSave.saving THEN ProfFiles
                                            ELSE profDisk.published[x]]]
  BY DEF ProfPublish, profCatalog
<1>2. /\ profSave' \in [pc : {"loading", "idle", "reload", "policy", "task", "stage"},
                        todo : SUBSET ProfIds, now : SUBSET ProfIds, saving : SUBSET ProfIds]
      /\ profSave'.pc = "reload" /\ profSave'.todo = profSave.saving
      /\ profSave'.now = profSave.now /\ profSave'.saving = profSave.saving
      /\ profSave.saving \subseteq ProfIds
  BY <1>1 DEF ProfInv
<1>3. /\ profDisk' \in [published : [ProfIds -> SUBSET ProfFiles], pending : SUBSET ProfFiles]
      /\ \A x \in ProfIds : profDisk'.published[x] = IF x \in profSave.saving THEN ProfFiles
                                                     ELSE profDisk.published[x]
  BY <1>1 DEF ProfInv
<1>4. ProfPublished' = ProfPublished \cup profSave.saving
  BY <1>2, <1>3 DEF ProfPublished, ProfFiles
<1>5. \A x \in ProfPublished' : profDisk'.published[x] = ProfFiles
  BY <1>2, <1>3, <1>4 DEF ProfInv, ProfPublished
<1>6. ProfPublished = profKnown /\ profSave.now = {} /\ Cardinality(profKnown) < ProfLimit
  BY <1>1 DEF ProfInv, ProfWork
<1>7. Cardinality(ProfPublished') <= ProfLimit
  <2>1. ProfPublished \in SUBSET ProfIds /\ profSave.saving \in SUBSET ProfIds
        /\ (ProfPublished \cap profSave.saving) \in SUBSET ProfIds
    BY <1>2 DEF ProfPublished
  <2>2. /\ IsFiniteSet(ProfPublished) /\ IsFiniteSet(profSave.saving)
        /\ Cardinality(ProfPublished) \in Nat /\ Cardinality(profSave.saving) \in Nat
        /\ Cardinality(ProfPublished \cap profSave.saving) \in Nat
    BY <2>1, ProfFinite
  <2>3. Cardinality(ProfPublished \cup profSave.saving)
          = Cardinality(ProfPublished) + Cardinality(profSave.saving)
            - Cardinality(ProfPublished \cap profSave.saving)
    BY <2>2, FS_Union
  <2>4. Cardinality(profSave.saving) <= 1 /\ Cardinality(ProfPublished) < ProfLimit
    BY <1>6 DEF ProfInv
  <2>5. QED
    BY <1>4, <2>2, <2>3, <2>4, ProfAssumption
<1>8. QED
  BY <1>1, <1>2, <1>3, <1>4, <1>5, <1>6, <1>7 DEF ProfInv, ProfWork

LEMMA ProfInvHolds == ProfSpec => []ProfInv
<1>1. ProfInit => ProfInv
  <2>1. ASSUME ProfInit
        PROVE  /\ ProfPublished = {} /\ Cardinality({}) = 0 /\ profSave.pc = "loading"
               /\ profSave.saving = {}
               /\ profSave \in [pc : {"loading", "idle", "reload", "policy", "task", "stage"},
                                todo : SUBSET ProfIds, now : SUBSET ProfIds, saving : SUBSET ProfIds]
    BY <2>1, FS_EmptySet DEF ProfInit, ProfNoDisk, ProfIdle, ProfPublished
  <2>2. ProfInit => profDisk \in [published : [ProfIds -> SUBSET ProfFiles], pending : SUBSET ProfFiles]
    BY DEF ProfInit, ProfNoDisk
  <2>3. QED
    BY <2>1, <2>2, ProfAssumption DEF ProfInit, ProfInv
<1>2. ProfInv /\ UNCHANGED profVars => ProfInv'
  BY DEF ProfInv, profVars, profCatalog, ProfPublished, ProfWork
<1>3. ProfInv /\ ProfLoad => ProfInv'
  <2>1. {} \in SUBSET ProfIds /\ Cardinality({}) <= 1
    BY FS_EmptySet
  <2>2. QED
    BY <2>1, ProfReloadStep DEF ProfLoad
<1>4. ASSUME ProfInv, NEW profiles \in SUBSET ProfIds, ProfCall(profiles) PROVE ProfInv'
  BY <1>4, ProfReloadStep DEF ProfCall
<1>5. ProfInv /\ [ProfNext]_profVars => ProfInv'
  BY <1>2, <1>3, <1>4, ProfRegisterStep, ProfEndStep, ProfStageStep, ProfPublishStep DEF ProfNext
<1>6. QED
  BY <1>1, <1>5, PTL DEF ProfSpec

\* A task that is seen can be used, an answered save is on the disk, and what
\* is on the disk is whole and within the limit (search_profiles.py).
THEOREM ProfilesKept == ProfSpec => []ProfKept
<1>1. ProfInv => ProfKept
  BY DEF ProfInv, ProfKept, ProfTaskUsable, ProfSavedWhole, ProfFiles
<1>2. QED
  BY <1>1, ProfInvHolds, PTL
-----------------------------------------------------------------------------
(* The readiness cache.  Every entry, and every result on its way into the *)
(* cache, is a true observation that was made after its check had begun.   *)
ReadySeen == [began : Nat, looked : Nat, up : BOOLEAN]

ReadyTrue(seen) ==
  /\ seen.looked <= readyNow
  /\ seen.up <=> (seen.looked \in readyUp)

ReadyAnswer(r) ==
  /\ ReadyTrue(r.seen)
  /\ r.force => r.seen.looked >= r.began
  /\ r.seen.looked >= r.began \/ r.seen.looked + ReadyCache > r.began

ReadyInv ==
  /\ readyNow \in Nat
  /\ readyCached \subseteq ReadySeen
  /\ readyThread \in [ReadyThreads -> [pc : {"idle", "cache", "check", "store", "answered"},
                                       force : BOOLEAN, began : Nat, seen : ReadySeen]]
  /\ \A entry \in readyCached : ReadyTrue(entry) /\ entry.began <= entry.looked
  /\ \A t \in ReadyThreads :
       /\ readyThread[t].pc = "store" =>
            ReadyTrue(readyThread[t].seen)
            /\ readyThread[t].seen.began = readyThread[t].began
            /\ readyThread[t].began <= readyThread[t].seen.looked
       /\ readyThread[t].began <= readyNow
       /\ readyThread[t].pc = "answered" => ReadyAnswer(readyThread[t])

LEMMA ReadyPassStep == ReadyInv /\ (\E up \in BOOLEAN : ReadyPass(up)) => ReadyInv'
<1>1. SUFFICES ASSUME ReadyInv, NEW up \in BOOLEAN, ReadyPass(up) PROVE ReadyInv'
  OBVIOUS
<1>2. readyNow \in Nat /\ readyNow' = readyNow + 1 /\ UNCHANGED <<readyCached, readyThread>>
  BY <1>1 DEF ReadyInv, ReadyPass
<1>3. ASSUME NEW seen \in ReadySeen, ReadyTrue(seen) PROVE ReadyTrue(seen)'
  <2>1. seen.looked \in Nat /\ seen.looked # readyNow + 1
    BY <1>2, <1>3 DEF ReadyTrue, ReadySeen
  <2>2. seen.looked \in readyUp' <=> seen.looked \in readyUp
    BY <1>1, <2>1 DEF ReadyPass
  <2>3. QED
    BY <1>2, <1>3, <2>1, <2>2 DEF ReadyTrue
<1>4. \A t \in ReadyThreads : readyThread[t].seen \in ReadySeen /\ readyThread[t].began \in Nat
  BY <1>1 DEF ReadyInv
<1>5. \A entry \in readyCached' : ReadyTrue(entry)' /\ entry.began <= entry.looked
  BY <1>1, <1>2, <1>3 DEF ReadyInv
<1>6. ASSUME NEW t \in ReadyThreads
      PROVE  /\ readyThread[t].pc = "store" =>
                  ReadyTrue(readyThread[t].seen)'
                  /\ readyThread[t].seen.began = readyThread[t].began
                  /\ readyThread[t].began <= readyThread[t].seen.looked
             /\ readyThread[t].began <= readyNow'
             /\ readyThread[t].pc = "answered" => ReadyAnswer(readyThread[t])'
  BY <1>1, <1>2, <1>3, <1>4 DEF ReadyInv, ReadyAnswer
<1>7. QED
  BY <1>1, <1>2, <1>5, <1>6 DEF ReadyInv

LEMMA ReadyThreadStep ==
  ASSUME ReadyInv, NEW t \in ReadyThreads,
         \/ \E force \in BOOLEAN : ReadyAsk(t, force)
         \/ ReadyHit(t) \/ ReadyMiss(t) \/ ReadyLook(t) \/ ReadyStore(t) \/ ReadyEnd(t)
  PROVE  ReadyInv'
<1> DEFINE r == readyThread[t]
           m == readyThread'[t]
<1>1. /\ readyNow \in Nat
      /\ r \in [pc : {"idle", "cache", "check", "store", "answered"},
                force : BOOLEAN, began : Nat, seen : ReadySeen]
      /\ r.began \in Nat /\ r.began <= readyNow
      /\ r.seen \in ReadySeen
      /\ ReadyCache \in Nat
  BY ReadyAssumption DEF ReadyInv
<1>2. UNCHANGED <<readyNow, readyUp>>
  BY DEF ReadyAsk, ReadyHit, ReadyMiss, ReadyLook, ReadyStore, ReadyEnd
<1>3. \A seen : ReadyTrue(seen)' <=> ReadyTrue(seen)
  BY <1>2 DEF ReadyTrue
<1>4. \A x : ReadyAnswer(x)' <=> ReadyAnswer(x)
  BY <1>3 DEF ReadyAnswer
<1>5. SUFFICES
        ASSUME readyThread' = [readyThread EXCEPT ![t] = m]
        PROVE  /\ m \in [pc : {"idle", "cache", "check", "store", "answered"},
                         force : BOOLEAN, began : Nat, seen : ReadySeen]
               /\ readyCached' \subseteq ReadySeen
               /\ \A entry \in readyCached' : ReadyTrue(entry) /\ entry.began <= entry.looked
               /\ m.pc = "store" => ReadyTrue(m.seen) /\ m.seen.began = m.began
                                    /\ m.began <= m.seen.looked
               /\ m.began <= readyNow
               /\ m.pc = "answered" => ReadyAnswer(m)
  <2>1. readyThread' = [readyThread EXCEPT ![t] = m]
    BY DEF ReadyInv, ReadyAsk, ReadyHit, ReadyMiss, ReadyLook, ReadyStore, ReadyEnd, ReadySet
  <2>2. \A u \in ReadyThreads : u # t => readyThread'[u] = readyThread[u]
    BY <2>1 DEF ReadyInv
  <2>3. m \in [pc : {"idle", "cache", "check", "store", "answered"},
               force : BOOLEAN, began : Nat, seen : ReadySeen]
        => readyThread' \in [ReadyThreads -> [pc : {"idle", "cache", "check", "store", "answered"},
                                              force : BOOLEAN, began : Nat, seen : ReadySeen]]
    BY <2>1 DEF ReadyInv
  <2>4. QED
    BY <1>1, <1>2, <1>3, <1>4, <2>1, <2>2, <2>3 DEF ReadyInv
<1>6. readyCached \subseteq ReadySeen
      /\ \A entry \in readyCached : ReadyTrue(entry) /\ entry.began <= entry.looked
  BY DEF ReadyInv
<1>7. CASE \E force \in BOOLEAN : ReadyAsk(t, force)
  <2>1. PICK force \in BOOLEAN : ReadyAsk(t, force)
    BY <1>7
  <2>2. m = [pc |-> "cache", force |-> force, began |-> readyNow, seen |-> ReadyNone]
    BY <1>1, <2>1 DEF ReadyAsk, ReadySet, ReadyIdle, ReadyInv
  <2>3. ReadyNone \in ReadySeen
    BY DEF ReadyNone, ReadySeen
  <2>4. readyCached' = readyCached
    BY <2>1 DEF ReadyAsk
  <2>5. QED
    BY <1>1, <1>6, <2>2, <2>3, <2>4
<1>8. CASE ReadyHit(t)
  <2>1. PICK entry \in readyCached : ReadyFresh(entry, r.began) /\ ReadySet(t, [r EXCEPT !.pc = "answered", !.seen = entry])
    BY <1>8 DEF ReadyHit
  <2>2. readyCached' = readyCached /\ ~r.force
    BY <1>8 DEF ReadyHit
  <2>3. m = [r EXCEPT !.pc = "answered", !.seen = entry]
    BY <2>1 DEF ReadySet, ReadyInv
  <2>4. /\ m.pc = "answered" /\ m.seen = entry /\ m.force = FALSE /\ m.began = r.began
        /\ m \in [pc : {"idle", "cache", "check", "store", "answered"},
                  force : BOOLEAN, began : Nat, seen : ReadySeen]
    BY <1>1, <1>6, <2>2, <2>3
  <2>5. entry.began \in Nat /\ entry.looked \in Nat
    BY <1>6 DEF ReadySeen
  <2>6. entry.looked + ReadyCache > r.began
    BY <1>1, <1>6, <2>1, <2>5 DEF ReadyFresh
  <2>7. QED
    BY <1>1, <1>6, <2>2, <2>4, <2>6 DEF ReadyAnswer
<1>9. CASE ReadyMiss(t)
  <2>1. m = [r EXCEPT !.pc = "check"] /\ readyCached' = readyCached
    BY <1>9 DEF ReadyMiss, ReadySet, ReadyInv
  <2>2. QED
    BY <1>1, <1>6, <2>1
<1>10. CASE ReadyLook(t)
  <2> DEFINE seen == [began |-> r.began, looked |-> readyNow, up |-> readyNow \in readyUp]
  <2>1. m = [r EXCEPT !.pc = "store", !.seen = seen] /\ readyCached' = readyCached
    BY <1>10 DEF ReadyLook, ReadySet, ReadyInv
  <2>2. seen \in ReadySeen /\ ReadyTrue(seen) /\ seen.began = r.began /\ seen.looked = readyNow
    <3>1. (readyNow \in readyUp) \in BOOLEAN
      OBVIOUS
    <3>2. seen.began = r.began /\ seen.looked = readyNow /\ seen.up = (readyNow \in readyUp)
      OBVIOUS
    <3>3. seen \in ReadySeen
      BY <1>1, <3>1 DEF ReadySeen
    <3>4. ReadyTrue(seen)
      <4> HIDE DEF seen
      <4>1. seen.looked <= readyNow
        BY <1>1, <3>2
      <4>2. seen.up <=> (seen.looked \in readyUp)
        BY <3>2, Zenon
      <4>3. QED
        BY <4>1, <4>2 DEF ReadyTrue
    <3>5. QED
      BY <3>2, <3>3, <3>4
  <2> HIDE DEF seen
  <2>3. /\ m.pc = "store" /\ m.seen = seen /\ m.began = r.began
        /\ m \in [pc : {"idle", "cache", "check", "store", "answered"},
                  force : BOOLEAN, began : Nat, seen : ReadySeen]
    BY <1>1, <2>1, <2>2
  <2>4. QED
    BY <1>1, <1>6, <2>1, <2>2, <2>3
<1>11. CASE ReadyStore(t)
  <2>1. m = [r EXCEPT !.pc = "answered"] /\ readyCached' = {r.seen} /\ r.pc = "store"
    BY <1>11 DEF ReadyStore, ReadySet, ReadyEntry, ReadyInv
  <2>2. ReadyTrue(r.seen) /\ r.seen.began = r.began /\ r.began <= r.seen.looked
    BY <2>1 DEF ReadyInv
  <2>3. /\ m.pc = "answered" /\ m.seen = r.seen /\ m.began = r.began
        /\ m \in [pc : {"idle", "cache", "check", "store", "answered"},
                  force : BOOLEAN, began : Nat, seen : ReadySeen]
    BY <1>1, <2>1
  <2>4. QED
    BY <1>1, <2>1, <2>2, <2>3 DEF ReadyAnswer
<1>12. CASE ReadyEnd(t)
  <2>1. m = ReadyIdle /\ readyCached' = readyCached
    BY <1>12 DEF ReadyEnd, ReadySet, ReadyInv
  <2>2. QED
    BY <1>1, <1>6, <2>1 DEF ReadyIdle, ReadyNone, ReadySeen
<1>13. QED
  BY <1>7, <1>8, <1>9, <1>10, <1>11, <1>12

LEMMA ReadyInvHolds == ReadySpec => []ReadyInv
<1>1. ReadyInit => ReadyInv
  BY DEF ReadyInit, ReadyInv, ReadyIdle, ReadyNone, ReadySeen
<1>2. ReadyInv /\ UNCHANGED readyVars => ReadyInv'
  BY DEF ReadyInv, readyVars, ReadyTrue, ReadyAnswer
<1>3. ReadyInv /\ [ReadyNext]_readyVars => ReadyInv'
  BY <1>2, ReadyPassStep, ReadyThreadStep DEF ReadyNext
<1>4. QED
  BY <1>1, <1>3, PTL DEF ReadySpec

\* An answer is true of a moment less than cache_seconds before its request
\* (collection_readiness.py).
THEOREM ReadinessHonest == ReadySpec => []ReadyAnswerRecent
<1>1. ReadyInv => ReadyAnswerRecent
  BY DEF ReadyInv, ReadyAnswer, ReadyTrue, ReadyAnswerRecent
<1>2. QED
  BY <1>1, ReadyInvHolds, PTL
-----------------------------------------------------------------------------
(* The visual projects.  What the store knows of a project is what its     *)
(* manifest says; an upload writes only into a project without an image.   *)
VisCallType == [pc : {"idle", "stage", "image", "manifest"}, project : SUBSET VisIds, image : VisImage]

VisShapes ==
  /\ visManifest \in [VisIds -> VisImage \cup {"absent"}]
  /\ visFile \in [VisIds -> VisImage]
  /\ visKnown \in [VisIds -> VisImage \cup {"absent"}]
  /\ visStaged \subseteq {"image", "manifest"}
  /\ visCall \in VisCallType
  /\ visUploaded \subseteq VisIds \X VisImages

VisInv ==
  /\ VisShapes
  /\ \A x \in VisIds : visManifest[x] \notin {"absent", "none"} => visFile[x] = visManifest[x]
  /\ \A x \in VisIds : visKnown[x] \in {"absent", visManifest[x]}
  /\ \A upload \in visUploaded : visManifest[upload[1]] = upload[2]
  /\ visCall.pc = "stage" =>
       /\ \E x \in VisIds : visCall.project = {x} /\ visManifest[x] = "absent"
       /\ Cardinality(VisPublished) < VisLimit
       /\ visCall.image \in {"none", "demo"}
       /\ "image" \in visStaged => visCall.image = "demo"
       /\ "manifest" \in visStaged /\ visCall.image = "demo" => "image" \in visStaged
  /\ visCall.pc \in {"image", "manifest"} =>
       /\ visCall.image \in VisImages
       /\ \A x \in visCall.project : visManifest[x] = "none"
  /\ visCall.pc = "manifest" => \A x \in visCall.project : visFile[x] = visCall.image
  /\ IsFiniteSet(VisPublished) /\ Cardinality(VisPublished) <= VisLimit

LEMMA VisReloaded ==
  ASSUME VisInv
  PROVE  /\ VisReload = visManifest
         /\ {x \in VisIds : VisReload[x] # "absent"} = VisPublished
<1>1. \A x \in VisIds : VisReload[x] = visManifest[x]
  BY DEF VisInv, VisReload
<1>2. VisReload = [x \in VisIds |-> VisReload[x]] /\ visManifest = [x \in VisIds |-> visManifest[x]]
  BY DEF VisInv, VisShapes, VisReload
<1>3. QED
  BY <1>1, <1>2 DEF VisPublished

\* The manifests stay as they are: published projects and uploads too.
LEMMA VisManifestsStay ==
  ASSUME VisInv, visManifest' = visManifest, visUploaded' = visUploaded,
         visFile' \in [VisIds -> VisImage],
         \A x \in VisIds : visManifest[x] \notin {"absent", "none"} => visFile'[x] = visFile[x],
         visKnown' = visKnown \/ visKnown' = visManifest,
         visStaged' \subseteq {"image", "manifest"}, visCall' \in VisCallType,
         visCall'.pc = "stage" =>
           /\ \E x \in VisIds : visCall'.project = {x} /\ visManifest[x] = "absent"
           /\ Cardinality(VisPublished) < VisLimit
           /\ visCall'.image \in {"none", "demo"}
           /\ "image" \in visStaged' => visCall'.image = "demo"
           /\ "manifest" \in visStaged' /\ visCall'.image = "demo" => "image" \in visStaged',
         visCall'.pc \in {"image", "manifest"} =>
           /\ visCall'.image \in VisImages
           /\ \A x \in visCall'.project : visManifest[x] = "none",
         visCall'.pc = "manifest" => \A x \in visCall'.project : visFile'[x] = visCall'.image
  PROVE  VisInv'
<1>1. VisPublished' = VisPublished
  BY DEF VisPublished
<1>2. VisShapes'
  BY DEF VisInv, VisShapes
<1>3. \A x \in VisIds : visKnown'[x] \in {"absent", visManifest[x]}
  BY DEF VisInv
<1>4. QED
  BY <1>1, <1>2, <1>3 DEF VisInv

LEMMA VisIdleCall == VisIdle \in VisCallType /\ VisIdle.pc = "idle"
BY DEF VisIdle, VisCallType, VisImage

LEMMA VisCreateStep ==
  ASSUME VisInv, NEW x \in VisIds, NEW image \in {"none", "demo"}, VisCreate(x, image)
  PROVE  VisInv'
<1>1. /\ UNCHANGED <<visManifest, visFile, visUploaded>>
      /\ visKnown' = visManifest
      /\ visManifest[x] = "absent" /\ visCall.pc = "idle"
      /\ IF Cardinality(VisPublished) >= VisLimit THEN UNCHANGED <<visCall, visStaged>>
         ELSE visCall' = [pc |-> "stage", project |-> {x}, image |-> image] /\ visStaged' = {}
  BY VisReloaded DEF VisCreate
<1>2. visFile' \in [VisIds -> VisImage] /\ visCall \in VisCallType
      /\ visStaged \subseteq {"image", "manifest"} /\ Cardinality(VisPublished) \in Nat /\ VisLimit \in Nat
  BY <1>1, FS_CardinalityType, VisAssumption DEF VisInv, VisShapes
<1>3. CASE Cardinality(VisPublished) >= VisLimit
  BY <1>1, <1>2, <1>3, VisManifestsStay
<1>4. CASE ~(Cardinality(VisPublished) >= VisLimit)
  <2>1. /\ visCall' \in VisCallType /\ visCall'.pc = "stage" /\ visCall'.project = {x}
        /\ visCall'.image = image /\ visStaged' = {}
    BY <1>1, <1>4 DEF VisCallType, VisImage
  <2>2. Cardinality(VisPublished) < VisLimit
    BY <1>2, <1>4
  <2>3. QED
    BY <1>1, <1>2, <2>1, <2>2, VisManifestsStay
<1>5. QED
  BY <1>3, <1>4

LEMMA VisAttachStep ==
  ASSUME VisInv, NEW x \in VisIds, NEW image \in VisImages, VisAttach(x, image)
  PROVE  VisInv'
<1>1. /\ UNCHANGED <<visManifest, visFile, visStaged, visUploaded>>
      /\ visKnown' = visManifest
      /\ IF visManifest[x] = "none"
         THEN visCall' = [pc |-> "image", project |-> {x}, image |-> image] ELSE visCall' = VisIdle
  BY VisReloaded DEF VisAttach, VisTakes, visDisk
<1>2. /\ visCall' \in VisCallType /\ visCall'.pc \in {"idle", "image"}
      /\ visCall'.pc = "image" => /\ visManifest[x] = "none" /\ visCall'.image = image
                                  /\ visCall'.project = {x}
  BY <1>1, VisIdleCall DEF VisCallType, VisImage
<1>3. visFile' \in [VisIds -> VisImage] /\ visStaged' \subseteq {"image", "manifest"}
  BY <1>1 DEF VisInv, VisShapes
<1>4. QED
  BY <1>1, <1>2, <1>3, VisManifestsStay

\* A file is staged, or the image of an upload put in its place.
LEMMA VisFileStep ==
  ASSUME VisInv, VisStage \/ VisPutImage PROVE VisInv'
<1>1. UNCHANGED <<visManifest, visKnown, visUploaded>>
  BY DEF VisStage, VisPutImage
<1>2. CASE VisStage
  <2>1. /\ UNCHANGED <<visFile, visCall>> /\ visCall.pc = "stage" /\ "manifest" \notin visStaged
        /\ visStaged' = IF visCall.image = "demo" /\ visStaged = {} THEN {"image"}
                        ELSE visStaged \cup {"manifest"}
    BY <1>2 DEF VisStage
  <2>2. /\ visStaged' \subseteq {"image", "manifest"}
        /\ "image" \in visStaged' => visCall.image = "demo"
        /\ "manifest" \in visStaged' /\ visCall.image = "demo" => "image" \in visStaged'
    BY <2>1 DEF VisInv, VisShapes
  <2>3. visFile' \in [VisIds -> VisImage] /\ visCall' \in VisCallType
    BY <2>1 DEF VisInv, VisShapes
  <2>4. /\ \E x \in VisIds : visCall.project = {x} /\ visManifest[x] = "absent"
        /\ Cardinality(VisPublished) < VisLimit
        /\ visCall.image \in {"none", "demo"}
    BY <2>1 DEF VisInv
  <2>5. QED
    BY <1>1, <2>1, <2>2, <2>3, <2>4, VisManifestsStay
<1>3. CASE VisPutImage
  <2>1. /\ visCall.pc = "image" /\ visStaged' = visStaged
        /\ visCall' = [visCall EXCEPT !.pc = "manifest"]
        /\ visFile' = [x \in VisIds |-> IF x \in visCall.project THEN visCall.image ELSE visFile[x]]
    BY <1>3 DEF VisPutImage, VisSet
  <2>2. /\ visCall.image \in VisImages /\ visCall.image \in VisImage /\ visCall.project \subseteq VisIds
        /\ \A x \in visCall.project : visManifest[x] = "none"
    BY <2>1 DEF VisInv, VisImage, VisShapes, VisCallType
  <2>3. /\ visCall' \in VisCallType /\ visCall'.pc = "manifest"
        /\ visCall'.project = visCall.project /\ visCall'.image = visCall.image
    BY <2>1 DEF VisInv, VisShapes, VisCallType
  <2>4. /\ visFile' \in [VisIds -> VisImage]
        /\ \A x \in VisIds : visFile'[x] = IF x \in visCall.project THEN visCall.image ELSE visFile[x]
        /\ visStaged' \subseteq {"image", "manifest"}
    BY <2>1, <2>2 DEF VisInv, VisShapes
  <2>5. QED
    BY <1>1, <2>2, <2>3, <2>4, VisManifestsStay
<1>4. QED
  BY <1>2, <1>3

LEMMA VisEndStep ==
  ASSUME VisInv, VisFails \/ VisKill PROVE VisInv'
<1>1. /\ UNCHANGED <<visManifest, visFile, visUploaded>>
      /\ visCall' = VisIdle
      /\ visKnown' = visKnown \/ visKnown' = visManifest
      /\ visStaged' \subseteq visStaged
  BY DEF VisFails, VisKill, visDisk
<1>2. visFile' \in [VisIds -> VisImage] /\ visStaged' \subseteq {"image", "manifest"}
  BY <1>1 DEF VisInv, VisShapes
<1>3. QED
  BY <1>1, <1>2, VisIdleCall, VisManifestsStay

\* The rename publishes the project of the call, within the limit.
LEMMA VisPublishStep ==
  ASSUME VisInv, VisPublish PROVE VisInv'
<1> DEFINE image == visCall.image
<1>1. PICK x \in visCall.project :
        /\ visManifest' = [visManifest EXCEPT ![x] = image]
        /\ visFile' = [visFile EXCEPT ![x] = IF "image" \in visStaged THEN "demo" ELSE "none"]
        /\ visKnown' = [visKnown EXCEPT ![x] = image]
  BY DEF VisPublish
<1>2. /\ visCall.pc = "stage" /\ "manifest" \in visStaged /\ visStaged' = {}
      /\ visCall' = VisIdle /\ visUploaded' = visUploaded
  BY DEF VisPublish
<1>3. /\ x \in VisIds /\ visManifest[x] = "absent"
      /\ Cardinality(VisPublished) < VisLimit
      /\ image \in {"none", "demo"}
      /\ "image" \in visStaged <=> image = "demo"
  BY <1>2 DEF VisInv
<1>4. image \in VisImage /\ image # "absent"
  BY <1>3 DEF VisImage
<1> HIDE DEF image
<1>5. /\ visManifest'[x] = image /\ visKnown'[x] = image
      /\ visFile'[x] = IF "image" \in visStaged THEN "demo" ELSE "none"
      /\ \A y \in VisIds \ {x} : /\ visManifest'[y] = visManifest[y] /\ visKnown'[y] = visKnown[y]
                                 /\ visFile'[y] = visFile[y]
  BY <1>1, <1>3 DEF VisInv, VisShapes
<1>6. VisShapes'
  <2>1. /\ visManifest' \in [VisIds -> VisImage \cup {"absent"}]
        /\ visKnown' \in [VisIds -> VisImage \cup {"absent"}]
    BY <1>1, <1>4 DEF VisInv, VisShapes
  <2>2. visFile' \in [VisIds -> VisImage]
    BY <1>1 DEF VisInv, VisShapes, VisImage
  <2>3. QED
    BY <1>2, <2>1, <2>2, VisIdleCall DEF VisInv, VisShapes
<1>7. VisPublished' = VisPublished \cup {x}
  BY <1>3, <1>4, <1>5 DEF VisPublished
<1>8. IsFiniteSet(VisPublished') /\ Cardinality(VisPublished') <= VisLimit
  <2>1. IsFiniteSet(VisPublished) /\ x \notin VisPublished
    BY <1>3 DEF VisInv, VisPublished
  <2>2. Cardinality(VisPublished \cup {x}) = Cardinality(VisPublished) + 1
        /\ IsFiniteSet(VisPublished \cup {x}) /\ Cardinality(VisPublished) \in Nat
    BY <2>1, FS_AddElement, FS_CardinalityType
  <2>3. QED
    BY <1>3, <1>7, <2>2, VisAssumption
<1>9. \A upload \in visUploaded : visManifest'[upload[1]] = upload[2]
  <2>1. ASSUME NEW upload \in visUploaded PROVE visManifest'[upload[1]] = upload[2]
    <3>1. upload[1] \in VisIds /\ upload[2] \in VisImages /\ visManifest[upload[1]] = upload[2]
      BY DEF VisInv, VisShapes
    <3>2. upload[1] # x
      BY <1>3, <3>1, VisAssumption
    <3>3. QED
      BY <1>5, <3>1, <3>2
  <2>2. QED
    BY <2>1
<1>10. \A y \in VisIds : /\ visManifest'[y] \notin {"absent", "none"} => visFile'[y] = visManifest'[y]
                         /\ visKnown'[y] \in {"absent", visManifest'[y]}
  BY <1>3, <1>5 DEF VisInv
<1>11. QED
  BY <1>2, <1>6, <1>8, <1>9, <1>10, VisIdleCall DEF VisInv

\* The manifest of an upload: the image it names is in place.
LEMMA VisPutManifestStep ==
  ASSUME VisInv, VisPutManifest PROVE VisInv'
<1> DEFINE image == visCall.image
           project == visCall.project
<1>1. /\ visCall.pc = "manifest"
      /\ visManifest' = [x \in VisIds |-> IF x \in project THEN image ELSE visManifest[x]]
      /\ visKnown' = [x \in VisIds |-> IF x \in project THEN image ELSE visKnown[x]]
      /\ visUploaded' = visUploaded \cup {<<x, image>> : x \in project}
      /\ visCall' = VisIdle
      /\ UNCHANGED <<visFile, visStaged>>
  BY DEF VisPutManifest
<1>2. /\ image \in VisImages /\ image \in VisImage /\ project \subseteq VisIds
      /\ \A x \in project : visManifest[x] = "none" /\ visFile[x] = image
      /\ image \notin {"none", "absent"}
  BY <1>1, VisAssumption DEF VisInv, VisShapes, VisCallType, VisImage
<1> HIDE DEF image, project
<1>3. \A x \in VisIds : /\ visManifest'[x] = IF x \in project THEN image ELSE visManifest[x]
                        /\ visKnown'[x] = IF x \in project THEN image ELSE visKnown[x]
  BY <1>1
<1>4. VisShapes'
  <2>1. /\ visManifest' \in [VisIds -> VisImage \cup {"absent"}]
        /\ visKnown' \in [VisIds -> VisImage \cup {"absent"}]
    BY <1>1, <1>2 DEF VisInv, VisShapes
  <2>2. {<<x, image>> : x \in project} \subseteq VisIds \X VisImages
    BY <1>2
  <2>3. QED
    BY <1>1, <2>1, <2>2, VisIdleCall DEF VisInv, VisShapes
<1>5. VisPublished' = VisPublished
  BY <1>2, <1>3 DEF VisPublished
<1>6. \A upload \in visUploaded' : visManifest'[upload[1]] = upload[2]
  <2>1. ASSUME NEW upload \in visUploaded PROVE visManifest'[upload[1]] = upload[2]
    <3>1. upload[1] \in VisIds /\ upload[2] \in VisImages /\ visManifest[upload[1]] = upload[2]
      BY DEF VisInv, VisShapes
    <3>2. upload[1] \notin project
      BY <1>2, <3>1, VisAssumption
    <3>3. QED
      BY <1>3, <3>1, <3>2
  <2>2. ASSUME NEW x \in project PROVE visManifest'[<<x, image>>[1]] = <<x, image>>[2]
    BY <1>2, <1>3, <2>2
  <2>3. QED
    BY <1>1, <2>1, <2>2
<1>7. \A x \in VisIds : /\ visManifest'[x] \notin {"absent", "none"} => visFile'[x] = visManifest'[x]
                        /\ visKnown'[x] \in {"absent", visManifest'[x]}
  BY <1>1, <1>2, <1>3 DEF VisInv
<1>8. QED
  BY <1>1, <1>4, <1>5, <1>6, <1>7, VisIdleCall DEF VisInv

LEMMA VisInvHolds == VisSpec => []VisInv
<1>1. VisInit => VisInv
  <2>1. VisInit => VisPublished = {}
    BY DEF VisInit, VisPublished
  <2>2. VisInit => VisShapes
    BY VisIdleCall DEF VisInit, VisShapes, VisImage
  <2>3. QED
    BY <2>1, <2>2, VisIdleCall, FS_EmptySet, VisAssumption DEF VisInit, VisInv
<1>2. VisInv /\ UNCHANGED visVars => VisInv'
  BY DEF VisInv, visVars, visDisk, VisShapes, VisPublished
<1>3. VisInv /\ [VisNext]_visVars => VisInv'
  BY <1>2, VisCreateStep, VisAttachStep, VisFileStep, VisPublishStep, VisPutManifestStep, VisEndStep
     DEF VisNext
<1>4. QED
  BY <1>1, <1>3, PTL DEF VisSpec

\* The image a manifest names is the one on the disk at every moment, uploads
\* stay, and there are never more projects than the limit
\* (visual_workbench/store.py).
THEOREM ImagesKept == VisSpec => []VisImageKept
<1>1. VisInv => VisImageKept
  BY DEF VisInv, VisImageKept
<1>2. QED
  BY <1>1, VisInvHolds, PTL
-----------------------------------------------------------------------------
(* The console launcher.  A supervisor holds the lock exactly from its     *)
(* acquisition to the end of its children.                                 *)
LaunchHolding == LaunchPcs \ {"out", "unlocked", "over"}

LaunchLocks ==
  \A s \in LaunchRuns : launchLock = s <=> launchPc[s] \in LaunchHolding

LaunchOwned ==
  \A c \in launchChildren :
    /\ launchLock = c.by \/ LaunchWasKilled(c.by)
    /\ launchPc[c.by] \notin {"out", "locked"}
    /\ ~c.job => LaunchAt(c.by) \in {LaunchAdding[c.port], "ending"}

\* The file is the holder's, or an earlier one's last word; `ready' outlives
\* the loop only where a signal will replace it, or where nothing could.
LaunchWord ==
  /\ launchLock # LaunchNobody /\ launchPc[launchLock] # "locked" =>
       launchFile.by = launchLock \/ launchFile.status = "stopped"
  /\ launchFile.status = "ready" =>
       /\ launchFile.by \in LaunchRuns
       /\ \/ LaunchWasKilled(launchFile.by)
          \/ launchFile.by \in launchUnsaid
          \/ launchPc[launchFile.by] = "ready"
          \/ launchPc[launchFile.by] \in {"ending", "unlocked"} /\ launchStopped[launchFile.by]

LaunchShapes ==
  /\ launchPc \in [LaunchRuns -> LaunchPcs]
  /\ launchStopped \in [LaunchRuns -> BOOLEAN]
  /\ launchLock \in LaunchRuns \cup {LaunchNobody}
  /\ launchChildren \subseteq
       [by : LaunchRuns, port : LaunchPorts, job : BOOLEAN, listens : BOOLEAN]
  /\ launchScript \in [LaunchRuns -> {"none", "wait", "write"}]
  /\ launchKilled \in [LaunchRuns -> LaunchPcs \cup {"no"}]
  /\ launchUnsaid \subseteq LaunchRuns

LaunchInv ==
  /\ LaunchShapes
  /\ LaunchLocks
  /\ \A s \in LaunchRuns : LaunchWasKilled(s) => launchPc[s] = "over"
  /\ LaunchOwned
  /\ LaunchWord

LEMMA LaunchGoEffect ==
  ASSUME LaunchShapes, NEW s \in LaunchRuns, NEW from, NEW to \in LaunchPcs, LaunchGo(s, from, to)
  PROVE  /\ launchPc[s] = from /\ launchPc'[s] = to
         /\ \A q \in LaunchRuns \ {s} : launchPc'[q] = launchPc[q]
         /\ launchPc' \in [LaunchRuns -> LaunchPcs]
BY DEF LaunchGo, LaunchShapes

\* Where everyone is when one supervisor moves by itself.
LEMMA LaunchPlaces ==
  ASSUME LaunchInv, NEW s \in LaunchRuns, launchPc[s] # "over",
         launchKilled' = launchKilled,
         \A q \in LaunchRuns \ {s} : launchPc'[q] = launchPc[q]
  PROVE  /\ ~LaunchWasKilled(s) /\ LaunchAt(s) = launchPc[s] /\ LaunchAt(s)' = launchPc'[s]
         /\ \A q \in LaunchRuns : LaunchWasKilled(q)' <=> LaunchWasKilled(q)
         /\ \A q \in LaunchRuns \ {s} : LaunchAt(q)' = LaunchAt(q)
         /\ \A q \in LaunchRuns : LaunchWasKilled(q)' => launchPc'[q] = "over"
BY DEF LaunchInv, LaunchWasKilled, LaunchAt

\* What becomes of the locks when the holder moves.
LEMMA LaunchMove ==
  ASSUME LaunchInv, NEW s \in LaunchRuns,
         launchPc' \in [LaunchRuns -> LaunchPcs],
         \A q \in LaunchRuns \ {s} : launchPc'[q] = launchPc[q],
         launchLock' = launchLock,
         launchPc[s] \in LaunchHolding /\ launchPc'[s] \in LaunchHolding
  PROVE  /\ LaunchLocks'
         /\ launchLock = s
         /\ launchPc[s] # "over"
         /\ launchPc'[launchLock] = launchPc'[s]
BY DEF LaunchInv, LaunchShapes, LaunchLocks, LaunchHolding

LEMMA LaunchAcquireStep ==
  ASSUME LaunchInv, NEW s \in LaunchRuns, LaunchAcquire(s) PROVE LaunchInv'
<1>1. UNCHANGED <<launchStopped, launchFile, launchChildren, launchScript, launchKilled, launchUnsaid>>
  BY DEF LaunchAcquire, launchHistory
<1>2. /\ launchPc[s] = "out" /\ \A q \in LaunchRuns \ {s} : launchPc'[q] = launchPc[q]
      /\ launchPc' \in [LaunchRuns -> LaunchPcs]
      /\ \/ launchLock = LaunchNobody /\ launchPc'[s] = "locked" /\ launchLock' = s
         \/ launchLock # LaunchNobody /\ launchPc'[s] = "over" /\ launchLock' = launchLock
  BY LaunchGoEffect DEF LaunchInv, LaunchAcquire, LaunchPcs
<1>a. /\ ~LaunchWasKilled(s)
      /\ \A q \in LaunchRuns : LaunchWasKilled(q)' <=> LaunchWasKilled(q)
      /\ \A q \in LaunchRuns \ {s} : LaunchAt(q)' = LaunchAt(q)
      /\ \A q \in LaunchRuns : LaunchWasKilled(q)' => launchPc'[q] = "over"
  BY <1>1, <1>2, LaunchPlaces
<1>3. launchLock # s
  BY <1>2 DEF LaunchInv, LaunchLocks, LaunchHolding
<1>4. LaunchShapes'
  BY <1>1, <1>2 DEF LaunchInv, LaunchShapes
<1>5. LaunchLocks'
  BY <1>2, <1>3, LaunchAssumption DEF LaunchInv, LaunchLocks, LaunchHolding, LaunchPcs
<1>6. \A c \in launchChildren : c.by \in LaunchRuns \ {s}
  BY <1>2, <1>3, <1>a, LaunchAssumption DEF LaunchInv, LaunchOwned, LaunchShapes
<1>7. LaunchOwned'
  BY <1>1, <1>2, <1>a, <1>6, LaunchAssumption DEF LaunchInv, LaunchOwned
<1>8. LaunchWord'
  <2>1. launchLock' # LaunchNobody /\ launchPc'[launchLock'] # "locked" =>
          launchFile.by = launchLock' \/ launchFile.status = "stopped"
    BY <1>2, <1>3 DEF LaunchInv, LaunchWord, LaunchShapes
  <2>2. QED
    BY <1>1, <1>2, <1>3, <1>a, <2>1 DEF LaunchInv, LaunchWord
<1>9. QED
  BY <1>1, <1>2, <1>a, <1>4, <1>5, <1>7, <1>8 DEF LaunchInv, LaunchShapes

LEMMA LaunchFileStep ==
  ASSUME LaunchInv, NEW s \in LaunchRuns,
         LaunchStarting(s) \/ LaunchFails(s)
           \/ (\E port \in LaunchPorts : LaunchAnswered(s, port) /\ port = "ui")
  PROVE  LaunchInv'
<1>1. /\ UNCHANGED <<launchStopped, launchLock, launchChildren, launchScript, launchKilled>>
      /\ \/ UNCHANGED launchUnsaid
         \/ launchUnsaid' = launchUnsaid \cup {s} /\ UNCHANGED launchFile /\ LaunchFails(s)
  BY DEF LaunchStarting, LaunchFails, LaunchAnswered, LaunchSays, launchHistory
<1>2. /\ launchPc' \in [LaunchRuns -> LaunchPcs]
      /\ \A q \in LaunchRuns \ {s} : launchPc'[q] = launchPc[q]
      /\ launchPc[s] \in LaunchHolding
      /\ launchPc'[s] \in {"ports", "ending", "ready"}
      /\ launchPc[s] \in {"api_add", "ui_add", "ending"} => launchPc'[s] = "ending"
  BY DEF LaunchInv, LaunchShapes, LaunchStarting, LaunchFails, LaunchAnswered, LaunchGo,
         LaunchHolding, LaunchPcs
<1>3. \/ /\ launchFile'.by = s
         /\ launchFile'.status \in {"starting", "failed", "ready"}
         /\ launchFile'.status = "ready" => launchPc'[s] = "ready"
      \/ UNCHANGED launchFile /\ s \in launchUnsaid' /\ launchPc[s] # "locked"
  BY <1>1 DEF LaunchInv, LaunchShapes, LaunchStarting, LaunchFails, LaunchAnswered, LaunchGo,
              LaunchState, LaunchSays
<1>4. /\ LaunchLocks' /\ launchLock = s /\ launchPc[s] # "over"
  BY <1>1, <1>2, LaunchMove DEF LaunchHolding, LaunchPcs
<1>a. /\ LaunchAt(s) = launchPc[s] /\ LaunchAt(s)' = launchPc'[s]
      /\ \A q \in LaunchRuns : LaunchWasKilled(q)' <=> LaunchWasKilled(q)
      /\ \A q \in LaunchRuns \ {s} : LaunchAt(q)' = LaunchAt(q)
      /\ \A q \in LaunchRuns : LaunchWasKilled(q)' => launchPc'[q] = "over"
  BY <1>1, <1>2, <1>4, LaunchPlaces
<1>5. LaunchShapes'
  BY <1>1, <1>2 DEF LaunchInv, LaunchShapes
<1>6. LaunchOwned'
  <2>1. \A c \in launchChildren : c.by \in LaunchRuns /\ c.port \in LaunchPorts
                                  /\ LaunchAdding[c.port] \in {"api_add", "ui_add"}
    BY DEF LaunchInv, LaunchShapes, LaunchPorts, LaunchAdding
  <2>2. QED
    BY <1>1, <1>2, <1>a, <2>1 DEF LaunchInv, LaunchOwned
<1>7. LaunchWord'
  <2>1. CASE UNCHANGED launchFile /\ s \in launchUnsaid' /\ launchPc[s] # "locked"
    <3>1. launchFile.by = s \/ launchFile.status = "stopped"
      BY <1>4, <2>1, LaunchAssumption DEF LaunchInv, LaunchWord
    <3>2. QED
      BY <1>1, <1>4, <2>1, <3>1 DEF LaunchWord
  <2>2. QED
    BY <1>1, <1>2, <1>3, <1>4, <2>1 DEF LaunchWord
<1>8. QED
  BY <1>1, <1>2, <1>4, <1>5, <1>6, <1>7, <1>a DEF LaunchInv, LaunchShapes

\* The supervisor moves on, or starts a child; the file stays.
LEMMA LaunchWorkStep ==
  ASSUME LaunchInv, NEW s \in LaunchRuns,
         \/ LaunchPrepare(s)
         \/ \E port \in LaunchPorts : \/ LaunchChild(s, port) \/ LaunchJob(s, port)
                                      \/ LaunchAnswered(s, port) /\ port = "api"
  PROVE  LaunchInv'
<1>1. UNCHANGED <<launchStopped, launchLock, launchFile, launchScript, launchKilled, launchUnsaid>>
  BY DEF LaunchPrepare, LaunchChild, LaunchJob, LaunchAnswered, launchHistory
<1>2. /\ launchPc' \in [LaunchRuns -> LaunchPcs]
      /\ \A q \in LaunchRuns \ {s} : launchPc'[q] = launchPc[q]
      /\ launchPc[s] \in LaunchHolding \ {"locked", "ready", "ending"}
      /\ launchPc'[s] \in LaunchHolding \ {"locked", "ready", "ending"}
      /\ launchPc'[s] # "out"
  BY DEF LaunchInv, LaunchShapes, LaunchPrepare, LaunchChild, LaunchJob, LaunchAnswered, LaunchGo,
         LaunchHolding, LaunchPcs, LaunchPorts, LaunchAdding, LaunchWaiting
<1>3. /\ LaunchLocks' /\ launchLock = s /\ launchPc[s] # "over"
  BY <1>1, <1>2, LaunchMove
<1>a. /\ ~LaunchWasKilled(s) /\ LaunchAt(s) = launchPc[s] /\ LaunchAt(s)' = launchPc'[s]
      /\ \A q \in LaunchRuns : LaunchWasKilled(q)' <=> LaunchWasKilled(q)
      /\ \A q \in LaunchRuns \ {s} : LaunchAt(q)' = LaunchAt(q)
      /\ \A q \in LaunchRuns : LaunchWasKilled(q)' => launchPc'[q] = "over"
  BY <1>1, <1>2, <1>3, LaunchPlaces
<1>4. LaunchWord'
  <2>1. launchFile.by = s \/ launchFile.status = "stopped"
    BY <1>2, <1>3, LaunchAssumption DEF LaunchInv, LaunchWord
  <2>2. launchFile.status = "ready" => launchFile.by \in launchUnsaid
    BY <1>2, <1>3, <1>a, <2>1 DEF LaunchInv, LaunchWord, LaunchHolding
  <2>3. QED
    BY <1>1, <1>2, <1>3, <2>1, <2>2 DEF LaunchInv, LaunchWord
<1>5. /\ launchChildren' \subseteq
           [by : LaunchRuns, port : LaunchPorts, job : BOOLEAN, listens : BOOLEAN]
      /\ LaunchOwned'
  <2>1. \A c \in launchChildren :
          /\ c \in [by : LaunchRuns, port : LaunchPorts, job : BOOLEAN, listens : BOOLEAN]
          /\ c.by = s \/ LaunchWasKilled(c.by)
          /\ launchPc'[c.by] \notin {"out", "locked"}
          /\ ~c.job => IF c.by = s THEN launchPc[s] = LaunchAdding[c.port]
                       ELSE LaunchAt(c.by) \in {LaunchAdding[c.port], "ending"}
    BY <1>2, <1>3, <1>a DEF LaunchInv, LaunchShapes, LaunchOwned
  <2>2. CASE UNCHANGED launchChildren /\ launchPc[s] \notin {"api_add", "ui_add"}
    <3>1. \A c \in launchChildren : LaunchAdding[c.port] \in {"api_add", "ui_add"}
      BY <2>1 DEF LaunchPorts, LaunchAdding
    <3>2. \A c \in launchChildren : ~c.job => c.by # s
      BY <2>1, <2>2, <3>1
    <3>3. QED
      BY <1>1, <1>3, <1>a, <2>1, <2>2, <3>2 DEF LaunchOwned
  <2>3. ASSUME NEW port \in LaunchPorts, LaunchChild(s, port)
        PROVE  /\ launchChildren' \subseteq
                    [by : LaunchRuns, port : LaunchPorts, job : BOOLEAN, listens : BOOLEAN]
               /\ LaunchOwned'
    <3> DEFINE new == [by |-> s, port |-> port, job |-> FALSE, listens |-> FALSE]
    <3>1. launchChildren' = launchChildren \cup {new} /\ launchPc[s] = port
          /\ launchPc'[s] = LaunchAdding[port]
      BY <2>3 DEF LaunchChild, LaunchGo, LaunchInv, LaunchShapes
    <3>2. /\ new \in [by : LaunchRuns, port : LaunchPorts, job : BOOLEAN, listens : BOOLEAN]
          /\ new.by = s /\ new.port = port
      OBVIOUS
    <3> HIDE DEF new
    <3>3. \A c \in launchChildren : ~c.job => c.by # s
      BY <2>1, <3>1 DEF LaunchPorts, LaunchAdding
    <3>4. \A c \in launchChildren' :
            /\ c \in [by : LaunchRuns, port : LaunchPorts, job : BOOLEAN, listens : BOOLEAN]
            /\ c.by = s \/ LaunchWasKilled(c.by)
            /\ launchPc'[c.by] \notin {"out", "locked"}
            /\ ~c.job => LaunchAt(c.by)' \in {LaunchAdding[c.port], "ending"}
      BY <1>2, <1>a, <2>1, <3>1, <3>2, <3>3
    <3>5. QED
      BY <1>1, <1>3, <1>a, <3>4 DEF LaunchOwned
  <2>4. ASSUME NEW port \in LaunchPorts, LaunchJob(s, port)
        PROVE  /\ launchChildren' \subseteq
                    [by : LaunchRuns, port : LaunchPorts, job : BOOLEAN, listens : BOOLEAN]
               /\ LaunchOwned'
    <3>1. launchChildren' = {IF c.by = s THEN [c EXCEPT !.job = TRUE] ELSE c : c \in launchChildren}
      BY <2>4 DEF LaunchJob
    <3>2. ASSUME NEW d \in launchChildren'
          PROVE  /\ d \in [by : LaunchRuns, port : LaunchPorts, job : BOOLEAN, listens : BOOLEAN]
                 /\ d.by = s \/ LaunchWasKilled(d.by)
                 /\ launchPc'[d.by] \notin {"out", "locked"}
                 /\ ~d.job => LaunchAt(d.by)' \in {LaunchAdding[d.port], "ending"}
      <4>1. PICK c \in launchChildren : d = IF c.by = s THEN [c EXCEPT !.job = TRUE] ELSE c
        BY <3>1
      <4>2. CASE c.by = s
        <5>1. d = [c EXCEPT !.job = TRUE]
          BY <4>1, <4>2
        <5>2. QED
          BY <2>1, <4>2, <5>1
      <4>3. CASE c.by # s
        BY <1>a, <2>1, <4>1, <4>3
      <4>4. QED
        BY <4>2, <4>3
    <3>3. QED
      BY <1>1, <1>3, <1>a, <3>2 DEF LaunchOwned
  <2>5. \/ UNCHANGED launchChildren /\ launchPc[s] \notin {"api_add", "ui_add"}
        \/ \E port \in LaunchPorts : LaunchChild(s, port) \/ LaunchJob(s, port)
    BY DEF LaunchPrepare, LaunchAnswered, LaunchGo
  <2>6. QED
    BY <2>2, <2>3, <2>4, <2>5
<1>6. LaunchShapes'
  BY <1>1, <1>2, <1>5 DEF LaunchInv, LaunchShapes
<1>7. QED
  BY <1>1, <1>2, <1>3, <1>4, <1>5, <1>6, <1>a DEF LaunchInv, LaunchShapes

LEMMA LaunchEndStep ==
  ASSUME LaunchInv, NEW s \in LaunchRuns,
         LaunchLeave(s) \/ LaunchRelease(s) \/ LaunchQuits(s) \/ LaunchLast(s)
  PROVE  LaunchInv'
<1>1. UNCHANGED <<launchStopped, launchScript, launchKilled>>
  BY DEF LaunchLeave, LaunchRelease, LaunchQuits, LaunchLast, launchHistory
<1>2. /\ launchChildren' \subseteq launchChildren
      /\ \A c \in launchChildren :
           /\ c \in [by : LaunchRuns, port : LaunchPorts, job : BOOLEAN, listens : BOOLEAN]
           /\ LaunchAdding[c.port] \in {"api_add", "ui_add"}
  BY DEF LaunchInv, LaunchShapes, LaunchLeave, LaunchRelease, LaunchQuits, LaunchLast, LaunchPorts,
         LaunchAdding
<1>3. CASE LaunchLeave(s)
  <2>1. /\ launchPc[s] = "ready" /\ launchPc'[s] = "ending" /\ launchStopped[s]
        /\ \A q \in LaunchRuns \ {s} : launchPc'[q] = launchPc[q]
        /\ launchPc' \in [LaunchRuns -> LaunchPcs]
        /\ UNCHANGED <<launchLock, launchFile, launchChildren, launchUnsaid>>
    BY <1>3, LaunchGoEffect DEF LaunchInv, LaunchLeave, LaunchPcs, launchHistory
  <2>2. /\ LaunchLocks' /\ launchLock = s
    BY <2>1, LaunchMove DEF LaunchHolding, LaunchPcs
  <2>a. /\ LaunchAt(s) = launchPc[s] /\ LaunchAt(s)' = launchPc'[s]
        /\ \A q \in LaunchRuns : LaunchWasKilled(q)' <=> LaunchWasKilled(q)
        /\ \A q \in LaunchRuns \ {s} : LaunchAt(q)' = LaunchAt(q)
        /\ \A q \in LaunchRuns : LaunchWasKilled(q)' => launchPc'[q] = "over"
    BY <1>1, <2>1, LaunchPlaces
  <2>3. LaunchShapes'
    BY <1>1, <2>1 DEF LaunchInv, LaunchShapes
  <2>4. LaunchOwned'
    BY <1>1, <1>2, <2>1, <2>a DEF LaunchInv, LaunchOwned
  <2>5. LaunchWord'
    BY <1>1, <2>1, <2>2, <2>a DEF LaunchInv, LaunchWord
  <2>6. QED
    BY <1>1, <2>1, <2>2, <2>3, <2>4, <2>5, <2>a DEF LaunchInv, LaunchShapes
<1>4. CASE LaunchRelease(s) /\ UNCHANGED launchPc
  <2>1. UNCHANGED <<launchLock, launchFile, launchUnsaid>>
    BY <1>4 DEF LaunchRelease, LaunchGo, LaunchInv, LaunchShapes, launchHistory
  <2>2. QED
    BY <1>1, <1>2, <1>4, <2>1
       DEF LaunchInv, LaunchShapes, LaunchLocks, LaunchOwned, LaunchWord, LaunchWasKilled, LaunchAt
\* The lock is given back by a supervisor that has no children.
<1>5. CASE (LaunchRelease(s) /\ ~UNCHANGED launchPc) \/ LaunchQuits(s)
  <2>1. /\ launchLock' = LaunchNobody
        /\ \/ launchPc[s] = "ending" /\ launchPc'[s] = "unlocked" /\ LaunchOwn(s) = {}
           \/ launchPc[s] = "locked" /\ launchPc'[s] = "over"
        /\ \A q \in LaunchRuns \ {s} : launchPc'[q] = launchPc[q]
        /\ launchPc' \in [LaunchRuns -> LaunchPcs]
        /\ UNCHANGED <<launchFile, launchChildren, launchUnsaid>>
    BY <1>5, LaunchGoEffect DEF LaunchInv, LaunchRelease, LaunchQuits, LaunchPcs, launchHistory
  <2>2. launchLock = s
    BY <2>1 DEF LaunchInv, LaunchLocks, LaunchHolding, LaunchPcs
  <2>a. /\ ~LaunchWasKilled(s) /\ LaunchAt(s) = launchPc[s] /\ LaunchAt(s)' = launchPc'[s]
        /\ \A q \in LaunchRuns : LaunchWasKilled(q)' <=> LaunchWasKilled(q)
        /\ \A q \in LaunchRuns \ {s} : LaunchAt(q)' = LaunchAt(q)
        /\ \A q \in LaunchRuns : LaunchWasKilled(q)' => launchPc'[q] = "over"
    BY <1>1, <2>1, LaunchPlaces
  <2>3. LaunchShapes'
    BY <1>1, <2>1 DEF LaunchInv, LaunchShapes
  <2>4. LaunchLocks'
    <3>1. \A q \in LaunchRuns \ {s} : launchPc[q] \notin LaunchHolding
      BY <2>2 DEF LaunchInv, LaunchLocks
    <3>2. QED
      BY <2>1, <3>1, LaunchAssumption DEF LaunchLocks, LaunchHolding
  <2>5. LaunchOwned'
    <3>1. \A c \in launchChildren : c.by # s
      BY <1>2, <2>1, <2>2 DEF LaunchInv, LaunchOwned, LaunchOwn
    <3>2. QED
      BY <1>1, <1>2, <2>1, <2>2, <2>a, <3>1 DEF LaunchInv, LaunchOwned
  <2>6. LaunchWord'
    BY <1>1, <2>1, <2>2, <2>a DEF LaunchInv, LaunchWord
  <2>7. QED
    BY <1>1, <2>1, <2>2, <2>3, <2>4, <2>5, <2>6, <2>a DEF LaunchInv, LaunchShapes
<1>6. CASE LaunchLast(s)
  <2>1. /\ launchPc[s] = "unlocked" /\ launchPc'[s] = "over"
        /\ \A q \in LaunchRuns \ {s} : launchPc'[q] = launchPc[q]
        /\ launchPc' \in [LaunchRuns -> LaunchPcs]
        /\ UNCHANGED <<launchLock, launchChildren>>
        /\ \/ launchStopped[s] /\ launchFile'.status = "stopped" /\ UNCHANGED launchUnsaid
           \/ launchStopped[s] /\ UNCHANGED launchFile /\ launchUnsaid' = launchUnsaid \cup {s}
           \/ ~launchStopped[s] /\ UNCHANGED <<launchFile, launchUnsaid>>
    BY <1>6, LaunchGoEffect DEF LaunchInv, LaunchLast, LaunchPcs, LaunchState, LaunchSays
  <2>2. launchLock # s
    BY <2>1 DEF LaunchInv, LaunchLocks, LaunchHolding
  <2>a. /\ ~LaunchWasKilled(s) /\ LaunchAt(s) = launchPc[s] /\ LaunchAt(s)' = launchPc'[s]
        /\ \A q \in LaunchRuns : LaunchWasKilled(q)' <=> LaunchWasKilled(q)
        /\ \A q \in LaunchRuns \ {s} : LaunchAt(q)' = LaunchAt(q)
        /\ \A q \in LaunchRuns : LaunchWasKilled(q)' => launchPc'[q] = "over"
    BY <1>1, <2>1, LaunchPlaces
  <2>3. LaunchShapes'
    BY <1>1, <2>1 DEF LaunchInv, LaunchShapes
  <2>4. LaunchLocks'
    BY <2>1, <2>2 DEF LaunchInv, LaunchLocks, LaunchHolding
  <2>5. LaunchOwned'
    <3>1. \A c \in launchChildren : c.by # s
      BY <2>2, <2>a DEF LaunchInv, LaunchOwned
    <3>2. QED
      BY <1>1, <1>2, <2>1, <2>a, <3>1 DEF LaunchInv, LaunchOwned
  <2>6. LaunchWord'
    BY <1>1, <2>1, <2>2, <2>a DEF LaunchInv, LaunchWord, LaunchShapes
  <2>7. QED
    BY <1>1, <2>1, <2>2, <2>3, <2>4, <2>5, <2>6, <2>a DEF LaunchInv, LaunchShapes
<1>7. QED
  BY <1>3, <1>4, <1>5, <1>6

LEMMA LaunchSignalStep ==
  ASSUME LaunchInv, NEW s \in LaunchRuns, LaunchSignal(s) PROVE LaunchInv'
<1>1. /\ UNCHANGED <<launchPc, launchLock, launchFile, launchChildren, launchScript, launchKilled,
                     launchUnsaid>>
      /\ launchStopped' \in [LaunchRuns -> BOOLEAN]
      /\ \A q \in LaunchRuns : launchStopped[q] => launchStopped'[q]
  BY DEF LaunchInv, LaunchShapes, LaunchSignal, launchHistory
<1>2. QED
  BY <1>1 DEF LaunchInv, LaunchShapes, LaunchLocks, LaunchOwned, LaunchWord, LaunchWasKilled, LaunchAt

LEMMA LaunchKillStep ==
  ASSUME LaunchInv, NEW s \in LaunchRuns, LaunchKill(s) PROVE LaunchInv'
<1>1. /\ launchPc[s] \in LaunchPcs \ {"over"}
      /\ launchPc'[s] = "over" /\ \A q \in LaunchRuns \ {s} : launchPc'[q] = launchPc[q]
      /\ launchPc' \in [LaunchRuns -> LaunchPcs]
      /\ launchKilled'[s] = launchPc[s] /\ \A q \in LaunchRuns \ {s} : launchKilled'[q] = launchKilled[q]
      /\ launchKilled' \in [LaunchRuns -> LaunchPcs \cup {"no"}]
      /\ launchLock' = IF launchLock = s THEN LaunchNobody ELSE launchLock
      /\ launchScript' \in [LaunchRuns -> {"none", "wait", "write"}]
      /\ UNCHANGED <<launchStopped, launchFile, launchChildren, launchUnsaid>>
  BY DEF LaunchInv, LaunchShapes, LaunchKill, LaunchPcs
<1>2. /\ ~LaunchWasKilled(s) /\ LaunchWasKilled(s)' /\ LaunchAt(s)' = LaunchAt(s)
      /\ \A q \in LaunchRuns \ {s} : /\ LaunchWasKilled(q)' <=> LaunchWasKilled(q)
                                     /\ LaunchAt(q)' = LaunchAt(q)
  BY <1>1 DEF LaunchInv, LaunchWasKilled, LaunchAt, LaunchPcs
<1>3. LaunchShapes'
  BY <1>1 DEF LaunchInv, LaunchShapes
<1>4. LaunchLocks'
  BY <1>1, LaunchAssumption DEF LaunchInv, LaunchLocks, LaunchHolding, LaunchShapes
<1>5. LaunchOwned'
  <2>1. \A c \in launchChildren : c.by \in LaunchRuns
    BY DEF LaunchInv, LaunchShapes
  <2>2. QED
    BY <1>1, <1>2, <2>1 DEF LaunchInv, LaunchOwned
<1>6. LaunchWord'
  BY <1>1, <1>2 DEF LaunchInv, LaunchWord, LaunchShapes
<1>7. QED
  BY <1>1, <1>2, <1>3, <1>4, <1>5, <1>6 DEF LaunchInv, LaunchShapes

LEMMA LaunchScriptedStep ==
  ASSUME LaunchInv, NEW s \in LaunchRuns, LaunchScripted(s) PROVE LaunchInv'
<1>1. /\ UNCHANGED <<launchPc, launchStopped, launchLock, launchChildren, launchKilled, launchUnsaid>>
      /\ launchScript' \in [LaunchRuns -> {"none", "wait", "write"}]
      /\ launchFile' = launchFile \/ launchFile'.status = "stopped"
  BY DEF LaunchInv, LaunchShapes, LaunchScripted, LaunchState, launchHistory
<1>2. LaunchWord'
  BY <1>1 DEF LaunchInv, LaunchWord, LaunchWasKilled
<1>3. QED
  BY <1>1, <1>2 DEF LaunchInv, LaunchShapes, LaunchLocks, LaunchOwned, LaunchWasKilled, LaunchAt

LEMMA LaunchChildrenStep ==
  ASSUME LaunchInv, LaunchBind \/ LaunchDies PROVE LaunchInv'
<1>1. UNCHANGED <<launchPc, launchStopped, launchLock, launchFile, launchScript, launchKilled,
                  launchUnsaid>>
  BY DEF LaunchBind, LaunchDies, launchHistory
<1>2. ASSUME NEW d \in launchChildren'
      PROVE  /\ d \in [by : LaunchRuns, port : LaunchPorts, job : BOOLEAN, listens : BOOLEAN]
             /\ \E c \in launchChildren : d.by = c.by /\ d.port = c.port /\ d.job = c.job
  <2>1. CASE d \in launchChildren
    BY <2>1 DEF LaunchInv, LaunchShapes
  <2>2. CASE d \notin launchChildren
    <3>1. PICK c \in launchChildren : d = [c EXCEPT !.listens = TRUE]
      BY <2>2 DEF LaunchBind, LaunchDies
    <3>2. c \in [by : LaunchRuns, port : LaunchPorts, job : BOOLEAN, listens : BOOLEAN]
      BY DEF LaunchInv, LaunchShapes
    <3>3. QED
      BY <3>1, <3>2
  <2>3. QED
    BY <2>1, <2>2
<1>3. LaunchOwned'
  BY <1>1, <1>2 DEF LaunchInv, LaunchOwned, LaunchWasKilled, LaunchAt
<1>4. QED
  BY <1>1, <1>2, <1>3 DEF LaunchInv, LaunchShapes, LaunchLocks, LaunchWord, LaunchWasKilled

LEMMA LaunchInvHolds == LaunchSpec => []LaunchInv
<1>1. LaunchInit => LaunchInv
  BY LaunchAssumption DEF LaunchInit, LaunchInv, LaunchShapes, LaunchLocks, LaunchOwned, LaunchWord,
     LaunchHolding, LaunchPcs, LaunchWasKilled
<1>2. LaunchInv /\ UNCHANGED launchVars => LaunchInv'
  BY DEF LaunchInv, launchVars, launchHistory, LaunchShapes, LaunchLocks, LaunchOwned, LaunchWord,
     LaunchWasKilled, LaunchAt
<1>3. LaunchInv /\ [LaunchNext]_launchVars => LaunchInv'
  BY <1>2, LaunchAcquireStep, LaunchFileStep, LaunchWorkStep, LaunchEndStep, LaunchSignalStep,
     LaunchKillStep, LaunchScriptedStep, LaunchChildrenStep DEF LaunchNext, LaunchPorts
<1>4. QED
  BY <1>1, <1>3, PTL DEF LaunchSpec

\* Children live under the one supervisor that holds the lock, or under killed
\* ones, each of them in the kill job unless its supervisor was killed before it
\* put it there; and the state file is the holder's or says `stopped', `ready'
\* only of a supervisor that still may say another word, was killed or could not
\* say it (console_launcher.py:251-308).
THEOREM OneConsole == LaunchSpec => []LaunchOneConsole
<1>1. LaunchInv => LaunchOneConsole
  BY DEF LaunchInv, LaunchOwned, LaunchWord, LaunchOneConsole
<1>2. QED
  BY <1>1, LaunchInvHolds, PTL
-----------------------------------------------------------------------------
(* The lab.  What the audit says of a call follows its place.              *)
LabState == [pc : {"out", "verify", "sample", "allow", "reject", "verified",
                   "approve", "refuse", "over"},
             files : LabFiles, promote : BOOLEAN,
             answer : {"none", "allowed", "rejected", "raised"},
             why : {"none", "gate", "manifest", "actor", "record"}]

\* What is known of a call r whose gates wrote verify and approve.
LabCallHolds(r, verify, approve, valid) ==
  /\ r.pc # "over" => r.answer = "none"
  /\ r.pc \in {"out", "verify", "sample", "allow", "reject"} => verify = {} /\ approve = {}
  /\ r.pc \in {"verified", "approve", "refuse"} => r.promote /\ verify = {"allowed"} /\ approve = {}
  /\ r.pc = "approve" => valid /\ r.files.proposed \subseteq r.files.reviewed
  /\ LabAccounted(r, verify, approve, valid)

LabInv ==
  /\ labCall \in [LabCalls -> LabState]
  /\ \A c \in LabCalls :
       /\ LabCallHolds(labCall[c], LabEvents(c, "verify_sample"),
                       LabEvents(c, "approve_promotion"), c \in labValid)
       /\ labCall[c].pc = "verified" /\ LabScoped(labTarget, labCall[c].files) => c \in labValid

\* An event is added to those of its call and gate.
LEMMA LabEventEffect ==
  ASSUME NEW c \in LabCalls, NEW action, NEW outcome, LabEvent(c, action, outcome)
  PROVE  \A d \in LabCalls : \A a :
           LabEvents(d, a)' = IF d = c /\ a = action THEN LabEvents(d, a) \cup {outcome}
                              ELSE LabEvents(d, a)
<1> DEFINE e == [call |-> c, action |-> action, outcome |-> outcome]
<1>1. labAudit' = labAudit \cup {e}
  BY DEF LabEvent
<1>2. e.call = c /\ e.action = action /\ e.outcome = outcome
  OBVIOUS
<1> HIDE DEF e
<1>3. ASSUME NEW d \in LabCalls, NEW a
      PROVE  LabEvents(d, a)' = IF d = c /\ a = action THEN LabEvents(d, a) \cup {outcome}
                                ELSE LabEvents(d, a)
  <2>1. \A o : o \in LabEvents(d, a) <=> \E x \in labAudit : x.call = d /\ x.action = a /\ o = x.outcome
    BY DEF LabEvents
  <2>2. \A o : o \in LabEvents(d, a)' <=> \E x \in labAudit' : x.call = d /\ x.action = a /\ o = x.outcome
    BY DEF LabEvents
  <2>3. \A o : o \in LabEvents(d, a)' <=> o \in LabEvents(d, a) \/ (d = c /\ a = action /\ o = outcome)
    BY <1>1, <1>2, <2>1, <2>2
  <2>4. QED
    BY <2>3
<1>4. QED
  BY <1>3

\* The step of one call, whose events it leaves known.
LEMMA LabOneCall ==
  ASSUME LabInv, NEW c \in LabCalls, NEW r \in LabState,
         labCall' = [labCall EXCEPT ![c] = r],
         labTarget' = labTarget,
         labValid \subseteq labValid', labValid' \subseteq labValid \cup {c},
         \A d \in LabCalls \ {c} : \A a : LabEvents(d, a)' = LabEvents(d, a),
         LabCallHolds(r, LabEvents(c, "verify_sample")', LabEvents(c, "approve_promotion")',
                      c \in labValid'),
         r.pc = "verified" /\ LabScoped(labTarget, r.files) => c \in labValid'
  PROVE  LabInv'
<1>1. labCall'[c] = r /\ \A d \in LabCalls \ {c} : labCall'[d] = labCall[d]
  BY DEF LabInv
<1>2. labCall' \in [LabCalls -> LabState]
  BY DEF LabInv
<1>3. ASSUME NEW d \in LabCalls \ {c}
      PROVE  /\ LabCallHolds(labCall'[d], LabEvents(d, "verify_sample")',
                             LabEvents(d, "approve_promotion")', d \in labValid')
             /\ labCall'[d].pc = "verified" /\ LabScoped(labTarget', labCall'[d].files)
                  => d \in labValid'
  <2>1. /\ labCall'[d] = labCall[d]
        /\ LabEvents(d, "verify_sample")' = LabEvents(d, "verify_sample")
        /\ LabEvents(d, "approve_promotion")' = LabEvents(d, "approve_promotion")
        /\ d \in labValid' <=> d \in labValid
    BY <1>1
  <2>2. QED
    BY <2>1 DEF LabInv
<1>4. QED
  BY <1>1, <1>2, <1>3 DEF LabInv

LEMMA LabEditStep == LabInv /\ LabEdit => LabInv'
<1> SUFFICES ASSUME LabInv, LabEdit PROVE LabInv'
  OBVIOUS
<1>1. /\ UNCHANGED <<labCall, labAudit>>
      /\ labValid' = labValid \cup {c \in LabCalls : labCall[c].pc = "verified"
                                                     /\ LabScoped(labTarget', labCall[c].files)}
  BY DEF LabEdit
<1>2. ASSUME NEW c \in LabCalls
      PROVE  LabCallHolds(labCall'[c], LabEvents(c, "verify_sample")',
                          LabEvents(c, "approve_promotion")', c \in labValid')
  BY <1>1 DEF LabInv, LabCallHolds, LabAccounted, LabEvents
<1>3. QED
  BY <1>1, <1>2 DEF LabInv

LEMMA LabSilentStep ==
  ASSUME LabInv, NEW c \in LabCalls,
         \/ LabBegin(c) \/ LabNoManifest(c) \/ LabReadTarget(c) \/ LabReadSample(c)
         \/ LabUnnamed(c) \/ LabUnreadable(c) \/ LabRead(c) \/ LabRaises(c)
  PROVE  LabInv'
<1> DEFINE r == labCall[c]
           m == labCall'[c]
<1>1. /\ UNCHANGED <<labTarget, labAudit, labValid>>
      /\ \A d \in LabCalls : \A a : LabEvents(d, a)' = LabEvents(d, a)
  BY DEF LabBegin, LabNoManifest, LabReadTarget, LabReadSample, LabUnnamed, LabUnreadable, LabRead,
         LabRaises, LabEvents
<1>2. /\ r \in LabState
      /\ LabCallHolds(r, LabEvents(c, "verify_sample"), LabEvents(c, "approve_promotion"), c \in labValid)
      /\ r.pc = "verified" /\ LabScoped(labTarget, r.files) => c \in labValid
  BY DEF LabInv
<1>3. /\ labCall' = [labCall EXCEPT ![c] = m]
      /\ m \in LabState
      /\ m.pc # "verified"
      /\ LabCallHolds(m, LabEvents(c, "verify_sample"), LabEvents(c, "approve_promotion"), c \in labValid)
  <2>1. CASE LabBegin(c)
    <3>1. PICK files \in LabFiles, promote \in BOOLEAN :
            labCall' = [labCall EXCEPT ![c] = LabCalled(files, promote)]
      BY <2>1 DEF LabBegin
    <3> DEFINE n == LabCalled(files, promote)
    <3>2. n \in LabState /\ n.pc = "verify" /\ n.answer = "none"
      BY DEF LabState, LabCalled
    <3> HIDE DEF n
    <3>3. m = n /\ labCall' = [labCall EXCEPT ![c] = n] /\ r.pc = "out"
      BY <2>1, <3>1 DEF LabInv, n, LabBegin
    <3>4. QED
      BY <1>2, <3>2, <3>3 DEF LabCallHolds, LabAccounted
  \* On to the next place.
  <2>2. ASSUME NEW pc \in {"sample", "allow", "reject", "approve", "refuse"},
               labCall' = [labCall EXCEPT ![c].pc = pc],
               \/ r.pc \in {"verify", "sample"} /\ pc \in {"sample", "allow", "reject"}
               \/ r.pc = "verified" /\ pc \in {"approve", "refuse"},
               pc = "approve" => c \in labValid /\ r.files.proposed \subseteq r.files.reviewed
        PROVE  /\ labCall' = [labCall EXCEPT ![c] = m]
               /\ m \in LabState
               /\ m.pc # "verified"
               /\ LabCallHolds(m, LabEvents(c, "verify_sample"), LabEvents(c, "approve_promotion"),
                               c \in labValid)
    <3> DEFINE n == [r EXCEPT !.pc = pc]
    <3>1. n \in LabState /\ n.pc = pc /\ n.answer = r.answer /\ n.files = r.files /\ n.promote = r.promote
      BY <1>2 DEF LabState
    <3>2. m = n /\ labCall' = [labCall EXCEPT ![c] = n]
      BY <2>2 DEF LabInv
    <3> HIDE DEF n
    <3>3. r.answer = "none"
      BY <1>2, <2>2 DEF LabCallHolds
    <3>4. QED
      BY <1>2, <2>2, <3>1, <3>2, <3>3 DEF LabCallHolds, LabAccounted
  \* The answer.
  <2>3. ASSUME NEW answer \in {"rejected", "raised"}, NEW why \in {"none", "manifest", "actor", "record"},
               LabAnswer(c, answer, why),
               \/ answer = "raised"
               \/ r.pc \in {"out", "allow", "reject"} /\ why \in {"manifest", "actor"}
               \/ r.pc = "verified" /\ why = "record"
        PROVE  /\ labCall' = [labCall EXCEPT ![c] = m]
               /\ m \in LabState
               /\ m.pc # "verified"
               /\ LabCallHolds(m, LabEvents(c, "verify_sample"), LabEvents(c, "approve_promotion"),
                               c \in labValid)
    <3> DEFINE n == [r EXCEPT !.pc = "over", !.answer = answer, !.why = why]
    <3>1. /\ n \in LabState /\ n.pc = "over" /\ n.answer = answer /\ n.why = why
          /\ n.files = r.files /\ n.promote = r.promote
      BY <1>2 DEF LabState
    <3>2. m = n /\ labCall' = [labCall EXCEPT ![c] = n]
      BY <2>3 DEF LabInv, LabAnswer
    <3> HIDE DEF n
    <3>3. QED
      BY <1>2, <2>3, <3>1, <3>2 DEF LabCallHolds, LabAccounted
  <2>4. CASE LabReadTarget(c)
    <3> DEFINE pc == IF LabVerifies(labTarget, r.files, "registered") THEN "sample" ELSE "reject"
    <3>1. r.pc = "verify" /\ labCall' = [labCall EXCEPT ![c].pc = pc]
      BY <2>4 DEF LabReadTarget
    <3>2. pc \in {"sample", "reject"}
      OBVIOUS
    <3> HIDE DEF pc
    <3>3. QED
      BY <2>2, <3>1, <3>2
  <2>5. CASE LabReadSample(c)
    <3> DEFINE pc == IF labSample = "registered" THEN "allow" ELSE "reject"
    <3>1. r.pc = "sample" /\ labCall' = [labCall EXCEPT ![c].pc = pc]
      BY <2>5 DEF LabReadSample, LabGo
    <3>2. pc \in {"allow", "reject"}
      OBVIOUS
    <3> HIDE DEF pc
    <3>3. QED
      BY <2>2, <3>1, <3>2
  <2>6. CASE LabRead(c)
    <3> DEFINE pc == IF LabDecides(labTarget, r.files) THEN "approve" ELSE "refuse"
    <3>1. r.pc = "verified" /\ labCall' = [labCall EXCEPT ![c].pc = pc]
      BY <2>6 DEF LabRead, LabGo
    <3>2. /\ pc \in {"approve", "refuse"}
          /\ pc = "approve" => LabScoped(labTarget, r.files) /\ r.files.proposed \subseteq r.files.reviewed
      BY DEF LabDecides
    <3> HIDE DEF pc
    <3>3. QED
      BY <1>2, <2>2, <3>1, <3>2
  <2>7. CASE LabNoManifest(c) \/ LabUnnamed(c) \/ LabUnreadable(c) \/ LabRaises(c)
    BY <2>3, <2>7 DEF LabNoManifest, LabUnnamed, LabUnreadable, LabRaises
  <2>8. QED
    BY <2>1, <2>4, <2>5, <2>6, <2>7
<1> HIDE DEF r, m
<1>4. labValid \subseteq labValid' /\ labValid' \subseteq labValid \cup {c}
  BY <1>1
<1>5. LabCallHolds(m, LabEvents(c, "verify_sample")', LabEvents(c, "approve_promotion")',
                   c \in labValid')
  BY <1>1, <1>3
<1>6. QED
  BY <1>1, <1>3, <1>4, <1>5, LabOneCall

LEMMA LabVerifiedStep ==
  ASSUME LabInv, NEW c \in LabCalls, LabVerified(c) PROVE LabInv'
<1> DEFINE r == labCall[c]
           outcome == IF r.pc = "allow" THEN "allowed" ELSE "rejected"
           goes == r.pc = "allow" /\ r.promote
           n == IF goes THEN [r EXCEPT !.pc = "verified"]
                ELSE [r EXCEPT !.pc = "over", !.answer = outcome, !.why = "gate"]
<1>1. /\ r \in LabState /\ r.pc \in {"allow", "reject"} /\ r.answer = "none"
      /\ LabEvents(c, "verify_sample") = {} /\ LabEvents(c, "approve_promotion") = {}
  BY DEF LabInv, LabCallHolds, LabVerified
<1>2. /\ LabEvent(c, "verify_sample", outcome)
      /\ labCall' = [labCall EXCEPT ![c] = n]
      /\ labTarget' = labTarget
      /\ labValid' = IF goes /\ LabScoped(labTarget, r.files) THEN labValid \cup {c} ELSE labValid
  BY DEF LabVerified, LabGo, LabAnswer
<1>3. /\ outcome \in {"allowed", "rejected"}
      /\ n \in LabState /\ n.files = r.files /\ n.promote = r.promote
      /\ goes => n.pc = "verified" /\ n.answer = "none" /\ outcome = "allowed" /\ r.promote
      /\ ~goes => /\ n.pc = "over" /\ n.answer = outcome /\ n.why = "gate"
                  /\ ~(r.promote /\ outcome = "allowed")
  BY <1>1 DEF LabState
<1> HIDE DEF n, outcome, goes
<1>4. /\ LabEvents(c, "verify_sample")' = {outcome}
      /\ LabEvents(c, "approve_promotion")' = {}
      /\ \A d \in LabCalls \ {c} : \A a : LabEvents(d, a)' = LabEvents(d, a)
  <2>1. "verify_sample" # "approve_promotion"
    OBVIOUS
  <2>2. QED
    BY <1>1, <1>2, <2>1, LabEventEffect
<1>5. LabCallHolds(n, LabEvents(c, "verify_sample")', LabEvents(c, "approve_promotion")',
                   c \in labValid')
  BY <1>3, <1>4 DEF LabCallHolds, LabAccounted
<1>6. n.pc = "verified" /\ LabScoped(labTarget, n.files) => c \in labValid'
  BY <1>2, <1>3
<1>7. labValid \subseteq labValid' /\ labValid' \subseteq labValid \cup {c}
  BY <1>2
<1>8. QED
  BY <1>2, <1>3, <1>4, <1>5, <1>6, <1>7, LabOneCall

LEMMA LabApprovedStep ==
  ASSUME LabInv, NEW c \in LabCalls, LabApproved(c) PROVE LabInv'
<1> DEFINE r == labCall[c]
           outcome == IF r.pc = "approve" THEN "allowed" ELSE "rejected"
           n == [r EXCEPT !.pc = "over", !.answer = outcome, !.why = "gate"]
<1>1. /\ r \in LabState /\ r.pc \in {"approve", "refuse"} /\ r.promote
      /\ LabEvents(c, "verify_sample") = {"allowed"} /\ LabEvents(c, "approve_promotion") = {}
      /\ r.pc = "approve" => c \in labValid /\ r.files.proposed \subseteq r.files.reviewed
  BY DEF LabInv, LabCallHolds, LabApproved
<1>2. /\ LabEvent(c, "approve_promotion", outcome)
      /\ labCall' = [labCall EXCEPT ![c] = n]
      /\ labTarget' = labTarget /\ labValid' = labValid
  BY DEF LabApproved, LabAnswer
<1>3. /\ outcome \in {"allowed", "rejected"}
      /\ n \in LabState /\ n.files = r.files /\ n.promote = r.promote
      /\ n.pc = "over" /\ n.answer = outcome /\ n.why = "gate"
      /\ outcome = "allowed" => r.pc = "approve"
  BY <1>1 DEF LabState
<1> HIDE DEF n, outcome
<1>4. /\ LabEvents(c, "verify_sample")' = {"allowed"}
      /\ LabEvents(c, "approve_promotion")' = {outcome}
      /\ \A d \in LabCalls \ {c} : \A a : LabEvents(d, a)' = LabEvents(d, a)
  <2>1. "verify_sample" # "approve_promotion"
    OBVIOUS
  <2>2. QED
    BY <1>1, <1>2, <2>1, LabEventEffect
<1>5. LabCallHolds(n, LabEvents(c, "verify_sample")', LabEvents(c, "approve_promotion")',
                   c \in labValid')
  BY <1>1, <1>2, <1>3, <1>4 DEF LabCallHolds, LabAccounted
<1>6. QED
  BY <1>2, <1>3, <1>4, <1>5, LabOneCall

LEMMA LabInvHolds == LabSpec => []LabInv
<1>1. LabInit => LabInv
  <2>1. LabNoFiles \in LabFiles
    BY DEF LabNoFiles, LabFiles
  <2>2. ASSUME LabInit, NEW c \in LabCalls
        PROVE  labCall[c].pc = "out" /\ labCall[c].answer = "none" /\ labCall[c] \in LabState
    BY <2>1, <2>2 DEF LabInit, LabState, LabCalled
  <2>3. ASSUME LabInit, NEW c \in LabCalls
        PROVE  LabEvents(c, "verify_sample") = {} /\ LabEvents(c, "approve_promotion") = {}
    BY <2>3 DEF LabInit, LabEvents
  <2>4. LabInit => labCall \in [LabCalls -> LabState]
    BY <2>2 DEF LabInit
  <2>5. QED
    BY <2>2, <2>3, <2>4 DEF LabInv, LabCallHolds, LabAccounted
<1>2. LabInv /\ UNCHANGED labVars => LabInv'
  <2>1. UNCHANGED labVars => \A c \in LabCalls : \A a : LabEvents(c, a)' = LabEvents(c, a)
    BY DEF labVars, LabEvents
  <2>2. QED
    BY <2>1 DEF LabInv, labVars
<1>3. LabInv /\ [LabNext]_labVars => LabInv'
  BY <1>2, LabEditStep, LabSilentStep, LabVerifiedStep, LabApprovedStep DEF LabNext
<1>4. QED
  BY <1>1, <1>3, PTL DEF LabSpec

\* Every decision of a gate has its event, a call refused without one has no
\* allowed event of that gate either, and an approval rests on an authorization
\* that was valid after the sample had been verified (reverse_lab/gate.py:96-198).
THEOREM LabAccountable == LabSpec => []LabDecisionsHold
<1>1. LabInv => LabDecisionsHold
  BY DEF LabInv, LabCallHolds, LabDecisionsHold
<1>2. QED
  BY <1>1, LabInvHolds, PTL
-----------------------------------------------------------------------------
(* Copies of the database.  A path is written by one command from its      *)
(* reservation to its pages, then only by people; so a digest that is the  *)
(* same before and after a look is the digest of what was looked at.       *)
CopyCallType ==
  [pc : {"idle", "reserve", "copy", "hash", "look", "rehash"}, kind : {"backup", "restore"},
   from : SUBSET CopyPaths, to : SUBSET CopyPaths, at : SUBSET CopyPaths,
   revision : 1..CopyHead, digest : CopyFileType, file : CopyFileType,
   content : 0..(CopyCommits + 1), before : CopyFileType, since : 0..CopyCommits]

CopyLooking == {"look", "rehash"}
CopyVerifying == CopyLooking \cup {"hash"}

\* What a call works on.
CopyPlaced(r) ==
  /\ r.pc # "idle" => \E p \in CopyPaths : r.to = {p}
  /\ r.kind = "restore" => (\E p \in CopyPaths : r.from = {p}) /\ r.from # r.to
  /\ r.kind = "backup" => r.from = {}
  /\ r.pc \in CopyVerifying => r.at = r.to \/ (r.kind = "restore" /\ r.at = r.from)

\* What a call has read, against the files as they are.
CopyReadTrue(r, files) ==
  LET held == files[CopyAt(r.at)]
      last == r.file.state = "whole" /\ r.file.content = CopyCommits + 1 IN
  /\ r.pc \in CopyLooking /\ last => held = r.file
  /\ r.pc = "rehash" =>
       /\ held.state = "whole" /\ held.version = r.revision
       /\ held.content \in {r.content, CopyCommits + 1}
       /\ last => r.content = CopyCommits + 1

\* A backup is of its time, a restore is of its digest.
CopyDerived(r, files, edited, live) ==
  /\ r.since <= live
  /\ r.kind = "backup" /\ r.pc \in CopyVerifying =>
       /\ files[CopyAt(r.to)].state = "whole"
       /\ CopyAt(r.to) \notin edited => files[CopyAt(r.to)].content \in r.since..live
  /\ r.kind = "restore" =>
       /\ r.pc \in CopyLooking /\ r.at = r.from => r.file = r.digest
       /\ r.pc \in {"reserve", "copy"} => r.before = r.digest
       /\ r.pc \in CopyVerifying /\ r.at = r.to => r.before = r.digest

CopyShapes ==
  /\ copyLive \in 0..CopyCommits
  /\ copyRows \subseteq 1..CopyHead
  /\ copyFile \in [CopyPaths -> CopyFileType]
  /\ copyCall \in [CopyCalls -> CopyCallType]
  /\ \A e \in copyEvidence : e.path \in CopyPaths /\ e.file \in CopyFileType

CopyWriting(r, p) == r.pc = "copy" /\ r.to = {p}

CopyInv ==
  /\ CopyShapes
  /\ \A c \in CopyCalls : /\ CopyPlaced(copyCall[c])
                          /\ CopyReadTrue(copyCall[c], copyFile)
                          /\ CopyDerived(copyCall[c], copyFile, copyEdited, copyLive)
  /\ \A c \in CopyCalls, p \in CopyPaths : CopyWriting(copyCall[c], p) => copyFile[p] = CopyEmpty
  /\ \A c, d \in CopyCalls, p \in CopyPaths :
       CopyWriting(copyCall[c], p) /\ CopyWriting(copyCall[d], p) => c = d
  /\ \A e \in copyEvidence : CopyEvidenceTrue(e)

\* What can become of files that are whole: people write to them.
CopyAges(old, new, edited, editedNew) ==
  /\ edited \subseteq editedNew
  /\ \A p \in CopyPaths :
       \/ new[p] = old[p]
       \/ old[p].state # "whole"
       \/ /\ old[p].state = "whole" /\ p \in editedNew
          /\ new[p] = [state |-> "whole", content |-> CopyCommits + 1, version |-> old[p].version]

LEMMA CopyPlace == \A p : CopyAt({p}) = p
BY DEF CopyAt

LEMMA CopyConstants == CopyAbsent \in CopyFileType /\ CopyEmpty \in CopyFileType
                       /\ CopyEmpty.state = "partial" /\ CopyEmpty # CopyAbsent
BY CopyAssumption DEF CopyAbsent, CopyEmpty, CopyFileType

LEMMA CopyVersionTyped == ASSUME copyRows \subseteq 1..CopyHead PROVE CopyVersion \in 0..CopyHead
BY CopyAssumption DEF CopyVersion

LEMMA CopyIdleCall ==
  /\ CopyIdle \in CopyCallType /\ CopyIdle.pc = "idle" /\ CopyPlaced(CopyIdle)
  /\ \A files : CopyReadTrue(CopyIdle, files)
  /\ \A files, edited : \A live \in Nat : CopyDerived(CopyIdle, files, edited, live)
<1>1. CopyIdle \in CopyCallType
  BY CopyConstants, CopyAssumption DEF CopyIdle, CopyCallType
<1>2. CopyIdle.pc = "idle" /\ CopyIdle.kind = "backup" /\ CopyIdle.from = {} /\ CopyIdle.since = 0
  BY DEF CopyIdle
<1>3. QED
  BY <1>1, <1>2 DEF CopyPlaced, CopyReadTrue, CopyDerived, CopyLooking, CopyVerifying

LEMMA CopySameFile ==
  ASSUME NEW f \in CopyFileType, NEW g \in CopyFileType,
         f.state = g.state, f.content = g.content, f.version = g.version
  PROVE  f = g
BY DEF CopyFileType

\* What is known of a call and of evidence outlives commits and people.
LEMMA CopyCallAges ==
  ASSUME NEW old \in [CopyPaths -> CopyFileType], NEW new \in [CopyPaths -> CopyFileType],
         NEW edited, NEW editedNew, NEW live \in Nat, NEW liveNew \in Nat, live <= liveNew,
         CopyAges(old, new, edited, editedNew),
         NEW r \in CopyCallType, CopyPlaced(r), CopyReadTrue(r, old), CopyDerived(r, old, edited, live)
  PROVE  CopyReadTrue(r, new) /\ CopyDerived(r, new, editedNew, liveNew)
<1>1. CopyReadTrue(r, new)
  <2>1. CASE r.pc \in CopyLooking
    <3>1. PICK p \in CopyPaths : r.at = {p}
      BY <2>1 DEF CopyPlaced, CopyLooking, CopyVerifying
    <3> DEFINE o == old[p]
               n == new[p]
    <3>2. CopyAt(r.at) = p /\ o \in CopyFileType /\ n \in CopyFileType /\ r.file \in CopyFileType
      BY <3>1, CopyPlace DEF CopyCallType
    <3>3. \/ n = o
          \/ o.state # "whole"
          \/ n.state = "whole" /\ n.content = CopyCommits + 1 /\ n.version = o.version
      BY DEF CopyAges
    <3>4. /\ r.file.state = "whole" /\ r.file.content = CopyCommits + 1 => o = r.file
          /\ r.pc = "rehash" => /\ o.state = "whole" /\ o.version = r.revision
                                /\ o.content \in {r.content, CopyCommits + 1}
                                /\ (r.file.state = "whole" /\ r.file.content = CopyCommits + 1)
                                     => r.content = CopyCommits + 1
      BY <2>1, <3>2 DEF CopyReadTrue
    <3> HIDE DEF o, n
    <3>5. r.file.state = "whole" /\ r.file.content = CopyCommits + 1 => n = r.file
      BY <3>2, <3>3, <3>4, CopySameFile
    <3>6. r.pc = "rehash" => /\ n.state = "whole" /\ n.version = r.revision
                             /\ n.content \in {r.content, CopyCommits + 1}
      BY <3>3, <3>4
    <3>7. QED
      BY <3>2, <3>4, <3>5, <3>6 DEF CopyReadTrue, n
  <2>2. CASE r.pc \notin CopyLooking
    BY <2>2 DEF CopyReadTrue, CopyLooking
  <2>3. QED
    BY <2>1, <2>2
<1>2. CopyDerived(r, new, editedNew, liveNew)
  <2>1. r.since \in Nat /\ r.since <= liveNew
    <3>1. r.since \in Nat /\ r.since <= live
      BY CopyAssumption DEF CopyCallType, CopyDerived
    <3>2. QED
      BY <3>1
  <2>2. ASSUME r.kind = "backup", r.pc \in CopyVerifying
        PROVE  /\ new[CopyAt(r.to)].state = "whole"
               /\ CopyAt(r.to) \notin editedNew => new[CopyAt(r.to)].content \in r.since..liveNew
    <3>1. PICK p \in CopyPaths : r.to = {p}
      BY <2>2 DEF CopyPlaced, CopyLooking, CopyVerifying
    <3>2. CopyAt(r.to) = p
      BY <3>1, CopyPlace
    <3>3. old[p].state = "whole" /\ (p \notin edited => old[p].content \in r.since..live)
      BY <2>2, <3>2 DEF CopyDerived
    <3>4. new[p] = old[p] \/ (p \in editedNew /\ new[p].state = "whole")
      BY <3>3 DEF CopyAges
    <3>5. edited \subseteq editedNew
      BY DEF CopyAges
    <3>6. QED
      BY <2>1, <3>2, <3>3, <3>4, <3>5
  <2>3. QED
    BY <2>1, <2>2 DEF CopyDerived
<1>3. QED
  BY <1>1, <1>2

LEMMA CopyEvidenceAges ==
  ASSUME CopyShapes, copyFile' \in [CopyPaths -> CopyFileType], copyLive' \in Nat,
         copyLive <= copyLive', CopyAges(copyFile, copyFile', copyEdited, copyEdited'),
         NEW e \in copyEvidence, CopyEvidenceTrue(e)
  PROVE  CopyEvidenceTrue(e)'
<1>1. e.path \in CopyPaths /\ e.file \in CopyFileType /\ e.file.state = "whole"
  <2>1. e.path \in CopyPaths /\ e.file \in CopyFileType
    BY DEF CopyShapes
  <2>2. e.file = [state |-> "whole", content |-> e.content, version |-> e.revision]
    BY DEF CopyEvidenceTrue
  <2>3. e.file.state = "whole"
    BY <2>2
  <2>4. QED
    BY <2>1, <2>3
<1>2. e.path \notin copyEdited' => e.path \notin copyEdited /\ copyFile'[e.path] = copyFile[e.path]
  BY <1>1 DEF CopyAges, CopyEvidenceTrue
<1>3. e.content \in e.since..copyLive => e.content \in e.since..copyLive'
  BY CopyAssumption DEF CopyShapes
<1>4. QED
  BY <1>2, <1>3 DEF CopyEvidenceTrue

\* A step that touches no call.
LEMMA CopyNoCall ==
  ASSUME CopyInv, UNCHANGED <<copyCall, copyEvidence>>,
         copyLive' \in 0..CopyCommits, copyLive <= copyLive',
         copyRows' \subseteq 1..CopyHead,
         copyFile' \in [CopyPaths -> CopyFileType],
         CopyAges(copyFile, copyFile', copyEdited, copyEdited'),
         \A p \in CopyPaths : copyFile[p].state = "whole" \/ copyFile'[p] = copyFile[p]
  PROVE  CopyInv'
<1>1. /\ CopyShapes /\ CopyShapes'
      /\ copyLive \in Nat /\ copyLive' \in Nat
  BY CopyAssumption DEF CopyInv, CopyShapes
<1>2. ASSUME NEW c \in CopyCalls
      PROVE  /\ CopyPlaced(copyCall'[c]) /\ CopyReadTrue(copyCall'[c], copyFile')
             /\ CopyDerived(copyCall'[c], copyFile', copyEdited', copyLive')
  <2>1. /\ copyCall'[c] = copyCall[c] /\ copyCall[c] \in CopyCallType
        /\ copyFile \in [CopyPaths -> CopyFileType]
    BY <1>1 DEF CopyShapes
  <2>2. /\ CopyPlaced(copyCall[c]) /\ CopyReadTrue(copyCall[c], copyFile)
        /\ CopyDerived(copyCall[c], copyFile, copyEdited, copyLive)
    BY DEF CopyInv
  <2>3. CopyReadTrue(copyCall[c], copyFile') /\ CopyDerived(copyCall[c], copyFile', copyEdited', copyLive')
    BY <1>1, <2>1, <2>2, CopyCallAges
  <2>4. QED
    BY <2>1, <2>2, <2>3
<1>3. ASSUME NEW c \in CopyCalls, NEW p \in CopyPaths, CopyWriting(copyCall'[c], p)
      PROVE  copyFile'[p] = CopyEmpty
  BY <1>3, CopyConstants DEF CopyInv
<1>4. \A e \in copyEvidence' : CopyEvidenceTrue(e)'
  BY <1>1, CopyEvidenceAges DEF CopyInv
<1>5. QED
  BY <1>1, <1>2, <1>3, <1>4 DEF CopyInv

\* A step of one call, which may write to the path it has reserved.
LEMMA CopyOneCall ==
  ASSUME CopyInv, NEW c \in CopyCalls, NEW r \in CopyCallType,
         copyCall' = [copyCall EXCEPT ![c] = r],
         UNCHANGED <<copyLive, copyRows, copyEdited>>,
         copyFile' \in [CopyPaths -> CopyFileType],
         \A p \in CopyPaths : copyFile[p].state = "whole" => copyFile'[p] = copyFile[p],
         \A d \in CopyCalls \ {c} : \A p \in CopyPaths :
           CopyWriting(copyCall[d], p) => copyFile'[p] = copyFile[p] /\ ~CopyWriting(r, p),
         \A p \in CopyPaths : CopyWriting(r, p) => copyFile'[p] = CopyEmpty,
         CopyPlaced(r), CopyReadTrue(r, copyFile'), CopyDerived(r, copyFile', copyEdited, copyLive),
         \A e \in copyEvidence' \ copyEvidence :
           e.path \in CopyPaths /\ e.file \in CopyFileType /\ CopyEvidenceTrue(e)',
         copyEvidence \subseteq copyEvidence'
  PROVE  CopyInv'
<1>1. /\ copyCall'[c] = r /\ \A d \in CopyCalls \ {c} : copyCall'[d] = copyCall[d]
      /\ copyCall' \in [CopyCalls -> CopyCallType]
  BY DEF CopyInv, CopyShapes
<1>2. /\ CopyShapes /\ copyLive \in Nat
      /\ copyFile \in [CopyPaths -> CopyFileType]
      /\ CopyAges(copyFile, copyFile', copyEdited, copyEdited')
  BY CopyAssumption DEF CopyInv, CopyShapes, CopyAges
<1>3. CopyShapes'
  BY <1>1, <1>2 DEF CopyShapes
<1>4. ASSUME NEW d \in CopyCalls
      PROVE  /\ CopyPlaced(copyCall'[d]) /\ CopyReadTrue(copyCall'[d], copyFile')
             /\ CopyDerived(copyCall'[d], copyFile', copyEdited', copyLive')
  <2>1. CASE d = c
    BY <1>1, <2>1
  <2>2. CASE d # c
    <3>1. /\ CopyPlaced(copyCall[d]) /\ CopyReadTrue(copyCall[d], copyFile)
          /\ CopyDerived(copyCall[d], copyFile, copyEdited, copyLive)
          /\ copyCall[d] \in CopyCallType
      BY DEF CopyInv, CopyShapes
    <3>2. CopyReadTrue(copyCall[d], copyFile') /\ CopyDerived(copyCall[d], copyFile', copyEdited', copyLive')
      <4>1. copyLive' = copyLive /\ copyLive <= copyLive
        BY <1>2
      <4>2. QED
        BY <1>2, <3>1, <4>1, CopyCallAges
    <3>3. QED
      BY <1>1, <2>2, <3>1, <3>2
  <2>3. QED
    BY <2>1, <2>2
<1>5. \A d \in CopyCalls, p \in CopyPaths : CopyWriting(copyCall'[d], p) => copyFile'[p] = CopyEmpty
  BY <1>1 DEF CopyInv
<1>6. \A d1, d2 \in CopyCalls, p \in CopyPaths :
        CopyWriting(copyCall'[d1], p) /\ CopyWriting(copyCall'[d2], p) => d1 = d2
  BY <1>1 DEF CopyInv
<1>7. \A e \in copyEvidence' : CopyEvidenceTrue(e)'
  <2>1. ASSUME NEW e \in copyEvidence PROVE CopyEvidenceTrue(e)'
    <3>1. CopyEvidenceTrue(e) /\ copyLive' \in Nat /\ copyLive <= copyLive'
      BY <1>2 DEF CopyInv
    <3>2. QED
      BY <1>2, <3>1, CopyEvidenceAges
  <2>2. QED
    BY <2>1
<1>8. QED
  BY <1>3, <1>4, <1>5, <1>6, <1>7 DEF CopyInv

\* The same, where no file and no evidence is written.
LEMMA CopyQuietCall ==
  ASSUME CopyInv, NEW c \in CopyCalls, NEW r \in CopyCallType,
         copyCall' = [copyCall EXCEPT ![c] = r],
         UNCHANGED <<copyLive, copyRows, copyEdited, copyFile, copyEvidence>>,
         r.pc # "copy",
         CopyPlaced(r), CopyReadTrue(r, copyFile), CopyDerived(r, copyFile, copyEdited, copyLive)
  PROVE  CopyInv'
<1>1. copyFile' \in [CopyPaths -> CopyFileType] /\ CopyReadTrue(r, copyFile')
  BY DEF CopyInv, CopyShapes
<1>2. \A p \in CopyPaths : ~CopyWriting(r, p)
  BY DEF CopyWriting
<1>3. CopyDerived(r, copyFile', copyEdited, copyLive)
  BY Zenon
<1>4. QED
  BY <1>1, <1>2, <1>3, CopyOneCall

\* What a call is, as far as every step of it needs.
LEMMA CopyCallFacts ==
  ASSUME CopyInv, NEW c \in CopyCalls
  PROVE  /\ copyCall[c] \in CopyCallType /\ CopyPlaced(copyCall[c])
         /\ CopyReadTrue(copyCall[c], copyFile)
         /\ CopyDerived(copyCall[c], copyFile, copyEdited, copyLive)
         /\ copyLive \in 0..CopyCommits /\ copyLive \in Nat
         /\ copyFile \in [CopyPaths -> CopyFileType]
         /\ copyRows \subseteq 1..CopyHead
BY CopyAssumption DEF CopyInv, CopyShapes

LEMMA CopyCommitStep ==
  ASSUME CopyInv, CopyCommit PROVE CopyInv'
<1>1. /\ UNCHANGED <<copyRows, copyFile, copyCall, copyEvidence, copyEdited>>
      /\ copyLive < CopyCommits /\ copyLive' = copyLive + 1
  BY DEF CopyCommit, copySchema, copyCopies
<1>2. copyLive' \in 0..CopyCommits /\ copyLive <= copyLive'
  BY <1>1, CopyAssumption DEF CopyInv, CopyShapes
<1>3. /\ copyRows' \subseteq 1..CopyHead
      /\ copyFile' \in [CopyPaths -> CopyFileType]
      /\ CopyAges(copyFile, copyFile', copyEdited, copyEdited')
  BY <1>1 DEF CopyInv, CopyShapes, CopyAges
<1>4. QED
  BY <1>1, <1>2, <1>3, CopyNoCall

LEMMA CopyEditStep ==
  ASSUME CopyInv, NEW p \in CopyPaths, CopyEdit(p) PROVE CopyInv'
<1> DEFINE new == [state |-> "whole", content |-> CopyCommits + 1, version |-> copyFile[p].version]
<1>1. /\ UNCHANGED <<copyLive, copyRows, copyCall, copyEvidence>>
      /\ copyFile[p].state = "whole"
      /\ copyFile' = [copyFile EXCEPT ![p] = new]
      /\ copyEdited' = copyEdited \cup {p}
  BY DEF CopyEdit, copyDatabase, copySchema
<1>2. /\ copyFile \in [CopyPaths -> CopyFileType] /\ copyLive \in 0..CopyCommits /\ copyLive <= copyLive
      /\ copyRows \subseteq 1..CopyHead
  BY CopyAssumption DEF CopyInv, CopyShapes
<1>3. new \in CopyFileType
  BY <1>2, CopyAssumption DEF CopyFileType
<1>4. CopyAges(copyFile, copyFile', copyEdited, copyEdited')
  BY <1>1, <1>2 DEF CopyAges
<1> HIDE DEF new
<1>5. /\ copyFile' \in [CopyPaths -> CopyFileType]
      /\ \A q \in CopyPaths : copyFile[q].state = "whole" \/ copyFile'[q] = copyFile[q]
  BY <1>1, <1>2, <1>3
<1>6. QED
  BY <1>1, <1>2, <1>4, <1>5, CopyNoCall

LEMMA CopyBeginStep ==
  ASSUME CopyInv, NEW c \in CopyCalls, NEW from \in CopyPaths, NEW to \in CopyPaths,
         NEW revision \in {CopyHead} \cup copyRows,
         CopyBackup(c, to, revision) \/ CopyRestore(c, from, to, revision)
  PROVE  CopyInv'
<1>1. revision \in 1..CopyHead
  BY CopyAssumption DEF CopyInv, CopyShapes
<1>2. /\ copyLive \in 0..CopyCommits /\ copyLive <= copyLive /\ copyLive \in Nat
  BY CopyAssumption DEF CopyInv, CopyShapes
<1>3. CASE CopyBackup(c, to, revision)
  <2> DEFINE r == [CopyIdle EXCEPT !.pc = "reserve", !.to = {to}, !.revision = revision,
                                   !.since = copyLive]
  <2>1. /\ copyCall' = [copyCall EXCEPT ![c] = r]
        /\ UNCHANGED <<copyLive, copyRows, copyEdited, copyFile, copyEvidence>>
    BY <1>3 DEF CopyBackup, CopySet, copyDatabase, copySchema
  <2>2. /\ r \in CopyCallType /\ r.pc = "reserve" /\ r.to = {to} /\ r.kind = "backup"
        /\ r.from = {} /\ r.since = copyLive
    BY <1>1, <1>2, CopyIdleCall DEF CopyCallType, CopyIdle
  <2> HIDE DEF r
  <2>3. CopyPlaced(r) /\ CopyReadTrue(r, copyFile) /\ CopyDerived(r, copyFile, copyEdited, copyLive)
    BY <1>2, <2>2 DEF CopyPlaced, CopyReadTrue, CopyDerived, CopyLooking, CopyVerifying
  <2>4. r.pc # "copy"
    BY <2>2
  <2>5. QED
    BY <2>1, <2>2, <2>3, <2>4, CopyQuietCall
<1>4. CASE CopyRestore(c, from, to, revision)
  <2>1. PICK evidence \in copyEvidence :
          CopySet(c, [CopyIdle EXCEPT !.pc = "hash", !.kind = "restore", !.from = {from}, !.to = {to},
                        !.at = {from}, !.revision = revision, !.digest = evidence.file])
    BY <1>4 DEF CopyRestore
  <2> DEFINE r == [CopyIdle EXCEPT !.pc = "hash", !.kind = "restore", !.from = {from}, !.to = {to},
                     !.at = {from}, !.revision = revision, !.digest = evidence.file]
  <2>2. /\ copyCall' = [copyCall EXCEPT ![c] = r] /\ from # to
        /\ UNCHANGED <<copyLive, copyRows, copyEdited, copyFile, copyEvidence>>
    BY <1>4, <2>1 DEF CopyRestore, CopySet, copyDatabase, copySchema
  <2>3. evidence.file \in CopyFileType
    BY DEF CopyInv, CopyShapes
  <2>4. /\ r \in CopyCallType /\ r.pc = "hash" /\ r.to = {to} /\ r.kind = "restore"
        /\ r.from = {from} /\ r.at = {from} /\ r.since = 0
    BY <1>1, <2>3, CopyIdleCall DEF CopyCallType, CopyIdle
  <2> HIDE DEF r
  <2>5. CopyPlaced(r) /\ CopyReadTrue(r, copyFile) /\ CopyDerived(r, copyFile, copyEdited, copyLive)
    <3>1. r.from # r.to /\ r.at # r.to /\ r.since <= copyLive
      BY <1>2, <2>2, <2>4
    <3>2. QED
      BY <2>4, <3>1 DEF CopyPlaced, CopyReadTrue, CopyDerived, CopyLooking, CopyVerifying
  <2>6. r.pc # "copy"
    BY <2>4
  <2>7. QED
    BY <2>2, <2>4, <2>5, <2>6, CopyQuietCall
<1>5. QED
  BY <1>3, <1>4

\* The call ends with nothing written.
LEMMA CopyStops ==
  ASSUME CopyInv, NEW c \in CopyCalls, copyCall' = [copyCall EXCEPT ![c] = CopyIdle],
         UNCHANGED <<copyLive, copyRows, copyEdited, copyFile, copyEvidence>>
  PROVE  CopyInv'
<1>1. copyLive \in Nat
  BY CopyCallFacts
<1>2. /\ CopyIdle \in CopyCallType /\ CopyIdle.pc # "copy" /\ CopyPlaced(CopyIdle)
      /\ CopyReadTrue(CopyIdle, copyFile) /\ CopyDerived(CopyIdle, copyFile, copyEdited, copyLive)
  BY <1>1, CopyIdleCall
<1>3. QED
  BY <1>2, CopyQuietCall

LEMMA CopyReserveStep ==
  ASSUME CopyInv, NEW c \in CopyCalls, CopyReserve(c) PROVE CopyInv'
<1> DEFINE r == copyCall[c]
           n == [r EXCEPT !.pc = "copy"]
<1>1. /\ r \in CopyCallType /\ CopyPlaced(r) /\ CopyDerived(r, copyFile, copyEdited, copyLive)
      /\ copyFile \in [CopyPaths -> CopyFileType]
      /\ r.pc = "reserve"
  BY CopyCallFacts DEF CopyReserve
<1>2. PICK p \in CopyPaths : r.to = {p}
  BY <1>1 DEF CopyPlaced
<1>3. UNCHANGED <<copyLive, copyRows, copyEdited, copyEvidence>>
  BY DEF CopyReserve, copyDatabase, copySchema
<1>4. CASE copyFile[p] # CopyAbsent
  <2>1. copyCall' = [copyCall EXCEPT ![c] = CopyIdle] /\ copyFile' = copyFile
    BY <1>2, <1>4, CopyPlace DEF CopyReserve, CopyHeld, CopySet
  <2>2. QED
    BY <1>3, <2>1, CopyStops
<1>5. CASE copyFile[p] = CopyAbsent
  <2>1. copyCall' = [copyCall EXCEPT ![c] = n] /\ copyFile' = [copyFile EXCEPT ![p] = CopyEmpty]
    BY <1>2, <1>5, CopyPlace DEF CopyReserve, CopyHeld, CopySet
  <2>2. /\ n \in CopyCallType /\ n.pc = "copy" /\ n.kind = r.kind /\ n.from = r.from /\ n.to = r.to
        /\ n.before = r.before /\ n.digest = r.digest /\ n.since = r.since
    BY <1>1 DEF CopyCallType
  <2> HIDE DEF n, r
  <2>3. /\ copyFile'[p] = CopyEmpty /\ \A q \in CopyPaths \ {p} : copyFile'[q] = copyFile[q]
        /\ copyFile' \in [CopyPaths -> CopyFileType]
    BY <1>1, <2>1, CopyConstants
  <2>4. CopyPlaced(n) /\ CopyReadTrue(n, copyFile') /\ CopyDerived(n, copyFile', copyEdited, copyLive)
    BY <1>1, <1>2, <2>2 DEF CopyPlaced, CopyReadTrue, CopyDerived, CopyLooking, CopyVerifying
  <2>5. \A q \in CopyPaths : CopyWriting(n, q) => q = p
    BY <1>2, <2>2 DEF CopyWriting
  <2>6. \A d \in CopyCalls \ {c} : \A q \in CopyPaths :
          CopyWriting(copyCall[d], q) => copyFile'[q] = copyFile[q] /\ ~CopyWriting(n, q)
    BY <1>5, <2>3, <2>5, CopyConstants DEF CopyInv
  <2>7. \A q \in CopyPaths : copyFile[q].state = "whole" => copyFile'[q] = copyFile[q]
    BY <1>5, <2>3 DEF CopyAbsent
  <2>8. \A q \in CopyPaths : CopyWriting(n, q) => copyFile'[q] = CopyEmpty
    BY <2>3, <2>5
  <2>9. \A e \in copyEvidence' \ copyEvidence :
          e.path \in CopyPaths /\ e.file \in CopyFileType /\ CopyEvidenceTrue(e)'
    BY <1>3
  <2>10. QED
    BY <1>3, <2>1, <2>2, <2>3, <2>4, <2>6, <2>7, <2>8, <2>9, CopyOneCall
<1>6. QED
  BY <1>4, <1>5

LEMMA CopyPagesStep ==
  ASSUME CopyInv, NEW c \in CopyCalls, CopyPages(c) PROVE CopyInv'
<1> DEFINE r == copyCall[c]
           n == [r EXCEPT !.pc = "hash", !.at = r.to]
           copied == IF r.kind = "backup"
                     THEN [state |-> "whole", content |-> copyLive, version |-> CopyVersion]
                     ELSE CopyHeld(r.from)
<1>1. /\ r \in CopyCallType /\ CopyPlaced(r) /\ CopyDerived(r, copyFile, copyEdited, copyLive)
      /\ copyFile \in [CopyPaths -> CopyFileType]
      /\ copyLive \in 0..CopyCommits /\ copyLive \in Nat /\ copyRows \subseteq 1..CopyHead
      /\ r.pc = "copy"
  BY CopyCallFacts DEF CopyPages
<1>2. PICK p \in CopyPaths : r.to = {p}
  BY <1>1 DEF CopyPlaced
<1>3. UNCHANGED <<copyLive, copyRows, copyEdited, copyEvidence>>
  BY DEF CopyPages, copyDatabase, copySchema
<1>4. copyFile[p] = CopyEmpty /\ CopyWriting(r, p)
  BY <1>1, <1>2 DEF CopyInv, CopyWriting
<1>5. copyCall' = [copyCall EXCEPT ![c] = n] /\ copyFile' = [copyFile EXCEPT ![p] = copied]
  BY <1>2, CopyPlace DEF CopyPages, CopySet
<1>6. /\ copied \in CopyFileType
      /\ r.kind = "backup" => copied.state = "whole" /\ copied.content = copyLive
  <2>1. CASE r.kind = "backup"
    <3>1. copyLive \in 0..(CopyCommits + 1)
      BY <1>1, CopyAssumption
    <3>2. QED
      BY <1>1, <2>1, <3>1, CopyVersionTyped DEF CopyFileType
  <2>2. CASE r.kind # "backup"
    <3>1. r.kind = "restore"
      BY <1>1, <2>2 DEF CopyCallType
    <3>2. PICK q \in CopyPaths : r.from = {q}
      BY <1>1, <3>1 DEF CopyPlaced
    <3>3. copied = copyFile[q]
      BY <2>2, <3>2, CopyPlace DEF CopyHeld
    <3>4. QED
      BY <1>1, <2>2, <3>3
  <2>3. QED
    BY <2>1, <2>2
<1>7. /\ n \in CopyCallType /\ n.pc = "hash" /\ n.kind = r.kind /\ n.from = r.from /\ n.to = r.to
      /\ n.at = r.to /\ n.before = r.before /\ n.digest = r.digest /\ n.since = r.since
      /\ r.since \in Nat
  <2>1. r.to \subseteq CopyPaths /\ r.since \in 0..CopyCommits
    BY <1>1 DEF CopyCallType
  <2>2. r.since \in Nat
    BY <2>1, CopyAssumption
  <2>3. n \in CopyCallType
    BY <1>1, <2>1 DEF CopyCallType
  <2>4. /\ n.pc = "hash" /\ n.kind = r.kind /\ n.from = r.from /\ n.to = r.to
        /\ n.at = r.to /\ n.before = r.before /\ n.digest = r.digest /\ n.since = r.since
    BY <1>1 DEF CopyCallType
  <2>5. QED
    BY <2>2, <2>3, <2>4
<1> HIDE DEF n, copied, r
<1>8. /\ copyFile'[p] = copied /\ \A q \in CopyPaths \ {p} : copyFile'[q] = copyFile[q]
      /\ copyFile' \in [CopyPaths -> CopyFileType]
  BY <1>1, <1>5, <1>6
<1>9. CopyPlaced(n)
  BY <1>1, <1>7 DEF CopyPlaced
<1>10. CopyReadTrue(n, copyFile')
  BY <1>7 DEF CopyReadTrue, CopyLooking
<1>11. CopyDerived(n, copyFile', copyEdited, copyLive)
  <2>1. CopyAt(n.to) = p /\ n.since <= copyLive
    BY <1>1, <1>2, <1>7, CopyPlace DEF CopyDerived
  <2>2. n.kind = "backup" => copied.content \in n.since..copyLive
    BY <1>1, <1>6, <1>7, <2>1
  <2>3. n.kind = "restore" => n.before = n.digest
    BY <1>1, <1>7 DEF CopyDerived
  <2>4. QED
    BY <1>6, <1>7, <1>8, <2>1, <2>2, <2>3 DEF CopyDerived, CopyLooking
<1>12. \A q \in CopyPaths : ~CopyWriting(n, q)
  BY <1>7 DEF CopyWriting
<1>13. \A d \in CopyCalls \ {c} : \A q \in CopyPaths :
         CopyWriting(copyCall[d], q) => copyFile'[q] = copyFile[q] /\ ~CopyWriting(n, q)
  <2>1. ASSUME NEW d \in CopyCalls \ {c}, CopyWriting(copyCall[d], p) PROVE FALSE
    BY <1>4, <2>1 DEF CopyInv, r
  <2>2. QED
    BY <1>8, <1>12, <2>1
<1>14. \A q \in CopyPaths : copyFile[q].state = "whole" => copyFile'[q] = copyFile[q]
  BY <1>4, <1>8, CopyConstants
<1>15. \A e \in copyEvidence' \ copyEvidence :
         e.path \in CopyPaths /\ e.file \in CopyFileType /\ CopyEvidenceTrue(e)'
  BY <1>3
<1>16. QED
  BY <1>3, <1>5, <1>7, <1>8, <1>9, <1>10, <1>11, <1>12, <1>13, <1>14, <1>15, CopyOneCall

LEMMA CopyHashStep ==
  ASSUME CopyInv, NEW c \in CopyCalls, CopyHash(c) PROVE CopyInv'
<1> DEFINE r == copyCall[c]
           held == CopyHeld(r.at)
           n == [r EXCEPT !.pc = "look", !.file = held]
<1>1. /\ r \in CopyCallType /\ CopyPlaced(r) /\ CopyDerived(r, copyFile, copyEdited, copyLive)
      /\ copyFile \in [CopyPaths -> CopyFileType]
      /\ r.pc = "hash"
  BY CopyCallFacts DEF CopyHash
<1>2. PICK p \in CopyPaths : r.at = {p}
  BY <1>1 DEF CopyPlaced, CopyVerifying
<1>3. UNCHANGED <<copyLive, copyRows, copyEdited, copyFile, copyEvidence>>
  BY DEF CopyHash, copyDatabase, copySchema
<1>4. \/ copyCall' = [copyCall EXCEPT ![c] = CopyIdle]
      \/ copyCall' = [copyCall EXCEPT ![c] = n] /\ (r.at = r.from => held = r.digest)
  BY DEF CopyHash, CopySet
<1>5. held = copyFile[p] /\ held = copyFile[CopyAt(r.at)] /\ held \in CopyFileType
  BY <1>1, <1>2, CopyPlace DEF CopyHeld
<1> HIDE DEF held
<1>6. /\ n \in CopyCallType /\ n.pc = "look" /\ n.kind = r.kind /\ n.from = r.from /\ n.to = r.to
      /\ n.at = r.at /\ n.before = r.before /\ n.digest = r.digest /\ n.since = r.since /\ n.file = held
  BY <1>1, <1>5 DEF CopyCallType
<1> HIDE DEF n, r
<1>7. CASE copyCall' = [copyCall EXCEPT ![c] = CopyIdle]
  BY <1>3, <1>7, CopyStops
<1>8. CASE copyCall' = [copyCall EXCEPT ![c] = n] /\ (r.at = r.from => held = r.digest)
  <2>1. CopyPlaced(n)
    BY <1>1, <1>6 DEF CopyPlaced, CopyVerifying
  <2>2. CopyReadTrue(n, copyFile)
    BY <1>5, <1>6 DEF CopyReadTrue
  <2>3. CopyDerived(n, copyFile, copyEdited, copyLive)
    BY <1>1, <1>6, <1>8 DEF CopyDerived, CopyLooking, CopyVerifying
  <2>4. n.pc # "copy"
    BY <1>6
  <2>5. QED
    BY <1>3, <1>6, <1>8, <2>1, <2>2, <2>3, <2>4, CopyQuietCall
<1>9. QED
  BY <1>4, <1>7, <1>8

LEMMA CopyLookStep ==
  ASSUME CopyInv, NEW c \in CopyCalls, CopyLook(c) PROVE CopyInv'
<1> DEFINE r == copyCall[c]
           held == CopyHeld(r.at)
           n == [r EXCEPT !.pc = "rehash", !.content = held.content]
<1>1. /\ r \in CopyCallType /\ CopyPlaced(r) /\ CopyDerived(r, copyFile, copyEdited, copyLive)
      /\ CopyReadTrue(r, copyFile)
      /\ copyFile \in [CopyPaths -> CopyFileType]
      /\ r.pc = "look"
  BY CopyCallFacts DEF CopyLook
<1>2. PICK p \in CopyPaths : r.at = {p}
  BY <1>1 DEF CopyPlaced, CopyVerifying, CopyLooking
<1>3. UNCHANGED <<copyLive, copyRows, copyEdited, copyFile, copyEvidence>>
  BY DEF CopyLook, copyDatabase, copySchema
<1>4. \/ copyCall' = [copyCall EXCEPT ![c] = CopyIdle]
      \/ /\ copyCall' = [copyCall EXCEPT ![c] = n]
         /\ held.state = "whole" /\ held.version = r.revision
  BY DEF CopyLook, CopySet
<1>5. held = copyFile[CopyAt(r.at)] /\ held \in CopyFileType
  BY <1>1, <1>2, CopyPlace DEF CopyHeld
<1>6. r.file.state = "whole" /\ r.file.content = CopyCommits + 1 => held = r.file
  BY <1>1, <1>5 DEF CopyReadTrue, CopyLooking
<1> HIDE DEF held
<1>7. /\ n \in CopyCallType /\ n.pc = "rehash" /\ n.kind = r.kind /\ n.from = r.from /\ n.to = r.to
      /\ n.at = r.at /\ n.before = r.before /\ n.digest = r.digest /\ n.since = r.since
      /\ n.file = r.file /\ n.content = held.content /\ n.revision = r.revision
  <2>1. held.content \in 0..(CopyCommits + 1)
    BY <1>5 DEF CopyFileType
  <2>2. QED
    BY <1>1, <2>1 DEF CopyCallType
<1> HIDE DEF n, r
<1>8. CASE copyCall' = [copyCall EXCEPT ![c] = CopyIdle]
  BY <1>3, <1>8, CopyStops
<1>9. CASE /\ copyCall' = [copyCall EXCEPT ![c] = n]
           /\ held.state = "whole" /\ held.version = r.revision
  <2>1. CopyPlaced(n)
    BY <1>1, <1>7 DEF CopyPlaced, CopyVerifying, CopyLooking
  <2>2. CopyReadTrue(n, copyFile)
    BY <1>5, <1>6, <1>7, <1>9 DEF CopyReadTrue
  <2>3. CopyDerived(n, copyFile, copyEdited, copyLive)
    BY <1>1, <1>7, <1>9 DEF CopyDerived, CopyLooking, CopyVerifying
  <2>4. n.pc # "copy"
    BY <1>7
  <2>5. QED
    BY <1>3, <1>7, <1>9, <2>1, <2>2, <2>3, <2>4, CopyQuietCall
<1>10. QED
  BY <1>4, <1>8, <1>9

LEMMA CopyEvidenceStill ==
  ASSUME NEW x, CopyEvidenceTrue(x), UNCHANGED <<copyLive, copyEdited, copyFile>>
  PROVE  CopyEvidenceTrue(x)'
BY DEF CopyEvidenceTrue

\* The second digest: the evidence of a copy, or a restore that may go on.
LEMMA CopyRehashStep ==
  ASSUME CopyInv, NEW c \in CopyCalls, CopyRehash(c) PROVE CopyInv'
<1> DEFINE r == copyCall[c]
           n == [r EXCEPT !.pc = "reserve", !.before = r.file]
           e == CopyEvidenceOf(r)
<1>1. /\ r \in CopyCallType /\ CopyPlaced(r) /\ CopyDerived(r, copyFile, copyEdited, copyLive)
      /\ CopyReadTrue(r, copyFile)
      /\ copyFile \in [CopyPaths -> CopyFileType]
      /\ copyLive \in Nat
      /\ r.pc = "rehash"
  BY CopyCallFacts DEF CopyRehash
<1>2. UNCHANGED <<copyLive, copyRows, copyEdited, copyFile>>
  BY DEF CopyRehash, copyDatabase, copySchema
<1>3. \/ copyCall' = [copyCall EXCEPT ![c] = CopyIdle] /\ copyEvidence' = copyEvidence
      \/ r.at = r.from /\ copyCall' = [copyCall EXCEPT ![c] = n] /\ copyEvidence' = copyEvidence
      \/ /\ r.at # r.from /\ copyCall' = [copyCall EXCEPT ![c] = CopyIdle]
         /\ copyEvidence' = copyEvidence \cup {e}
         /\ CopySame(r) /\ (r.kind = "restore" /\ r.at = r.to => r.content = r.before.content)
  BY DEF CopyRehash, CopySet
<1>4. CASE copyCall' = [copyCall EXCEPT ![c] = CopyIdle] /\ copyEvidence' = copyEvidence
  BY <1>2, <1>4, CopyStops
<1>5. CASE r.at = r.from /\ copyCall' = [copyCall EXCEPT ![c] = n] /\ copyEvidence' = copyEvidence
  <2>1. r.kind = "restore" /\ r.file = r.digest
    <3>1. r.at # {}
      BY <1>1 DEF CopyPlaced, CopyVerifying, CopyLooking
    <3>2. r.kind = "restore"
      BY <1>1, <1>5, <3>1 DEF CopyPlaced, CopyCallType
    <3>3. QED
      BY <1>1, <1>5, <3>2 DEF CopyDerived, CopyLooking
  <2>2. /\ n \in CopyCallType /\ n.pc = "reserve" /\ n.kind = r.kind /\ n.from = r.from /\ n.to = r.to
        /\ n.before = r.file /\ n.digest = r.digest /\ n.since = r.since
    BY <1>1 DEF CopyCallType
  <2> HIDE DEF n, r
  <2>3. CopyPlaced(n) /\ CopyReadTrue(n, copyFile) /\ CopyDerived(n, copyFile, copyEdited, copyLive)
    BY <1>1, <2>1, <2>2 DEF CopyPlaced, CopyReadTrue, CopyDerived, CopyLooking, CopyVerifying
  <2>4. n.pc # "copy"
    BY <2>2
  <2>5. QED
    BY <1>2, <1>5, <2>2, <2>3, <2>4, CopyQuietCall
<1>6. CASE /\ r.at # r.from /\ copyCall' = [copyCall EXCEPT ![c] = CopyIdle]
           /\ copyEvidence' = copyEvidence \cup {e}
           /\ CopySame(r) /\ (r.kind = "restore" /\ r.at = r.to => r.content = r.before.content)
  <2>1. r.at = r.to
    BY <1>1, <1>6 DEF CopyPlaced, CopyVerifying, CopyLooking
  <2>2. PICK p \in CopyPaths : r.to = {p}
    BY <1>1 DEF CopyPlaced
  <2>3. /\ e.path = p /\ e.file = r.file /\ e.content = r.content /\ e.revision = r.revision
        /\ e.kind = r.kind /\ e.digest = r.digest /\ e.since = r.since
    BY <2>2, CopyPlace DEF CopyEvidenceOf
  <2> HIDE DEF e
  <2>4. CopyAt(r.at) = p /\ CopyAt(r.to) = p /\ copyFile[p] = r.file /\ r.file \in CopyFileType
    BY <1>1, <1>6, <2>1, <2>2, CopyPlace DEF CopySame, CopyHeld, CopyCallType
  <2>5. r.file.state = "whole" /\ r.file.version = r.revision /\ r.file.content = r.content
    BY <1>1, <2>4 DEF CopyReadTrue
  <2>6. r.file = [state |-> "whole", content |-> r.content, version |-> r.revision]
    BY <2>4, <2>5 DEF CopyFileType
  <2>7. r.kind = "backup" /\ p \notin copyEdited => r.content \in r.since..copyLive
    BY <1>1, <2>4, <2>5 DEF CopyDerived, CopyVerifying, CopyLooking
  <2>8. r.kind = "restore" => r.content = r.digest.content
    BY <1>1, <1>6, <2>1 DEF CopyDerived, CopyVerifying, CopyLooking
  <2>9. ASSUME NEW x \in copyEvidence' \ copyEvidence
        PROVE  x.path \in CopyPaths /\ x.file \in CopyFileType /\ CopyEvidenceTrue(x)'
    <3>1. x = e
      BY <1>6
    <3>2. /\ x.path = p /\ x.file = r.file /\ x.content = r.content /\ x.revision = r.revision
          /\ x.kind = r.kind /\ x.digest = r.digest /\ x.since = r.since
      BY <2>3, <3>1
    <3>3. CopyEvidenceTrue(x)
      BY <2>4, <2>6, <2>7, <2>8, <3>2 DEF CopyEvidenceTrue
    <3>4. QED
      BY <1>2, <2>4, <3>2, <3>3, CopyEvidenceStill
  <2>10. /\ CopyIdle \in CopyCallType /\ CopyPlaced(CopyIdle) /\ CopyReadTrue(CopyIdle, copyFile')
         /\ CopyDerived(CopyIdle, copyFile', copyEdited, copyLive)
         /\ \A q \in CopyPaths : ~CopyWriting(CopyIdle, q)
    BY <1>1, CopyIdleCall DEF CopyWriting
  <2>11. copyFile' \in [CopyPaths -> CopyFileType] /\ \A q \in CopyPaths : copyFile'[q] = copyFile[q]
    BY <1>1, <1>2
  <2>12. QED
    BY <1>2, <1>6, <2>9, <2>10, <2>11, CopyOneCall
<1>7. QED
  BY <1>3, <1>4, <1>5, <1>6

\* Adoption.  Until the table of the registered revision is made nothing of the
\* schema moves, and who is about to stamp has kept a legacy database.
CopyStartType ==
  [CopyStarts -> [pc : {"out", "keep", "stamp", "stamping", "upgrade", "revising", "altering", "moving"},
                  at : 0..CopyHead]]

CopyLegacyKept == \E k \in copyKept : k.tables = CopySchema(CopyLegacy)

CopyUnversioned ==
  /\ copyRows = {} /\ copyTables \in {CopySchema(0), CopySchema(CopyLegacy)}
  /\ copyOld => copyTables.at > 0
  /\ \A s \in CopyStarts :
       /\ copyStart[s].pc \in {"out", "keep", "stamp", "upgrade"}
       /\ copyStart[s].pc \in {"keep", "stamp"} => copyTables.at > 0
       /\ copyStart[s].pc = "upgrade" => copyTables.at = 0
       /\ copyStart[s].pc = "stamp" => CopyLegacyKept

\* Where no two adoptions overlap, v is registered (0: nothing is), one process
\* at most is about to write the schema, and the others go by no later revision.
CopyActive == {"keep", "stamp", "stamping", "altering", "moving"}

CopyOneActive ==
  \A s, o \in CopyStarts : copyStart[s].pc \in CopyActive /\ copyStart[o].pc \in CopyActive => s = o

CopyStartOrderly(s, v) ==
  LET start == copyStart[s] IN
  /\ start.pc \in {"keep", "stamp"} => ~copyVersioned
  /\ start.pc = "stamping" => v = 0 /\ start.at = 0 /\ copyTables = CopySchema(CopyLegacy)
  /\ start.pc = "revising" => start.at <= v
  /\ start.pc = "altering" => start.at = v /\ copyTables = [at |-> v, part |-> TRUE]
  /\ start.pc = "moving" => start.at = v /\ copyTables = CopySchema(v + 1)

CopyOrderly(v) ==
  /\ copyRows = IF v = 0 THEN {} ELSE {v}
  /\ CopyNames(v) \/ (v = 0 /\ copyTables = CopySchema(CopyLegacy))
  /\ copyStamped \subseteq {CopySchema(CopyLegacy)}
  /\ \A s \in CopyStarts : CopyStartOrderly(s, v)
  /\ CopyOneActive

CopyWriters ==
  \A s \in CopyStarts : copyStart[s].pc \in {"altering", "moving"} => copyStart[s].at < CopyHead

CopyAdopts ==
  /\ CopyWriters /\ copyStart \in CopyStartType /\ copyTables \in CopyTablesType /\ copyRows \subseteq 1..CopyHead
  /\ copyVersioned \in BOOLEAN /\ copyOld \in BOOLEAN /\ copyOverlap \in BOOLEAN
  /\ copyStamped \subseteq CopyTablesType
  /\ ~copyVersioned => CopyUnversioned
  /\ copyOld /\ copyVersioned => CopyLegacyKept
  /\ ~copyOverlap => \E v \in 0..CopyHead : CopyOrderly(v)

\* Adoption and copies do not disturb each other.
LEMMA CopyAdoptionQuiet ==
  ASSUME CopyInv, UNCHANGED <<copyLive, copyCopies>>, copyRows' \subseteq 1..CopyHead
  PROVE  CopyInv'
<1>1. /\ copyLive \in 0..CopyCommits /\ copyLive \in Nat
      /\ copyFile \in [CopyPaths -> CopyFileType]
  BY CopyAssumption DEF CopyInv, CopyShapes
<1>2. /\ copyLive' \in 0..CopyCommits /\ copyLive <= copyLive'
      /\ copyFile' \in [CopyPaths -> CopyFileType]
      /\ \A p \in CopyPaths : copyFile'[p] = copyFile[p]
      /\ copyEdited' = copyEdited /\ copyCall' = copyCall /\ copyEvidence' = copyEvidence
  BY <1>1 DEF copyCopies
<1>3. CopyAges(copyFile, copyFile', copyEdited, copyEdited')
  BY <1>2 DEF CopyAges
<1> QED BY <1>2, <1>3, CopyNoCall

LEMMA CopyAdoptsQuiet ==
  ASSUME CopyAdopts, UNCHANGED <<copySchema, copyAdoption>> PROVE CopyAdopts'
BY DEF CopyAdopts, CopyUnversioned, CopyLegacyKept, CopyOrderly, CopyStartOrderly, CopyOneActive, CopyNames,
       CopyWriters, copyAdoption, copySchema

LEMMA CopySchemas ==
  /\ \A n : CopySchema(n).at = n /\ CopySchema(n).part = FALSE
  /\ \A n \in 0..CopyHead : CopySchema(n) \in CopyTablesType
  /\ CopyLegacy \in 1..CopyHead /\ CopyHead \in Nat
BY CopyAssumption DEF CopySchema, CopyTablesType

\* A start that moves to a place, and leaves the others where they are.
LEMMA CopyMoves ==
  ASSUME CopyAdopts, NEW s \in CopyStarts, NEW to,
         to \in [pc : {"out", "keep", "stamp", "stamping", "upgrade", "revising", "altering", "moving"},
                 at : 0..CopyHead],
         copyStart' = [copyStart EXCEPT ![s] = to]
  PROVE  /\ copyStart' \in CopyStartType /\ copyStart'[s] = to
         /\ \A o \in CopyStarts \ {s} : copyStart'[o] = copyStart[o]
BY DEF CopyAdopts, CopyStartType

\* A step that writes no schema, and whose process does not become active.
LEMMA CopyRests ==
  ASSUME CopyAdopts, NEW s \in CopyStarts, copyStart' \in CopyStartType,
         \A o \in CopyStarts \ {s} : copyStart'[o] = copyStart[o],
         UNCHANGED <<copySchema, copyOld, copyOverlap, copyStamped>>, copyKept \subseteq copyKept',
         copyStart'[s].pc \in {"out", "upgrade"} \/ (copyStart'[s].pc = "stamp" /\ copyStart[s].pc = "keep"),
         ~copyVersioned => /\ copyStart'[s].pc = "upgrade" => copyTables.at = 0
                           /\ copyStart'[s].pc = "stamp" => CopyLegacyKept'
  PROVE  CopyAdopts'
<1>1. CopyLegacyKept => CopyLegacyKept'
  BY DEF CopyLegacyKept
<1>2. UNCHANGED <<copyTables, copyVersioned, copyRows, copyOld, copyOverlap, copyStamped>>
  BY DEF copySchema
<1>3. ~copyVersioned' => CopyUnversioned'
  BY <1>1, <1>2 DEF CopyAdopts, CopyUnversioned
<1>4. ASSUME ~copyOverlap' PROVE \E v \in 0..CopyHead : CopyOrderly(v)'
  <2>1. PICK v \in 0..CopyHead : CopyOrderly(v)
    BY <1>2, <1>4 DEF CopyAdopts
  <2>2. ASSUME NEW o \in CopyStarts PROVE CopyStartOrderly(o, v)'
    BY <1>2, <2>1 DEF CopyOrderly, CopyStartOrderly
  <2>3. CopyOneActive'
    BY <2>1 DEF CopyOrderly, CopyOneActive, CopyActive
  <2>4. CopyOrderly(v)'
    BY <1>2, <2>1, <2>2, <2>3 DEF CopyOrderly, CopyNames
  <2> QED BY <2>4
<1>5. CopyWriters'
  BY DEF CopyAdopts, CopyWriters
<1> QED BY <1>1, <1>2, <1>3, <1>4, <1>5 DEF CopyAdopts

LEMMA CopyStartLeaves ==
  ASSUME CopyAdopts, NEW s \in CopyStarts, CopyStartEnds(s) \/ CopyStartFails(s)
  PROVE  CopyAdopts' /\ UNCHANGED <<copyLive, copyCopies, copyRows>>
<1>1. /\ copyStart' = [copyStart EXCEPT ![s] = [pc |-> "out", at |-> 0]]
      /\ UNCHANGED <<copySchema, copyOld, copyOverlap, copyStamped, copyKept>>
      /\ UNCHANGED <<copyLive, copyCopies, copyRows>>
  BY DEF CopyStartEnds, CopyStartFails, CopyOut, copyDatabase, copySchema
<1>2. [pc |-> "out", at |-> 0].pc = "out"
  OBVIOUS
<1>3. [pc |-> "out", at |-> 0] \in
        [pc : {"out", "keep", "stamp", "stamping", "upgrade", "revising", "altering", "moving"}, at : 0..CopyHead]
  BY CopySchemas
<1> QED BY <1>1, <1>2, <1>3, CopyMoves, CopyRests

LEMMA CopyKeepStep ==
  ASSUME CopyAdopts, NEW s \in CopyStarts, CopyKeep(s)
  PROVE  CopyAdopts' /\ UNCHANGED <<copyLive, copyCopies, copyRows>>
<1>1. /\ copyStart[s].pc = "keep" /\ copyStart' = [copyStart EXCEPT ![s].pc = "stamp"]
      /\ copyKept' = copyKept \cup {[content |-> copyLive, tables |-> copyTables]}
      /\ UNCHANGED <<copySchema, copyOld, copyOverlap, copyStamped>>
      /\ UNCHANGED <<copyLive, copyCopies, copyRows>>
  BY DEF CopyKeep, CopyGo, copyDatabase, copySchema
<1>2. /\ copyStart' \in CopyStartType /\ copyStart'[s].pc = "stamp"
      /\ \A o \in CopyStarts \ {s} : copyStart'[o] = copyStart[o]
  BY <1>1 DEF CopyAdopts, CopyStartType
<1>3. ASSUME ~copyVersioned PROVE CopyLegacyKept'
  <2>1. copyTables = CopySchema(CopyLegacy)
    BY <1>1, <1>3, CopySchemas DEF CopyAdopts, CopyUnversioned
  <2>2. [content |-> copyLive, tables |-> copyTables].tables = CopySchema(CopyLegacy)
    BY <2>1
  <2> QED BY <1>1, <2>2 DEF CopyLegacyKept, CopySchema
<1> QED BY <1>1, <1>2, <1>3, CopyRests

LEMMA CopyInspectStep ==
  ASSUME CopyAdopts, NEW s \in CopyStarts, CopyInspect(s)
  PROVE  CopyAdopts' /\ UNCHANGED <<copyLive, copyCopies, copyRows>>
<1> DEFINE to == IF CopyAdopted THEN "keep" ELSE "upgrade"
<1>1. /\ copyStart[s].pc = "out" /\ copyStart' = [copyStart EXCEPT ![s].pc = to]
      /\ UNCHANGED <<copyTables, copyVersioned, copyRows, copyOld, copyStamped, copyKept>>
      /\ UNCHANGED <<copyLive, copyCopies>>
  BY DEF CopyInspect, CopyGo, copyDatabase, copySchema
<1>2. copyOverlap' = (copyOverlap \/ CopyOverlaps(s))
  BY DEF CopyInspect
<1>3. copyOverlap' \in BOOLEAN /\ (~copyOverlap' => ~copyOverlap /\ ~CopyOverlaps(s))
  BY <1>2, Zenon DEF CopyOverlaps
<1>4. CopyAdopted <=> ~copyVersioned /\ copyTables.at > 0
  BY DEF CopyAdopted
<1>5. /\ copyStart' \in CopyStartType /\ copyStart'[s].pc = to
      /\ \A o \in CopyStarts \ {s} : copyStart'[o] = copyStart[o]
  BY <1>1 DEF CopyAdopts, CopyStartType
<1>6. ~copyVersioned => CopyUnversioned'
  <2>1. ~copyVersioned /\ to = "upgrade" => copyTables.at = 0
    BY <1>4, CopySchemas DEF CopyAdopts, CopyUnversioned
  <2> QED BY <1>1, <1>4, <1>5, <2>1 DEF CopyAdopts, CopyUnversioned, CopyLegacyKept
<1>7. ASSUME ~copyOverlap' PROVE \E v \in 0..CopyHead : CopyOrderly(v)'
  <2>1. PICK v \in 0..CopyHead : CopyOrderly(v)
    BY <1>3, <1>7 DEF CopyAdopts
  <2>2. ASSUME NEW o \in CopyStarts PROVE CopyStartOrderly(o, v)'
    BY <1>1, <1>4, <1>5, <2>1 DEF CopyOrderly, CopyStartOrderly
  <2>3. ASSUME NEW o \in CopyStarts \ {s}, to = "keep" PROVE copyStart[o].pc \notin CopyActive
    <3>1. copyStart[o].pc \in {"out", "keep", "stamp", "upgrade"}
      BY <1>4, <2>3 DEF CopyAdopts, CopyUnversioned
    <3>2. copyStart[o].pc \notin {"keep", "stamp"}
      BY <1>3, <1>7, <2>3 DEF CopyOverlaps
    <3> QED BY <3>1, <3>2 DEF CopyActive
  <2>4. CopyOneActive'
    BY <1>5, <2>1, <2>3 DEF CopyOrderly, CopyOneActive, CopyActive
  <2>5. CopyOrderly(v)'
    BY <1>1, <2>1, <2>2, <2>4 DEF CopyOrderly, CopyNames
  <2> QED BY <2>5
<1>8. (copyOld' /\ copyVersioned' => CopyLegacyKept') /\ CopyWriters'
  BY <1>1, <1>5 DEF CopyAdopts, CopyLegacyKept, CopyWriters
<1> QED BY <1>1, <1>3, <1>5, <1>6, <1>7, <1>8 DEF CopyAdopts

\* The revision that is read is the registered one.
LEMMA CopyReadStep ==
  ASSUME CopyAdopts, NEW s \in CopyStarts, CopyRead(s)
  PROVE  CopyAdopts' /\ UNCHANGED <<copyLive, copyCopies, copyRows>>
<1>1. PICK pc \in {<<"stamp", "stamping">>, <<"upgrade", "revising">>}, at \in {0} \cup copyRows :
        /\ copyStart[s].pc = pc[1] /\ copyStart' = [copyStart EXCEPT ![s] = [pc |-> pc[2], at |-> at]]
        /\ copyRows = IF at = 0 THEN {} ELSE {at}
  <2>1. 0 \notin copyRows
    BY CopySchemas DEF CopyAdopts
  <2> QED BY <2>1 DEF CopyRead
<1>2. /\ UNCHANGED <<copyTables, copyRows, copyOld, copyOverlap, copyStamped, copyKept>> /\ copyVersioned'
      /\ UNCHANGED <<copyLive, copyCopies>> /\ copyVersioned' \in BOOLEAN
  BY DEF CopyRead
<1>3. /\ copyStart' \in CopyStartType /\ copyStart'[s] = [pc |-> pc[2], at |-> at]
      /\ \A o \in CopyStarts \ {s} : copyStart'[o] = copyStart[o]
  <2>1. at \in 0..CopyHead
    BY CopySchemas DEF CopyAdopts
  <2>2. [pc |-> pc[2], at |-> at] \in
          [pc : {"out", "keep", "stamp", "stamping", "upgrade", "revising", "altering", "moving"}, at : 0..CopyHead]
    BY <2>1
  <2> QED BY <1>1, <2>2, CopyMoves
<1>4. copyStart'[s].at = at /\ copyStart'[s].pc = pc[2]
  BY <1>3
<1>5. copyOld' => CopyLegacyKept'
  <2>1. CopyLegacyKept => CopyLegacyKept'
    BY <1>2 DEF CopyLegacyKept
  <2>2. CASE copyVersioned
    BY <1>2, <2>1, <2>2 DEF CopyAdopts
  <2>3. CASE ~copyVersioned
    <3>1. CopyUnversioned
      BY <2>3 DEF CopyAdopts
    <3>2. copyStart[s].pc \in {"stamp", "upgrade"}
      BY <1>1
    <3>3. copyStart[s].pc = "upgrade" => ~copyOld
      BY <3>1 DEF CopyUnversioned
    <3> QED BY <1>2, <2>1, <3>1, <3>2, <3>3 DEF CopyUnversioned
  <2> QED BY <2>2, <2>3
<1>6. ASSUME ~copyOverlap' PROVE \E v \in 0..CopyHead : CopyOrderly(v)'
  <2>1. PICK v \in 0..CopyHead : CopyOrderly(v)
    BY <1>2, <1>6 DEF CopyAdopts
  <2>2. at = v
    BY <1>1, <2>1 DEF CopyOrderly
  <2>3. pc[1] = "stamp" => ~copyVersioned /\ v = 0 /\ copyTables = CopySchema(CopyLegacy)
    <3>1. pc[1] = "stamp" => ~copyVersioned
      BY <1>1, <2>1 DEF CopyOrderly, CopyStartOrderly
    <3>2. pc[1] = "stamp" => copyRows = {} /\ copyTables = CopySchema(CopyLegacy)
      BY <1>1, <3>1, CopySchemas DEF CopyAdopts, CopyUnversioned
    <3> QED BY <2>1, <3>1, <3>2 DEF CopyOrderly
  <2>4. ASSUME NEW o \in CopyStarts \ {s} PROVE copyStart[o].pc \notin {"keep", "stamp"}
    <3>1. CASE copyStart[s].pc = "stamp"
      BY <2>1, <3>1, <2>4 DEF CopyOrderly, CopyOneActive, CopyActive
    <3>2. CASE copyStart[s].pc = "upgrade"
      BY <2>1, <3>2 DEF CopyOrderly, CopyStartOrderly, CopyAdopts, CopyUnversioned
    <3> QED BY <1>1, <3>1, <3>2
  <2>5. ASSUME NEW o \in CopyStarts PROVE CopyStartOrderly(o, v)'
    <3>1. CASE o = s
      <4>1. v \in Nat /\ v <= v
        BY CopySchemas
      <4>2. copyStart'[o].at = v /\ copyStart'[o].pc \in {"stamping", "revising"}
            /\ (copyStart'[o].pc = "stamping" => pc[1] = "stamp")
        BY <1>4, <2>2, <3>1
      <4> QED BY <1>2, <2>3, <4>1, <4>2 DEF CopyStartOrderly
    <3>2. CASE o # s
      BY <1>2, <1>3, <2>1, <2>4, <3>2 DEF CopyOrderly, CopyStartOrderly
    <3> QED BY <3>1, <3>2
  <2>6. CopyOneActive'
    <3>1. copyStart'[s].pc \in CopyActive => copyStart[s].pc \in CopyActive
      BY <1>1, <1>4 DEF CopyActive
    <3> QED BY <1>3, <2>1, <3>1 DEF CopyOrderly, CopyOneActive
  <2>7. CopyOrderly(v)'
    BY <1>2, <2>1, <2>5, <2>6 DEF CopyOrderly, CopyNames
  <2> QED BY <2>7
<1>7. CopyWriters'
  BY <1>3, <1>4 DEF CopyAdopts, CopyWriters
<1> QED BY <1>2, <1>3, <1>5, <1>6, <1>7 DEF CopyAdopts

\* The row of one revision becomes that of another, and stays one row.
LEMMA CopyRenumbers ==
  ASSUME copyRows \subseteq 1..CopyHead, NEW from, NEW to \in 1..CopyHead, CopyRenumber(from, to)
  PROVE  /\ copyRows' \subseteq 1..CopyHead
         /\ copyRows = (IF from = 0 THEN {} ELSE {from}) => copyRows' = {to}
BY DEF CopyRenumber

LEMMA CopyStampStep ==
  ASSUME CopyAdopts, NEW s \in CopyStarts, CopyStamp(s)
  PROVE  CopyAdopts' /\ UNCHANGED <<copyLive, copyCopies>>
<1>1. /\ copyStart[s].pc = "stamping" /\ copyStart' = [copyStart EXCEPT ![s].pc = "upgrade"]
      /\ \/ copyStart[s].at = CopyLegacy /\ UNCHANGED <<copyRows, copyStamped>>
         \/ /\ copyStart[s].at # CopyLegacy /\ CopyRenumber(copyStart[s].at, CopyLegacy)
            /\ copyStamped' = copyStamped \cup {copyTables}
      /\ UNCHANGED <<copyTables, copyVersioned, copyOld, copyOverlap, copyKept>>
      /\ UNCHANGED <<copyLive, copyCopies>>
  BY DEF CopyStamp, CopyGo
<1>2. /\ copyStart' \in CopyStartType /\ copyStart'[s].pc = "upgrade"
      /\ \A o \in CopyStarts \ {s} : copyStart'[o] = copyStart[o]
  BY <1>1 DEF CopyAdopts, CopyStartType
<1>3. copyRows' \subseteq 1..CopyHead /\ copyStamped' \subseteq CopyTablesType
  BY <1>1, CopySchemas, CopyRenumbers DEF CopyAdopts
<1>4. copyVersioned
  BY <1>1 DEF CopyAdopts, CopyUnversioned
<1>5. (copyOld' => CopyLegacyKept') /\ CopyWriters'
  BY <1>1, <1>2, <1>4 DEF CopyAdopts, CopyLegacyKept, CopyWriters
<1>6. ASSUME ~copyOverlap' PROVE CopyOrderly(CopyLegacy)'
  <2>1. PICK v \in 0..CopyHead : CopyOrderly(v)
    BY <1>1, <1>6 DEF CopyAdopts
  <2>2. v = 0 /\ copyStart[s].at = 0 /\ copyTables = CopySchema(CopyLegacy)
    BY <1>1, <2>1 DEF CopyOrderly, CopyStartOrderly
  <2>3. copyRows = {} /\ copyRows' = {CopyLegacy} /\ copyStamped' \subseteq {CopySchema(CopyLegacy)}
    BY <1>1, <2>1, <2>2, CopySchemas, CopyRenumbers DEF CopyOrderly, CopyAdopts
  <2>4. ASSUME NEW o \in CopyStarts PROVE CopyStartOrderly(o, CopyLegacy)'
    <3>1. CASE o = s
      BY <1>2, <3>1 DEF CopyStartOrderly
    <3>2. CASE o # s
      <4>1. copyStart[o].pc \notin CopyActive
        BY <1>1, <2>1, <3>2 DEF CopyOrderly, CopyOneActive, CopyActive
      <4>2. copyStart[o].pc = "revising" => copyStart[o].at <= CopyLegacy
        <5>1. copyStart[o].at \in Nat
          BY CopySchemas DEF CopyAdopts, CopyStartType
        <5>2. copyStart[o].pc = "revising" => copyStart[o].at <= 0
          BY <2>1, <2>2 DEF CopyOrderly, CopyStartOrderly
        <5> QED BY <5>1, <5>2, CopySchemas
      <4> QED BY <1>1, <1>2, <3>2, <4>1, <4>2 DEF CopyStartOrderly, CopyActive
    <3> QED BY <3>1, <3>2
  <2>5. CopyOneActive'
    BY <1>2, <2>1 DEF CopyOrderly, CopyOneActive, CopyActive
  <2>6. copyTables'.at = CopyLegacy
    BY <1>1, <2>2, CopySchemas
  <2> QED BY <2>3, <2>4, <2>5, <2>6, CopySchemas DEF CopyOrderly, CopyNames
<1> QED BY <1>1, <1>2, <1>3, <1>4, <1>5, <1>6, CopySchemas DEF CopyAdopts

\* A process that writes the schema of a revision is the only active one.
LEMMA CopyAlterStep ==
  ASSUME CopyAdopts, NEW s \in CopyStarts, CopyAlter(s)
  PROVE  CopyAdopts' /\ UNCHANGED <<copyLive, copyCopies, copyRows>>
<1> DEFINE at == copyStart[s].at
<1>1. /\ copyStart[s].pc = "revising" /\ copyStart' = [copyStart EXCEPT ![s].pc = "altering"]
      /\ at < CopyHead /\ copyTables = CopySchema(at)
      /\ copyTables' = [copyTables EXCEPT !.part = TRUE]
      /\ UNCHANGED <<copyVersioned, copyRows, copyOld, copyOverlap, copyStamped, copyKept>>
      /\ UNCHANGED <<copyLive, copyCopies>>
  BY DEF CopyAlter, CopyGo
<1>2. /\ copyStart' \in CopyStartType /\ copyStart'[s].pc = "altering" /\ copyStart'[s].at = at
      /\ \A o \in CopyStarts \ {s} : copyStart'[o] = copyStart[o]
      /\ at \in 0..CopyHead
  BY <1>1 DEF CopyAdopts, CopyStartType
<1>3. copyTables' = [at |-> at, part |-> TRUE] /\ copyTables' \in CopyTablesType
  BY <1>1, <1>2 DEF CopySchema, CopyTablesType
<1>4. copyVersioned
  BY <1>1 DEF CopyAdopts, CopyUnversioned
<1>5. (copyOld' => CopyLegacyKept') /\ CopyWriters'
  BY <1>1, <1>2, <1>4 DEF CopyAdopts, CopyLegacyKept, CopyWriters
<1> HIDE DEF at
<1>6. ASSUME ~copyOverlap' PROVE \E v \in 0..CopyHead : CopyOrderly(v)'
  <2>1. PICK v \in 0..CopyHead : CopyOrderly(v)
    BY <1>1, <1>6 DEF CopyAdopts
  <2>2. v = at
    <3>1. at <= v
      BY <1>1, <2>1 DEF CopyOrderly, CopyStartOrderly, at
    <3>2. at = v \/ at = v + 1 \/ (v = 0 /\ copyTables = CopySchema(CopyLegacy))
      BY <1>1, <2>1, CopySchemas DEF CopyOrderly, CopyNames
    <3>3. at = v \/ at = v + 1 \/ (v = 0 /\ at > 0)
      BY <1>1, <3>2, CopySchemas
    <3> QED BY <1>2, <3>1, <3>3, CopySchemas
  <2>3. ASSUME NEW o \in CopyStarts \ {s} PROVE copyStart[o].pc \notin CopyActive
    <3>1. copyStart[o].pc \notin {"keep", "stamp"}
      BY <1>4, <2>1 DEF CopyOrderly, CopyStartOrderly
    <3>2. copyStart[o].pc # "stamping"
      <4>1. copyStart[o].pc = "stamping" => v = 0 /\ CopySchema(at) = CopySchema(CopyLegacy)
        BY <1>1, <2>1 DEF CopyOrderly, CopyStartOrderly
      <4> QED BY <2>2, <4>1, CopySchemas
    <3>3. copyStart[o].pc # "altering"
      <4>1. copyStart[o].pc = "altering" => CopySchema(at) = [at |-> v, part |-> TRUE]
        BY <1>1, <2>1 DEF CopyOrderly, CopyStartOrderly
      <4> QED BY <4>1 DEF CopySchema
    <3>4. copyStart[o].pc # "moving"
      <4>1. copyStart[o].pc = "moving" => CopySchema(at) = CopySchema(v + 1)
        BY <1>1, <2>1 DEF CopyOrderly, CopyStartOrderly
      <4> QED BY <1>2, <2>2, <4>1, CopySchemas
    <3> QED BY <3>1, <3>2, <3>3, <3>4 DEF CopyActive
  <2>4. ASSUME NEW o \in CopyStarts PROVE CopyStartOrderly(o, v)'
    <3>1. CASE o = s
      BY <1>1, <1>2, <1>3, <2>2, <3>1 DEF CopyStartOrderly
    <3>2. CASE o # s
      <4>1. copyStart'[o] = copyStart[o] /\ copyStart[o].pc \notin CopyActive
        BY <1>2, <2>3, <3>2
      <4>2. copyStart[o].pc = "revising" => copyStart[o].at <= v
        BY <2>1 DEF CopyOrderly, CopyStartOrderly
      <4> QED BY <4>1, <4>2 DEF CopyStartOrderly, CopyActive
    <3> QED BY <3>1, <3>2
  <2>5. CopyOneActive'
    BY <1>2, <2>3 DEF CopyOneActive
  <2>6. copyTables'.at = v
    BY <1>3, <2>2
  <2>7. CopyOrderly(v)'
    BY <1>1, <2>1, <2>4, <2>5, <2>6 DEF CopyOrderly, CopyNames
  <2> QED BY <2>7
<1> QED BY <1>1, <1>2, <1>3, <1>4, <1>5, <1>6 DEF CopyAdopts

LEMMA CopyMakeStep ==
  ASSUME CopyAdopts, NEW s \in CopyStarts, CopyMake(s)
  PROVE  CopyAdopts' /\ UNCHANGED <<copyLive, copyCopies, copyRows>>
<1> DEFINE at == copyStart[s].at
<1>1. /\ copyStart[s].pc = "altering" /\ copyStart' = [copyStart EXCEPT ![s].pc = "moving"]
      /\ copyTables' = CopySchema(at + 1)
      /\ UNCHANGED <<copyVersioned, copyRows, copyOld, copyOverlap, copyStamped, copyKept>>
      /\ UNCHANGED <<copyLive, copyCopies>>
  BY DEF CopyMake, CopyGo
<1>2. /\ copyStart' \in CopyStartType /\ copyStart'[s].pc = "moving" /\ copyStart'[s].at = at
      /\ \A o \in CopyStarts \ {s} : copyStart'[o] = copyStart[o]
      /\ at \in 0..CopyHead /\ at < CopyHead
  BY <1>1 DEF CopyAdopts, CopyStartType, CopyWriters
<1>3. copyTables' \in CopyTablesType
  BY <1>1, <1>2, CopySchemas
<1>4. copyVersioned
  BY <1>1 DEF CopyAdopts, CopyUnversioned
<1>5. (copyOld' => CopyLegacyKept') /\ CopyWriters'
  BY <1>1, <1>2, <1>4 DEF CopyAdopts, CopyLegacyKept, CopyWriters
<1> HIDE DEF at
<1>6. ASSUME ~copyOverlap' PROVE \E v \in 0..CopyHead : CopyOrderly(v)'
  <2>1. PICK v \in 0..CopyHead : CopyOrderly(v)
    BY <1>1, <1>6 DEF CopyAdopts
  <2>2. v = at
    BY <1>1, <2>1 DEF CopyOrderly, CopyStartOrderly, at
  <2>3. ASSUME NEW o \in CopyStarts PROVE CopyStartOrderly(o, v)'
    <3>1. CASE o = s
      BY <1>1, <1>2, <2>2, <3>1 DEF CopyStartOrderly
    <3>2. CASE o # s
      BY <1>1, <1>2, <2>1, <2>2, <3>2 DEF CopyOrderly, CopyStartOrderly, CopyOneActive, CopyActive
    <3> QED BY <3>1, <3>2
  <2>4. CopyOneActive'
    BY <1>1, <1>2, <2>1 DEF CopyOrderly, CopyOneActive, CopyActive
  <2>5. CopyOrderly(v)'
    BY <1>1, <2>1, <2>2, <2>3, <2>4 DEF CopyOrderly, CopyNames
  <2> QED BY <2>5
<1> QED BY <1>1, <1>2, <1>3, <1>4, <1>5, <1>6 DEF CopyAdopts

LEMMA CopyMoveStep ==
  ASSUME CopyAdopts, NEW s \in CopyStarts, CopyMove(s)
  PROVE  CopyAdopts' /\ UNCHANGED <<copyLive, copyCopies>>
<1> DEFINE at == copyStart[s].at
<1>1. /\ copyStart[s].pc = "moving" /\ copyStart' = [copyStart EXCEPT ![s] = [pc |-> "revising", at |-> at + 1]]
      /\ CopyRenumber(at, at + 1)
      /\ UNCHANGED <<copyTables, copyVersioned, copyOld, copyOverlap, copyStamped, copyKept>>
      /\ UNCHANGED <<copyLive, copyCopies>>
  BY DEF CopyMove
<1>2. at \in 0..CopyHead /\ at + 1 \in 1..CopyHead
  BY <1>1, CopySchemas DEF CopyAdopts, CopyStartType, CopyWriters
<1>3. /\ copyStart' \in CopyStartType /\ copyStart'[s].pc = "revising" /\ copyStart'[s].at = at + 1
      /\ \A o \in CopyStarts \ {s} : copyStart'[o] = copyStart[o]
  BY <1>1, <1>2 DEF CopyAdopts, CopyStartType
<1>4. copyVersioned
  BY <1>1 DEF CopyAdopts, CopyUnversioned
<1>5. (copyOld' => CopyLegacyKept') /\ CopyWriters'
  BY <1>1, <1>3, <1>4 DEF CopyAdopts, CopyLegacyKept, CopyWriters
<1>6. copyRows' \subseteq 1..CopyHead
  BY <1>1, <1>2, CopyRenumbers DEF CopyAdopts
<1> HIDE DEF at
<1>7. ASSUME ~copyOverlap' PROVE \E v \in 0..CopyHead : CopyOrderly(v)'
  <2>1. PICK v \in 0..CopyHead : CopyOrderly(v)
    BY <1>1, <1>7 DEF CopyAdopts
  <2>2. v = at /\ copyTables = CopySchema(v + 1) /\ v + 1 \in 1..CopyHead
    BY <1>1, <1>2, <2>1 DEF CopyOrderly, CopyStartOrderly, at
  <2>3. copyRows' = {v + 1}
    BY <1>1, <1>2, <2>1, <2>2, CopyRenumbers DEF CopyOrderly, CopyAdopts
  <2>4. ASSUME NEW o \in CopyStarts PROVE CopyStartOrderly(o, v + 1)'
    <3>1. CASE o = s
      BY <1>2, <1>3, <2>2, <3>1 DEF CopyStartOrderly
    <3>2. CASE o # s
      <4>1. copyStart[o].pc \notin CopyActive
        BY <1>1, <2>1, <3>2 DEF CopyOrderly, CopyOneActive, CopyActive
      <4>2. copyStart[o].pc = "revising" => copyStart[o].at <= v + 1
        <5>1. copyStart[o].at \in Nat
          BY CopySchemas DEF CopyAdopts, CopyStartType
        <5>2. copyStart[o].pc = "revising" => copyStart[o].at <= v
          BY <2>1 DEF CopyOrderly, CopyStartOrderly
        <5> QED BY <2>2, <5>1, <5>2
      <4> QED BY <1>3, <3>2, <4>1, <4>2 DEF CopyStartOrderly, CopyActive
    <3> QED BY <3>1, <3>2
  <2>5. CopyOneActive'
    BY <1>3, <2>1 DEF CopyOrderly, CopyOneActive, CopyActive
  <2>6. copyTables'.at = v + 1 /\ v + 1 # 0
    BY <1>1, <2>2, CopySchemas
  <2>7. CopyOrderly(v + 1)'
    BY <1>1, <2>1, <2>3, <2>4, <2>5, <2>6 DEF CopyOrderly, CopyNames
  <2>8. v + 1 \in 0..CopyHead
    BY <2>2
  <2> QED BY <2>7, <2>8
<1> QED BY <1>1, <1>2, <1>3, <1>4, <1>5, <1>6, <1>7 DEF CopyAdopts

LEMMA CopyStartSteps ==
  ASSUME CopyInv, CopyAdopts, NEW s \in CopyStarts,
         \/ CopyInspect(s) \/ CopyKeep(s) \/ CopyRead(s) \/ CopyStamp(s)
         \/ CopyAlter(s) \/ CopyMake(s) \/ CopyMove(s) \/ CopyStartEnds(s) \/ CopyStartFails(s)
  PROVE  CopyInv' /\ CopyAdopts'
<1>1. CopyAdopts' /\ UNCHANGED <<copyLive, copyCopies>>
  BY CopyInspectStep, CopyKeepStep, CopyReadStep, CopyStampStep, CopyAlterStep, CopyMakeStep, CopyMoveStep,
     CopyStartLeaves
<1>2. copyRows' \subseteq 1..CopyHead
  BY <1>1 DEF CopyAdopts
<1> QED BY <1>1, <1>2, CopyAdoptionQuiet

LEMMA CopyCallSteps ==
  ASSUME CopyInv, NEW c \in CopyCalls,
         \/ CopyReserve(c) \/ CopyPages(c) \/ CopyHash(c) \/ CopyLook(c) \/ CopyRehash(c)
         \/ CopyFails(c)
  PROVE  CopyInv' /\ UNCHANGED <<copySchema, copyAdoption>>
<1>1. UNCHANGED <<copySchema, copyAdoption>>
  BY DEF CopyReserve, CopyPages, CopyHash, CopyLook, CopyRehash, CopyFails, copyDatabase
<1>2. CASE CopyFails(c)
  <2>1. /\ copyCall' = [copyCall EXCEPT ![c] = CopyIdle]
        /\ UNCHANGED <<copyLive, copyRows, copyEdited, copyFile, copyEvidence>>
    BY <1>2 DEF CopyFails, CopySet, copyDatabase, copySchema
  <2> QED BY <1>1, <2>1, CopyStops
<1> QED BY <1>1, <1>2, CopyReserveStep, CopyPagesStep, CopyHashStep, CopyLookStep, CopyRehashStep

LEMMA CopyBegins ==
  CopyInit => CopyInv /\ CopyAdopts
<1> SUFFICES ASSUME CopyInit PROVE CopyInv /\ CopyAdopts
  OBVIOUS
<1>1. /\ \A c \in CopyCalls : copyCall[c] = CopyIdle
      /\ copyCall \in [CopyCalls -> CopyCallType]
      /\ copyFile \in [CopyPaths -> CopyFileType]
      /\ copyLive \in 0..CopyCommits /\ copyLive \in Nat
      /\ copyEvidence = {}
  BY CopyIdleCall, CopyConstants, CopyAssumption DEF CopyInit
<1>2. copyRows \subseteq 1..CopyHead /\ copyTables \in CopyTablesType /\ copyVersioned \in BOOLEAN
  <2>1. copyVersioned = TRUE \/ copyVersioned = FALSE
    BY DEF CopyInit
  <2>2. copyVersioned \in BOOLEAN
    BY <2>1, Zenon
  <2>3. CopyHead \in 1..CopyHead /\ 0 \in 0..CopyHead /\ CopyLegacy \in 0..CopyHead /\ CopyHead \in 0..CopyHead
    BY CopySchemas
  <2> QED BY <2>2, <2>3, CopySchemas DEF CopyInit
<1>3. CopyInv
  BY <1>1, <1>2, CopyIdleCall DEF CopyInv, CopyShapes, CopyWriting
<1>4. /\ \A s \in CopyStarts : copyStart[s].pc = "out"
      /\ copyStart \in CopyStartType
  BY CopySchemas DEF CopyInit, CopyStartType
<1>5. (copyOld <=> copyTables.at > 0 /\ ~copyVersioned) /\ copyOld \in BOOLEAN
  <2>1. copyOld = (copyTables.at > 0 /\ ~copyVersioned)
    BY DEF CopyInit
  <2> QED BY <2>1, Zenon
<1>6. \E v \in 0..CopyHead : CopyOrderly(v)
  <2>1. CopyOneActive /\ \A s \in CopyStarts : \A v \in 0..CopyHead : CopyStartOrderly(s, v)
    BY <1>4 DEF CopyOneActive, CopyActive, CopyStartOrderly
  <2>2. CASE copyRows = {}
    <3>1. copyTables \in {CopySchema(0), CopySchema(CopyLegacy)}
      BY <2>2 DEF CopyInit
    <3>2. CopyOrderly(0)
      BY <2>1, <2>2, <3>1, CopySchemas DEF CopyOrderly, CopyNames, CopyInit
    <3> QED BY <3>2, CopySchemas
  <2>3. CASE copyRows # {}
    <3>1. copyRows = {CopyHead} /\ copyTables = CopySchema(CopyHead)
      BY <2>3 DEF CopyInit
    <3>2. CopyOrderly(CopyHead)
      BY <2>1, <3>1, CopySchemas DEF CopyOrderly, CopyNames, CopyInit
    <3> QED BY <3>2, CopySchemas
  <2> QED BY <2>2, <2>3
<1>7. ~copyVersioned => CopyUnversioned
  BY <1>4, <1>5 DEF CopyInit, CopyUnversioned
<1>8. CopyAdopts
  BY <1>2, <1>4, <1>5, <1>6, <1>7 DEF CopyAdopts, CopyInit, CopyWriters
<1> QED BY <1>3, <1>8

LEMMA CopyStep ==
  ASSUME CopyInv, CopyAdopts, [CopyNext]_copyVars PROVE CopyInv' /\ CopyAdopts'
<1>1. CASE UNCHANGED copyVars
  <2>1. UNCHANGED <<copySchema, copyAdoption>> /\ UNCHANGED <<copyLive, copyCopies>>
    BY <1>1 DEF copyVars, copyDatabase
  <2>2. CopyAdopts' /\ copyRows' \subseteq 1..CopyHead
    BY <2>1, CopyAdoptsQuiet DEF CopyAdopts, copySchema
  <2> QED BY <2>1, <2>2, CopyAdoptionQuiet
<1>2. CASE CopyCommit
  <2>1. UNCHANGED <<copySchema, copyAdoption>>
    BY <1>2 DEF CopyCommit
  <2> QED BY <1>2, <2>1, CopyCommitStep, CopyAdoptsQuiet
<1>3. ASSUME NEW p \in CopyPaths, CopyEdit(p) PROVE CopyInv' /\ CopyAdopts'
  <2>1. UNCHANGED <<copySchema, copyAdoption>>
    BY <1>3 DEF CopyEdit, copyDatabase
  <2> QED BY <1>3, <2>1, CopyEditStep, CopyAdoptsQuiet
<1>4. ASSUME NEW c \in CopyCalls, NEW from \in CopyPaths, NEW to \in CopyPaths,
             NEW revision \in {CopyHead} \cup copyRows,
             CopyBackup(c, to, revision) \/ CopyRestore(c, from, to, revision)
      PROVE  CopyInv' /\ CopyAdopts'
  <2>1. UNCHANGED <<copySchema, copyAdoption>>
    BY <1>4 DEF CopyBackup, CopyRestore, copyDatabase
  <2> QED BY <1>4, <2>1, CopyBeginStep, CopyAdoptsQuiet
<1>5. ASSUME NEW c \in CopyCalls,
             \/ CopyReserve(c) \/ CopyPages(c) \/ CopyHash(c) \/ CopyLook(c) \/ CopyRehash(c)
             \/ CopyFails(c)
      PROVE  CopyInv' /\ CopyAdopts'
  BY <1>5, CopyCallSteps, CopyAdoptsQuiet
<1> QED BY <1>1, <1>2, <1>3, <1>4, <1>5, CopyStartSteps DEF CopyNext

\* A backup or a restore that was reported is what it was reported to be, for
\* any number of paths and of commands run at once, whatever people do to the
\* copies and wherever a command is killed; no legacy database is registered
\* before a copy of it is kept; and, for any number of revisions and of
\* processes that upgrade, killed at any statement, the registered revision is
\* that of the tables or the one before the revision that was being made, as
\* long as no two processes adopt at once: what happens where they do is shown
\* by a run of its own (storage/backup.py, storage/migrations.py).
THEOREM CopiesReliable == CopySpec => []CopiesHold
<1>1. CopyInv /\ CopyAdopts => CopiesHold
  <2> SUFFICES ASSUME CopyInv, CopyAdopts PROVE CopiesHold
    OBVIOUS
  <2>1. \A e \in copyEvidence : CopyEvidenceTrue(e)
    BY DEF CopyInv
  <2>2. copyOld /\ copyVersioned => \E k \in copyKept : k.tables = CopySchema(CopyLegacy)
    BY DEF CopyAdopts, CopyLegacyKept
  <2>3. ASSUME ~copyOverlap
        PROVE  /\ \A r, q \in copyRows : r = q /\ CopyNames(r)
               /\ copyStamped \subseteq {CopySchema(CopyLegacy)}
    <3>1. PICK v \in 0..CopyHead : CopyOrderly(v)
      BY <2>3 DEF CopyAdopts
    <3> QED BY <3>1 DEF CopyOrderly
  <2> QED BY <2>1, <2>2, <2>3 DEF CopiesHold
<1> QED
  BY <1>1, CopyBegins, CopyStep, PTL DEF CopySpec
-----------------------------------------------------------------------------
(* Normalization.  What a run has found or read stays proved by the archive *)
(* until the record is collected again, which marks it as raced; and a run *)
(* that is stored has all of its versions.                                 *)
NormProof(record, raw, archive) == <<record, raw>> \in archive

\* The candidates a backfill has chosen, against the records and the archive.
NormFoundProved(found, ingested, archives, raced) ==
  /\ \A f \in found : /\ f.record \in NormRecords /\ f.archive \in NormArchive
                      /\ f.record \notin raced =>
                           /\ f.archive \in archives
                           /\ NormProof(f.record, ingested[f.record].raw, f.archive)
  /\ \A f, g \in found : f.record = g.record => f = g

NormItemsProved(items, raced) ==
  \A i \in items : i.archive # {} /\ i.record \notin raced => NormProof(i.record, i.raw, i.archive)

NormRecordsProved(ingested, archives, raced) ==
  \A x \in NormRecords \ raced : ingested[x].archive # {} =>
    /\ ingested[x].archive \in archives
    /\ NormProof(x, ingested[x].raw, ingested[x].archive)

NormIngestedType ==
  [NormRecords -> [raw : NormRaws \cup {"none"}, archive : NormArchive, deleted : BOOLEAN]]

\* The account a run gives, against the versions that are stored.
NormAccount(run, rows) ==
  run.members # {} =>
    /\ {[record |-> m.record, raw |-> m.raw] : m \in run.members}
         = {[record |-> i.record, raw |-> i.raw] : i \in run.input}
    /\ \A m \in run.members :
         /\ m.disposition = "unconfigured" <=> m.version = {}
         /\ m.version \subseteq rows
         /\ \A version \in m.version : NormColumns(version) = <<m.record, m.raw, run.config>>

NormRunStored(run, rows) ==
  /\ run = [config |-> run.config, input |-> run.input, members |-> run.members]
  /\ NormDocuments(run.input, run.config) \subseteq rows
  /\ NormAccount(run, rows)

NormLineage ==
  /\ normIngested \in NormIngestedType /\ normArchives \subseteq NormArchive
  /\ normRun = [p \in NormRuns |-> normRun[p]]
  /\ NormRecordsProved(normIngested, normArchives, normRaced)
  /\ \A p \in NormRuns :
       /\ NormFoundProved(normRun[p].found, normIngested, normArchives, normRaced)
       /\ NormItemsProved(normRun[p].input, normRaced)
  /\ NormItemsProved(normRows, normRaced)

NormStoredWhole == \A run \in normDone : NormRunStored(run, normRows)

NormInv == NormLineage /\ NormStoredWhole

LEMMA NormIdleRun ==
  /\ NormIdle.found = {} /\ NormIdle.input = {}
  /\ \A ingested, archives, raced : NormFoundProved(NormIdle.found, ingested, archives, raced)
  /\ \A raced : NormItemsProved(NormIdle.input, raced)
BY DEF NormIdle, NormFoundProved, NormItemsProved

\* Proofs outlive collections: what is collected anew counts as raced.
LEMMA NormOutlives ==
  ASSUME NEW ingested, NEW ingestedNew, NEW archives, NEW archivesNew, NEW raced, NEW racedNew,
         archives \subseteq archivesNew, raced \subseteq racedNew,
         NEW found, NormFoundProved(found, ingested, archives, raced),
         \A f \in found : f.record \notin racedNew => ingestedNew[f.record].raw = ingested[f.record].raw
  PROVE  NormFoundProved(found, ingestedNew, archivesNew, racedNew)
BY DEF NormFoundProved

LEMMA NormItemsOutlive ==
  ASSUME NEW items, NEW raced, NEW racedNew, raced \subseteq racedNew, NormItemsProved(items, raced)
  PROVE  NormItemsProved(items, racedNew)
BY DEF NormItemsProved

\* What is stored of a run is not touched by other tables.
LEMMA NormStoredSame ==
  ASSUME NormStoredWhole, UNCHANGED <<normRows, normDone>> PROVE NormStoredWhole'
BY DEF NormStoredWhole

\* A run moves, and records, archive and versions do not.
LEMMA NormRunMoves ==
  ASSUME NormInv, NEW p \in NormRuns, NEW r, normRun' = [normRun EXCEPT ![p] = r],
         UNCHANGED <<normIngested, normArchives, normRaced, normRows, normDone>>,
         NormFoundProved(r.found, normIngested, normArchives, normRaced),
         NormItemsProved(r.input, normRaced)
  PROVE  NormInv'
<1>1. normRun'[p] = r /\ \A q \in NormRuns \ {p} : normRun'[q] = normRun[q]
  BY DEF NormInv, NormLineage
<1>2. normRun' = [q \in NormRuns |-> normRun'[q]]
  BY DEF NormInv, NormLineage
<1>3. ASSUME NEW q \in NormRuns
      PROVE  /\ NormFoundProved(normRun'[q].found, normIngested', normArchives', normRaced')
             /\ NormItemsProved(normRun'[q].input, normRaced')
  <2>1. CASE q = p
    BY <1>1, <2>1
  <2>2. CASE q # p
    BY <1>1, <2>2 DEF NormInv, NormLineage
  <2>3. QED
    BY <2>1, <2>2
<1>4. NormLineage'
  BY <1>2, <1>3 DEF NormInv, NormLineage
<1>5. QED
  BY <1>4, NormStoredSame DEF NormInv

LEMMA NormCollectStep ==
  ASSUME NormInv, NEW response \in NormArchive, NEW archived \in BOOLEAN,
         NormCollect(response, archived)
  PROVE  NormInv'
<1> DEFINE of(x) == CHOOSE raw \in NormRaws : <<x, raw>> \in response
           got == {link[1] : link \in response}
           next(x) == IF x \in got
                      THEN [raw |-> of(x), archive |-> IF archived THEN response ELSE {}, deleted |-> FALSE]
                      ELSE normIngested[x]
<1>1. /\ normIngested' = [x \in NormRecords |-> next(x)]
      /\ normArchives' = IF archived THEN normArchives \cup {response} ELSE normArchives
      /\ normRaced' = normRaced \cup (got \cap UNION {NormFilled(p) : p \in NormRuns})
      /\ UNCHANGED <<normRows, normDone, normRun>>
  BY DEF NormCollect, normStored
<1>2. normArchives \subseteq normArchives' /\ normRaced \subseteq normRaced'
  BY <1>1
<1>3. \A x \in got : x \in NormRecords /\ of(x) \in NormRaws /\ <<x, of(x)>> \in response
  BY DEF NormArchive
<1>4. normIngested \in NormIngestedType
  BY DEF NormInv, NormLineage
<1>5. \A x \in NormRecords :
        next(x) \in [raw : NormRaws \cup {"none"}, archive : NormArchive, deleted : BOOLEAN]
  <2>1. {} \in NormArchive
    BY DEF NormArchive
  <2>2. QED
    BY <1>3, <1>4, <2>1 DEF NormIngestedType
<1>6. normIngested' \in NormIngestedType
  BY <1>1, <1>5 DEF NormIngestedType
<1>7. /\ \A x \in got : /\ normIngested'[x].raw = of(x)
                        /\ normIngested'[x].archive = IF archived THEN response ELSE {}
      /\ \A x \in NormRecords \ got : normIngested'[x] = normIngested[x]
  BY <1>1, <1>3
<1> HIDE DEF got, of, next
<1>8. NormRecordsProved(normIngested', normArchives', normRaced')
  <2>1. ASSUME NEW x \in NormRecords \ normRaced', normIngested'[x].archive # {}
        PROVE  /\ normIngested'[x].archive \in normArchives'
               /\ NormProof(x, normIngested'[x].raw, normIngested'[x].archive)
    <3>1. CASE x \in got
      BY <1>1, <1>3, <1>7, <2>1, <3>1 DEF NormProof
    <3>2. CASE x \notin got
      BY <1>2, <1>7, <2>1, <3>2 DEF NormInv, NormLineage, NormRecordsProved
    <3>3. QED
      BY <3>1, <3>2
  <2>2. QED
    BY <2>1 DEF NormRecordsProved
<1>9. ASSUME NEW p \in NormRuns
      PROVE  /\ NormFoundProved(normRun'[p].found, normIngested', normArchives', normRaced')
             /\ NormItemsProved(normRun'[p].input, normRaced')
  <2>1. /\ NormFoundProved(normRun[p].found, normIngested, normArchives, normRaced)
        /\ NormItemsProved(normRun[p].input, normRaced) /\ normRun' = normRun
    BY <1>1 DEF NormInv, NormLineage
  <2>2. ASSUME NEW f \in normRun[p].found, f.record \notin normRaced'
        PROVE  normIngested'[f.record].raw = normIngested[f.record].raw
    <3>1. f.record \in NormFilled(p) /\ f.record \in NormRecords
      BY <2>1 DEF NormFilled, NormFoundProved
    <3>2. f.record \notin got
      BY <1>1, <2>2, <3>1
    <3>3. QED
      BY <1>7, <3>1, <3>2
  <2>3. QED
    BY <1>2, <2>1, <2>2, NormOutlives, NormItemsOutlive
<1>10. NormItemsProved(normRows', normRaced')
  BY <1>1, <1>2, NormItemsOutlive DEF NormInv, NormLineage
<1>11. normRun' = [p \in NormRuns |-> normRun'[p]]
  BY <1>1 DEF NormInv, NormLineage
<1>12. NormLineage'
  <2>1. normArchives' \subseteq NormArchive
    BY <1>1 DEF NormInv, NormLineage
  <2>2. QED
    BY <1>6, <1>8, <1>9, <1>10, <1>11, <2>1 DEF NormLineage
<1>13. QED
  BY <1>1, <1>12, NormStoredSame DEF NormInv

\* Records change, but not what they hold; what they name is proved.
LEMMA NormRelinked ==
  ASSUME NormLineage, normIngested' \in NormIngestedType,
         UNCHANGED <<normArchives, normRaced>>,
         \A x \in NormRecords : normIngested'[x].raw = normIngested[x].raw,
         NormRecordsProved(normIngested', normArchives, normRaced),
         NormItemsProved(normRows', normRaced),
         normRun' = [p \in NormRuns |-> normRun'[p]],
         \A p \in NormRuns : normRun'[p] \in {normRun[p], NormIdle}
  PROVE  NormLineage'
<1>1. ASSUME NEW p \in NormRuns
      PROVE  /\ NormFoundProved(normRun'[p].found, normIngested', normArchives', normRaced')
             /\ NormItemsProved(normRun'[p].input, normRaced')
  <2>1. CASE normRun'[p] = NormIdle
    BY <2>1, NormIdleRun
  <2>2. CASE normRun'[p] = normRun[p]
    <3>1. /\ NormFoundProved(normRun[p].found, normIngested, normArchives, normRaced)
          /\ NormItemsProved(normRun[p].input, normRaced)
      BY DEF NormLineage
    <3>2. \A f \in normRun[p].found : normIngested'[f.record].raw = normIngested[f.record].raw
      BY <3>1 DEF NormFoundProved
    <3>3. NormFoundProved(normRun[p].found, normIngested', normArchives, normRaced)
      BY <3>1, <3>2, NormOutlives
    <3>4. QED
      BY <2>2, <3>1, <3>3
  <2>3. QED
    BY <2>1, <2>2
<1>2. QED
  BY <1>1 DEF NormLineage

LEMMA NormDeleteStep ==
  ASSUME NormInv, NEW x \in NormRecords, NormDelete(x) PROVE NormInv'
<1>1. /\ normIngested' = [normIngested EXCEPT ![x].deleted = TRUE]
      /\ UNCHANGED <<normArchives, normRaced, normRows, normDone, normRun>>
  BY DEF NormDelete, normStored
<1>2. normIngested \in NormIngestedType
  BY DEF NormInv, NormLineage
<1>3. /\ normIngested' \in NormIngestedType
      /\ \A y \in NormRecords : /\ normIngested'[y].raw = normIngested[y].raw
                                /\ normIngested'[y].archive = normIngested[y].archive
  BY <1>1, <1>2 DEF NormIngestedType
<1>4. NormRecordsProved(normIngested', normArchives, normRaced)
  BY <1>3 DEF NormInv, NormLineage, NormRecordsProved
<1>5. NormItemsProved(normRows', normRaced) /\ normRun' = [p \in NormRuns |-> normRun'[p]]
  BY <1>1 DEF NormInv, NormLineage
<1>6. NormLineage'
  BY <1>1, <1>3, <1>4, <1>5, NormRelinked DEF NormInv
<1>7. QED
  BY <1>1, <1>6, NormStoredSame DEF NormInv

LEMMA NormScanStep ==
  ASSUME NormInv, NEW p \in NormRuns, NormScan(p) PROVE NormInv'
<1> DEFINE missing == {x \in NormRecords : normIngested[x].raw # "none" /\ normIngested[x].archive = {}
                                             /\ NormCandidates(x) # {}}
           chosen(x) == CHOOSE file \in NormCandidates(x) : TRUE
           found == {[record |-> x, archive |-> chosen(x)] : x \in missing}
           r == [NormIdle EXCEPT !.pc = "fill", !.config = normConfig, !.found = found]
<1>1. /\ normRun' = [normRun EXCEPT ![p] = r]
      /\ UNCHANGED <<normIngested, normArchives, normRaced, normRows, normDone>>
  BY DEF NormScan, NormSet, normWorld, normStored
<1>2. r.found = found /\ r.input = {}
  BY DEF NormIdle
<1>3. NormFoundProved(found, normIngested, normArchives, normRaced)
  <2>1. ASSUME NEW f \in found
        PROVE  /\ f.record \in NormRecords /\ f.archive \in normArchives /\ f.archive \in NormArchive
               /\ NormProof(f.record, normIngested[f.record].raw, f.archive)
    <3>1. PICK x \in missing : f = [record |-> x, archive |-> chosen(x)]
      OBVIOUS
    <3>2. f.record = x /\ f.archive \in NormCandidates(x) /\ x \in NormRecords
      BY <3>1
    <3>3. f.archive \in normArchives /\ NormProof(f.record, normIngested[f.record].raw, f.archive)
      BY <3>2 DEF NormCandidates, NormProof
    <3>4. QED
      BY <3>2, <3>3 DEF NormInv, NormLineage
  <2>2. ASSUME NEW f \in found, NEW g \in found, f.record = g.record PROVE f = g
    <3> HIDE DEF chosen, missing
    <3>1. PICK x \in missing : f = [record |-> x, archive |-> chosen(x)]
      OBVIOUS
    <3>2. PICK y \in missing : g = [record |-> y, archive |-> chosen(y)]
      OBVIOUS
    <3>3. x = y
      BY <2>2, <3>1, <3>2
    <3>4. QED
      BY <3>1, <3>2, <3>3
  <2>3. QED
    BY <2>1, <2>2 DEF NormFoundProved
<1>4. NormItemsProved({}, normRaced)
  BY DEF NormItemsProved
<1> HIDE DEF r, found
<1>5. NormFoundProved(r.found, normIngested, normArchives, normRaced) /\ NormItemsProved(r.input, normRaced)
  BY <1>2, <1>3, <1>4
<1>6. QED
  BY <1>1, <1>5, NormRunMoves

\* The rows as a backfill leaves them.
LEMMA NormFillProved ==
  ASSUME NormLineage, NEW p \in NormRuns
  PROVE  /\ NormFill(p) \in NormIngestedType
         /\ NormRecordsProved(NormFill(p), normArchives, normRaced)
         /\ \A x \in NormRecords : NormFill(p)[x].raw = normIngested[x].raw
<1> DEFINE of(x) == CHOOSE f \in normRun[p].found : f.record = x
<1>1. /\ normIngested \in NormIngestedType
      /\ NormFoundProved(normRun[p].found, normIngested, normArchives, normRaced)
      /\ NormRecordsProved(normIngested, normArchives, normRaced)
  BY DEF NormLineage
<1>2. ASSUME NEW x \in NormRecords, x \in NormFilled(p)
      PROVE  /\ of(x).archive \in NormArchive
             /\ x \notin normRaced => /\ of(x).archive \in normArchives
                                     /\ NormProof(x, normIngested[x].raw, of(x).archive)
             /\ NormFill(p)[x] = [normIngested[x] EXCEPT !.archive = of(x).archive]
  <2>1. \E f \in normRun[p].found : f.record = x
    BY <1>2 DEF NormFilled
  <2>2. of(x) \in normRun[p].found /\ of(x).record = x
    BY <2>1
  <2>3. NormFill(p)[x] = [normIngested[x] EXCEPT !.archive = of(x).archive]
    BY <1>2 DEF NormFill
  <2> HIDE DEF of
  <2>4. QED
    BY <1>1, <2>2, <2>3 DEF NormFoundProved
<1>3. \A x \in NormRecords : x \notin NormFilled(p) => NormFill(p)[x] = normIngested[x]
  BY DEF NormFill
<1> HIDE DEF of
<1>4. ASSUME NEW x \in NormRecords
      PROVE  /\ NormFill(p)[x] \in [raw : NormRaws \cup {"none"}, archive : NormArchive, deleted : BOOLEAN]
             /\ NormFill(p)[x].raw = normIngested[x].raw
  BY <1>1, <1>2, <1>3 DEF NormIngestedType
<1>5. NormFill(p) \in NormIngestedType
  <2>1. NormFill(p) = [x \in NormRecords |-> NormFill(p)[x]]
    BY DEF NormFill
  <2>2. QED
    BY <1>4, <2>1 DEF NormIngestedType
<1>6. ASSUME NEW x \in NormRecords \ normRaced, NormFill(p)[x].archive # {}
      PROVE  /\ NormFill(p)[x].archive \in normArchives
             /\ NormProof(x, NormFill(p)[x].raw, NormFill(p)[x].archive)
  <2>1. CASE x \in NormFilled(p)
    <3>1. NormFill(p)[x].archive = of(x).archive
      BY <1>1, <1>2, <2>1 DEF NormIngestedType
    <3>2. QED
      BY <1>2, <1>4, <2>1, <3>1
  <2>2. CASE x \notin NormFilled(p)
    BY <1>1, <1>3, <1>6, <2>2 DEF NormRecordsProved
  <2>3. QED
    BY <2>1, <2>2
<1>7. NormRecordsProved(NormFill(p), normArchives, normRaced)
  BY <1>6 DEF NormRecordsProved
<1>8. QED
  BY <1>4, <1>5, <1>7

LEMMA NormReadStep ==
  ASSUME NormInv, NEW p \in NormRuns, NormRead(p) PROVE NormInv'
<1> DEFINE seen == NormFill(p)
           active == {x \in NormRecords : seen[x].raw # "none" /\ ~seen[x].deleted}
           input == {[record |-> x, raw |-> seen[x].raw, archive |-> seen[x].archive] : x \in active}
           r == [normRun[p] EXCEPT !.pc = "store", !.input = input]
<1>1. /\ normRun' = [normRun EXCEPT ![p] = r]
      /\ UNCHANGED <<normIngested, normArchives, normRaced, normRows, normDone>>
  BY DEF NormRead, NormSet, normWorld, normStored
<1>2. r.found = normRun[p].found /\ (r.input = input \/ r.input = normRun[p].input)
  OBVIOUS
<1>3. NormRecordsProved(seen, normArchives, normRaced)
  BY NormFillProved DEF NormInv
<1> HIDE DEF seen
<1>4. NormItemsProved(input, normRaced)
  BY <1>3 DEF NormItemsProved, NormRecordsProved
<1> HIDE DEF r, input
<1>5. /\ NormFoundProved(normRun[p].found, normIngested, normArchives, normRaced)
      /\ NormItemsProved(normRun[p].input, normRaced)
  BY DEF NormInv, NormLineage
<1>6. NormFoundProved(r.found, normIngested, normArchives, normRaced) /\ NormItemsProved(r.input, normRaced)
  BY <1>2, <1>4, <1>5
<1>7. QED
  BY <1>1, <1>6, NormRunMoves

\* The versions of a run are as well proved as its inputs.
LEMMA NormDocumentsProved ==
  ASSUME NEW input, NEW config, NEW raced, NormItemsProved(input, raced)
  PROVE  NormItemsProved(NormDocuments(input, config), raced)
BY DEF NormItemsProved, NormDocuments, NormVersion

\* The memberships account for the input, whatever was stored before.
LEMMA NormMembersAccount ==
  ASSUME NEW input, NEW config, NEW rows, NormDocuments(input, config) \subseteq rows,
         NEW run, run.input = input, run.config = config, run.members = NormMembers(input, config)
  PROVE  NormAccount(run, rows)
<1> DEFINE disposition(item) ==
             IF item.record \notin NormProfiled[config] THEN "unconfigured"
             ELSE IF NormVersion(item, config) \in normRows THEN "normalized_reused"
             ELSE "normalized_new"
           member(item) == NormMember(item, config, disposition(item))
<1>1. run.members = {member(item) : item \in input}
  BY DEF NormMembers
<1>2. ASSUME NEW item \in input
      PROVE  /\ member(item).record = item.record /\ member(item).raw = item.raw
             /\ member(item).disposition = "unconfigured" <=> member(item).version = {}
             /\ member(item).version \subseteq rows
             /\ \A version \in member(item).version :
                  NormColumns(version) = <<member(item).record, member(item).raw, config>>
  <2>1. CASE item.record \in NormProfiled[config]
    <3>1. /\ member(item).version = {NormVersion(item, config)}
          /\ member(item).disposition # "unconfigured"
          /\ member(item).record = item.record /\ member(item).raw = item.raw
      BY <2>1 DEF NormMember
    <3>2. NormVersion(item, config) \in rows
      BY <2>1 DEF NormDocuments
    <3>3. NormColumns(NormVersion(item, config)) = <<item.record, item.raw, config>>
      BY DEF NormColumns, NormVersion
    <3> HIDE DEF member
    <3>4. QED
      BY <3>1, <3>2, <3>3
  <2>2. CASE item.record \notin NormProfiled[config]
    BY <2>2 DEF NormMember
  <2>3. QED
    BY <2>1, <2>2
<1> HIDE DEF member
<1>3. {[record |-> m.record, raw |-> m.raw] : m \in run.members}
        = {[record |-> i.record, raw |-> i.raw] : i \in input}
  BY <1>1, <1>2
<1>4. \A m \in run.members :
        /\ m.disposition = "unconfigured" <=> m.version = {}
        /\ m.version \subseteq rows
        /\ \A version \in m.version : NormColumns(version) = <<m.record, m.raw, config>>
  BY <1>1, <1>2
<1>5. QED
  BY <1>3, <1>4 DEF NormAccount

\* Rows are only added to.
LEMMA NormAccountStays ==
  ASSUME NEW run, NEW rows, NEW rowsNew, rows \subseteq rowsNew, NormRunStored(run, rows)
  PROVE  NormRunStored(run, rowsNew)
<1>1. NormAccount(run, rowsNew)
  BY DEF NormRunStored, NormAccount
<1>2. QED
  BY <1>1 DEF NormRunStored

LEMMA NormStoreStep ==
  ASSUME NormInv, NEW p \in NormRuns, NormStore(p) PROVE NormInv'
<1> DEFINE r == normRun[p]
           documents == NormDocuments(r.input, r.config)
           run == [config |-> r.config, input |-> r.input,
                   members |-> IF normMembered THEN NormMembers(r.input, r.config) ELSE {}]
<1>1. /\ normRows' = normRows \cup documents
      /\ normDone' = normDone \cup {run}
      /\ normIngested' = NormFill(p)
      /\ normRun' = [normRun EXCEPT ![p] = NormIdle]
      /\ UNCHANGED <<normArchives, normRaced>>
  BY DEF NormStore, NormSet, normWorld
<1>2. NormItemsProved(r.input, normRaced) /\ NormItemsProved(normRows, normRaced)
  BY DEF NormInv, NormLineage
<1>3. NormItemsProved(documents, normRaced)
  BY <1>2, NormDocumentsProved
<1>4. NormItemsProved(normRows', normRaced)
  BY <1>1, <1>2, <1>3 DEF NormItemsProved
<1>5. /\ normIngested' \in NormIngestedType
      /\ NormRecordsProved(normIngested', normArchives, normRaced)
      /\ \A x \in NormRecords : normIngested'[x].raw = normIngested[x].raw
  BY <1>1, NormFillProved DEF NormInv
<1>6. /\ normRun' = [q \in NormRuns |-> normRun'[q]]
      /\ \A q \in NormRuns : normRun'[q] \in {normRun[q], NormIdle}
  BY <1>1 DEF NormInv, NormLineage
<1>7. NormLineage'
  BY <1>1, <1>4, <1>5, <1>6, NormRelinked DEF NormInv
<1>8. NormRunStored(run, normRows')
  <2>1. run = [config |-> run.config, input |-> run.input, members |-> run.members]
    OBVIOUS
  <2>2. NormDocuments(run.input, run.config) \subseteq normRows'
    BY <1>1
  <2>3. NormAccount(run, normRows')
    <3>1. CASE normMembered
      <4>1. run.members = NormMembers(run.input, run.config)
        BY <3>1
      <4> HIDE DEF run
      <4>2. QED
        BY <2>2, <4>1, NormMembersAccount
    <3>2. CASE ~normMembered
      BY <3>2 DEF NormAccount
    <3>3. QED
      BY <3>1, <3>2
  <2>4. QED
    BY <2>1, <2>2, <2>3 DEF NormRunStored
<1> HIDE DEF run, documents
<1>9. \A old \in normDone : NormRunStored(old, normRows')
  <2>1. normRows \subseteq normRows'
    BY <1>1
  <2>2. QED
    BY <2>1, NormAccountStays DEF NormInv, NormStoredWhole
<1>10. NormStoredWhole'
  BY <1>1, <1>8, <1>9 DEF NormStoredWhole
<1>11. QED
  BY <1>7, <1>10 DEF NormInv

LEMMA NormReplayStep ==
  ASSUME NormInv, NEW p \in NormRuns, NormReplay(p) PROVE NormInv'
<1> DEFINE r == normRun[p]
<1>1. PICK run \in NormSame(p) :
        LET rebuild == normMembered /\ run.members = {} /\ run.input # {} IN
        /\ normDone' = IF rebuild
                       THEN (normDone \ {run}) \cup {[run EXCEPT !.members = NormMembers(r.input, r.config)]}
                       ELSE normDone
        /\ normIngested' = IF rebuild THEN NormFill(p) ELSE normIngested
  BY DEF NormReplay
<1>2. /\ normRun' = [normRun EXCEPT ![p] = NormIdle]
      /\ UNCHANGED <<normArchives, normRaced, normRows>>
  BY DEF NormReplay, NormSet, normWorld
<1>3. run \in normDone /\ run.config = r.config /\ run.input = r.input /\ NormRunStored(run, normRows)
  BY DEF NormSame, NormInv, NormStoredWhole
<1> DEFINE rebuilt == [run EXCEPT !.members = NormMembers(r.input, r.config)]
<1>4. /\ rebuilt.config = run.config /\ rebuilt.input = run.input
      /\ rebuilt.members = NormMembers(run.input, run.config)
      /\ rebuilt = [config |-> rebuilt.config, input |-> rebuilt.input, members |-> rebuilt.members]
  BY <1>3 DEF NormRunStored
<1>5. normDone' \subseteq normDone \cup {rebuilt}
  BY <1>1
<1>6. normIngested' \in {normIngested, NormFill(p)}
  BY <1>1
<1> HIDE DEF rebuilt
<1>7. NormRunStored(rebuilt, normRows)
  <2>1. NormDocuments(rebuilt.input, rebuilt.config) \subseteq normRows
    BY <1>3, <1>4 DEF NormRunStored
  <2>2. NormAccount(rebuilt, normRows)
    BY <1>4, <2>1, NormMembersAccount
  <2>3. QED
    BY <1>4, <2>1, <2>2 DEF NormRunStored
<1>8. NormStoredWhole'
  BY <1>2, <1>5, <1>7 DEF NormStoredWhole, NormInv
<1>9. /\ normIngested' \in NormIngestedType
      /\ NormRecordsProved(normIngested', normArchives, normRaced)
      /\ \A x \in NormRecords : normIngested'[x].raw = normIngested[x].raw
  <2>1. CASE normIngested' = normIngested
    BY <2>1 DEF NormInv, NormLineage
  <2>2. CASE normIngested' = NormFill(p)
    BY <2>2, NormFillProved DEF NormInv
  <2>3. QED
    BY <1>6, <2>1, <2>2
<1>10. /\ normRun' = [q \in NormRuns |-> normRun'[q]]
       /\ \A q \in NormRuns : normRun'[q] \in {normRun[q], NormIdle}
       /\ NormItemsProved(normRows', normRaced)
  BY <1>2 DEF NormInv, NormLineage
<1>11. NormLineage'
  BY <1>2, <1>9, <1>10, NormRelinked DEF NormInv
<1>12. QED
  BY <1>8, <1>11 DEF NormInv

LEMMA NormRollbackStep ==
  ASSUME NormInv, NEW p \in NormRuns, NormRollback(p) PROVE NormInv'
<1>1. /\ normRun' = [normRun EXCEPT ![p] = NormIdle]
      /\ UNCHANGED <<normIngested, normArchives, normRaced, normRows, normDone>>
  BY DEF NormRollback, NormSet, normWorld, normStored
<1>2. QED
  BY <1>1, NormIdleRun, NormRunMoves

LEMMA NormInvHolds == NormSpec => []NormInv
<1>1. ASSUME NormInit PROVE NormInv
  <2>1. /\ normIngested = [x \in NormRecords |-> NormAbsent] /\ normArchives = {}
        /\ normRows = {} /\ normDone = {} /\ normRun = [p \in NormRuns |-> NormIdle]
        /\ normRaced = {}
    BY <1>1 DEF NormInit
  <2>2. NormAbsent \in [raw : NormRaws \cup {"none"}, archive : NormArchive, deleted : BOOLEAN]
    BY DEF NormAbsent, NormArchive
  <2>3. normIngested \in NormIngestedType /\ \A x \in NormRecords : normIngested[x].archive = {}
    BY <2>1, <2>2 DEF NormIngestedType, NormAbsent
  <2>4. NormRecordsProved(normIngested, normArchives, normRaced) /\ NormItemsProved(normRows, normRaced)
    BY <2>1, <2>3 DEF NormRecordsProved, NormItemsProved
  <2>5. normRun = [p \in NormRuns |-> normRun[p]] /\ \A p \in NormRuns : normRun[p] = NormIdle
    BY <2>1
  <2>6. NormLineage
    BY <2>1, <2>3, <2>4, <2>5, NormIdleRun DEF NormLineage
  <2>7. QED
    BY <2>1, <2>6 DEF NormInv, NormStoredWhole
<1>2. ASSUME NormInv,
             UNCHANGED <<normIngested, normArchives, normRaced, normRows, normDone, normRun>>
      PROVE  NormInv'
  BY <1>2 DEF NormInv, NormLineage, NormStoredWhole
<1>3. NormInv /\ (NormConfigure \/ NormUpgrade \/ UNCHANGED normVars) => NormInv'
  BY <1>2 DEF NormConfigure, NormUpgrade, normVars, normStored
<1>4. NormInv /\ [NormNext]_normVars => NormInv'
  BY <1>3, NormCollectStep, NormDeleteStep, NormScanStep, NormReadStep, NormStoreStep,
     NormReplayStep, NormRollbackStep DEF NormNext
<1>5. QED
  BY <1>1, <1>4, PTL DEF NormSpec

\* What a record or a version names in the archive is proved by it, and every
\* run accounts for all of its input: for any records, contents, versions of
\* the configuration and runs at once (normalization/repository.py, lineage.py).
THEOREM NormalizationTrue == NormSpec => []NormTrue
<1>1. ASSUME NormInv PROVE NormLineageProved
  <2>1. /\ NormRecordsProved(normIngested, normArchives, normRaced)
        /\ NormItemsProved(normRows, normRaced)
    BY <1>1 DEF NormInv, NormLineage
  <2>2. QED
    BY <2>1 DEF NormLineageProved, NormRecordsProved, NormItemsProved, NormProof
<1>2. NormInv => NormAccounted
  BY DEF NormInv, NormStoredWhole, NormRunStored, NormAccount, NormAccounted
<1>3. QED
  BY <1>1, <1>2, NormInvHolds, PTL DEF NormTrue
-----------------------------------------------------------------------------
(* Duplicate groups.  The parents only go down, so a climb ends at the     *)
(* root of its tree; a union joins two trees and changes no other; and a   *)
(* tree is always linked by alike documents.                               *)
LEMMA DupSmallest ==
  ASSUME NEW S, S \subseteq Nat, S # {}
  PROVE  \E n \in S : \A m \in S : n <= m
<1> DEFINE less == OpToRel(<, Nat)
<1>1. PICK n \in S : \A m \in S : <<m, n>> \notin less
  BY NatLessThanWellFounded, WFMin
<1>2. \A m \in Nat : m < n => <<m, n>> \in less
  <2> SUFFICES ASSUME NEW m \in Nat, m < n PROVE <<m, n>> \in less
      OBVIOUS
  <2>1. <<m, n>> \in Nat \X Nat /\ <<m, n>>[1] = m /\ <<m, n>>[2] = n
    OBVIOUS
  <2> QED BY <2>1, Zenon DEF OpToRel
<1> HIDE DEF less
<1>3. \A m \in S : ~(m < n)
  BY <1>1, <1>2, Zenon
<1> QED BY <1>3

DupForest(parent) ==
  /\ parent \in [DupIds -> DupIds]
  /\ \A d \in DupIds : parent[d] <= d

\* The climb from d: what the loop of find passes.
DupClimb(parent, d, f, n) ==
  /\ f \in [0..n -> DupIds]
  /\ f[0] = d
  /\ \A k \in 1..n : f[k] = parent[f[k - 1]]

LEMMA DupClimbs ==
  ASSUME NEW parent, DupForest(parent), NEW d \in DupIds, NEW n \in Nat
  PROVE  \E f : DupClimb(parent, d, f, n)
<1> DEFINE bad == {m \in Nat : ~\E f : DupClimb(parent, d, f, m)}
<1> SUFFICES ASSUME bad # {} PROVE FALSE
    OBVIOUS
<1>1. PICK m \in bad : \A k \in bad : m <= k
  BY DupSmallest, bad \subseteq Nat
<1>2. CASE m = 0
  <2>1. DupClimb(parent, d, [k \in 0..0 |-> d], 0)
    BY DEF DupClimb
  <2> QED BY <1>1, <1>2, <2>1
<1>3. CASE m # 0
  <2>1. m - 1 \in Nat /\ m - 1 \notin bad
    BY <1>1, <1>3
  <2>2. PICK f : DupClimb(parent, d, f, m - 1)
    BY <2>1
  <2> DEFINE g == [k \in 0..m |-> IF k = m THEN parent[f[m - 1]] ELSE f[k]]
  <2>3. f \in [0..(m - 1) -> DupIds] /\ m \in Nat /\ m - 1 \in 0..(m - 1)
    BY <2>1, <2>2, <1>1, <1>3 DEF DupClimb
  <2>4. parent[f[m - 1]] \in DupIds
    BY <2>3 DEF DupForest
  <2>5. \A k \in 0..m : k = m \/ k \in 0..(m - 1)
    BY <2>3
  <2>6. g \in [0..m -> DupIds]
    BY <2>3, <2>4, <2>5
  <2>7. g[0] = d
    BY <2>2, <2>3, <1>3 DEF DupClimb
  <2>8. \A k \in 1..m : g[k] = parent[g[k - 1]]
    <3> SUFFICES ASSUME NEW k \in 1..m PROVE g[k] = parent[g[k - 1]]
        OBVIOUS
    <3>1. k \in 0..m /\ k - 1 \in 0..m /\ k - 1 # m /\ g[k - 1] = f[k - 1]
      BY <2>3
    <3>2. CASE k = m
      BY <3>1, <3>2
    <3>3. CASE k # m
      BY <2>2, <2>3, <3>1, <3>3 DEF DupClimb
    <3> QED BY <3>2, <3>3
  <2> HIDE DEF g
  <2>9. DupClimb(parent, d, g, m)
    BY <2>6, <2>7, <2>8 DEF DupClimb
  <2> QED BY <1>1, <2>9
<1> QED BY <1>2, <1>3

\* Two climbs from one document are the same.
LEMMA DupClimbOnce ==
  ASSUME NEW parent, NEW d, NEW n \in Nat, NEW f, NEW g,
         DupClimb(parent, d, f, n),
         g[0] = d, \A k \in 1..n : g[k] = parent[g[k - 1]]
  PROVE  \A k \in 0..n : g[k] = f[k]
<1> DEFINE bad == {k \in 0..n : g[k] # f[k]}
<1> SUFFICES ASSUME bad # {} PROVE FALSE
    OBVIOUS
<1>1. PICK k \in bad : \A j \in bad : k <= j
  BY DupSmallest, bad \subseteq Nat
<1>2. k \in 0..n /\ k # 0
  BY <1>1 DEF DupClimb
<1>3. k \in 1..n /\ k - 1 \in 0..n /\ k - 1 \notin bad
  BY <1>1, <1>2
<1> QED BY <1>1, <1>3 DEF DupClimb

LEMMA DupRootIs ==
  ASSUME NEW parent, DupForest(parent), NEW d \in DupIds, NEW f,
         DupClimb(parent, d, f, DupDocs)
  PROVE  DupRoot(parent, d) = f[DupDocs]
<1> DEFINE Steps(g) == g = [n \in 0..DupDocs |-> IF n = 0 THEN d ELSE parent[g[n - 1]]]
           climb == CHOOSE g : Steps(g)
<1>1. DupDocs \in Nat
  BY DupAssumption DEF DupAssumption
<1>2. Steps(f)
  <2>1. f = [n \in 0..DupDocs |-> f[n]]
    BY DEF DupClimb
  <2>2. \A n \in 0..DupDocs : f[n] = IF n = 0 THEN d ELSE parent[f[n - 1]]
    BY <1>1 DEF DupClimb
  <2> QED BY <2>1, <2>2
<1>3. Steps(climb)
  BY <1>2
<1>4. climb[0] = d /\ \A k \in 1..DupDocs : climb[k] = parent[climb[k - 1]]
  <2> HIDE DEF climb
  <2> QED BY <1>1, <1>3
<1>5. DupRoot(parent, d) = climb[DupDocs]
  BY DEF DupRoot
<1> HIDE DEF climb
<1>6. climb[DupDocs] = f[DupDocs]
  BY <1>1, <1>4, DupClimbOnce
<1> QED BY <1>5, <1>6

\* A climb ends at a root.
LEMMA DupClimbEnds ==
  ASSUME NEW parent, DupForest(parent), NEW d \in DupIds, NEW f,
         DupClimb(parent, d, f, DupDocs)
  PROVE  f[DupDocs] \in DupIds /\ parent[f[DupDocs]] = f[DupDocs]
<1> DEFINE bad == {k \in 0..DupDocs : parent[f[k]] # f[k] /\ f[k] + k > d}
<1>1. DupDocs \in Nat /\ f \in [0..DupDocs -> DupIds]
  BY DupAssumption DEF DupAssumption, DupClimb
<1>2. bad = {}
  <2> SUFFICES ASSUME bad # {} PROVE FALSE
      OBVIOUS
  <2>1. PICK k \in bad : \A j \in bad : k <= j
    BY DupSmallest, bad \subseteq Nat
  <2>2. k \in 0..DupDocs /\ k # 0
    BY <2>1, <1>1 DEF DupClimb, DupIds
  <2>3. k \in 1..DupDocs /\ k - 1 \in 0..DupDocs /\ k - 1 \notin bad
    <3> HIDE DEF bad
    <3> QED BY <2>1, <2>2, <1>1
  <2>4. f[k] = parent[f[k - 1]]
    BY <2>3 DEF DupClimb
  <2>5. f[k - 1] \in DupIds /\ f[k] \in DupIds /\ f[k] <= f[k - 1]
    BY <1>1, <2>2, <2>3, <2>4 DEF DupForest
  <2>6. f[k] # f[k - 1]
    BY <2>1, <2>4
  <2>7. f[k - 1] + (k - 1) <= d
    BY <2>3, <2>4, <2>5, <2>6 DEF DupIds
  <2> QED BY <2>1, <2>2, <2>5, <2>6, <2>7 DEF DupIds
<1>3. f[DupDocs] \in DupIds /\ DupDocs \notin bad /\ DupDocs \in 0..DupDocs
  BY <1>1, <1>2
<1> QED BY <1>1, <1>3 DEF DupIds

LEMMA DupRootEnds ==
  ASSUME NEW parent, DupForest(parent), NEW d \in DupIds
  PROVE  DupRoot(parent, d) \in DupIds /\ parent[DupRoot(parent, d)] = DupRoot(parent, d)
<1>1. PICK f : DupClimb(parent, d, f, DupDocs)
  BY DupClimbs, DupAssumption DEF DupAssumption
<1> QED BY <1>1, DupRootIs, DupClimbEnds

\* A root is its own root; a document has the root of its parent.
LEMMA DupRootFix ==
  ASSUME NEW parent, DupForest(parent), NEW d \in DupIds, parent[d] = d
  PROVE  DupRoot(parent, d) = d
<1> DEFINE f == [k \in 0..DupDocs |-> d]
<1>1. DupClimb(parent, d, f, DupDocs)
  BY DupAssumption DEF DupClimb, DupAssumption
<1>2. f[DupDocs] = d
  BY DupAssumption DEF DupAssumption
<1> HIDE DEF f
<1> QED BY <1>1, <1>2, DupRootIs

LEMMA DupRootStep ==
  ASSUME NEW parent, DupForest(parent), NEW d \in DupIds
  PROVE  DupRoot(parent, d) = DupRoot(parent, parent[d])
<1>1. DupDocs \in Nat /\ DupDocs # 0 /\ parent[d] \in DupIds
  BY DupAssumption DEF DupAssumption, DupIds, DupForest
<1>2. PICK f : DupClimb(parent, d, f, DupDocs)
  BY <1>1, DupClimbs
<1> DEFINE g == [k \in 0..DupDocs |-> parent[f[k]]]
<1>3. f \in [0..DupDocs -> DupIds] /\ f[0] = d /\ \A k \in 1..DupDocs : f[k] = parent[f[k - 1]]
  BY <1>2 DEF DupClimb
<1>4. DupClimb(parent, parent[d], g, DupDocs)
  <2>1. g \in [0..DupDocs -> DupIds]
    BY <1>3 DEF DupForest
  <2>2. g[0] = parent[d]
    BY <1>1, <1>3
  <2>3. \A k \in 1..DupDocs : g[k] = parent[g[k - 1]]
    <3> SUFFICES ASSUME NEW k \in 1..DupDocs PROVE g[k] = parent[g[k - 1]]
        OBVIOUS
    <3>1. k \in 0..DupDocs /\ k - 1 \in 0..DupDocs
      BY <1>1
    <3> QED BY <1>3, <3>1
  <2> HIDE DEF g
  <2> QED BY <2>1, <2>2, <2>3 DEF DupClimb
<1>5. g[DupDocs] = f[DupDocs]
  BY <1>1, <1>2, DupClimbEnds
<1> HIDE DEF g
<1> QED BY <1>1, <1>2, <1>4, <1>5, DupRootIs
-----------------------------------------------------------------------------
(* Pairs and the smallest of two.                                          *)
DupPairs == {pair \in [first : DupIds, second : DupIds] : pair.first < pair.second}

LEMMA DupMinIs ==
  ASSUME NEW S, S \subseteq Nat, S # {}
  PROVE  Min(S) \in S /\ \A n \in S : Min(S) <= n
<1>1. \E n \in S : \A m \in S : n <= m
  BY DupSmallest
<1> QED BY <1>1 DEF Min

LEMMA DupOrdered ==
  ASSUME NEW a \in Nat, NEW b \in Nat, a <= b
  PROVE  /\ Min({a, b}) = a /\ Max({a, b}) = b
         /\ Min({b, a}) = a /\ Max({b, a}) = b
<1>1. {a, b} = {b, a}
  OBVIOUS
<1>2. Min({a, b}) = a
  BY DupMinIs, {a, b} \subseteq Nat
<1>3. Max({a, b}) = b
  <2>1. \E x \in {a, b} : \A y \in {a, b} : x >= y
    OBVIOUS
  <2>2. Max({a, b}) \in {a, b} /\ \A y \in {a, b} : Max({a, b}) >= y
    BY <2>1 DEF Max
  <2> QED BY <2>2
<1> QED BY <1>1, <1>2, <1>3

LEMMA DupPairIs ==
  ASSUME NEW a \in DupIds, NEW b \in DupIds
  PROVE  /\ DupPair(a, b) = DupPair(b, a)
         /\ a <= b => DupPair(a, b) = [first |-> a, second |-> b]
         /\ a # b => DupPair(a, b) \in DupPairs
<1>1. a \in Nat /\ b \in Nat
  BY DEF DupIds
<1>2. a <= b => DupPair(a, b) = [first |-> a, second |-> b]
  BY <1>1, DupOrdered DEF DupPair
<1>3. b <= a => DupPair(a, b) = [first |-> b, second |-> a]
  BY <1>1, DupOrdered DEF DupPair
<1>4. DupPair(a, b) = DupPair(b, a)
  BY {a, b} = {b, a} DEF DupPair
<1>5. a # b => DupPair(a, b) \in DupPairs
  <2>1. CASE a < b
    BY <1>1, <1>2, <2>1 DEF DupPairs
  <2>2. CASE b < a
    BY <1>1, <1>3, <2>2 DEF DupPairs
  <2> QED BY <1>1, <2>1, <2>2
<1> QED BY <1>2, <1>4, <1>5

\* The loops take a pair while there is one.
LEMMA DupFirstIs == dupTodo # {} /\ dupTodo \subseteq DupPairs => DupFirst \in dupTodo
<1> SUFFICES ASSUME dupTodo # {}, dupTodo \subseteq DupPairs PROVE DupFirst \in dupTodo
    OBVIOUS
<1> DEFINE firsts == {pair.first : pair \in dupTodo}
<1>1. firsts \subseteq Nat /\ firsts # {}
  BY DEF DupPairs, DupIds
<1>2. PICK first \in firsts : \A n \in firsts : first <= n
  BY <1>1, DupSmallest
<1> DEFINE seconds == {pair.second : pair \in {other \in dupTodo : other.first = first}}
<1>3. seconds \subseteq Nat /\ seconds # {}
  BY <1>2 DEF DupPairs, DupIds
<1>4. PICK second \in seconds : \A n \in seconds : second <= n
  BY <1>3, DupSmallest
<1>5. PICK pair \in dupTodo : pair.first = first /\ pair.second = second
  BY <1>4
<1>6. \A other \in dupTodo :
        pair.first < other.first \/ (pair.first = other.first /\ pair.second <= other.second)
  <2> SUFFICES ASSUME NEW other \in dupTodo, other.first # first
               PROVE  first < other.first
      BY <1>4, <1>5
  <2>1. other.first \in firsts
    OBVIOUS
  <2> HIDE DEF firsts, seconds
  <2>2. first \in Nat /\ other.first \in Nat /\ first <= other.first
    BY <1>1, <1>2, <2>1
  <2> QED BY <2>2
<1> QED BY <1>6 DEF DupFirst
-----------------------------------------------------------------------------
(* A union.                                                                *)
DupSame(parent, a, b) == DupRoot(parent, a) = DupRoot(parent, b)
DupClass(parent, root) == {d \in DupIds : DupRoot(parent, d) = root}

DupNear(doc, a, b) ==
  /\ doc[a].hash # <<>> /\ doc[b].hash # <<>>
  /\ Cardinality({band \in DupBands : doc[a].hash[band] # doc[b].hash[band]}) <= DupDistance
DupLike(doc, a, b) == doc[a].print = doc[b].print \/ DupNear(doc, a, b)

DupLinked(doc, members) ==
  \A some \in (SUBSET members) \ {{}, members} :
    \E a \in some, b \in members \ some : DupLike(doc, a, b)

LEMMA DupLikeTurns == ASSUME NEW doc, NEW a, NEW b, DupLike(doc, a, b) PROVE DupLike(doc, b, a)
<1>1. {band \in DupBands : doc[a].hash[band] # doc[b].hash[band]} =
        {band \in DupBands : doc[b].hash[band] # doc[a].hash[band]}
  OBVIOUS
<1> QED BY <1>1 DEF DupLike, DupNear

LEMMA DupLinkedJoin ==
  ASSUME NEW doc, NEW A, NEW B, DupLinked(doc, A), DupLinked(doc, B),
         NEW a \in A, NEW b \in B, DupLike(doc, a, b)
  PROVE  DupLinked(doc, A \cup B)
<1> SUFFICES ASSUME NEW some \in SUBSET (A \cup B), some # {}, some # A \cup B
             PROVE  \E x \in some, y \in (A \cup B) \ some : DupLike(doc, x, y)
    BY DEF DupLinked
<1>1. CASE some \cap A # {} /\ some \cap A # A
  <2> DEFINE inner == some \cap A
  <2>1. inner \in (SUBSET A) \ {{}, A}
    BY <1>1
  <2>2. PICK x \in inner, y \in A \ inner : DupLike(doc, x, y)
    BY <2>1 DEF DupLinked
  <2> QED BY <2>2
<1>2. CASE some \cap B # {} /\ some \cap B # B
  <2> DEFINE inner == some \cap B
  <2>1. inner \in (SUBSET B) \ {{}, B}
    BY <1>2
  <2>2. PICK x \in inner, y \in B \ inner : DupLike(doc, x, y)
    BY <2>1 DEF DupLinked
  <2> QED BY <2>2
<1>3. CASE some \cap A \in {{}, A} /\ some \cap B \in {{}, B}
  <2>1. CASE a \in some
    <3>1. b \notin some
      BY <1>3, <2>1
    <3> QED BY <2>1, <3>1
  <2>2. CASE a \notin some
    <3>1. b \in some
      BY <1>3, <2>2
    <3> QED BY <2>2, <3>1, DupLikeTurns
  <2> QED BY <2>1, <2>2
<1> QED BY <1>1, <1>2, <1>3

\* A root goes under a smaller one: its tree joins the other.
DupHung(parent, new, low, high) ==
  /\ DupForest(new)
  /\ \A d \in DupIds : DupRoot(new, d) =
       IF DupRoot(parent, d) = high THEN low ELSE DupRoot(parent, d)

LEMMA DupHangs ==
  ASSUME NEW parent, DupForest(parent), NEW low \in DupIds, NEW high \in DupIds, low < high,
         parent[low] = low, parent[high] = high, NEW new, new = [parent EXCEPT ![high] = low]
  PROVE  DupHung(parent, new, low, high)
<1> DEFINE Moved(d) == IF DupRoot(parent, d) = high THEN low ELSE DupRoot(parent, d)
           bad == {d \in DupIds : DupRoot(new, d) # Moved(d)}
<1>1. /\ parent \in [DupIds -> DupIds] /\ DupIds \subseteq Nat
      /\ \A d \in DupIds : parent[d] <= d
  BY DEF DupForest, DupIds
<1>2. new \in [DupIds -> DupIds] /\ new[high] = low /\ \A d \in DupIds \ {high} : new[d] = parent[d]
  BY <1>1
<1>3. DupForest(new)
  <2>1. \A d \in DupIds : new[d] <= d
    BY <1>1, <1>2
  <2> QED BY <1>2, <2>1 DEF DupForest
<1>4. bad = {}
  <2> SUFFICES ASSUME bad # {} PROVE FALSE
      OBVIOUS
  <2>1. PICK d \in bad : \A e \in bad : d <= e
    BY <1>1, DupSmallest, bad \subseteq Nat
  <2>2. CASE d = high
    <3>1. DupRoot(parent, d) = high
      BY <2>2, DupRootFix
    <3>2. new[low] = low
      BY <1>1, <1>2
    <3>3. DupRoot(new, low) = low
      BY <1>3, <3>2, DupRootFix
    <3>4. DupRoot(new, d) = DupRoot(new, new[d])
      BY <1>3, <2>2, DupRootStep
    <3>5. DupRoot(new, d) = low
      BY <1>2, <2>2, <3>3, <3>4
    <3> QED BY <2>1, <3>1, <3>5
  <2>3. CASE d # high /\ parent[d] = d
    <3>1. DupRoot(parent, d) = d /\ new[d] = d
      BY <1>2, <2>1, <2>3, DupRootFix
    <3>2. DupRoot(new, d) = d
      BY <1>3, <2>1, <3>1, DupRootFix
    <3> QED BY <2>1, <2>3, <3>1, <3>2
  <2>4. CASE d # high /\ parent[d] # d
    <3>1. d \in DupIds /\ parent[d] \in DupIds /\ new[d] = parent[d] /\ parent[d] <= d
      BY <1>1, <1>2, <2>1, <2>4
    <3>4. d \in Nat /\ parent[d] \in Nat
      BY <1>1, <3>1
    <3>5. ~(d <= parent[d])
      BY <2>4, <3>1, <3>4
    <3>2. DupRoot(new, parent[d]) = Moved(parent[d])
      BY <2>1, <3>1, <3>5
    <3>3. DupRoot(new, d) = DupRoot(new, parent[d]) /\ DupRoot(parent, d) = DupRoot(parent, parent[d])
      BY <1>3, <2>1, <3>1, DupRootStep
    <3> QED BY <2>1, <3>2, <3>3
  <2> QED BY <2>2, <2>3, <2>4
<1> QED BY <1>3, <1>4 DEF DupHung

DupWhole(doc, parent) ==
  /\ DupForest(parent)
  /\ \A root \in DupIds : DupLinked(doc, DupClass(parent, root))

LEMMA DupUnionJoins ==
  ASSUME NEW doc, NEW parent, DupWhole(doc, parent), NEW a \in DupIds, NEW b \in DupIds,
         DupLike(doc, a, b)
  PROVE  /\ DupWhole(doc, DupUnion(parent, a, b))
         /\ DupSame(DupUnion(parent, a, b), a, b)
         /\ \A x, y \in DupIds : DupSame(parent, x, y) => DupSame(DupUnion(parent, a, b), x, y)
<1> DEFINE left == DupRoot(parent, a)
           right == DupRoot(parent, b)
           low == Min({left, right})
           high == Max({left, right})
           new == DupUnion(parent, a, b)
<1>1. /\ left \in DupIds /\ right \in DupIds /\ parent[left] = left /\ parent[right] = right
      /\ left \in Nat /\ right \in Nat /\ DupForest(parent)
  BY DupRootEnds DEF DupWhole, DupIds
<1>2. CASE left = right
  <2>1. new = parent
    BY <1>2 DEF DupUnion
  <2> QED BY <1>2, <2>1 DEF DupSame
<1>3. CASE left # right
  <2>1. new = [parent EXCEPT ![high] = low]
    BY <1>3 DEF DupUnion
  <2>2. {low, high} = {left, right} /\ low < high
    <3>1. CASE left < right
      BY <1>1, <3>1, DupOrdered
    <3>2. CASE right < left
      BY <1>1, <3>2, DupOrdered
    <3> QED BY <1>1, <1>3, <3>1, <3>2
  <2> HIDE DEF low, high, new, left, right
  <2>3. low \in DupIds /\ high \in DupIds /\ parent[low] = low /\ parent[high] = high
    BY <1>1, <2>2
  <2>4. /\ DupForest(new)
        /\ \A d \in DupIds : DupRoot(new, d) =
             IF DupRoot(parent, d) = high THEN low ELSE DupRoot(parent, d)
    <3>1. DupForest(parent) /\ low < high
      BY <1>1, <2>2
    <3>2. DupHung(parent, new, low, high)
      BY <3>1, <2>1, <2>3, DupHangs
    <3> QED BY <3>2 DEF DupHung
  <2>5. DupSame(new, a, b)
    BY <2>2, <2>4 DEF DupSame, left, right
  <2>6. \A x, y \in DupIds : DupSame(parent, x, y) => DupSame(new, x, y)
    BY <2>4 DEF DupSame
  <2>7. ASSUME NEW root \in DupIds PROVE DupLinked(doc, DupClass(new, root))
    <3>1. low # high
      BY <2>2, <2>3 DEF DupIds
    <3>2. CASE root = low
      <4>1. DupClass(new, root) = DupClass(parent, low) \cup DupClass(parent, high)
        BY <2>4, <3>1, <3>2 DEF DupClass
      <4>2. DupLinked(doc, DupClass(parent, low)) /\ DupLinked(doc, DupClass(parent, high))
        BY <2>3 DEF DupWhole
      <4>3. a \in DupClass(parent, left) /\ b \in DupClass(parent, right)
        BY DEF DupClass, left, right
      <4>4. CASE low = left /\ high = right
        BY <4>1, <4>2, <4>3, <4>4, DupLinkedJoin
      <4>5. CASE low = right /\ high = left
        BY <4>1, <4>2, <4>3, <4>5, DupLinkedJoin, DupLikeTurns
      <4> QED BY <2>2, <3>1, <4>4, <4>5
    <3>3. CASE root = high
      <4>1. DupClass(new, root) = {}
        BY <2>4, <3>1, <3>3 DEF DupClass
      <4> QED BY <4>1 DEF DupLinked
    <3>4. CASE root # low /\ root # high
      <4>1. DupClass(new, root) = DupClass(parent, root)
        BY <2>4, <3>4 DEF DupClass
      <4> QED BY <4>1 DEF DupWhole
    <3> QED BY <3>2, <3>3, <3>4
  <2> HIDE DEF DupSame
  <2> QED BY <2>4, <2>5, <2>6, <2>7 DEF DupWhole, new
<1> QED BY <1>2, <1>3
-----------------------------------------------------------------------------
(* The run.  Bands are four and the distance is at most three, so documents *)
(* within the distance share a band and their pair is a candidate.          *)
LEMMA DupShareBand ==
  ASSUME NEW doc, NEW a, NEW b, DupNear(doc, a, b)
  PROVE  \E band \in DupBands : doc[a].hash[band] = doc[b].hash[band]
<1> DEFINE apart == {band \in DupBands : doc[a].hash[band] # doc[b].hash[band]}
<1>1. SUFFICES ASSUME apart = DupBands PROVE FALSE
  BY <1>1
<1>2. Cardinality(DupBands) = 4
  <2>1. 1 \in Int /\ 4 \in Int /\ ~(1 > 4) /\ 4 - 1 + 1 = 4
    OBVIOUS
  <2>2. Cardinality(1..4) = IF 1 > 4 THEN 0 ELSE 4 - 1 + 1
    BY <2>1, FS_Interval
  <2> QED BY <2>1, <2>2 DEF DupBands
<1>3. Cardinality(apart) <= DupDistance
  BY DEF DupNear
<1> QED BY <1>1, <1>2, <1>3, DupAssumption DEF DupAssumption

LEMMA DupNearTurns == ASSUME NEW doc, NEW a, NEW b, DupNear(doc, a, b) PROVE DupNear(doc, b, a)
<1>1. {band \in DupBands : doc[a].hash[band] # doc[b].hash[band]} =
        {band \in DupBands : doc[b].hash[band] # doc[a].hash[band]}
  OBVIOUS
<1> QED BY <1>1 DEF DupNear

DupLeader(doc, d) == Min({e \in DupIds : doc[e].print = doc[d].print})

LEMMA DupLeaderIs ==
  ASSUME NEW doc, NEW d \in DupIds
  PROVE  /\ DupLeader(doc, d) \in DupIds /\ DupLeader(doc, d) <= d
         /\ doc[DupLeader(doc, d)].print = doc[d].print
         /\ DupPair(DupLeader(doc, d), d) = [first |-> DupLeader(doc, d), second |-> d]
<1> DEFINE members == {e \in DupIds : doc[e].print = doc[d].print}
<1>1. members \subseteq Nat /\ d \in members
  BY DEF DupIds
<1>2. DupLeader(doc, d) \in members /\ DupLeader(doc, d) <= d
  BY <1>1, DupMinIs DEF DupLeader
<1> QED BY <1>2, DupPairIs

DupTyped ==
  /\ dupDoc \in [DupIds -> [print : DupIds, hash : DupHash]]
  /\ dupTodo \subseteq DupPairs
  /\ dupPc \in {"documents", "exact", "near", "done"}

\* Where the loops are: what is still to be joined, and what is joined.
DupPlace ==
  /\ dupPc = "documents" => dupParent = [d \in DupIds |-> d]
  /\ dupPc = "exact" =>
       /\ \A pair \in dupTodo : dupDoc[pair.first].print = dupDoc[pair.second].print
       /\ \A d \in DupIds : \/ DupPair(DupLeader(dupDoc, d), d) \in dupTodo
                            \/ DupSame(dupParent, DupLeader(dupDoc, d), d)
  /\ dupPc \in {"near", "done"} =>
       \A a, b \in DupIds : dupDoc[a].print = dupDoc[b].print => DupSame(dupParent, a, b)
  /\ dupPc = "near" =>
       /\ \A pair \in dupTodo : dupDoc[pair.first].hash # <<>> /\ dupDoc[pair.second].hash # <<>>
       /\ \A a, b \in DupIds : a # b /\ DupNear(dupDoc, a, b) =>
            DupPair(a, b) \in dupTodo \/ DupSame(dupParent, a, b)
  /\ dupPc = "done" =>
       \A a, b \in DupIds : a # b /\ DupNear(dupDoc, a, b) => DupSame(dupParent, a, b)

DupInv == DupTyped /\ DupWhole(dupDoc, dupParent) /\ DupPlace

LEMMA DupAlone ==
  ASSUME NEW doc PROVE DupWhole(doc, [d \in DupIds |-> d])
<1> DEFINE parent == [d \in DupIds |-> d]
<1>1. DupForest(parent)
  BY DEF DupForest, DupIds
<1>2. ASSUME NEW root \in DupIds PROVE DupLinked(doc, DupClass(parent, root))
  <2>1. \A d \in DupIds : DupRoot(parent, d) = d
    BY <1>1, DupRootFix
  <2> HIDE DEF parent
  <2>2. DupClass(parent, root) = {root}
    BY <2>1 DEF DupClass
  <2> QED BY <2>2 DEF DupLinked
<1> QED BY <1>1, <1>2 DEF DupWhole

LEMMA DupInitInv == DupInit => DupInv
<1> SUFFICES ASSUME DupInit PROVE DupInv
    OBVIOUS
<1>1. DupTyped
  <2>1. ASSUME NEW d \in DupIds PROVE DupNoDoc \in [print : DupIds, hash : DupHash]
    BY DupAssumption DEF DupNoDoc, DupHash, DupIds, DupAssumption
  <2> QED BY <2>1 DEF DupInit, DupTyped
<1>2. DupWhole(dupDoc, dupParent) /\ DupPlace
  BY DupAlone DEF DupInit, DupPlace
<1> QED BY <1>1, <1>2 DEF DupInv

LEMMA DupChooseKeeps == ASSUME DupInv, DupChoose PROVE DupInv'
<1>1. PICK print \in [DupIds -> DupIds], hash \in [DupIds -> DupHash] :
        dupDoc' = [d \in DupIds |-> [print |-> print[d], hash |-> hash[d]]]
  BY DEF DupChoose
<1>2. /\ dupTodo' = {pair \in DupExact(dupDoc') : pair.first # pair.second}
      /\ dupPc' = "exact" /\ dupParent' = [d \in DupIds |-> d]
  BY DEF DupChoose, DupInv, DupPlace
<1>3. DupExact(dupDoc') = {DupPair(DupLeader(dupDoc', d), d) : d \in DupIds}
  BY DEF DupExact, DupLeader
<1>4. \A d \in DupIds : LET pair == DupPair(DupLeader(dupDoc', d), d) IN
        /\ pair.first # pair.second => pair \in DupPairs
        /\ dupDoc'[pair.first].print = dupDoc'[pair.second].print
        /\ pair.first = pair.second => DupLeader(dupDoc', d) = d
  <2> SUFFICES ASSUME NEW d \in DupIds
               PROVE  LET pair == DupPair(DupLeader(dupDoc', d), d) IN
                        /\ pair.first # pair.second => pair \in DupPairs
                        /\ dupDoc'[pair.first].print = dupDoc'[pair.second].print
                        /\ pair.first = pair.second => DupLeader(dupDoc', d) = d
      OBVIOUS
  <2>1. /\ DupLeader(dupDoc', d) \in DupIds /\ DupLeader(dupDoc', d) <= d
        /\ dupDoc'[DupLeader(dupDoc', d)].print = dupDoc'[d].print
        /\ DupPair(DupLeader(dupDoc', d), d) = [first |-> DupLeader(dupDoc', d), second |-> d]
    BY DupLeaderIs
  <2>2. DupLeader(dupDoc', d) # d => DupPair(DupLeader(dupDoc', d), d) \in DupPairs
    BY <2>1, DupPairIs
  <2> QED BY <2>1, <2>2
<1>5. DupTyped'
  <2>1. dupDoc' \in [DupIds -> [print : DupIds, hash : DupHash]]
    BY <1>1
  <2>2. dupTodo' \subseteq DupPairs
    BY <1>2, <1>3, <1>4
  <2> QED BY <1>2, <2>1, <2>2 DEF DupTyped
<1>6. DupWhole(dupDoc', dupParent')
  BY <1>2, DupAlone
<1>7. DupPlace'
  <2>1. \A pair \in dupTodo' : dupDoc'[pair.first].print = dupDoc'[pair.second].print
    BY <1>2, <1>3, <1>4
  <2>2. \A d \in DupIds : \/ DupPair(DupLeader(dupDoc', d), d) \in dupTodo'
                          \/ DupSame(dupParent', DupLeader(dupDoc', d), d)
    BY <1>2, <1>3, <1>4 DEF DupSame
  <2> QED BY <1>2, <2>1, <2>2 DEF DupPlace
<1> QED BY <1>5, <1>6, <1>7 DEF DupInv

LEMMA DupJoinExactKeeps == ASSUME DupInv, DupJoinExact PROVE DupInv'
<1> DEFINE a == DupFirst.first
           b == DupFirst.second
<1>1. /\ dupPc = "exact" /\ dupDoc' = dupDoc /\ dupPc' = dupPc
      /\ dupParent' = DupUnion(dupParent, a, b) /\ dupTodo' = dupTodo \ {DupFirst}
  BY DEF DupJoinExact
<1>2. DupFirst \in dupTodo /\ DupFirst \in DupPairs
  BY DupFirstIs DEF DupJoinExact, DupInv, DupTyped
<1>3. a \in DupIds /\ b \in DupIds /\ DupLike(dupDoc, a, b)
  BY <1>1, <1>2 DEF DupPairs, DupLike, DupInv, DupPlace
<1> HIDE DEF a, b
<1>4. /\ DupWhole(dupDoc, dupParent') /\ DupSame(dupParent', a, b)
      /\ \A x, y \in DupIds : DupSame(dupParent, x, y) => DupSame(dupParent', x, y)
  BY <1>1, <1>3, DupUnionJoins DEF DupInv
<1>5. DupTyped'
  BY <1>1 DEF DupInv, DupTyped
<1>6. \A d \in DupIds : \/ DupPair(DupLeader(dupDoc, d), d) \in dupTodo'
                        \/ DupSame(dupParent', DupLeader(dupDoc, d), d)
  <2> SUFFICES ASSUME NEW d \in DupIds, DupPair(DupLeader(dupDoc, d), d) \notin dupTodo'
               PROVE  DupSame(dupParent', DupLeader(dupDoc, d), d)
      OBVIOUS
  <2>1. DupLeader(dupDoc, d) \in DupIds
        /\ DupPair(DupLeader(dupDoc, d), d) = [first |-> DupLeader(dupDoc, d), second |-> d]
    BY DupLeaderIs
  <2>2. CASE DupPair(DupLeader(dupDoc, d), d) = DupFirst
    BY <1>4, <2>1, <2>2 DEF a, b
  <2>3. CASE DupPair(DupLeader(dupDoc, d), d) # DupFirst
    BY <1>1, <1>4, <2>1, <2>3 DEF DupInv, DupPlace
  <2> QED BY <2>2, <2>3
<1>7. DupPlace'
  BY <1>1, <1>6 DEF DupInv, DupPlace
<1> QED BY <1>1, <1>4, <1>5, <1>7 DEF DupInv

LEMMA DupBucketKeeps == ASSUME DupInv, DupBucket PROVE DupInv'
<1>1. /\ dupPc = "exact" /\ dupTodo = {} /\ dupTodo' = DupCandidates /\ dupPc' = "near"
      /\ dupDoc' = dupDoc /\ dupParent' = dupParent
  BY DEF DupBucket
<1>2. \A pair \in DupCandidates :
        /\ pair \in DupPairs
        /\ dupDoc[pair.first].hash # <<>> /\ dupDoc[pair.second].hash # <<>>
  <2> SUFFICES ASSUME NEW pair \in DupCandidates PROVE pair \in DupPairs
      BY DEF DupCandidates
  <2>1. PICK a \in DupIds, b \in DupIds : pair = DupPair(a, b)
    BY DEF DupCandidates
  <2>2. pair.first # pair.second
    BY DEF DupCandidates
  <2>3. a # b
    BY <2>1, <2>2, DupPairIs DEF DupIds
  <2> QED BY <2>1, <2>3, DupPairIs
<1>3. \A a, b \in DupIds : a < b /\ DupNear(dupDoc, a, b) => DupPair(a, b) \in DupCandidates
  <2> SUFFICES ASSUME NEW a \in DupIds, NEW b \in DupIds, a < b, DupNear(dupDoc, a, b)
               PROVE  DupPair(a, b) \in DupCandidates
      OBVIOUS
  <2>1. DupPair(a, b) = [first |-> a, second |-> b] /\ a # b
    BY DupPairIs DEF DupIds
  <2>2. \E band \in DupBands : dupDoc[a].hash[band] = dupDoc[b].hash[band]
    BY DupShareBand
  <2>3. dupDoc[a].hash # <<>> /\ dupDoc[b].hash # <<>>
    BY DEF DupNear
  <2>4. DupPair(a, b) \in {DupPair(x, y) : x, y \in DupIds}
    OBVIOUS
  <2> QED BY <2>1, <2>2, <2>3, <2>4 DEF DupCandidates
<1>4. \A a, b \in DupIds : a # b /\ DupNear(dupDoc, a, b) => DupPair(a, b) \in DupCandidates
  <2> SUFFICES ASSUME NEW a \in DupIds, NEW b \in DupIds, a # b, DupNear(dupDoc, a, b)
               PROVE  DupPair(a, b) \in DupCandidates
      OBVIOUS
  <2>1. CASE a < b
    BY <1>3, <2>1
  <2>2. CASE b < a
    BY <1>3, <2>2, DupNearTurns, DupPairIs
  <2> QED BY <2>1, <2>2 DEF DupIds
<1>5. \A a, b \in DupIds : dupDoc[a].print = dupDoc[b].print => DupSame(dupParent, a, b)
  <2> SUFFICES ASSUME NEW a \in DupIds, NEW b \in DupIds, dupDoc[a].print = dupDoc[b].print
               PROVE  DupSame(dupParent, a, b)
      OBVIOUS
  <2>1. DupLeader(dupDoc, a) = DupLeader(dupDoc, b)
    BY DEF DupLeader
  <2>2. \A d \in DupIds : DupSame(dupParent, DupLeader(dupDoc, d), d)
    BY <1>1 DEF DupInv, DupPlace
  <2> QED BY <2>1, <2>2 DEF DupSame
<1>6. DupTyped' /\ DupWhole(dupDoc, dupParent)'
  BY <1>1, <1>2 DEF DupInv, DupTyped
<1>7. DupPlace'
  BY <1>1, <1>2, <1>4, <1>5 DEF DupPlace
<1> QED BY <1>6, <1>7 DEF DupInv

LEMMA DupJoinNearKeeps == ASSUME DupInv, DupJoinNear PROVE DupInv'
<1> DEFINE a == DupFirst.first
           b == DupFirst.second
<1>1. /\ dupPc = "near" /\ dupDoc' = dupDoc /\ dupPc' = dupPc /\ dupTodo' = dupTodo \ {DupFirst}
      /\ dupParent' = IF DupApart(a, b) <= DupDistance THEN DupUnion(dupParent, a, b) ELSE dupParent
  BY DEF DupJoinNear
<1>2. DupFirst \in dupTodo /\ DupFirst \in DupPairs
  BY DupFirstIs DEF DupJoinNear, DupInv, DupTyped
<1>3. a \in DupIds /\ b \in DupIds /\ (DupApart(a, b) <= DupDistance <=> DupNear(dupDoc, a, b))
  BY <1>1, <1>2 DEF DupPairs, DupNear, DupApart, DupInv, DupPlace
<1> HIDE DEF a, b
<1>4. /\ DupWhole(dupDoc, dupParent') /\ (DupNear(dupDoc, a, b) => DupSame(dupParent', a, b))
      /\ \A x, y \in DupIds : DupSame(dupParent, x, y) => DupSame(dupParent', x, y)
  <2>1. CASE DupNear(dupDoc, a, b)
    <3>1. DupLike(dupDoc, a, b) /\ dupParent' = DupUnion(dupParent, a, b)
      BY <1>1, <1>3, <2>1 DEF DupLike
    <3> QED BY <1>3, <3>1, DupUnionJoins DEF DupInv
  <2>2. CASE ~DupNear(dupDoc, a, b)
    BY <1>1, <1>3, <2>2 DEF DupInv
  <2> QED BY <2>1, <2>2
<1>5. DupTyped'
  BY <1>1 DEF DupInv, DupTyped
<1>6. \A x, y \in DupIds : x # y /\ DupNear(dupDoc, x, y) =>
        DupPair(x, y) \in dupTodo' \/ DupSame(dupParent', x, y)
  <2> SUFFICES ASSUME NEW x \in DupIds, NEW y \in DupIds, x # y, DupNear(dupDoc, x, y),
                      DupPair(x, y) \notin dupTodo'
               PROVE  DupSame(dupParent', x, y)
      OBVIOUS
  <2>1. CASE DupPair(x, y) # DupFirst
    BY <1>1, <1>4, <2>1 DEF DupInv, DupPlace
  <2>2. CASE DupPair(x, y) = DupFirst
    <3>1. (a = x /\ b = y) \/ (a = y /\ b = x)
      <4>1. CASE x <= y
        BY <2>2, <4>1, DupPairIs DEF a, b
      <4>2. CASE y <= x
        BY <2>2, <4>2, DupPairIs DEF a, b
      <4> QED BY <4>1, <4>2 DEF DupIds
    <3>2. DupNear(dupDoc, a, b)
      BY <3>1, DupNearTurns
    <3> QED BY <1>4, <3>1, <3>2 DEF DupSame
  <2> QED BY <2>1, <2>2
<1>7. DupPlace'
  BY <1>1, <1>4, <1>6 DEF DupInv, DupPlace
<1> QED BY <1>1, <1>4, <1>5, <1>7 DEF DupInv

\* The groups that are returned.
LEMMA DupInvRight == ASSUME DupInv PROVE DupGroupsRight
<1> SUFFICES ASSUME dupPc = "done" PROVE DupGroupsRight
    BY DEF DupGroupsRight
<1> DEFINE Group(root) == DupClass(dupParent, root)
           Kind(root) == IF Cardinality({dupDoc[d].print : d \in Group(root)}) = 1
                         THEN "exact" ELSE "near"
<1>1. \A a, b \in DupIds : DupAlike(a, b) <=> DupLike(dupDoc, a, b)
  BY DEF DupAlike, DupLike, DupNear, DupApart
<1>2. /\ DupForest(dupParent) /\ IsFiniteSet(DupIds)
      /\ \A root \in DupIds : /\ DupLinked(dupDoc, Group(root))
                              /\ Group(root) \subseteq DupIds /\ IsFiniteSet(Group(root))
  <2>1. 1 \in Int /\ DupDocs \in Int
    BY DupAssumption DEF DupAssumption
  <2>2. IsFiniteSet(DupIds)
    BY <2>1, FS_Interval DEF DupIds
  <2>3. \A root \in DupIds : Group(root) \in SUBSET DupIds
    BY DEF DupClass
  <2> HIDE DEF Group, DupIds
  <2>4. \A root \in DupIds : IsFiniteSet(Group(root))
    BY <2>2, <2>3, FS_Subset
  <2>5. DupForest(dupParent) /\ \A root \in DupIds : DupLinked(dupDoc, Group(root))
    BY DEF DupInv, DupWhole, Group
  <2> QED BY <2>2, <2>3, <2>4, <2>5
<1>3. DupGroups = {[members |-> Group(root), kind |-> Kind(root)] :
                     root \in {d \in DupIds : Cardinality(Group(d)) > 1}}
  BY DEF DupGroups, DupClass
<1> HIDE DEF Group, Kind
<1>4. ASSUME NEW root \in DupIds, Cardinality(Group(root)) > 1
      PROVE  /\ DupChained(Group(root))
             /\ Kind(root) = "exact" <=> \A a, b \in Group(root) : dupDoc[a].print = dupDoc[b].print
  <2>1. DupChained(Group(root))
    BY <1>1, <1>2 DEF DupChained, DupLinked
  <2> DEFINE prints == {dupDoc[d].print : d \in Group(root)}
  <2>2. IsFiniteSet(prints)
    <3>1. prints \in SUBSET DupIds
      BY <1>2 DEF DupInv, DupTyped
    <3> QED BY <1>2, <3>1, FS_Subset
  <2>3. Group(root) # {}
    BY <1>4, FS_EmptySet
  <2>4. Cardinality(prints) = 1 <=> \E p : prints = {p}
    BY <2>2, FS_Singleton
  <2>5. (\E p : prints = {p}) <=> \A a, b \in Group(root) : dupDoc[a].print = dupDoc[b].print
    BY <2>3
  <2> QED BY <2>1, <2>4, <2>5 DEF Kind
<1>5. ASSUME NEW a \in DupIds, NEW b \in DupIds, a # b, DupAlike(a, b)
      PROVE  \E group \in DupGroups : {a, b} \subseteq group.members
  <2> DEFINE root == DupRoot(dupParent, a)
  <2>1. DupSame(dupParent, a, b)
    BY <1>1, <1>5 DEF DupLike, DupInv, DupPlace
  <2>2. root \in DupIds /\ {a, b} \subseteq Group(root)
    BY <1>2, <2>1, DupRootEnds DEF DupSame, Group, DupClass
  <2>3. Cardinality({a, b}) = 2
    <3>1. IsFiniteSet({a}) /\ Cardinality({a}) = 1 /\ b \notin {a} /\ {a} \cup {b} = {a, b}
      BY <1>5, FS_Singleton
    <3>2. Cardinality({a} \cup {b}) = Cardinality({a}) + 1
      BY <3>1, FS_AddElement
    <3> QED BY <3>1, <3>2
  <2>4. Cardinality(Group(root)) > 1
    BY <1>2, <2>2, <2>3, FS_Subset, FS_CardinalityType
  <2> HIDE DEF root
  <2>5. [members |-> Group(root), kind |-> Kind(root)] \in DupGroups
    BY <1>3, <2>2, <2>4
  <2> QED BY <2>2, <2>5
<1> QED BY <1>3, <1>4, <1>5 DEF DupGroupsRight

LEMMA DupInvHolds == DupSpec => []DupInv
<1>1. DupInv /\ [DupNext]_dupVars => DupInv'
  <2> SUFFICES ASSUME DupInv, [DupNext]_dupVars PROVE DupInv'
      OBVIOUS
  <2>1. CASE UNCHANGED dupVars
    BY <2>1 DEF dupVars, DupInv, DupTyped, DupPlace
  <2>2. CASE DupFinish
    BY <2>2 DEF DupFinish, DupInv, DupTyped, DupPlace
  <2> QED BY <2>1, <2>2, DupChooseKeeps, DupJoinExactKeeps, DupBucketKeeps, DupJoinNearKeeps DEF DupNext
<1> QED BY DupInitInv, <1>1, PTL DEF DupSpec

\* The groups are the connected components of alike documents (duplicates.py:22):
\* for any number of documents, any texts and simhashes, and any distance of
\* at most three, the bands miss no pair and the union-find joins no other.
THEOREM GroupsRight == DupSpec => []DupGroupsRight
BY DupInvHolds, DupInvRight, PTL
-----------------------------------------------------------------------------
(* Well-formedness, each component by itself; of the duplicate groups it   *)
(* is a part of their invariant above.                                     *)
PlugRunTyped(run) ==
  /\ run.status \in {"disabled", "failed", "succeeded"}
  /\ run.sent + run.skipped = Cardinality(PlugIds)

ReadyTyped ==
  /\ readyNow \in 0..ReadyTime
  /\ readyUp \subseteq 0..ReadyTime
  /\ readyCached = {} \/ \E entry : readyCached = {entry}
  /\ \A t \in ReadyThreads : readyThread[t].began \in 0..ReadyTime

LEMMA ReadyWellFormed == ReadySpec => []ReadyTypeOK
<1>0. ReadyTime \in Nat
  BY ReadyAssumption DEF ReadyAssumption
<1>1. ReadyInit => ReadyTyped
  BY <1>0 DEF ReadyInit, ReadyTyped, ReadyIdle
<1>2. ASSUME ReadyInv, ReadyTyped, [ReadyNext]_readyVars PROVE ReadyTyped'
  <2>0. /\ readyThread \in [ReadyThreads -> [pc : {"idle", "cache", "check", "store", "answered"},
                                       force : BOOLEAN, began : Nat, seen : ReadySeen]]
        /\ readyNow \in 0..ReadyTime /\ \A t \in ReadyThreads : readyThread[t].began \in 0..ReadyTime
    BY <1>2 DEF ReadyInv, ReadyTyped
  <2>1. ASSUME NEW up \in BOOLEAN, ReadyPass(up) PROVE ReadyTyped'
    BY <1>0, <1>2, <2>1 DEF ReadyPass, ReadyTyped
  <2>2. ASSUME NEW t \in ReadyThreads, NEW run, readyThread' = [readyThread EXCEPT ![t] = run],
               run.began \in 0..ReadyTime, UNCHANGED <<readyNow, readyUp>>,
               readyCached' = readyCached \/ \E entry : readyCached' = {entry}
        PROVE  ReadyTyped'
    BY <1>2, <2>0, <2>2 DEF ReadyTyped
  <2>3. ASSUME NEW t \in ReadyThreads, NEW force \in BOOLEAN, ReadyAsk(t, force) PROVE ReadyTyped'
    <3> DEFINE run == [ReadyIdle EXCEPT !.pc = "cache", !.force = force, !.began = readyNow]
    <3>1. run.began \in 0..ReadyTime
      BY <2>0 DEF ReadyIdle
    <3>2. readyThread' = [readyThread EXCEPT ![t] = run] /\ UNCHANGED <<readyNow, readyUp, readyCached>>
      BY <2>3 DEF ReadyAsk, ReadySet
    <3> HIDE DEF run
    <3> QED BY <2>2, <3>1, <3>2
  <2>4. ASSUME NEW t \in ReadyThreads, ReadyHit(t) PROVE ReadyTyped'
    <3>1. PICK entry : readyThread' = [readyThread EXCEPT ![t] = [readyThread[t] EXCEPT !.pc = "answered", !.seen = entry]]
      BY <2>4 DEF ReadyHit, ReadySet
    <3> DEFINE run == [readyThread[t] EXCEPT !.pc = "answered", !.seen = entry]
    <3>2. run.began \in 0..ReadyTime
      BY <2>0
    <3>3. UNCHANGED <<readyNow, readyUp, readyCached>>
      BY <2>4 DEF ReadyHit
    <3> HIDE DEF run
    <3>4. readyThread' = [readyThread EXCEPT ![t] = run]
      BY <3>1 DEF run
    <3> QED BY <2>2, <3>2, <3>3, <3>4
  <2>5. ASSUME NEW t \in ReadyThreads, ReadyMiss(t) \/ ReadyStore(t) PROVE ReadyTyped'
    <3>1. PICK pc : readyThread' = [readyThread EXCEPT ![t] = [readyThread[t] EXCEPT !.pc = pc]]
      BY <2>5 DEF ReadyMiss, ReadyStore, ReadySet
    <3> DEFINE run == [readyThread[t] EXCEPT !.pc = pc]
    <3>2. run.began \in 0..ReadyTime
      BY <2>0
    <3>3. UNCHANGED <<readyNow, readyUp>> /\ (readyCached' = readyCached \/ \E entry : readyCached' = {entry})
      BY <2>5 DEF ReadyMiss, ReadyStore
    <3> HIDE DEF run
    <3>4. readyThread' = [readyThread EXCEPT ![t] = run]
      BY <3>1 DEF run
    <3> QED BY <2>2, <3>2, <3>3, <3>4
  <2>6. ASSUME NEW t \in ReadyThreads, ReadyLook(t) PROVE ReadyTyped'
    <3> DEFINE seen == [began |-> readyThread[t].began, looked |-> readyNow, up |-> readyNow \in readyUp]
               run == [readyThread[t] EXCEPT !.pc = "store", !.seen = seen]
    <3>2. run.began \in 0..ReadyTime
      BY <2>0
    <3>3. UNCHANGED <<readyNow, readyUp, readyCached>> /\ readyThread' = [readyThread EXCEPT ![t] = run]
      BY <2>6 DEF ReadyLook, ReadySet
    <3> HIDE DEF run
    <3> QED BY <2>2, <3>2, <3>3
  <2>7. ASSUME NEW t \in ReadyThreads, ReadyEnd(t) PROVE ReadyTyped'
    <3>1. ReadyIdle.began \in 0..ReadyTime
      BY <1>0 DEF ReadyIdle
    <3> QED BY <2>2, <2>7, <3>1 DEF ReadyEnd, ReadySet
  <2>8. CASE UNCHANGED readyVars
    BY <1>2, <2>8 DEF readyVars, ReadyTyped
  <2> QED BY <1>2, <2>1, <2>3, <2>4, <2>5, <2>6, <2>7, <2>8 DEF ReadyNext
<1>3. ASSUME ReadyInv, ReadyTyped PROVE ReadyTypeOK
  <2>1. Cardinality(readyCached) <= 1
    <3>1. CASE readyCached = {}
      BY <3>1, FS_EmptySet
    <3>2. ASSUME NEW entry, readyCached = {entry} PROVE Cardinality(readyCached) <= 1
      <4>1. Cardinality({entry}) = 1
        BY FS_Singleton
      <4> QED BY <3>2, <4>1
    <3> QED BY <1>3, <3>1, <3>2 DEF ReadyTyped
  <2>2. \A t \in ReadyThreads : readyThread[t].pc \in {"idle", "cache", "check", "store", "answered"}
    BY <1>3 DEF ReadyInv
  <2> QED BY <1>3, <2>1, <2>2 DEF ReadyTyped, ReadyTypeOK
<1> QED BY <1>1, <1>2, <1>3, ReadyInvHolds, PTL DEF ReadySpec

LEMMA PlugWellFormed == PlugSpec => []PlugTypeOK
<1> DEFINE J == /\ plugEnabled \in BOOLEAN /\ plugReviewed \in BOOLEAN
                /\ \A run \in plugRuns : PlugRunTyped(run)
<1>0. IsFiniteSet(PlugIds) /\ Cardinality(PlugIds) \in Nat /\ Cardinality(PlugEligible) \in Int
  <2>1. IsFiniteSet(PlugIds) /\ PlugEligible \subseteq PlugIds
    BY PlugAssumption DEF PlugAssumption, PlugIds, PlugEligible
  <2> QED BY <2>1, FS_Subset, FS_CardinalityType
<1>1. PlugInit => J
  BY DEF PlugInit
<1>2. ASSUME J, [PlugNext]_plugVars PROVE J'
  <2>1. ASSUME NEW status \in {"disabled", "failed", "succeeded"}, NEW sent \in Int, NEW outputs, NEW error,
               PlugFinish(status, sent, outputs, error), UNCHANGED <<plugEnabled, plugReviewed>>
        PROVE  J'
    <3> DEFINE run == [number |-> Cardinality(plugRuns) + 1, status |-> status, sent |-> sent,
                       skipped |-> Cardinality(PlugIds) - sent, outputs |-> outputs, error |-> error]
    <3>1. PlugRunTyped(run)
      BY <1>0 DEF PlugRunTyped
    <3>2. plugRuns' = plugRuns \cup {run}
      BY <2>1 DEF PlugFinish
    <3> HIDE DEF run
    <3> QED BY <1>2, <2>1, <3>1, <3>2 DEF PlugRunTyped
  <2>2. CASE PlugRefuse
    BY <2>1, <2>2 DEF PlugRefuse
  <2>3. CASE PlugSucceed
    BY <1>0, <2>1, <2>3 DEF PlugSucceed
  <2>4. ASSUME NEW error, PlugFail(error) PROVE J'
    BY <1>0, <2>1, <2>4 DEF PlugFail
  <2>5. CASE PlugConfigure
    BY <1>2, <2>5 DEF PlugConfigure, PlugRunTyped
  <2>6. CASE PlugStart \/ PlugSend \/ PlugBreak \/ UNCHANGED plugVars
    BY <1>2, <2>6 DEF PlugStart, PlugSend, PlugBreak, plugVars, PlugRunTyped
  <2>7. ASSUME NEW ids, PlugAnswer(ids) PROVE J'
    BY <1>2, <2>7 DEF PlugAnswer, PlugRunTyped
  <2> QED
    BY <1>2, <2>2, <2>3, <2>4, <2>5, <2>6, <2>7 DEF PlugNext
<1>3. PlugInv /\ J => PlugTypeOK
  BY DEF PlugInv, PlugTypeOK, PlugRunTyped
<1> QED BY <1>1, <1>2, <1>3, PlugInvHolds, PTL DEF PlugSpec

LEMMA ProfWellFormed == ProfSpec => []ProfTypeOK
<1> DEFINE J == /\ profKeywords \subseteq ProfIds /\ profPolicies \subseteq ProfIds
                /\ profKilled \in 0..ProfKills
<1>1. ProfInit => J
  BY ProfAssumption DEF ProfInit, ProfAssumption
<1>2. ASSUME ProfInv, J, [ProfNext]_profVars PROVE J'
  <2>1. profSave.todo \subseteq ProfIds /\ profSave.now \subseteq ProfIds
    BY <1>2 DEF ProfInv
  <2>2. CASE ProfKill
    BY <1>2, <2>2, ProfAssumption DEF ProfKill, ProfAssumption
  <2>3. CASE ProfSets \/ ProfPolicy
    BY <1>2, <2>1, <2>3 DEF ProfSets, ProfPolicy
  <2>4. CASE ProfLoad \/ ProfTask \/ ProfReply \/ ProfStage \/ ProfPublish \/ ProfWriteFails
              \/ (\E profiles \in SUBSET ProfIds : ProfCall(profiles)) \/ UNCHANGED profVars
    BY <1>2, <2>4 DEF ProfLoad, ProfTask, ProfReply, ProfStage, ProfPublish, ProfWriteFails, ProfCall,
                      profVars, profCatalog
  <2> QED BY <1>2, <2>2, <2>3, <2>4 DEF ProfNext
<1>3. ProfInv /\ J => ProfTypeOK
  BY DEF ProfInv, ProfPublished, ProfTypeOK
<1> QED BY <1>1, <1>2, <1>3, ProfInvHolds, PTL DEF ProfSpec

LEMMA VisWellFormed == VisSpec => []VisTypeOK
<1> DEFINE J == visKilled \in 0..VisKills
<1>1. VisInit => J
  BY VisAssumption DEF VisInit, VisAssumption
<1>2. J /\ [VisNext]_visVars => J'
  <2>1. [VisNext]_visVars => visKilled' = visKilled \/ (visKilled < VisKills /\ visKilled' = visKilled + 1)
    <3>1. \A x, image : VisCreate(x, image) => visKilled' = visKilled
      BY DEF VisCreate
    <3>2. \A x, image : VisAttach(x, image) => visKilled' = visKilled
      BY DEF VisAttach
    <3>3. VisStage \/ VisPublish \/ VisPutImage \/ VisPutManifest \/ UNCHANGED visVars => visKilled' = visKilled
      BY DEF VisStage, VisPublish, VisPutImage, VisPutManifest, visVars
    <3>4. VisFails \/ VisKill => visKilled < VisKills /\ visKilled' = visKilled + 1
      BY DEF VisFails, VisKill
    <3> QED BY <3>1, <3>2, <3>3, <3>4 DEF VisNext
  <2> QED BY <2>1, VisAssumption DEF VisAssumption
<1>3. VisInv /\ J => VisTypeOK
  BY DEF VisInv, VisShapes, VisCallType, VisTypeOK
<1> HIDE DEF J
<1> QED BY <1>1, <1>2, <1>3, VisInvHolds, PTL DEF VisSpec

\* The supervisors that were killed.
LaunchLost == {s \in LaunchRuns : LaunchWasKilled(s)}

LEMMA LaunchWellFormed == LaunchSpec => []LaunchTypeOK
<1> DEFINE J == /\ launchFile \in [by : LaunchRuns \cup {LaunchNobody},
                                   status : {"starting", "ready", "failed", "stopped"}]
                /\ IsFiniteSet(LaunchLost) /\ Cardinality(LaunchLost) <= LaunchKills
<1>1. LaunchInit => J
  <2>1. LaunchInit => LaunchLost = {}
    BY DEF LaunchInit, LaunchLost, LaunchWasKilled
  <2> QED BY <2>1, LaunchAssumption, FS_EmptySet DEF LaunchInit, LaunchAssumption
<1>2. ASSUME J, LaunchInv, [LaunchNext]_launchVars PROVE J'
  <2>1. ASSUME NEW s \in LaunchRuns, LaunchKill(s) PROVE J'
    <3>1. Cardinality(LaunchLost) < LaunchKills /\ launchFile' = launchFile
      BY <2>1 DEF LaunchKill, LaunchLost
    <3>2. LaunchLost' \subseteq LaunchLost \cup {s}
      BY <1>2, <2>1 DEF LaunchKill, LaunchLost, LaunchWasKilled, LaunchInv, LaunchShapes
    <3>3. Cardinality(LaunchLost) \in Nat
      BY <1>2, FS_CardinalityType
    <3>4. /\ IsFiniteSet(LaunchLost \cup {s})
          /\ Cardinality(LaunchLost \cup {s}) <= Cardinality(LaunchLost) + 1
      BY <1>2, <3>3, FS_AddElement
    <3>5. /\ IsFiniteSet(LaunchLost')
          /\ Cardinality(LaunchLost') <= Cardinality(LaunchLost \cup {s})
      BY <3>2, <3>4, FS_Subset
    <3>6. Cardinality(LaunchLost') \in Nat /\ Cardinality(LaunchLost \cup {s}) \in Nat
      BY <3>4, <3>5, FS_CardinalityType
    <3> QED BY <1>2, <3>1, <3>3, <3>4, <3>5, <3>6, LaunchAssumption DEF LaunchAssumption
  <2>2. ASSUME NEW s \in LaunchRuns,
               \/ LaunchAcquire(s) \/ LaunchStarting(s) \/ LaunchQuits(s) \/ LaunchPrepare(s)
               \/ \E port \in LaunchPorts : LaunchChild(s, port) \/ LaunchJob(s, port) \/ LaunchAnswered(s, port)
               \/ LaunchFails(s) \/ LaunchSignal(s) \/ LaunchLeave(s) \/ LaunchRelease(s) \/ LaunchLast(s)
               \/ LaunchScripted(s)
        PROVE  J'
    <3>1. launchKilled' = launchKilled
      BY <2>2 DEF LaunchAcquire, LaunchStarting, LaunchQuits, LaunchPrepare, LaunchChild, LaunchJob, LaunchAnswered,
                  LaunchFails, LaunchSignal, LaunchLeave, LaunchRelease, LaunchLast, LaunchScripted, launchHistory
    <3>2. \/ launchFile' = launchFile
          \/ \E status \in {"starting", "ready", "failed", "stopped"} : launchFile' = [by |-> s, status |-> status]
      BY <2>2 DEF LaunchAcquire, LaunchStarting, LaunchQuits, LaunchPrepare, LaunchChild, LaunchJob, LaunchAnswered,
                  LaunchFails, LaunchSignal, LaunchLeave, LaunchRelease, LaunchLast, LaunchScripted, LaunchState,
                  LaunchSays
    <3> QED BY <1>2, <3>1, <3>2 DEF LaunchLost, LaunchWasKilled
  <2>3. CASE LaunchBind \/ LaunchDies \/ UNCHANGED launchVars
    BY <1>2, <2>3 DEF LaunchBind, LaunchDies, launchVars, launchHistory, LaunchLost, LaunchWasKilled
  <2> QED BY <1>2, <2>1, <2>2, <2>3 DEF LaunchNext
<1>3. LaunchInv /\ J => LaunchTypeOK
  BY DEF LaunchInv, LaunchShapes, LaunchTypeOK, LaunchLost
<1> QED BY <1>1, <1>2, <1>3, LaunchInvHolds, PTL DEF LaunchSpec

NormRunType ==
  [pc : {"idle", "fill", "store"}, config : NormConfigs,
   found : SUBSET [record : NormRecords, archive : NormArchive],
   input : SUBSET [record : NormRecords, raw : NormRaws, archive : NormArchive]]

NormTyped ==
  /\ normCollected \in 0..NormCollections
  /\ normConfig \in NormConfigs /\ normMembered \in BOOLEAN
  /\ normRows \subseteq NormVersionType
  /\ \A run \in normDone : run.config \in NormConfigs
  /\ normRaced \subseteq NormRecords
  /\ normRun \in [NormRuns -> NormRunType]

LEMMA NormRunTyped ==
  ASSUME NormTyped, NEW p \in NormRuns, NEW run \in NormRunType,
         normRun' = [normRun EXCEPT ![p] = run]
  PROVE  normRun' \in [NormRuns -> NormRunType]
BY DEF NormTyped

LEMMA NormIdleTyped == NormIdle \in NormRunType
BY NormAssumption DEF NormAssumption, NormIdle, NormRunType

LEMMA NormScanTyped ==
  ASSUME NormInv, NormTyped, NEW p \in NormRuns, NormScan(p) PROVE NormTyped'
<1> DEFINE missing == {x \in NormRecords : normIngested[x].raw # "none" /\ normIngested[x].archive = {}
                                             /\ NormCandidates(x) # {}}
           found == {[record |-> x, archive |-> CHOOSE file \in NormCandidates(x) : TRUE] : x \in missing}
           run == [NormIdle EXCEPT !.pc = "fill", !.config = normConfig, !.found = found]
<1>1. \A x \in missing : (CHOOSE file \in NormCandidates(x) : TRUE) \in NormArchive
  BY DEF NormCandidates, NormInv, NormLineage
<1>2. found \in SUBSET [record : NormRecords, archive : NormArchive]
  BY <1>1
<1>3. UNCHANGED <<normCollected, normConfig, normMembered, normRows, normDone, normRaced>>
      /\ normRun' = [normRun EXCEPT ![p] = run]
  BY DEF NormScan, NormSet, normWorld, normStored
<1>4. normConfig \in NormConfigs
  BY DEF NormTyped
<1> HIDE DEF found
<1>5. run \in NormRunType
  BY <1>2, <1>4, NormIdleTyped DEF NormRunType
<1> HIDE DEF run
<1> QED BY <1>3, <1>5, NormRunTyped DEF NormTyped

LEMMA NormReadTyped ==
  ASSUME NormInv, NormTyped, NEW p \in NormRuns, NormRead(p) PROVE NormTyped'
<1> DEFINE seen == NormFill(p)
           active == {x \in NormRecords : seen[x].raw # "none" /\ ~seen[x].deleted}
           input == {[record |-> x, raw |-> seen[x].raw, archive |-> seen[x].archive] : x \in active}
           run == [normRun[p] EXCEPT !.pc = "store", !.input = input]
<1>1. normRun[p] \in NormRunType /\ normIngested \in NormIngestedType
  BY DEF NormTyped, NormInv, NormLineage
<1>2. ASSUME NEW x \in NormRecords
      PROVE  seen[x] \in [raw : NormRaws \cup {"none"}, archive : NormArchive, deleted : BOOLEAN]
  <2>1. normIngested[x] \in [raw : NormRaws \cup {"none"}, archive : NormArchive, deleted : BOOLEAN]
    BY <1>1 DEF NormIngestedType
  <2>2. CASE x \in NormFilled(p)
    <3> DEFINE filled == CHOOSE f \in normRun[p].found : f.record = x
    <3>1. filled \in normRun[p].found
      BY <2>2 DEF NormFilled
    <3>2. filled.archive \in NormArchive
      BY <1>1, <3>1 DEF NormRunType
    <3> HIDE DEF filled
    <3>3. seen[x] = [normIngested[x] EXCEPT !.archive = filled.archive]
      BY <2>2 DEF NormFill, filled
    <3> QED BY <2>1, <3>2, <3>3
  <2>3. CASE x \notin NormFilled(p)
    BY <2>1, <2>3 DEF NormFill
  <2> QED BY <2>2, <2>3
<1> HIDE DEF seen
<1>3. input \in SUBSET [record : NormRecords, raw : NormRaws, archive : NormArchive]
  BY <1>2
<1>4. UNCHANGED <<normCollected, normConfig, normMembered, normRows, normDone, normRaced>>
      /\ normRun' = [normRun EXCEPT ![p] = run]
  BY DEF NormRead, NormSet, normWorld, normStored, seen
<1> HIDE DEF input
<1>5. run \in NormRunType
  BY <1>1, <1>3 DEF NormRunType
<1> HIDE DEF run
<1> QED BY <1>4, <1>5, NormRunTyped DEF NormTyped

LEMMA NormStoreTyped ==
  ASSUME NormTyped, NEW p \in NormRuns, NormStore(p) PROVE NormTyped'
<1> DEFINE r == normRun[p]
           documents == NormDocuments(r.input, r.config)
<1>1. r \in NormRunType
  BY DEF NormTyped
<1>2. documents \subseteq NormVersionType
  <2>1. r.input \subseteq [record : NormRecords, raw : NormRaws, archive : NormArchive] /\ r.config \in NormConfigs
    BY <1>1 DEF NormRunType
  <2>2. ASSUME NEW item \in r.input PROVE NormVersion(item, r.config) \in NormVersionType
    BY <2>1 DEF NormVersion, NormVersionType
  <2> HIDE DEF r
  <2> QED BY <2>2 DEF NormDocuments
<1>3. /\ normRows' = normRows \cup documents
      /\ normRun' = [normRun EXCEPT ![p] = NormIdle]
      /\ UNCHANGED <<normCollected, normConfig, normMembered, normRaced>>
      /\ \E members : normDone' = normDone \cup {[config |-> r.config, input |-> r.input, members |-> members]}
  BY DEF NormStore, NormSet, normWorld
<1>4. r.config \in NormConfigs
  BY <1>1 DEF NormRunType
<1> HIDE DEF r, documents
<1>5. \A run \in normDone' : run.config \in NormConfigs
  BY <1>3, <1>4 DEF NormTyped
<1> QED BY <1>2, <1>3, <1>5, NormIdleTyped, NormRunTyped DEF NormTyped

LEMMA NormReplayTyped ==
  ASSUME NormInv, NormTyped, NEW p \in NormRuns, NormReplay(p) PROVE NormTyped'
<1>1. /\ normRun' = [normRun EXCEPT ![p] = NormIdle]
      /\ UNCHANGED <<normCollected, normConfig, normMembered, normRows, normRaced>>
  BY DEF NormReplay, NormSet, normWorld
<1>2. \A run \in normDone' : run.config \in NormConfigs
  <2>1. PICK run \in normDone : normDone' = normDone \/ \E members :
          normDone' = (normDone \ {run}) \cup {[run EXCEPT !.members = members]}
    BY DEF NormReplay, NormSame
  <2>2. run = [config |-> run.config, input |-> run.input, members |-> run.members]
    BY DEF NormInv, NormStoredWhole, NormRunStored
  <2>3. ASSUME NEW members PROVE [run EXCEPT !.members = members].config = run.config
    BY <2>2
  <2> QED BY <2>1, <2>3 DEF NormTyped
<1> QED BY <1>1, <1>2, NormIdleTyped, NormRunTyped DEF NormTyped

LEMMA NormWellFormed == NormSpec => []NormTypeOK
<1>1. NormInit => NormTyped
  <2>1. NormInit => normRun \in [NormRuns -> NormRunType]
    BY NormIdleTyped DEF NormInit
  <2>2. 1 \in NormConfigs /\ 0 \in 0..NormCollections
    BY NormAssumption DEF NormAssumption
  <2> QED BY <2>1, <2>2 DEF NormInit, NormTyped
<1>2. ASSUME NormInv, NormTyped, [NormNext]_normVars PROVE NormTyped'
  <2>1. ASSUME NEW response \in NormArchive, NEW archived \in BOOLEAN, NormCollect(response, archived)
        PROVE  NormTyped'
    <3>1. normCollected' \in 0..NormCollections
      BY <1>2, <2>1, NormAssumption DEF NormAssumption, NormCollect, NormTyped
    <3>2. normRaced' \subseteq NormRecords
      <4>1. {link[1] : link \in response} \subseteq NormRecords
        BY DEF NormArchive
      <4> QED BY <1>2, <2>1, <4>1 DEF NormCollect, NormTyped
    <3> QED BY <1>2, <2>1, <3>1, <3>2 DEF NormCollect, NormTyped, normStored
  <2>2. ASSUME NEW x \in NormRecords, NormDelete(x) PROVE NormTyped'
    BY <1>2, <2>2, NormAssumption DEF NormAssumption, NormDelete, NormTyped, normStored
  <2>3. CASE NormConfigure \/ NormUpgrade \/ UNCHANGED normVars
    BY <1>2, <2>3 DEF NormConfigure, NormUpgrade, normVars, NormTyped, normStored
  <2>4. ASSUME NEW p \in NormRuns, NormRollback(p) PROVE NormTyped'
    BY <1>2, <2>4, NormIdleTyped, NormRunTyped DEF NormRollback, NormSet, normWorld, normStored, NormTyped
  <2> QED
    BY <1>2, <2>1, <2>2, <2>3, <2>4, NormScanTyped, NormReadTyped, NormStoreTyped, NormReplayTyped DEF NormNext
<1>3. NormInv /\ NormTyped => NormTypeOK
  BY DEF NormInv, NormLineage, NormIngestedType, NormTyped, NormRunType, NormTypeOK
<1> QED BY <1>1, <1>2, <1>3, NormInvHolds, PTL DEF NormSpec

LabTyped ==
  /\ labTarget \in LabTarget
  /\ labSample \in {"registered", "changed", "missing"}
  /\ labAudit \subseteq [call : LabCalls, action : {"verify_sample", "approve_promotion"},
                         outcome : {"allowed", "rejected"}]
  /\ labValid \subseteq LabCalls /\ labEdited \in 0..LabEdits

LEMMA LabWellFormed == LabSpec => []LabTypeOK
<1>1. LabInit => LabTyped
  BY LabAssumption DEF LabAssumption, LabInit, LabTyped
<1>2. ASSUME LabTyped, [LabNext]_labVars PROVE LabTyped'
  <2>1. CASE LabEdit
    BY <1>2, <2>1, LabAssumption DEF LabAssumption, LabEdit, LabTyped
  <2>2. ASSUME NEW c \in LabCalls,
               \/ LabBegin(c) \/ LabNoManifest(c) \/ LabReadTarget(c) \/ LabReadSample(c)
               \/ LabUnnamed(c) \/ LabUnreadable(c) \/ LabRead(c) \/ LabRaises(c)
        PROVE  LabTyped'
    BY <1>2, <2>2 DEF LabBegin, LabNoManifest, LabReadTarget, LabReadSample, LabUnnamed, LabUnreadable, LabRead,
                      LabRaises, LabTyped
  <2>3. ASSUME NEW c \in LabCalls, LabVerified(c) \/ LabApproved(c) PROVE LabTyped'
    <3>1. PICK action \in {"verify_sample", "approve_promotion"}, outcome \in {"allowed", "rejected"} :
            labAudit' = labAudit \cup {[call |-> c, action |-> action, outcome |-> outcome]}
      BY <2>3 DEF LabVerified, LabApproved, LabEvent
    <3>2. UNCHANGED <<labTarget, labSample, labEdited>> /\ labValid' \subseteq labValid \cup {c}
      BY <2>3 DEF LabVerified, LabApproved
    <3> QED BY <1>2, <3>1, <3>2 DEF LabTyped
  <2>4. CASE UNCHANGED labVars
    BY <1>2, <2>4 DEF labVars, LabTyped
  <2> QED BY <1>2, <2>1, <2>2, <2>3, <2>4 DEF LabNext
<1>3. LabInv /\ LabTyped => LabTypeOK
  BY DEF LabInv, LabState, LabTyped, LabTypeOK
<1> QED BY <1>1, <1>2, <1>3, LabInvHolds, PTL DEF LabSpec

LEMMA CopyWellFormed == CopySpec => []CopyTypeOK
<1> DEFINE J == /\ copyKept \subseteq [content : 0..CopyCommits, tables : CopyTablesType]
                /\ copyEdited \subseteq CopyPaths
<1>1. CopyInit => J
  BY DEF CopyInit
<1>2. ASSUME CopyInv, CopyAdopts, J, [CopyNext]_copyVars PROVE J'
  <2>1. ASSUME NEW p \in CopyPaths, CopyEdit(p) PROVE J'
    BY <1>2, <2>1 DEF CopyEdit, copyAdoption
  <2>2. ASSUME NEW s \in CopyStarts, CopyKeep(s) PROVE J'
    <3>1. [content |-> copyLive, tables |-> copyTables] \in [content : 0..CopyCommits, tables : CopyTablesType]
      BY <1>2 DEF CopyInv, CopyShapes, CopyAdopts
    <3> QED BY <1>2, <2>2, <3>1 DEF CopyKeep, copyCopies
  <2>3. ASSUME NEW s \in CopyStarts,
               \/ CopyInspect(s) \/ CopyRead(s) \/ CopyStamp(s)
               \/ CopyAlter(s) \/ CopyMake(s) \/ CopyMove(s) \/ CopyStartEnds(s) \/ CopyStartFails(s)
        PROVE  J'
    BY <1>2, <2>3 DEF CopyInspect, CopyRead, CopyStamp, CopyAlter, CopyMake, CopyMove, CopyStartEnds,
                      CopyStartFails, copyCopies
  <2>4. ASSUME NEW c \in CopyCalls,
               \/ CopyReserve(c) \/ CopyPages(c) \/ CopyHash(c) \/ CopyLook(c) \/ CopyRehash(c) \/ CopyFails(c)
        PROVE  J'
    BY <1>2, <2>4 DEF CopyReserve, CopyPages, CopyHash, CopyLook, CopyRehash, CopyFails, copyAdoption
  <2>5. ASSUME NEW c, NEW from, NEW to, NEW revision, CopyBackup(c, to, revision) \/ CopyRestore(c, from, to, revision)
        PROVE  J'
    BY <1>2, <2>5 DEF CopyBackup, CopyRestore, copyAdoption
  <2>6. CASE CopyCommit \/ UNCHANGED copyVars
    BY <1>2, <2>6 DEF CopyCommit, copyVars, copyAdoption, copyCopies
  <2> QED BY <1>2, <2>1, <2>2, <2>3, <2>4, <2>5, <2>6 DEF CopyNext
<1>3. CopyInv /\ CopyAdopts /\ J => CopyTypeOK
  <2> SUFFICES ASSUME CopyInv, CopyAdopts, J PROVE CopyTypeOK
    OBVIOUS
  <2>1. \A c \in CopyCalls :
       /\ copyCall[c].pc \in {"idle", "reserve", "copy", "hash", "look", "rehash"}
       /\ copyCall[c].file \in CopyFileType /\ copyCall[c].before \in CopyFileType
       /\ copyCall[c].from \subseteq CopyPaths /\ copyCall[c].to \subseteq CopyPaths
    BY DEF CopyInv, CopyShapes, CopyCallType
  <2> QED BY <2>1 DEF CopyInv, CopyShapes, CopyAdopts, CopyStartType, CopyTypeOK
<1> HIDE DEF J
<1> QED BY <1>1, <1>2, <1>3, CopyBegins, CopyStep, PTL DEF CopySpec

LEMMA DupWellFormed == DupSpec => []DupTypeOK
<1>1. DupInv => DupTypeOK
  BY DEF DupInv, DupTyped, DupWhole, DupForest, DupPlace, DupTypeOK
<1> QED BY <1>1, DupInvHolds, PTL

\* Each component moves by itself, and rests in an initial state otherwise.
LEMMA RecordsAlone ==
  RecordsSpec => /\ NormSpec /\ DupSpec /\ PlugSpec /\ ProfSpec /\ ReadySpec /\ VisSpec
                 /\ LaunchSpec /\ LabSpec /\ CopySpec /\ [](part \in Parts)
<1>1. RecordsInit => /\ NormInit /\ DupInit /\ PlugInit /\ ProfInit /\ ReadyInit /\ VisInit
                     /\ LaunchInit /\ LabInit /\ CopyInit /\ part \in Parts
  BY DEF RecordsInit
<1>2. [RecordsNext]_recordsVars =>
        /\ [NormNext]_normVars /\ [DupNext]_dupVars /\ [PlugNext]_plugVars /\ [ProfNext]_profVars
        /\ [ReadyNext]_readyVars /\ [VisNext]_visVars /\ [LaunchNext]_launchVars
        /\ [LabNext]_labVars /\ [CopyNext]_copyVars /\ part' = part
  BY DEF RecordsNext, recordsVars
<1> DEFINE Somewhere == part \in Parts
<1>3. Somewhere /\ part' = part => Somewhere'
  BY DEF Parts
<1> HIDE DEF Somewhere
<1>4. RecordsInit => Somewhere
  BY <1>1 DEF Somewhere
<1>5. RecordsSpec => []Somewhere
  BY <1>2, <1>3, <1>4, PTL DEF RecordsSpec
<1> QED
  BY <1>1, <1>2, <1>5, PTL DEF RecordsSpec, NormSpec, DupSpec, PlugSpec, ProfSpec, ReadySpec, VisSpec,
                              LaunchSpec, LabSpec, CopySpec, Somewhere

\* Whatever fails, races or is killed, rows, files and calls keep the shapes
\* that the code reads back: every attempt of a plugin accounts for all of its
\* documents, at most one answer is cached, what is killed stays within its
\* bound (processing/persistence.py, normalization/repository.py,
\* storage/backup.py, console_launcher.py).
THEOREM RecordsWellFormed == RecordsSpec => []RecordTypeOK
BY RecordsAlone, NormWellFormed, DupWellFormed, PlugWellFormed, ProfWellFormed, ReadyWellFormed,
   VisWellFormed, LaunchWellFormed, LabWellFormed, CopyWellFormed, PTL DEF RecordTypeOK
=============================================================================
