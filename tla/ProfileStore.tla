---------------------------- MODULE ProfileStore ----------------------------
(***************************************************************************)
(* The search profiles a user saves (search_profiles.py) and the task      *)
(* catalog they are registered in (collection_jobs.py, measurement.py).    *)
(* save and list hold the store's lock; the request threads that read the  *)
(* catalog hold no lock at all, and a kill may come between any two steps. *)
(***************************************************************************)
EXTENDS Naturals, FiniteSets

CONSTANTS
  ProfIds,    \* profiles; an identifier is the hash of its content
  ProfLimit,  \* profiles that may be saved
  ProfKills   \* bound: kills of the process

ASSUME ProfAssumption == IsFiniteSet(ProfIds) /\ ProfLimit \in Nat /\ ProfKills \in Nat

VARIABLES
  profDisk,      \* for each web_<hash> directory and staging directory: the files it has
  profKeywords,  \* measurements.keyword_sets, entity_sets
  profPolicies,  \* catalog.profile_policies
  profTasks,     \* catalog.tasks
  profKnown,     \* store.profiles
  profSave,      \* the save that holds the lock
  profAnswered,  \* history: profiles whose save was answered
  profKilled

profCatalog == <<profKeywords, profPolicies, profTasks, profKnown>>
profVars == <<profDisk, profCatalog, profSave, profAnswered, profKilled>>
-----------------------------------------------------------------------------
ProfFiles == {"profile", "policy"}
ProfNoDisk == [published |-> [x \in ProfIds |-> {}], pending |-> {}]
ProfIdle == [pc |-> "idle", todo |-> {}, now |-> {}, saving |-> {}]
ProfPublished == {x \in ProfIds : profDisk.published[x] # {}}

ProfInit ==
  /\ profDisk = ProfNoDisk
  /\ profKeywords = {} /\ profPolicies = {} /\ profTasks = {} /\ profKnown = {}
  /\ profSave = [ProfIdle EXCEPT !.pc = "loading"]
  /\ profAnswered = {}
  /\ profKilled = 0

\* reload: the directories that are not known, one after the other; it stops
\* at a directory whose files are not those of a profile.
ProfReload(saving) ==
  profSave' = [pc |-> "reload", todo |-> ProfPublished \ profKnown, now |-> {}, saving |-> saving]

\* The API starts: the store loads what is on the disk.
ProfLoad ==
  /\ profSave.pc = "loading"
  /\ ProfReload({})
  /\ UNCHANGED <<profDisk, profCatalog, profAnswered, profKilled>>

\* save (of one profile), list (of none): the lock is taken.
ProfCall(profiles) ==
  /\ profSave.pc = "idle"
  /\ Cardinality(profiles) <= 1
  /\ ProfReload(profiles)
  /\ UNCHANGED <<profDisk, profCatalog, profAnswered, profKilled>>

\* _register: the sets, then the policy, then the task, then the profile.
ProfSets ==
  /\ profSave.pc = "reload"
  /\ \E x \in profSave.todo :
       /\ profDisk.published[x] = ProfFiles
       /\ profKeywords' = profKeywords \cup {x}
       /\ profSave' = [profSave EXCEPT !.pc = "policy", !.todo = @ \ {x}, !.now = {x}]
  /\ UNCHANGED <<profDisk, profPolicies, profTasks, profKnown, profAnswered, profKilled>>

\* Mutant: profiles that are loaded from the disk get no policy of their own.
ProfPolicySaved ==
  /\ profSave.pc = "policy"
  /\ profPolicies' = profPolicies \cup (profSave.now \cap profSave.saving)
  /\ profSave' = [profSave EXCEPT !.pc = "task"]
  /\ UNCHANGED <<profDisk, profKeywords, profTasks, profKnown, profAnswered, profKilled>>

ProfPolicy ==
  /\ profSave.pc = "policy"
  /\ profPolicies' = profPolicies \cup profSave.now
  /\ profSave' = [profSave EXCEPT !.pc = "task"]
  /\ UNCHANGED <<profDisk, profKeywords, profTasks, profKnown, profAnswered, profKilled>>

ProfTask ==
  /\ profSave.pc = "task"
  /\ profTasks' = profTasks \cup profSave.now
  /\ profKnown' = profKnown \cup profSave.now
  /\ profSave' = [profSave EXCEPT !.pc = "reload", !.now = {}]
  /\ UNCHANGED <<profDisk, profKeywords, profPolicies, profAnswered, profKilled>>

\* The directories are loaded: the answer of list, of a replayed save, of one
\* that was registered now; or the refusal at the limit.
ProfReply ==
  /\ profSave.pc = "reload" /\ profSave.todo = {}
  /\ \/ profSave.saving \subseteq profKnown
     \/ Cardinality(profKnown) >= ProfLimit
  /\ profAnswered' = profAnswered \cup (profSave.saving \cap profKnown)
  /\ profSave' = ProfIdle
  /\ UNCHANGED <<profDisk, profCatalog, profKilled>>

\* mkdtemp, and then one file after the other into the staging directory.
ProfStage ==
  /\ \/ profSave.pc = "reload" /\ profSave.todo = {} /\ ~(profSave.saving \subseteq profKnown)
          /\ Cardinality(profKnown) < ProfLimit
     \/ profSave.pc = "stage" /\ profDisk.pending # ProfFiles
  /\ profSave' = [profSave EXCEPT !.pc = "stage"]
  /\ profDisk' = [profDisk EXCEPT !.pending =
       IF profSave.pc = "reload" THEN {} ELSE IF @ = {} THEN {"profile"} ELSE ProfFiles]
  /\ UNCHANGED <<profCatalog, profAnswered, profKilled>>

\* Mutant: the profile's own directory is filled, with no staging.
ProfPublishDirect ==
  /\ profSave.pc = "stage"
  /\ profDisk' = [profDisk EXCEPT !.published =
       [x \in ProfIds |-> IF x \in profSave.saving THEN profDisk.pending ELSE @[x]]]
  /\ profSave' = [profSave EXCEPT !.pc = IF profDisk.pending = ProfFiles THEN "reload" ELSE "stage",
                                  !.todo = IF profDisk.pending = ProfFiles THEN profSave.saving ELSE {}]
  /\ UNCHANGED <<profCatalog, profAnswered, profKilled>>

\* The rename publishes the directory as a whole.
ProfPublish ==
  /\ profSave.pc = "stage" /\ profDisk.pending = ProfFiles
  /\ profDisk' = [pending |-> {},
       published |-> [x \in ProfIds |-> IF x \in profSave.saving THEN ProfFiles
                                        ELSE profDisk.published[x]]]
  /\ profSave' = [profSave EXCEPT !.pc = "reload", !.todo = profSave.saving]
  /\ UNCHANGED <<profCatalog, profAnswered, profKilled>>

\* A write fails: the staging directory is removed and the call raises.
ProfWriteFails ==
  /\ profSave.pc = "stage"
  /\ profDisk' = [profDisk EXCEPT !.pending = {}]
  /\ profSave' = ProfIdle
  /\ UNCHANGED <<profCatalog, profAnswered, profKilled>>

\* The API process is killed and started again; a staging directory stays.
ProfKill ==
  /\ profKilled < ProfKills
  /\ profKilled' = profKilled + 1
  /\ profKeywords' = {} /\ profPolicies' = {} /\ profTasks' = {} /\ profKnown' = {}
  /\ profSave' = [ProfIdle EXCEPT !.pc = "loading"]
  /\ UNCHANGED <<profDisk, profAnswered>>

ProfNext ==
  \/ ProfLoad \/ ProfSets \/ ProfPolicy \/ ProfTask \/ ProfReply
  \/ ProfStage \/ ProfPublish \/ ProfWriteFails \/ ProfKill
  \/ \E profiles \in SUBSET ProfIds : ProfCall(profiles)

ProfSpec == ProfInit /\ [][ProfNext]_profVars
-----------------------------------------------------------------------------
ProfTypeOK ==
  /\ profDisk \in [published : [ProfIds -> SUBSET ProfFiles], pending : SUBSET ProfFiles]
  /\ profKeywords \subseteq ProfIds /\ profPolicies \subseteq ProfIds
  /\ profTasks \subseteq ProfIds /\ profKnown \subseteq ProfIds
  /\ profSave.pc \in {"loading", "idle", "reload", "policy", "task", "stage"}
  /\ profAnswered \subseteq ProfIds /\ profKilled \in 0..ProfKills

\* A request thread that finds a task in the catalog, at any moment, finds its
\* measurement sets, its policy entry and the policy file as well.
ProfTaskUsable ==
  \A x \in profTasks :
    x \in profKeywords /\ x \in profPolicies /\ "policy" \in profDisk.published[x]

\* What is published is a whole profile, so that a start after a kill at any
\* step can load every directory; a save that was answered is among them; and
\* there are never more than the limit.
ProfSavedWhole ==
  /\ \A x \in ProfPublished : profDisk.published[x] = ProfFiles
  /\ profAnswered \subseteq ProfPublished
  /\ Cardinality(ProfPublished) <= ProfLimit

\* A profile that can be seen can be used, by the threads of the process that
\* saves it and by a later one (search_profiles.py:141-239).
ProfKept == ProfTaskUsable /\ ProfSavedWhole
=============================================================================
