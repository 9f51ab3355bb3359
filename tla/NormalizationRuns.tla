------------------------- MODULE NormalizationRuns -------------------------
(***************************************************************************)
(* Normalization (normalization/*.py): a run fills in missing archive      *)
(* lineage from the archived responses, reads the active records, and      *)
(* stores in one transaction a normalized version of each, the run and the *)
(* disposition of every input.  Collections and other runs go on between   *)
(* its steps.                                                              *)
(***************************************************************************)
EXTENDS Naturals, FiniteSets

CONSTANTS
  NormRecords,      \* identities of source records
  NormRaws,         \* contents (raw_hash) a record may have
  NormProfiled,     \* for each version of the configuration: the records that have a profile
  NormRuns,         \* runs of the command line in progress
  NormCollections   \* bound: collections and deletions

NormConfigs == DOMAIN NormProfiled
NormArchive == SUBSET (NormRecords \X NormRaws)

ASSUME NormAssumption ==
  /\ "none" \notin NormRaws
  /\ NormConfigs \subseteq Nat /\ 1 \in NormConfigs
  /\ \A config \in NormConfigs : NormProfiled[config] \subseteq NormRecords
  /\ NormCollections \in Nat

VARIABLES
  normIngested,   \* ingested_records: raw ("none": absent), archive ({}: null), deleted
  normArchives,   \* files of the archive; a file is the record links it holds
  normCollected,  \* collections so far
  normConfig,     \* config/normalization.yaml
  normMembered,   \* the schema has normalization_run_memberships (revision 0004)
  normRows,       \* normalized_records
  normDone,       \* normalization_runs with their memberships
  normRun,        \* the runs in progress
  normRaced       \* history: records collected between the two halves of a backfill of theirs

normVars == <<normIngested, normArchives, normCollected, normConfig, normMembered,
              normRows, normDone, normRun, normRaced>>
normStored == <<normRows, normDone>>
normWorld == <<normArchives, normCollected, normConfig, normMembered>>
-----------------------------------------------------------------------------
NormAbsent == [raw |-> "none", archive |-> {}, deleted |-> FALSE]
NormIdle == [pc |-> "idle", found |-> {}, input |-> {}, config |-> 1]
NormSet(p, r) == normRun' = [normRun EXCEPT ![p] = r]

NormInit ==
  /\ normIngested = [x \in NormRecords |-> NormAbsent]
  /\ normArchives = {}
  /\ normCollected = 0
  /\ normConfig = 1
  /\ normMembered = FALSE
  /\ normRows = {} /\ normDone = {}
  /\ normRun = [p \in NormRuns |-> NormIdle]
  /\ normRaced = {}

NormFilled(p) == {f.record : f \in normRun[p].found}

\* Rows a transaction has updated and not committed: other writers wait.
NormLocked == UNION {NormFilled(p) : p \in {q \in NormRuns : normRun[q].pc = "store"}}

\* upsert_records of a committed page: every record of the response carries
\* the digest of the response, and none where the response was not archived.
NormCollect(response, archived) ==
  LET of(x) == CHOOSE raw \in NormRaws : <<x, raw>> \in response
      got == {link[1] : link \in response} IN
  /\ normCollected < NormCollections
  /\ response # {} /\ got \cap NormLocked = {}
  /\ \A x \in NormRecords : Cardinality({raw \in NormRaws : <<x, raw>> \in response}) <= 1
  /\ normCollected' = normCollected + 1
  /\ normArchives' = IF archived THEN normArchives \cup {response} ELSE normArchives
  /\ normIngested' = [x \in NormRecords |->
       IF x \in got THEN [raw |-> of(x), archive |-> IF archived THEN response ELSE {}, deleted |-> FALSE]
       ELSE normIngested[x]]
  /\ normRaced' = normRaced \cup (got \cap UNION {NormFilled(p) : p \in NormRuns})
  /\ UNCHANGED <<normConfig, normMembered, normStored, normRun>>

\* mark_records_deleted
NormDelete(x) ==
  /\ normCollected < NormCollections
  /\ normIngested[x].raw # "none" /\ ~normIngested[x].deleted /\ x \notin NormLocked
  /\ normCollected' = normCollected + 1
  /\ normIngested' = [normIngested EXCEPT ![x].deleted = TRUE]
  /\ UNCHANGED <<normArchives, normConfig, normMembered, normStored, normRun, normRaced>>

NormConfigure ==
  /\ normConfig + 1 \in NormConfigs
  /\ normConfig' = normConfig + 1
  /\ UNCHANGED <<normIngested, normArchives, normCollected, normMembered, normStored, normRun, normRaced>>

\* upgrade_database to a version with memberships; earlier runs have none.
NormUpgrade ==
  /\ ~normMembered
  /\ \A p \in NormRuns : normRun[p].pc = "idle"
  /\ normMembered' = TRUE
  /\ UNCHANGED <<normIngested, normArchives, normCollected, normConfig, normStored, normRun, normRaced>>

\* Mutant: the raw hash of the record is not compared.
NormCandidatesOfRecord(x) == {file \in normArchives : \E raw \in NormRaws : <<x, raw>> \in file}

\* Archives that prove the exact content a record has.
NormCandidates(x) == {file \in normArchives : <<x, normIngested[x].raw>> \in file}

\* backfill_archive_lineage, first half: the archive and the records without
\* lineage.  Of several candidates the smallest digest is taken.
NormScan(p) ==
  LET missing == {x \in NormRecords : normIngested[x].raw # "none" /\ normIngested[x].archive = {}
                                        /\ NormCandidates(x) # {}} IN
  /\ normRun[p].pc = "idle"
  /\ NormSet(p, [NormIdle EXCEPT !.pc = "fill", !.config = normConfig,
       !.found = {[record |-> x, archive |-> CHOOSE file \in NormCandidates(x) : TRUE] : x \in missing}])
  /\ UNCHANGED <<normIngested, normWorld, normStored, normRaced>>

\* The rows as the transaction sees them, and as its commit leaves them.
NormFill(p) ==
  [x \in NormRecords |->
     IF x \in NormFilled(p)
     THEN [normIngested[x] EXCEPT !.archive = (CHOOSE f \in normRun[p].found : f.record = x).archive]
     ELSE normIngested[x]]

\* Second half: the UPDATEs of the flush, by the key of the record; then the
\* records that are not deleted are read.
NormRead(p) ==
  LET seen == NormFill(p)
      active == {x \in NormRecords : seen[x].raw # "none" /\ ~seen[x].deleted} IN
  /\ normRun[p].pc = "fill" /\ NormFilled(p) \cap NormLocked = {}
  /\ NormSet(p, [normRun[p] EXCEPT !.pc = "store",
       !.input = {[record |-> x, raw |-> seen[x].raw, archive |-> seen[x].archive] : x \in active}])
  /\ UNCHANGED <<normIngested, normWorld, normStored, normRaced>>

\* normalize_record: the identity of a version, and its quality.
NormVersion(item, config) ==
  [record |-> item.record, raw |-> item.raw, archive |-> item.archive, config |-> config,
   quality |-> IF item.archive = {} THEN "quarantined" ELSE "accepted"]

NormDocuments(input, config) ==
  {NormVersion(item, config) : item \in {i \in input : i.record \in NormProfiled[config]}}

\* The columns of the constraint uq_normalized_input_version.
NormColumns(version) == <<version.record, version.raw, version.config>>

NormMember(item, config, disposition) ==
  [record |-> item.record, raw |-> item.raw, disposition |-> disposition,
   version |-> IF item.record \in NormProfiled[config] THEN {NormVersion(item, config)} ELSE {}]

\* Mutant: inputs without a profile get no disposition.
NormMembersProfiled(input, config) ==
  {NormMember(item, config, IF NormVersion(item, config) \in normRows
                            THEN "normalized_reused" ELSE "normalized_new") :
     item \in {i \in input : i.record \in NormProfiled[config]}}

NormMembers(input, config) ==
  {NormMember(item, config,
              IF item.record \notin NormProfiled[config] THEN "unconfigured"
              ELSE IF NormVersion(item, config) \in normRows THEN "normalized_reused"
              ELSE "normalized_new") : item \in input}

NormSame(p) == {run \in normDone : run.config = normRun[p].config /\ run.input = normRun[p].input}

\* run_normalization stores the run; the constraints of the database hold.
NormStore(p) ==
  LET r == normRun[p]
      documents == NormDocuments(r.input, r.config) IN
  /\ r.pc = "store" /\ NormSame(p) = {}
  /\ \A new \in documents \ normRows, old \in normRows : NormColumns(new) # NormColumns(old)
  /\ normRows' = normRows \cup documents
  /\ normDone' = normDone \cup {[config |-> r.config, input |-> r.input,
       members |-> IF normMembered THEN NormMembers(r.input, r.config) ELSE {}]}
  /\ normIngested' = NormFill(p)
  /\ NormSet(p, NormIdle)
  /\ UNCHANGED <<normWorld, normRaced>>

\* The same inputs were normalized before: _ensure_memberships rebuilds the
\* memberships of a run older than the table, and only then is there a commit:
\* lineage that was filled in is lost where there is nothing to rebuild.
NormReplay(p) ==
  LET r == normRun[p] IN
  /\ r.pc = "store"
  /\ \E run \in NormSame(p) :
       LET rebuild == normMembered /\ run.members = {} /\ run.input # {} IN
       /\ normDone' = IF rebuild
                      THEN (normDone \ {run}) \cup {[run EXCEPT !.members = NormMembers(r.input, r.config)]}
                      ELSE normDone
       /\ normIngested' = IF rebuild THEN NormFill(p) ELSE normIngested
  /\ NormSet(p, NormIdle)
  /\ UNCHANGED <<normWorld, normRows, normRaced>>

\* A stored version has the columns of a new one: the flush is refused.
NormRefused(p) ==
  LET r == normRun[p] IN
  /\ r.pc = "store" /\ NormSame(p) = {}
  /\ \E new \in NormDocuments(r.input, r.config) \ normRows, old \in normRows :
       NormColumns(new) = NormColumns(old)

\* The transaction is rolled back: a refused flush, another database error, a
\* damaged archive, a kill.
NormRollback(p) ==
  LET r == normRun[p] IN
  /\ r.pc \in {"fill", "store"}
  /\ NormSet(p, NormIdle)
  /\ UNCHANGED <<normIngested, normWorld, normStored, normRaced>>

NormNext ==
  \/ \E response \in NormArchive, archived \in BOOLEAN : NormCollect(response, archived)
  \/ \E x \in NormRecords : NormDelete(x)
  \/ NormConfigure \/ NormUpgrade
  \/ \E p \in NormRuns :
       NormScan(p) \/ NormRead(p) \/ NormStore(p) \/ NormReplay(p) \/ NormRollback(p)

NormSpec == NormInit /\ [][NormNext]_normVars
-----------------------------------------------------------------------------
NormVersionType == [record : NormRecords, raw : NormRaws, archive : NormArchive,
                    config : NormConfigs, quality : {"quarantined", "accepted"}]

NormTypeOK ==
  /\ normIngested \in [NormRecords -> [raw : NormRaws \cup {"none"}, archive : NormArchive,
                                       deleted : BOOLEAN]]
  /\ normArchives \subseteq NormArchive
  /\ normCollected \in 0..NormCollections
  /\ normConfig \in NormConfigs /\ normMembered \in BOOLEAN
  /\ normRows \subseteq NormVersionType
  /\ \A run \in normDone : run.config \in NormConfigs
  /\ \A p \in NormRuns : normRun[p].pc \in {"idle", "fill", "store"}
  /\ normRaced \subseteq NormRecords

\* Every record and every normalized version that names an archive is proved
\* by it: the file exists and holds that very content, also where the lineage
\* was filled in later.  (Except for a record that was collected between the
\* two halves of a backfill: the UPDATE goes by the key alone.)
NormLineageProved ==
  /\ \A x \in NormRecords \ normRaced : normIngested[x].archive # {} =>
       /\ normIngested[x].archive \in normArchives
       /\ <<x, normIngested[x].raw>> \in normIngested[x].archive
  /\ \A version \in normRows : version.archive # {} /\ version.record \notin normRaced =>
       <<version.record, version.raw>> \in version.archive

\* The memberships of a run account for every input it had, each with the
\* version made of exactly that content under the run's configuration, or with
\* none where the record has no profile; also after collections
\* and the upgrade of a database older than the memberships.
NormAccounted ==
  \A run \in normDone : run.members # {} =>
    /\ {[record |-> m.record, raw |-> m.raw] : m \in run.members}
         = {[record |-> i.record, raw |-> i.raw] : i \in run.input}
    /\ \A m \in run.members :
         /\ m.disposition = "unconfigured" <=> m.version = {}
         /\ m.version \subseteq normRows
         /\ \A version \in m.version : NormColumns(version) = <<m.record, m.raw, run.config>>

\* What normalization stores is true of its inputs and complete: lineage of
\* records and versions, and the account every run gives of its input
\* (normalization/repository.py:43-140, lineage.py:40-75).
NormTrue == NormLineageProved /\ NormAccounted

\* docs/normalization.md: the identity of a version includes the archive, so a
\* record that is archived anew gets a version of its own, beside the old one.
NormVersioned == \A p \in NormRuns : ~NormRefused(p)
=============================================================================
