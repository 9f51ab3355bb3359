------------------------- MODULE Connectors_proofs --------------------------
(***************************************************************************)
(* What the connectors remember, count and store, for every value of their *)
(* constants, each by itself as in MCConnectors.                           *)
(***************************************************************************)
EXTENDS MCConnectors, FiniteSetTheorems, TLAPS

(* GitHub.  What the connector remembers is stored, a tombstone needs two  *)
(* safe cycles without the record, and one removal never costs another     *)
(* record its place: for any ids, page sizes and limits, and any changes   *)
(* of the result list between the requests.                                *)
\* A response that brings no records is the one the cache has.
HeldCached ==
  held # None /\ ~held.fresh => checkpoint.cache[checkpoint.page] = held.answer

\* Nothing is missing before the first snapshot.
FirstSnapshot == ~checkpoint.hasPrevious => checkpoint.missing = {}

\* An id that is missing was absent from the last safe cycle.
MissingCounted == \A i \in checkpoint.missing : gone[i] >= 1

SteadyThere == steady \subseteq Elements(upstream)

\* The removals it takes: one for a cycle that misses a steady id, two when a
\* steady id is missing already.
Condemned == steady \cap checkpoint.missing
Evidence == removals >= 1 /\ (Condemned # {} => removals >= 2)

\* A cycle that saw what is not in the list any more, or misses a steady id
\* although it looks complete, has met a removal.
LostSeen ==
  /\ ~(checkpoint.seen \subseteq Elements(upstream)) => Evidence
  /\ held # None /\ ~(Seen \subseteq Elements(upstream)) => Evidence
MissedSteady ==
  /\ held # None /\ SafeCompleteSnapshot /\ ~(steady \subseteq Seen) => Evidence
  /\ Condemned # {} => removals >= 1

SnapshotInv ==
  /\ TypeOK
  /\ HeldCached
  /\ RememberedIsStored
  /\ FirstSnapshot
  /\ MissingCounted
  /\ SteadyThere
  /\ removals <= changes
  /\ LostSeen
  /\ MissedSteady
  /\ OneRemovalHarmless
-----------------------------------------------------------------------------
(* The list and its pages.                                                 *)

LEMMA ListFacts ==
  ASSUME NEW list \in Lists
  PROVE  /\ Len(list) \in Nat /\ Len(list) <= Cardinality(Ids)
         /\ Elements(list) \subseteq Ids /\ IsFiniteSet(Elements(list))
         /\ Cardinality(Elements(list)) = Len(list)
         /\ Cardinality(Ids) \in Nat
<1>1. PICK n \in 0..Cardinality(Ids) : list \in [1..n -> Ids]
  BY DEF Lists
<1>2. Cardinality(Ids) \in Nat
  BY FS_CardinalityType, SnapshotAssumption
<1>3. Len(list) = n
  BY <1>1, <1>2
<1>4. Elements(list) \subseteq Ids
  BY <1>1, <1>2, <1>3 DEF Elements
<1>5. IsFiniteSet(Elements(list))
  BY <1>4, FS_Subset, SnapshotAssumption
<1>6. QED
  BY <1>1, <1>2, <1>3, <1>4, <1>5 DEF Lists

LEMMA PageFacts ==
  ASSUME NEW list \in Lists, NEW page \in Pages, NEW incomplete \in BOOLEAN
  PROVE  /\ PageOf(list, page, incomplete) \in Response
         /\ PageOf(list, page, incomplete).ids \subseteq Elements(list)
         /\ PageOf(list, page, incomplete).total = Len(list)
         /\ PageOf(list, page, incomplete).incomplete = incomplete
<1> DEFINE served == Least(Len(list), SearchCap)
           ids == {list[i] : i \in ((page - 1) * PageSize + 1)..Least(page * PageSize, served)}
<1>1. /\ Len(list) \in Nat /\ Len(list) <= Cardinality(Ids) /\ Elements(list) \subseteq Ids
      /\ Cardinality(Ids) \in Nat
  BY ListFacts
<1>2. served \in Nat /\ served <= Len(list)
  BY <1>1, SnapshotAssumption DEF Least
<1>3. page * PageSize \in Nat /\ (page - 1) * PageSize \in Nat
  BY SnapshotAssumption DEF Pages
<1> HIDE DEF served
<1>4. ids \subseteq Elements(list)
  <2>1. Least(page * PageSize, served) <= Len(list) /\ Least(page * PageSize, served) \in Nat
    BY <1>1, <1>2, <1>3 DEF Least
  <2>2. ((page - 1) * PageSize + 1)..Least(page * PageSize, served) \subseteq 1..Len(list)
    BY <1>1, <1>3, <2>1
  <2>3. QED
    BY <2>2 DEF Elements
<1>5. PageOf(list, page, incomplete) =
        [ids |-> ids, total |-> Len(list), more |-> page * PageSize < served,
         incomplete |-> incomplete]
  BY DEF PageOf, served
<1> HIDE DEF ids
<1>6. QED
  BY <1>1, <1>4, <1>5 DEF Response

\* A complete cycle that misses an element of the list has seen another that
\* is not in it.
LEMMA Displaced ==
  ASSUME NEW list \in Lists, NEW seen, IsFiniteSet(seen), Cardinality(seen) = Len(list),
         NEW i \in Elements(list), i \notin seen
  PROVE  ~(seen \subseteq Elements(list))
<1> SUFFICES ASSUME seen \subseteq Elements(list) PROVE FALSE
  OBVIOUS
<1>1. seen \subseteq Elements(list) \ {i} /\ IsFiniteSet(Elements(list))
  BY ListFacts
<1>2. /\ IsFiniteSet(Elements(list) \ {i})
      /\ Cardinality(Elements(list) \ {i}) = Cardinality(Elements(list)) - 1
  BY <1>1, FS_RemoveElement
<1>3. Cardinality(seen) <= Cardinality(Elements(list) \ {i})
  BY <1>1, <1>2, FS_Subset
<1>4. QED
  BY <1>2, <1>3, ListFacts
-----------------------------------------------------------------------------
(* SnapshotInv is inductive.                                               *)

LEMMA Least2 ==
  ASSUME NEW a \in Nat, NEW b \in Nat
  PROVE  Least(a, b) \in Nat /\ Least(a, b) <= a /\ Least(a, b) <= b
         /\ (Least(a, b) = a \/ Least(a, b) = b)
BY DEF Least

LEMMA Types ==
  ASSUME SnapshotInv
  PROVE  /\ upstream \in Lists /\ changes \in Nat /\ removals \in Nat
         /\ record \in [Ids -> {"absent", "live", "deleted"}]
         /\ checkpoint \in Checkpoint /\ checkpoint.page \in Pages
         /\ checkpoint.seen \subseteq Ids /\ checkpoint.previous \subseteq Ids
         /\ checkpoint.missing \subseteq Ids /\ checkpoint.hasPrevious \in BOOLEAN
         /\ checkpoint.cache \in [Pages -> Response \cup {None}]
         /\ held # None => /\ held.answer \in Response /\ held.fresh \in BOOLEAN
                           /\ held.answer.ids \subseteq Ids /\ Seen \subseteq Ids
         /\ steady \subseteq Ids
         /\ gone \in [Ids -> 0..2] /\ \A i \in Ids : gone[i] \in Nat /\ gone[i] <= 2
BY SnapshotAssumption DEF SnapshotInv, TypeOK, Checkpoint, Response, Seen

LEMMA InitSnapshotInv == Init => SnapshotInv
<1> SUFFICES ASSUME Init PROVE SnapshotInv
  OBVIOUS
<1>1. checkpoint = FirstCheckpoint /\ held = None /\ removals = 0 /\ changes = 0
  BY DEF Init
<1>2. Elements(upstream) \subseteq Ids
  BY ListFacts DEF Init
<1>3. FirstCheckpoint \in Checkpoint
  <2>1. 1 \in Pages
    BY SnapshotAssumption DEF Pages
  <2>2. QED
    BY <2>1 DEF FirstCheckpoint, Checkpoint
<1>4. TypeOK
  BY <1>1, <1>2, <1>3, SnapshotAssumption DEF Init, TypeOK
<1>5. /\ checkpoint.seen = {} /\ checkpoint.previous = {} /\ checkpoint.missing = {}
      /\ \A p \in Pages : checkpoint.cache[p] = None
  BY <1>1 DEF FirstCheckpoint
<1>6. RememberedIsStored
  BY <1>5 DEF RememberedIsStored
<1>7. HeldCached /\ FirstSnapshot /\ MissingCounted /\ LostSeen /\ MissedSteady
  BY <1>1, <1>5 DEF HeldCached, FirstSnapshot, MissingCounted, LostSeen, MissedSteady, Condemned
<1>8. SteadyThere /\ OneRemovalHarmless /\ removals <= changes
  BY <1>1, <1>2 DEF Init, SteadyThere, OneRemovalHarmless
<1>9. QED
  BY <1>4, <1>6, <1>7, <1>8 DEF SnapshotInv

\* The list changes: nothing leaves it, or a removal is counted.
LEMMA WorldStep ==
  ASSUME SnapshotInv, UNCHANGED <<record, checkpoint, held, gone>>, TypeOK',
         removals' <= changes', steady' \subseteq steady, SteadyThere',
         \/ removals' = removals /\ Elements(upstream) \subseteq Elements(upstream')
         \/ removals' = removals + 1
  PROVE  SnapshotInv'
<1>1. removals \in Nat
  BY Types
<1>2. (HeldCached /\ RememberedIsStored /\ FirstSnapshot /\ MissingCounted)'
  BY DEF SnapshotInv, HeldCached, RememberedIsStored, FirstSnapshot, MissingCounted
<1>3. Condemned' \subseteq Condemned
  BY DEF Condemned
<1>4. Evidence => Evidence'
  BY <1>1, <1>3 DEF Evidence
<1>5. removals' = removals + 1 => Evidence'
  BY <1>1, <1>3 DEF Evidence, SnapshotInv, MissedSteady
<1>6. Seen' = Seen /\ SafeCompleteSnapshot' = SafeCompleteSnapshot
  BY DEF Seen, SafeCompleteSnapshot
<1>7. LostSeen'
  BY <1>4, <1>5, <1>6 DEF SnapshotInv, LostSeen
<1>8. MissedSteady'
  BY <1>1, <1>3, <1>4, <1>5, <1>6 DEF SnapshotInv, MissedSteady
<1>9. OneRemovalHarmless'
  BY <1>1 DEF SnapshotInv, OneRemovalHarmless
<1>10. QED
  BY <1>2, <1>7, <1>8, <1>9 DEF SnapshotInv

LEMMA ListStep ==
  ASSUME SnapshotInv, NEW id \in Ids, Appear(id) \/ Update(id) \/ Disappear(id)
  PROVE  SnapshotInv'
<1>1. /\ changes \in Nat /\ changes < MaxChanges /\ changes' = changes + 1
      /\ upstream' \in Lists
      /\ UNCHANGED <<record, checkpoint, held, gone>>
  BY Types DEF Appear, Update, Disappear, Change
<1>2. removals \in Nat /\ removals <= changes
  BY Types DEF SnapshotInv
<1>3. CASE Appear(id) \/ Update(id)
  <2>1. /\ removals' = removals /\ steady' = steady
        /\ Elements(upstream) \subseteq Elements(upstream')
    BY <1>3 DEF Appear, Update, Change
  <2>2. TypeOK' /\ SteadyThere'
    BY <1>1, <1>2, <2>1, SnapshotAssumption DEF SnapshotInv, TypeOK, SteadyThere
  <2>3. QED
    BY <1>1, <1>2, <2>1, <2>2, WorldStep
<1>4. CASE Disappear(id)
  <2>1. /\ removals' = removals + 1 /\ steady' = steady \ {id}
        /\ Elements(upstream') = Elements(upstream) \ {id}
    BY <1>4 DEF Disappear, Change
  <2>2. TypeOK' /\ SteadyThere'
    BY <1>1, <1>2, <2>1, SnapshotAssumption DEF SnapshotInv, TypeOK, SteadyThere
  <2>3. QED
    BY <1>1, <1>2, <2>1, <2>2, WorldStep
<1>5. QED
  BY <1>3, <1>4

\* A response is held: what is new in it is in the list now.
LEMMA CollectStep ==
  ASSUME SnapshotInv, NEW list \in Lists, NEW fresh \in BOOLEAN, Collect(list, fresh)
  PROVE  SnapshotInv'
<1> DEFINE answer == PageOf(list, checkpoint.page, list # upstream)
<1>1. /\ checkpoint.cache[checkpoint.page] # answer => fresh
      /\ held' = [answer |-> answer, fresh |-> fresh]
      /\ Elements(list) \subseteq Elements(upstream)
      /\ UNCHANGED <<upstream, changes, removals, steady, record, checkpoint, gone>>
  BY DEF Collect, world
<1>2. /\ answer \in Response /\ answer.ids \subseteq Elements(list)
      /\ answer.total = Len(list) /\ answer.incomplete = (list # upstream)
  <2>1. (list # upstream) \in BOOLEAN /\ checkpoint.page \in Pages
    BY Types
  <2>2. QED
    BY <2>1, PageFacts
<1> HIDE DEF answer
<1>3. held'.answer = answer /\ held'.fresh = fresh /\ Seen' = checkpoint.seen \cup answer.ids
  BY <1>1 DEF Seen
<1>4. TypeOK'
  BY <1>1, <1>2 DEF SnapshotInv, TypeOK
<1>5. (HeldCached /\ RememberedIsStored /\ FirstSnapshot /\ MissingCounted)'
  BY <1>1, <1>3 DEF SnapshotInv, HeldCached, RememberedIsStored, FirstSnapshot, MissingCounted
<1>6. SteadyThere' /\ OneRemovalHarmless' /\ Condemned' = Condemned /\ Evidence' = Evidence
  BY <1>1 DEF SnapshotInv, SteadyThere, OneRemovalHarmless, Condemned, Evidence
<1>7. ~(Seen' \subseteq Elements(upstream)) => Evidence
  BY <1>1, <1>2, <1>3 DEF SnapshotInv, LostSeen
<1>8. LostSeen'
  BY <1>1, <1>6, <1>7 DEF SnapshotInv, LostSeen
<1>9. ASSUME SafeCompleteSnapshot', ~(steady \subseteq Seen')
      PROVE  Evidence
  <2>1. PICK i \in steady : i \notin Seen'
    BY <1>9
  <2>2. list = upstream /\ Cardinality(Seen') = Len(upstream)
    BY <1>2, <1>3, <1>9 DEF SafeCompleteSnapshot
  <2>3. Seen' \subseteq Ids
    BY <1>2, <1>3, Types DEF Response
  <2>4. IsFiniteSet(Seen')
    BY <2>3, FS_Subset, SnapshotAssumption
  <2>5. i \in Elements(upstream) /\ upstream \in Lists
    BY <2>1, Types DEF SnapshotInv, SteadyThere
  <2>6. ~(Seen' \subseteq Elements(upstream))
    BY <2>1, <2>2, <2>4, <2>5, Displaced
  <2>7. QED
    BY <1>7, <2>6
<1>10. MissedSteady'
  BY <1>1, <1>6, <1>9 DEF SnapshotInv, MissedSteady
<1>11. removals' <= changes'
  BY <1>1 DEF SnapshotInv
<1>12. QED
  BY <1>4, <1>5, <1>6, <1>8, <1>10, <1>11 DEF SnapshotInv

LEMMA DropStep ==
  ASSUME SnapshotInv, Drop
  PROVE  SnapshotInv'
<1>1. held' = None /\ UNCHANGED <<upstream, changes, removals, steady, record, checkpoint, gone>>
  BY DEF Drop, world
<1>2. TypeOK'
  BY <1>1 DEF SnapshotInv, TypeOK
<1>3. QED
  BY <1>1, <1>2 DEF SnapshotInv, HeldCached, RememberedIsStored, FirstSnapshot, MissingCounted,
     SteadyThere, LostSeen, MissedSteady, Condemned, Evidence, OneRemovalHarmless

\* What a commit writes.
LEMMA CommitEffect ==
  ASSUME SnapshotInv, Commit
  PROVE  LET safe == SafeCompleteSnapshot
             deleted == IF safe THEN MissingTwice ELSE {} IN
         /\ held # None /\ held' = None /\ safe \in BOOLEAN
         /\ HasMore => ~safe
         /\ deleted \subseteq checkpoint.missing \ Seen
         /\ deleted # {} => safe /\ checkpoint.hasPrevious
         /\ record' \in [Ids -> {"absent", "live", "deleted"}]
         /\ \A i \in Ids : /\ i \in deleted /\ record[i] # "absent" => record'[i] = "deleted"
                           /\ record'[i] = "deleted" => i \in deleted \/ record[i] = "deleted"
                           /\ record[i] # "absent" => record'[i] # "absent"
                           /\ held.fresh /\ i \in held.answer.ids => record'[i] # "absent"
         /\ checkpoint'.page = (IF HasMore THEN checkpoint.page + 1 ELSE 1)
         /\ checkpoint'.seen = (IF HasMore THEN Seen ELSE {})
         /\ checkpoint'.previous = (IF safe THEN Seen ELSE checkpoint.previous)
         /\ checkpoint'.missing = (IF safe /\ checkpoint.hasPrevious THEN Absent \ deleted
                                   ELSE checkpoint.missing)
         /\ checkpoint'.hasPrevious = (checkpoint.hasPrevious \/ safe)
         /\ checkpoint'.cache = [checkpoint.cache EXCEPT ![checkpoint.page] = held.answer]
         /\ \A i \in Ids : gone'[i] = IF ~safe THEN gone[i]
                                      ELSE IF i \in Seen THEN 0 ELSE Least(gone[i] + 1, 2)
         /\ gone' \in [Ids -> 0..2] /\ checkpoint' \in Checkpoint
         /\ UNCHANGED <<upstream, changes, removals, steady>>
<1> DEFINE safe == SafeCompleteSnapshot
           deleted == IF safe THEN MissingTwice ELSE {}
<1>1. safe \in BOOLEAN /\ (HasMore => ~safe)
  BY DEF SafeCompleteSnapshot, HasMore
<1>2. /\ deleted \subseteq checkpoint.missing \ Seen
      /\ deleted # {} => safe /\ checkpoint.hasPrevious
  BY DEF MissingTwice, Absent
<1>3. Store(safe, deleted)
  BY DEF Commit
<1> HIDE DEF safe, deleted
<1>4. held # None /\ held' = None /\ UNCHANGED <<upstream, changes, removals, steady>>
  BY <1>3 DEF Store, world
<1>5. /\ held.answer \in Response /\ held.fresh \in BOOLEAN /\ Seen \subseteq Ids
      /\ checkpoint.page \in Pages
  BY <1>4, Types
<1>6. record' = [i \in Ids |-> IF i \in deleted /\ record[i] # "absent" THEN "deleted"
                               ELSE IF held.fresh /\ i \in held.answer.ids THEN "live"
                               ELSE record[i]]
  BY <1>3 DEF Store
<1>7. /\ record' \in [Ids -> {"absent", "live", "deleted"}]
      /\ \A i \in Ids : /\ i \in deleted /\ record[i] # "absent" => record'[i] = "deleted"
                        /\ record'[i] = "deleted" => i \in deleted \/ record[i] = "deleted"
                        /\ record[i] # "absent" => record'[i] # "absent"
                        /\ held.fresh /\ i \in held.answer.ids => record'[i] # "absent"
  BY <1>6, Types
<1>8. /\ checkpoint'.page = (IF HasMore THEN checkpoint.page + 1 ELSE 1)
      /\ checkpoint'.seen = (IF HasMore THEN Seen ELSE {})
      /\ checkpoint'.previous = (IF safe THEN Seen ELSE checkpoint.previous)
      /\ checkpoint'.missing = (IF safe /\ checkpoint.hasPrevious THEN Absent \ deleted
                                ELSE checkpoint.missing)
      /\ checkpoint'.hasPrevious = (checkpoint.hasPrevious \/ safe)
      /\ checkpoint'.cache = [checkpoint.cache EXCEPT ![checkpoint.page] = held.answer]
  BY <1>3, Zenon DEF Store
<1>9. gone' = [i \in Ids |-> IF ~safe THEN gone[i]
                             ELSE IF i \in Seen THEN 0 ELSE Least(gone[i] + 1, 2)]
  BY <1>3 DEF Store
<1>10. ASSUME NEW i \in Ids
       PROVE  (IF ~safe THEN gone[i] ELSE IF i \in Seen THEN 0 ELSE Least(gone[i] + 1, 2)) \in 0..2
  <2>1. gone[i] \in Nat /\ gone[i] <= 2
    BY Types
  <2>2. Least(gone[i] + 1, 2) \in 0..2
    BY <2>1 DEF Least
  <2>3. QED
    BY <2>1, <2>2
<1>11. gone' \in [Ids -> 0..2]
  BY <1>9, <1>10
<1>12. checkpoint' \in Checkpoint
  <2> DEFINE page == IF HasMore THEN checkpoint.page + 1 ELSE 1
             seen == IF HasMore THEN Seen ELSE {}
             previous == IF safe THEN Seen ELSE checkpoint.previous
             missing == IF safe /\ checkpoint.hasPrevious THEN Absent \ deleted
                        ELSE checkpoint.missing
             hasPrevious == checkpoint.hasPrevious \/ safe
             cache == [checkpoint.cache EXCEPT ![checkpoint.page] = held.answer]
  <2>1. page \in Pages
    BY <1>5, SnapshotAssumption DEF HasMore, Pages
  <2>2. seen \subseteq Ids /\ previous \subseteq Ids /\ missing \subseteq Ids /\ hasPrevious \in BOOLEAN
    BY <1>5, <1>1, Types DEF Absent
  <2>3. cache \in [Pages -> Response \cup {None}]
    BY <1>5, Types
  <2>4. checkpoint' = [page |-> page, seen |-> seen, previous |-> previous, missing |-> missing,
                       hasPrevious |-> hasPrevious, cache |-> cache]
    BY <1>3, Zenon DEF Store
  <2> HIDE DEF page, seen, previous, missing, hasPrevious, cache
  <2>5. QED
    BY <2>1, <2>2, <2>3, <2>4 DEF Checkpoint
<1>13. QED
  BY <1>1, <1>2, <1>4, <1>7, <1>8, <1>9, <1>11, <1>12 DEF safe, deleted

\* A commit stores what the checkpoint will remember, and it marks an id as
\* missing, or its record as deleted, on the evidence of the held response.
LEMMA CommitStep ==
  ASSUME SnapshotInv, Commit
  PROVE  SnapshotInv'
<1> DEFINE safe == SafeCompleteSnapshot
           deleted == IF safe THEN MissingTwice ELSE {}
<1>1. /\ held # None /\ held' = None /\ safe \in BOOLEAN
      /\ HasMore => ~safe
      /\ deleted \subseteq checkpoint.missing \ Seen
      /\ deleted # {} => safe /\ checkpoint.hasPrevious
  BY CommitEffect
<1>2. /\ record' \in [Ids -> {"absent", "live", "deleted"}]
      /\ \A i \in Ids : /\ record'[i] = "deleted" => i \in deleted \/ record[i] = "deleted"
                        /\ record[i] # "absent" => record'[i] # "absent"
                        /\ held.fresh /\ i \in held.answer.ids => record'[i] # "absent"
  BY CommitEffect
<1>3. /\ checkpoint'.seen = (IF HasMore THEN Seen ELSE {})
      /\ checkpoint'.previous = (IF safe THEN Seen ELSE checkpoint.previous)
      /\ checkpoint'.missing = (IF safe /\ checkpoint.hasPrevious THEN Absent \ deleted
                                ELSE checkpoint.missing)
      /\ checkpoint'.hasPrevious = (checkpoint.hasPrevious \/ safe)
      /\ checkpoint'.cache = [checkpoint.cache EXCEPT ![checkpoint.page] = held.answer]
      /\ checkpoint' \in Checkpoint
  BY CommitEffect
<1>4. /\ \A i \in Ids : gone'[i] = IF ~safe THEN gone[i]
                                   ELSE IF i \in Seen THEN 0 ELSE Least(gone[i] + 1, 2)
      /\ gone' \in [Ids -> 0..2]
      /\ UNCHANGED <<upstream, changes, removals, steady>>
  BY CommitEffect
<1>5. safe => SafeCompleteSnapshot
  OBVIOUS
<1> HIDE DEF safe, deleted
<1>6. /\ held.answer \in Response /\ held.answer.ids \subseteq Ids /\ Seen \subseteq Ids
      /\ held.fresh \in BOOLEAN /\ checkpoint.page \in Pages
      /\ checkpoint.cache \in [Pages -> Response \cup {None}]
      /\ removals \in Nat
  BY <1>1, Types
<1>7. Absent \subseteq Ids \ Seen /\ Absent \subseteq checkpoint.missing \cup checkpoint.previous
  BY Types DEF Absent
<1>8. TypeOK' /\ removals' <= changes' /\ HeldCached'
  BY <1>1, <1>2, <1>3, <1>4 DEF SnapshotInv, TypeOK, HeldCached
<1>9. RememberedIsStored'
  <2>1. \A i \in checkpoint.seen \cup checkpoint.previous \cup checkpoint.missing :
          record[i] # "absent"
    BY DEF SnapshotInv, RememberedIsStored
  <2>2. \A p \in Pages : checkpoint.cache[p] # None =>
          \A i \in checkpoint.cache[p].ids : record[i] # "absent"
    BY DEF SnapshotInv, RememberedIsStored
  <2>3. ASSUME NEW i \in held.answer.ids
        PROVE  record'[i] # "absent"
    <3>1. CASE held.fresh
      BY <1>2, <1>6, <3>1
    <3>2. CASE ~held.fresh
      <4>1. checkpoint.cache[checkpoint.page] = held.answer
        BY <1>1, <3>2 DEF SnapshotInv, HeldCached
      <4>2. held.answer # None
        BY <1>6, SnapshotAssumption
      <4>3. record[i] # "absent"
        BY <1>6, <2>2, <4>1, <4>2
      <4>4. QED
        BY <1>2, <1>6, <4>3
    <3>3. QED
      BY <3>1, <3>2, <1>6
  <2>4. \A i \in Seen : record'[i] # "absent"
    BY <1>2, <1>6, <2>1, <2>3 DEF Seen
  <2>5. \A i \in checkpoint.missing \cup checkpoint.previous : record'[i] # "absent"
    BY <1>2, <2>1, Types
  <2>6. \A i \in checkpoint'.seen \cup checkpoint'.previous \cup checkpoint'.missing :
          record'[i] # "absent"
    BY <1>3, <1>7, <2>4, <2>5
  <2>7. ASSUME NEW p \in Pages, checkpoint'.cache[p] # None, NEW i \in checkpoint'.cache[p].ids
        PROVE  record'[i] # "absent"
    <3>1. CASE p = checkpoint.page
      BY <1>3, <1>6, <2>3, <2>7, <3>1
    <3>2. CASE p # checkpoint.page
      <4>1. checkpoint'.cache[p] = checkpoint.cache[p] /\ checkpoint.cache[p] \in Response
        BY <1>3, <1>6, <2>7, <3>2
      <4>2. record[i] # "absent" /\ i \in Ids
        BY <2>2, <2>7, <4>1 DEF Response
      <4>3. QED
        BY <1>2, <4>2
    <3>3. QED
      BY <3>1, <3>2
  <2>8. QED
    BY <2>6, <2>7 DEF RememberedIsStored
<1>10. FirstSnapshot'
  BY <1>3 DEF SnapshotInv, FirstSnapshot
<1>11. MissingCounted'
  <2>1. ASSUME NEW i \in checkpoint'.missing
        PROVE  gone'[i] >= 1
    <3>1. i \in Ids
      BY <1>3, <1>7, Types
    <3>2. gone[i] \in Nat
      BY <3>1, Types
    <3>3. CASE safe /\ checkpoint.hasPrevious
      <4>1. i \notin Seen
        BY <1>3, <1>7, <3>3
      <4>2. Least(gone[i] + 1, 2) >= 1
        BY <3>2 DEF Least
      <4>3. QED
        BY <1>4, <3>1, <3>3, <4>1, <4>2
    <3>4. CASE ~safe
      BY <1>3, <1>4, <2>1, <3>1, <3>4 DEF SnapshotInv, MissingCounted
    <3>5. CASE safe /\ ~checkpoint.hasPrevious
      BY <1>3, <2>1, <3>5 DEF SnapshotInv, FirstSnapshot
    <3>6. QED
      BY <1>1, <3>3, <3>4, <3>5, Types
  <2>2. QED
    BY <2>1 DEF MissingCounted
<1>12. SteadyThere'
  BY <1>4 DEF SnapshotInv, SteadyThere
<1>13. ~(Seen \subseteq Elements(upstream)) => Evidence
  BY <1>1 DEF SnapshotInv, LostSeen
<1>14. safe /\ ~(steady \subseteq Seen) => Evidence
  BY <1>1, <1>5 DEF SnapshotInv, MissedSteady
<1>15. LostSeen'
  <2>1. ASSUME ~(checkpoint'.seen \subseteq Elements(upstream))
        PROVE  Evidence /\ checkpoint'.missing = checkpoint.missing
    BY <1>1, <1>3, <1>13, <2>1
  <2>2. QED
    BY <1>1, <1>4, <2>1 DEF LostSeen, Evidence, Condemned
<1>16. MissedSteady'
  <2>1. ASSUME NEW i \in steady \cap checkpoint'.missing
        PROVE  removals >= 1
    <3>1. CASE safe /\ checkpoint.hasPrevious
      <4>1. i \notin Seen
        BY <1>3, <1>7, <2>1, <3>1
      <4>2. QED
        BY <1>14, <2>1, <3>1, <4>1 DEF Evidence
    <3>2. CASE ~(safe /\ checkpoint.hasPrevious)
      BY <1>3, <2>1, <3>2 DEF SnapshotInv, MissedSteady, Condemned
    <3>3. QED
      BY <3>1, <3>2
  <2>2. QED
    BY <1>1, <1>4, <2>1 DEF MissedSteady, Condemned
<1>17. OneRemovalHarmless'
  <2>1. ASSUME NEW i \in steady, record'[i] = "deleted"
        PROVE  removals >= 2
    <3>1. i \in Ids
      BY Types
    <3>2. CASE record[i] = "deleted"
      BY <3>2 DEF SnapshotInv, OneRemovalHarmless
    <3>3. CASE i \in deleted
      <4>1. safe /\ i \in checkpoint.missing /\ i \notin Seen
        BY <1>1, <3>3
      <4>2. Evidence /\ Condemned # {}
        BY <1>14, <2>1, <4>1 DEF Condemned
      <4>3. QED
        BY <4>2 DEF Evidence
    <3>4. QED
      BY <1>2, <2>1, <3>1, <3>2, <3>3
  <2>2. QED
    BY <1>4, <2>1 DEF OneRemovalHarmless
<1>18. QED
  BY <1>8, <1>9, <1>10, <1>11, <1>12, <1>15, <1>16, <1>17 DEF SnapshotInv

LEMMA NextSnapshotInv == SnapshotInv /\ [Next]_vars => SnapshotInv'
<1> SUFFICES ASSUME SnapshotInv, [Next]_vars PROVE SnapshotInv'
  OBVIOUS
<1>1. CASE UNCHANGED vars
  <2>1. UNCHANGED <<upstream, changes, removals, steady, record, checkpoint, held, gone>>
    BY <1>1 DEF vars, world
  <2>2. TypeOK' /\ SteadyThere' /\ removals' <= changes'
    BY <2>1 DEF SnapshotInv, TypeOK, SteadyThere
  <2>3. QED
    BY <2>1, <2>2, WorldStep
<1>2. QED
  BY <1>1, ListStep, CollectStep, DropStep, CommitStep DEF Next

LEMMA SnapshotInvHolds == Spec => []SnapshotInv
BY InitSnapshotInv, NextSnapshotInv, PTL DEF Spec
-----------------------------------------------------------------------------
(* The theorems.                                                           *)

\* Whatever the checkpoint of github_issues.py remembers is stored, so no later
\* 304 or cycle relies on records that were never written.
THEOREM NothingForgotten == Spec => []RememberedIsStored
<1>1. SnapshotInv => RememberedIsStored
  BY DEF SnapshotInv
<1>2. QED
  BY <1>1, SnapshotInvHolds, PTL

\* One removal between two requests never tombstones a record that the source
\* had all the time.
THEOREM SteadyRecordsKept == Spec => []OneRemovalHarmless
<1>1. SnapshotInv => OneRemovalHarmless
  BY DEF SnapshotInv
<1>2. QED
  BY <1>1, SnapshotInvHolds, PTL

\* A record is tombstoned only after two safe cycles without it since it was
\* last in one.
THEOREM TombstonesConfirmed == Spec => TombstoneNeedsTwo
<1>1. ASSUME SnapshotInv, [Next]_vars
      PROVE  [\A i \in Ids : record[i] = "live" /\ record'[i] = "deleted" => gone'[i] = 2]_vars
  <2>1. CASE record' = record
    BY <2>1
  <2>2. CASE Commit
    <3>1. ASSUME NEW i \in Ids, record[i] = "live", record'[i] = "deleted"
          PROVE  gone'[i] = 2
      <4>1. /\ SafeCompleteSnapshot /\ i \in checkpoint.missing /\ i \notin Seen
            /\ gone'[i] = Least(gone[i] + 1, 2)
        BY <1>1, <2>2, <3>1, CommitEffect
      <4>2. gone[i] \in Nat /\ gone[i] >= 1
        BY <1>1, <4>1, Types DEF SnapshotInv, MissingCounted
      <4>3. QED
        BY <4>1, <4>2 DEF Least
    <3>2. QED
      BY <3>1
  <2>3. record' = record \/ Commit
    BY <1>1 DEF vars, Next, Appear, Update, Disappear, Change, Collect, Drop
  <2>4. QED
    BY <2>1, <2>2, <2>3
<1>2. QED
  BY <1>1, SnapshotInvHolds, PTL DEF Spec, TombstoneNeedsTwo
-----------------------------------------------------------------------------
(* The hook circuit.  While the history is clean one run at most is alive, *)
(* and the file, the streak and that run agree at every step of it.        *)
HookRunType ==
  [pc : {"idle", "open", "worker", "failed", "write", "succeeded", "commit", "page"},
   approval : 1..HookVersions, mark : HookMark,
   category : {"none", "gradual", "immediate"}, count : Nat]

HookFailing(r) == r.pc \in {"failed", "write"}

\* The circuit is open for what the streak says.
HookAgrees(circuit, streak) ==
  /\ circuit.count = streak.count
  /\ circuit.open <=> (streak.immediate \/ streak.count >= HookThreshold)
  /\ streak.count <= HookThreshold

\* A worker runs only behind a closed circuit; its failure is in the streak
\* before it is in the file.
HookRunAgrees(r, circuit, streak) ==
  /\ ~HookFailing(r) => HookAgrees(circuit, streak)
  /\ r.pc \in {"worker", "succeeded"} => ~streak.immediate /\ streak.count < HookThreshold
  /\ HookFailing(r) =>
       /\ streak.count = circuit.count + 1
       /\ streak.count <= HookThreshold
       /\ r.category \in {"gradual", "immediate"}
       /\ streak.immediate <=> (r.category = "immediate")
  /\ r.pc = "write" => r.count = streak.count

HookInv ==
  /\ HookTypeOK
  /\ hookClean =>
       /\ \A p, q \in HookRuns : HookAlive(p) /\ HookAlive(q) => p = q
       /\ (\A p \in HookRuns : ~HookAlive(p)) => HookAgrees(hookCircuit, hookStreak)
       /\ \A p \in HookRuns :
            HookAlive(p) => HookRunAgrees(hookRun[p], hookCircuit, hookStreak)

\* A step of one run keeps the invariant if it agrees with what it leaves.
LEMMA HookOneRun ==
  ASSUME HookTypeOK, NEW p \in HookRuns, NEW r \in HookRunType,
         hookRun' = [hookRun EXCEPT ![p] = r],
         hookCircuit' \in [count : Nat, open : BOOLEAN],
         hookRunner' \in 1..HookVersions, hookApproval' \in 1..HookVersions,
         hookStored' \in HookMark,
         hookStreak' \in [count : Nat, immediate : BOOLEAN],
         hookClean' \in BOOLEAN,
         hookClean' => /\ \A q \in HookRuns \ {p} : hookRun[q].pc = "idle"
                       /\ r.pc = "idle" => HookAgrees(hookCircuit', hookStreak')
                       /\ r.pc # "idle" => HookRunAgrees(r, hookCircuit', hookStreak')
  PROVE  HookInv'
<1>1. hookRun'[p] = r /\ \A q \in HookRuns \ {p} : hookRun'[q] = hookRun[q]
  BY DEF HookTypeOK
<1>2. hookRun' \in [HookRuns -> HookRunType]
  BY DEF HookTypeOK, HookRunType
<1>3. HookTypeOK'
  BY <1>2 DEF HookTypeOK, HookRunType
<1>4. ASSUME hookClean'
      PROVE  /\ (\A q1, q2 \in HookRuns : HookAlive(q1) /\ HookAlive(q2) => q1 = q2)'
             /\ ((\A q \in HookRuns : ~HookAlive(q)) => HookAgrees(hookCircuit, hookStreak))'
             /\ (\A q \in HookRuns : HookAlive(q) => HookRunAgrees(hookRun[q], hookCircuit, hookStreak))'
  <2>1. \A q \in HookRuns \ {p} : hookRun'[q].pc = "idle"
    BY <1>1, <1>4
  <2>2. \A q \in HookRuns : HookAlive(q)' => q = p /\ r.pc # "idle"
    BY <1>1, <2>1 DEF HookAlive
  <2>3. (\A q \in HookRuns : ~HookAlive(q)') => r.pc = "idle"
    BY <1>1 DEF HookAlive
  <2>4. QED
    BY <1>1, <1>4, <2>2, <2>3
<1>5. QED
  BY <1>3, <1>4 DEF HookInv

LEMMA HookClean1 ==
  ASSUME HookInv, hookClean, NEW p \in HookRuns, HookAlive(p)
  PROVE  /\ HookRunAgrees(hookRun[p], hookCircuit, hookStreak)
         /\ \A q \in HookRuns \ {p} : hookRun[q].pc = "idle"
BY DEF HookInv, HookAlive

LEMMA HookWorldStep ==
  ASSUME HookInv, HookReplaceRunner \/ HookReview
  PROVE  HookInv'
<1>1. UNCHANGED <<hookCircuit, hookStored, hookRun, hookStreak, hookClean>>
  BY DEF HookReplaceRunner, HookReview, hookHistory
<1>2. hookRunner' \in 1..HookVersions /\ hookApproval' \in 1..HookVersions
  BY HookAssumption DEF HookInv, HookTypeOK, HookReplaceRunner, HookReview
<1>3. HookTypeOK'
  BY <1>1, <1>2 DEF HookInv, HookTypeOK
<1>4. QED
  BY <1>1, <1>3 DEF HookInv, HookAlive, HookAgrees, HookRunAgrees

LEMMA HookIdleRun == HookIdle \in HookRunType /\ HookIdle.pc = "idle"
<1>1. HookIdle.mark \in HookMark /\ 1 \in 1..HookVersions
  BY HookAssumption DEF HookIdle, HookMark
<1>2. QED
  BY <1>1 DEF HookIdle, HookRunType

LEMMA HookStartStep ==
  ASSUME HookInv, NEW p \in HookRuns, NEW reset \in BOOLEAN, HookStart(p, reset)
  PROVE  HookInv'
<1> DEFINE r == [HookIdle EXCEPT !.pc = "open", !.approval = hookApproval]
<1>1. r \in HookRunType /\ r.pc = "open"
  BY HookIdleRun DEF HookInv, HookTypeOK, HookRunType, HookIdle
<1>2. /\ hookRun' = [hookRun EXCEPT ![p] = r]
      /\ hookCircuit' = IF reset THEN HookClosed ELSE hookCircuit
      /\ hookStreak' = IF reset THEN [count |-> 0, immediate |-> FALSE] ELSE hookStreak
      /\ hookClean' = (hookClean /\ HookOthers(p) = {})
      /\ hookRun[p].pc = "idle"
      /\ UNCHANGED <<hookRunner, hookApproval, hookStored>>
  BY DEF HookStart, HookSet, HookAlive, hookWorld
<1> HIDE DEF r
<1>3. HookTypeOK /\ hookClean' \in BOOLEAN
  BY <1>2 DEF HookInv, HookTypeOK
<1>4. ASSUME hookClean'
      PROVE  /\ hookClean /\ HookAgrees(hookCircuit', hookStreak')
             /\ \A q \in HookRuns \ {p} : hookRun[q].pc = "idle"
  <2>1. hookClean /\ \A q \in HookRuns \ {p} : hookRun[q].pc = "idle"
    BY <1>2, <1>4 DEF HookOthers, HookAlive
  <2>2. HookAgrees(hookCircuit, hookStreak)
    BY <1>2, <2>1 DEF HookInv, HookAlive
  <2>3. CASE reset
    <3>1. /\ hookCircuit'.count = 0 /\ hookCircuit'.open = FALSE
          /\ hookStreak'.count = 0 /\ hookStreak'.immediate = FALSE
      BY <1>2, <2>3 DEF HookClosed
    <3>2. QED
      BY <2>1, <3>1, HookAssumption DEF HookAgrees
  <2>4. CASE ~reset
    BY <1>2, <2>1, <2>2, <2>4 DEF HookAgrees
  <2>5. QED
    BY <2>3, <2>4
<1>5. /\ hookCircuit' \in [count : Nat, open : BOOLEAN]
      /\ hookStreak' \in [count : Nat, immediate : BOOLEAN]
  BY <1>2, <1>3 DEF HookTypeOK, HookClosed
<1>6. hookClean' => HookRunAgrees(r, hookCircuit', hookStreak')
  BY <1>1, <1>4 DEF HookRunAgrees, HookFailing
<1>7. QED
  BY <1>1, <1>2, <1>3, <1>4, <1>5, <1>6, HookOneRun DEF HookTypeOK

\* The steps that leave circuit and history alone.
LEMMA HookQuietStep ==
  ASSUME HookInv, NEW p \in HookRuns,
         \/ HookFirstPage(p) \/ HookNextPage(p) \/ HookExpire(p)
         \/ HookAnswer(p) \/ HookCommit(p)
  PROVE  HookInv'
<1> DEFINE r == hookRun[p]
           m == hookRun'[p]
<1>1. HookTypeOK /\ r \in HookRunType
  BY DEF HookInv, HookTypeOK, HookRunType
<1>2. UNCHANGED <<hookCircuit, hookRunner, hookApproval, hookStreak, hookClean>>
  BY DEF HookFirstPage, HookNextPage, HookExpire, HookAnswer, HookCommit, hookWorld, hookHistory
<1>3. r.pc \in {"open", "page", "worker", "commit"}
  BY DEF HookFirstPage, HookNextPage, HookExpire, HookAnswer, HookCommit
<1>4. hookClean => HookAgrees(hookCircuit, hookStreak) /\ HookRunAgrees(r, hookCircuit, hookStreak) /\ \A q \in HookRuns \ {p} : hookRun[q].pc = "idle"
  BY <1>3, HookClean1 DEF HookAlive, HookRunAgrees, HookFailing
<1>5. /\ hookRun' = [hookRun EXCEPT ![p] = m]
      /\ m \in HookRunType /\ hookStored' \in HookMark
      /\ m.pc \in {"idle", "worker", "succeeded", "page"}
      /\ m.pc = "worker" => ~hookCircuit.open
      /\ m.pc = "succeeded" => r.pc = "worker"
  <2>1. CASE HookFirstPage(p)
    <3> DEFINE n == [r EXCEPT !.mark = hookStored]
               w == [n EXCEPT !.pc = "worker"]
    <3>1. n \in HookRunType /\ w \in HookRunType /\ w.pc = "worker" /\ n.pc = r.pc
      BY <1>1 DEF HookTypeOK, HookRunType
    <3>2. hookStored' = hookStored /\ hookStored \in HookMark
      BY <1>1, <2>1 DEF HookTypeOK, HookFirstPage
    <3>3. hookRun' = [hookRun EXCEPT ![p] = IF n.approval = hookRunner /\ HookAllowed(n) THEN w ELSE HookIdle]
      BY <2>1 DEF HookFirstPage, HookSet
    <3> HIDE DEF n, w
    <3>4. m = IF n.approval = hookRunner /\ HookAllowed(n) THEN w ELSE HookIdle
      BY <1>1, <3>3 DEF HookTypeOK
    <3>5. QED
      BY <3>1, <3>2, <3>3, <3>4, HookIdleRun DEF HookAllowed
  <2>2. CASE HookNextPage(p)
    <3> DEFINE w == [r EXCEPT !.pc = "worker"]
    <3>1. w \in HookRunType /\ w.pc = "worker"
      BY <1>1 DEF HookTypeOK, HookRunType
    <3>2. hookStored' = hookStored /\ hookStored \in HookMark
      BY <1>1, <2>2 DEF HookTypeOK, HookNextPage
    <3>3. hookRun' = [hookRun EXCEPT ![p] = IF HookAllowed(r) THEN w ELSE HookIdle]
      BY <2>2 DEF HookNextPage, HookSet
    <3> HIDE DEF w
    <3>4. m = IF HookAllowed(r) THEN w ELSE HookIdle
      BY <1>1, <3>3 DEF HookTypeOK
    <3>5. QED
      BY <3>1, <3>2, <3>3, <3>4, HookIdleRun DEF HookAllowed
  <2>3. CASE HookExpire(p)
    <3>1. hookStored' = hookStored /\ hookStored \in HookMark /\ hookRun' = [hookRun EXCEPT ![p] = HookIdle]
      BY <1>1, <2>3 DEF HookTypeOK, HookExpire, HookSet
    <3>2. m = HookIdle
      BY <1>1, <3>1 DEF HookTypeOK
    <3>3. QED
      BY <3>1, <3>2, HookIdleRun
  <2>4. CASE HookAnswer(p)
    <3> DEFINE w == [r EXCEPT !.pc = "succeeded"]
    <3>1. w \in HookRunType /\ w.pc = "succeeded"
      BY <1>1 DEF HookTypeOK, HookRunType
    <3>2. hookStored' = hookStored /\ hookStored \in HookMark /\ r.pc = "worker"
      BY <1>1, <2>4 DEF HookTypeOK, HookAnswer
    <3>3. hookRun' = [hookRun EXCEPT ![p] = w]
      BY <2>4 DEF HookAnswer, HookGo, HookSet
    <3> HIDE DEF w
    <3>4. m = w
      BY <1>1, <3>3 DEF HookTypeOK
    <3>5. QED
      BY <3>1, <3>2, <3>3, <3>4
  <2>5. CASE HookCommit(p)
    <3> DEFINE more == r.mark.cursor + 1 < HookPages
               mark == [cursor |-> IF more THEN r.mark.cursor + 1 ELSE 0, approval |-> r.approval]
               w == [r EXCEPT !.pc = "page", !.mark = mark]
    <3>1. mark \in HookMark
      <4>1. r.mark.cursor \in 0..(HookPages - 1) /\ r.approval \in 1..HookVersions
        BY <1>1 DEF HookRunType, HookMark
      <4>2. QED
        BY <4>1, HookAssumption DEF HookMark
    <3> HIDE DEF mark, more
    <3>2. w \in HookRunType /\ w.pc = "page"
      BY <1>1, <3>1 DEF HookRunType
    <3>3. hookStored' = mark /\ (hookRun' = [hookRun EXCEPT ![p] = w] \/ hookRun' = [hookRun EXCEPT ![p] = HookIdle])
      BY <2>5 DEF HookCommit, HookSet, mark, more
    <3> HIDE DEF w
    <3>4. QED
      BY <1>1, <3>1, <3>2, <3>3, HookIdleRun DEF HookTypeOK
  <2>6. QED
    BY <2>1, <2>2, <2>3, <2>4, <2>5
<1>6. hookClean' => /\ m.pc = "idle" => HookAgrees(hookCircuit', hookStreak')
                    /\ m.pc # "idle" => HookRunAgrees(m, hookCircuit', hookStreak')
  <2>1. HookAgrees(hookCircuit', hookStreak') <=> HookAgrees(hookCircuit, hookStreak)
    BY <1>2
  <2>2. hookClean /\ m.pc \in {"worker", "succeeded"} => ~hookStreak.immediate /\ hookStreak.count < HookThreshold
    <3>1. hookClean /\ ~hookCircuit.open => ~hookStreak.immediate /\ hookStreak.count < HookThreshold
      BY <1>1, <1>4, HookAssumption DEF HookTypeOK, HookAgrees
    <3>2. QED
      BY <1>4, <1>5, <3>1 DEF HookRunAgrees
  <2>3. QED
    BY <1>2, <1>4, <1>5, <2>1, <2>2 DEF HookRunAgrees, HookFailing
<1>7. QED
  BY <1>1, <1>2, <1>4, <1>5, <1>6, HookOneRun DEF HookTypeOK

LEMMA HookFailStep ==
  ASSUME HookInv, NEW p \in HookRuns, NEW defect \in HookDefect, HookFail(p, defect)
  PROVE  HookInv'
<1> DEFINE c == HookCategory(defect)
           r == [HookIdle EXCEPT !.pc = "failed", !.category = c]
<1>1. c \in {"gradual", "immediate"}
  BY DEF HookCategory
<1>2. /\ hookRun[p].pc = "worker"
      /\ hookRun' = [hookRun EXCEPT ![p] = r]
      /\ hookStreak' = [count |-> HookUp(hookStreak.count),
                        immediate |-> hookStreak.immediate \/ c = "immediate"]
      /\ UNCHANGED <<hookCircuit, hookRunner, hookApproval, hookStored, hookClean>>
  BY DEF HookFail, HookSet, hookWorld
<1> HIDE DEF c
<1>3. r \in HookRunType /\ r.pc = "failed" /\ r.category = c
  BY <1>1, HookIdleRun DEF HookRunType, HookIdle
<1> HIDE DEF r
<1>4. HookTypeOK /\ hookStreak.count \in Nat /\ hookStreak.immediate \in BOOLEAN
  BY DEF HookInv, HookTypeOK
<1>5. /\ hookStreak'.count = HookUp(hookStreak.count) /\ HookUp(hookStreak.count) \in Nat
      /\ hookStreak'.immediate = (hookStreak.immediate \/ c = "immediate")
      /\ hookStreak' \in [count : Nat, immediate : BOOLEAN]
  <2>1. HookUp(hookStreak.count) \in Nat
    BY <1>4 DEF HookUp
  <2>2. (hookStreak.immediate \/ c = "immediate") \in BOOLEAN
    OBVIOUS
  <2>3. QED
    BY <1>2, <2>1, <2>2
<1>6. ASSUME hookClean'
      PROVE  HookRunAgrees(r, hookCircuit', hookStreak') /\ \A q \in HookRuns \ {p} : hookRun[q].pc = "idle"
  <2>1. HookRunAgrees(hookRun[p], hookCircuit, hookStreak) /\ \A q \in HookRuns \ {p} : hookRun[q].pc = "idle"
    BY <1>2, <1>6, HookClean1 DEF HookAlive
  <2>2. HookAgrees(hookCircuit, hookStreak) /\ ~hookStreak.immediate /\ hookStreak.count < HookThreshold
    BY <1>2, <2>1 DEF HookRunAgrees, HookFailing
  <2>3. hookStreak'.count = hookCircuit'.count + 1 /\ hookStreak'.count <= HookThreshold
    BY <1>2, <1>4, <1>5, <2>2, HookAssumption DEF HookUp, HookAgrees
  <2>4. hookStreak'.immediate <=> (r.category = "immediate")
    <3>1. hookStreak'.immediate = (c = "immediate")
      BY <1>5, <2>2, Zenon
    <3>2. QED
      BY <1>3, <3>1, Zenon
  <2>5. QED
    BY <1>1, <1>3, <2>1, <2>3, <2>4 DEF HookRunAgrees, HookFailing
<1>7. QED
  BY <1>2, <1>3, <1>4, <1>5, <1>6, HookOneRun DEF HookTypeOK

\* A run that ends by what collect does not catch leaves the circuit alone.
LEMMA HookEscapeStep ==
  ASSUME HookInv, NEW p \in HookRuns, HookEscape(p)
  PROVE  HookInv'
<1>1. /\ HookTypeOK /\ hookRun[p].pc = "worker"
      /\ hookRun' = [hookRun EXCEPT ![p] = HookIdle]
      /\ UNCHANGED <<hookCircuit, hookRunner, hookApproval, hookStored, hookStreak, hookClean>>
  BY DEF HookInv, HookEscape, HookSet, hookWorld
<1>2. ASSUME hookClean'
      PROVE  HookAgrees(hookCircuit', hookStreak') /\ \A q \in HookRuns \ {p} : hookRun[q].pc = "idle"
  <2>1. HookRunAgrees(hookRun[p], hookCircuit, hookStreak)
        /\ \A q \in HookRuns \ {p} : hookRun[q].pc = "idle"
    BY <1>1, <1>2, HookClean1 DEF HookAlive
  <2>2. QED
    BY <1>1, <2>1 DEF HookRunAgrees, HookFailing, HookAgrees
<1>3. QED
  BY <1>1, <1>2, HookIdleRun, HookOneRun DEF HookTypeOK

LEMMA HookCountStep ==
  ASSUME HookInv, NEW p \in HookRuns, HookCount(p)
  PROVE  HookInv'
<1> DEFINE r == [hookRun[p] EXCEPT !.pc = "write", !.count = HookUp(hookCircuit.count)]
<1>1. HookTypeOK /\ hookRun[p] \in HookRunType /\ hookCircuit.count \in Nat
  BY DEF HookInv, HookTypeOK, HookRunType
<1>2. HookUp(hookCircuit.count) \in Nat
  BY <1>1 DEF HookUp
<1>3. /\ hookRun[p].pc = "failed"
      /\ hookRun' = [hookRun EXCEPT ![p] = r]
      /\ UNCHANGED <<hookCircuit, hookRunner, hookApproval, hookStored, hookStreak, hookClean>>
  BY DEF HookCount, HookSet, hookWorld, hookHistory
<1>4. /\ r \in HookRunType /\ r.pc = "write" /\ r.category = hookRun[p].category
      /\ r.count = HookUp(hookCircuit.count)
  BY <1>1, <1>2 DEF HookRunType
<1> HIDE DEF r
<1>5. ASSUME hookClean'
      PROVE  HookRunAgrees(r, hookCircuit', hookStreak') /\ \A q \in HookRuns \ {p} : hookRun[q].pc = "idle"
  <2>1. HookRunAgrees(hookRun[p], hookCircuit, hookStreak) /\ \A q \in HookRuns \ {p} : hookRun[q].pc = "idle"
    BY <1>3, <1>5, HookClean1 DEF HookAlive
  <2>2. /\ hookStreak.count = hookCircuit.count + 1 /\ hookStreak.count <= HookThreshold
        /\ hookRun[p].category \in {"gradual", "immediate"}
        /\ hookStreak.immediate <=> (hookRun[p].category = "immediate")
    BY <1>3, <2>1 DEF HookRunAgrees, HookFailing
  <2>3. r.count = hookStreak.count
    BY <1>1, <1>4, <2>2, HookAssumption DEF HookUp
  <2>4. QED
    BY <1>3, <1>4, <2>1, <2>2, <2>3 DEF HookRunAgrees, HookFailing
<1>6. QED
  BY <1>1, <1>3, <1>4, <1>5, HookOneRun DEF HookTypeOK

LEMMA HookWriteStep ==
  ASSUME HookInv, NEW p \in HookRuns, HookWrite(p)
  PROVE  HookInv'
<1> DEFINE r == hookRun[p]
<1>1. HookTypeOK /\ r \in HookRunType /\ r.count \in Nat
  BY DEF HookInv, HookTypeOK, HookRunType
<1>2. /\ r.pc = "write"
      /\ hookRun' = [hookRun EXCEPT ![p] = HookIdle]
      /\ hookCircuit' = [count |-> r.count, open |-> HookTrips(r.count, r.category)]
      /\ UNCHANGED <<hookRunner, hookApproval, hookStored, hookStreak, hookClean>>
  BY DEF HookWrite, HookSet, hookWorld, hookHistory
<1>3. HookTrips(r.count, r.category) \in BOOLEAN
  BY DEF HookTrips
<1>4. /\ hookCircuit' \in [count : Nat, open : BOOLEAN]
      /\ hookCircuit'.count = r.count /\ hookCircuit'.open = HookTrips(r.count, r.category)
  BY <1>1, <1>2, <1>3
<1>5. ASSUME hookClean'
      PROVE  HookAgrees(hookCircuit', hookStreak') /\ \A q \in HookRuns \ {p} : hookRun[q].pc = "idle"
  <2>1. HookRunAgrees(r, hookCircuit, hookStreak) /\ \A q \in HookRuns \ {p} : hookRun[q].pc = "idle"
    BY <1>2, <1>5, HookClean1 DEF HookAlive
  <2>2. /\ hookStreak.count <= HookThreshold /\ r.count = hookStreak.count
        /\ hookStreak.immediate <=> (r.category = "immediate")
    BY <1>2, <2>1 DEF HookRunAgrees, HookFailing
  <2>3. hookCircuit'.open <=> (hookStreak.immediate \/ hookStreak.count >= HookThreshold)
    <3>1. HookTrips(r.count, r.category) <=> (r.category = "immediate" \/ hookStreak.count >= HookThreshold)
      BY <2>2, Zenon DEF HookTrips
    <3>2. QED
      BY <1>4, <2>2, <3>1, Zenon
  <2>4. QED
    BY <1>2, <1>4, <2>1, <2>2, <2>3 DEF HookAgrees
<1>6. QED
  BY <1>1, <1>2, <1>4, <1>5, HookIdleRun, HookOneRun DEF HookTypeOK

LEMMA HookCloseStep ==
  ASSUME HookInv, NEW p \in HookRuns, HookClose(p)
  PROVE  HookInv'
<1> DEFINE r == [hookRun[p] EXCEPT !.pc = "commit"]
<1>1. HookTypeOK /\ hookRun[p] \in HookRunType
  BY DEF HookInv, HookTypeOK, HookRunType
<1>2. /\ hookRun[p].pc = "succeeded"
      /\ hookRun' = [hookRun EXCEPT ![p] = r]
      /\ hookCircuit' = HookClosed
      /\ hookStreak' = [count |-> 0, immediate |-> FALSE]
      /\ UNCHANGED <<hookRunner, hookApproval, hookStored, hookClean>>
  BY DEF HookClose, HookGo, HookSet, hookWorld
<1>3. r \in HookRunType /\ r.pc = "commit"
  BY <1>1 DEF HookRunType
<1> HIDE DEF r
<1>4. /\ hookCircuit' \in [count : Nat, open : BOOLEAN]
      /\ hookStreak' \in [count : Nat, immediate : BOOLEAN]
      /\ HookAgrees(hookCircuit', hookStreak')
  BY <1>2, HookAssumption DEF HookClosed, HookAgrees
<1>5. hookClean' => HookRunAgrees(r, hookCircuit', hookStreak') /\ \A q \in HookRuns \ {p} : hookRun[q].pc = "idle"
  BY <1>2, <1>3, <1>4, HookClean1 DEF HookAlive, HookRunAgrees, HookFailing
<1>6. QED
  BY <1>1, <1>2, <1>3, <1>4, <1>5, HookOneRun DEF HookTypeOK

LEMMA HookBreakStep ==
  ASSUME HookInv, NEW p \in HookRuns, HookBreak(p)
  PROVE  HookInv'
<1>1. /\ HookTypeOK /\ hookRun[p].pc # "idle"
      /\ hookRun' = [hookRun EXCEPT ![p] = HookIdle]
      /\ hookClean' = (hookClean /\ hookRun[p].pc \notin {"failed", "write"})
      /\ UNCHANGED <<hookCircuit, hookRunner, hookApproval, hookStored, hookStreak>>
  BY DEF HookInv, HookBreak, HookSet, HookAlive, hookWorld
<1>2. ASSUME hookClean'
      PROVE  HookAgrees(hookCircuit', hookStreak') /\ \A q \in HookRuns \ {p} : hookRun[q].pc = "idle"
  <2>1. HookRunAgrees(hookRun[p], hookCircuit, hookStreak) /\ hookRun[p].pc \notin {"failed", "write"}
        /\ \A q \in HookRuns \ {p} : hookRun[q].pc = "idle"
    BY <1>1, <1>2, HookClean1 DEF HookAlive
  <2>2. QED
    BY <1>1, <2>1 DEF HookRunAgrees, HookFailing, HookAgrees
<1>3. hookClean' \in BOOLEAN
  BY <1>1 DEF HookTypeOK
<1>4. QED
  BY <1>1, <1>2, <1>3, HookIdleRun, HookOneRun DEF HookTypeOK

LEMMA HookInvHolds == HookSpec => []HookInv
<1>1. HookInit => HookInv
  <2>1. ASSUME HookInit PROVE HookTypeOK /\ HookAgrees(hookCircuit, hookStreak) /\ \A p \in HookRuns : ~HookAlive(p)
    <3>1. \A p \in HookRuns : hookRun[p] = HookIdle
      BY <2>1 DEF HookInit
    <3>2. hookRun \in [HookRuns -> HookRunType]
      BY <2>1, HookIdleRun DEF HookInit
    <3>3. hookStored \in HookMark
      BY <2>1, HookAssumption DEF HookInit, HookMark, HookIdle
    <3>4. HookTypeOK
      BY <2>1, <3>2, <3>3, HookAssumption DEF HookInit, HookTypeOK, HookRunType, HookClosed
    <3>5. HookAgrees(hookCircuit, hookStreak)
      BY <2>1, HookAssumption DEF HookInit, HookAgrees, HookClosed
    <3>6. QED
      BY <3>1, <3>4, <3>5, HookIdleRun DEF HookAlive
  <2>2. QED
    BY <2>1 DEF HookInv
<1>2. HookInv /\ UNCHANGED hookVars => HookInv'
  BY DEF HookInv, hookVars, hookWorld, hookHistory, HookTypeOK, HookAgrees, HookRunAgrees, HookAlive
<1>3. HookInv /\ [HookNext]_hookVars => HookInv'
  BY <1>2, HookWorldStep, HookStartStep, HookQuietStep, HookFailStep, HookEscapeStep, HookCountStep,
     HookWriteStep, HookCloseStep, HookBreakStep DEF HookNext
<1>4. QED
  BY <1>1, <1>3, PTL DEF HookSpec

\* Without overlaps and lost counts the circuit opens with the threshold-th
\* counted failure in a row, across runs and restarts, and not before, and a run
\* that ends uncounted moves neither circuit nor row
\* (connectors/authorized_hook.py).
THEOREM CircuitOpensInTime == HookSpec => []HookOpensInTime
<1>1. ASSUME HookInv PROVE HookOpensInTime
  <2>1. ASSUME hookClean, \A p \in HookRuns : hookRun[p].pc \notin {"failed", "write"}
        PROVE  HookAgrees(hookCircuit, hookStreak)
    <3>1. CASE \A p \in HookRuns : ~HookAlive(p)
      BY <1>1, <2>1, <3>1 DEF HookInv
    <3>2. CASE \E p \in HookRuns : HookAlive(p)
      BY <1>1, <2>1, <3>2 DEF HookInv, HookRunAgrees, HookFailing
    <3>3. QED
      BY <3>1, <3>2
  <2>2. QED
    BY <2>1 DEF HookOpensInTime, HookAgrees
<1>2. QED
  BY <1>1, HookInvHolds, PTL
-----------------------------------------------------------------------------
(* The files of a page.  A worker runs only between its spawn and the end  *)
(* of the wait, unless its caller was cancelled or killed; the archive     *)
(* file is never partial and is there before a commit.                     *)
PageEnded == {"read", "failing", "store", "temporary", "replace", "commit", "stored", "raised"}

\* What is left where the job file failed, or else after the finally clause.
PageClear(pc, worker, job) ==
  \/ job \subseteq {"part"}
  \/ pc = "raised" /\ worker = "none" /\ job = {"temporary"}

PageInv ==
  /\ PageTypeOK
  /\ \A c \in PageCalls :
       /\ pageCall[c] \in {"idle", "job", "spawn"} => pageWorker[c] = "none"
       /\ pageCall[c] \in PageEnded => ~PageRuns(c)
       /\ pageCall[c] \in PageEnded \ {"read", "failing"} => PageClear(pageCall[c], pageWorker[c], pageJob[c])
       /\ pageCall[c] = "idle" => pageJob[c] = {}
       /\ pageCall[c] = "job" => pageJob[c] = {"temporary"}
       /\ pageCall[c] = "commit" => pageArchive = "complete"
  /\ pageArchive # "partial"
  /\ PageRecordsArchived

\* What a call says of its own pieces of state.
PageFits(pc, worker, job) ==
  /\ pc \in {"idle", "job", "spawn"} => worker = "none"
  /\ pc \in PageEnded => worker \notin {"running", "writing"}
  /\ pc \in PageEnded \ {"read", "failing"} => PageClear(pc, worker, job)
  /\ pc = "idle" => job = {}
  /\ pc = "job" => job = {"temporary"}

LEMMA PageOneCall ==
  ASSUME PageInv, NEW c \in PageCalls,
         NEW pc \in PagePc, NEW worker \in {"none", "running", "writing", "done", "dead"},
         NEW job \in SUBSET {"temporary", "job", "part", "result"},
         pageCall' = [pageCall EXCEPT ![c] = pc],
         pageWorker' = [pageWorker EXCEPT ![c] = worker],
         pageJob' = [pageJob EXCEPT ![c] = job],
         PageFits(pc, worker, job),
         pageArchive' = pageArchive \/ pageArchive' = "complete",
         pc = "commit" => pageArchive' = "complete",
         pageTemp' \subseteq PageCalls,
         pageRecords' \subseteq PageCalls,
         pageRecords' = pageRecords \/ pageArchive' = "complete",
         pageKilled' \in 0..PageKills
  PROVE  PageInv'
<1>1. /\ pageCall'[c] = pc /\ pageWorker'[c] = worker /\ pageJob'[c] = job
      /\ \A d \in PageCalls \ {c} : /\ pageCall'[d] = pageCall[d]
                                    /\ pageWorker'[d] = pageWorker[d]
                                    /\ pageJob'[d] = pageJob[d]
  BY DEF PageInv, PageTypeOK
<1>2. PageTypeOK'
  BY DEF PageInv, PageTypeOK
<1>3. ASSUME NEW d \in PageCalls
      PROVE  /\ pageCall'[d] \in {"idle", "job", "spawn"} => pageWorker'[d] = "none"
             /\ pageCall'[d] \in PageEnded => ~PageRuns(d)'
             /\ pageCall'[d] \in PageEnded \ {"read", "failing"} => PageClear(pageCall'[d], pageWorker'[d], pageJob'[d])
             /\ pageCall'[d] = "idle" => pageJob'[d] = {}
             /\ pageCall'[d] = "job" => pageJob'[d] = {"temporary"}
             /\ pageCall'[d] = "commit" => pageArchive' = "complete"
  BY <1>1 DEF PageInv, PageFits, PageRuns
<1>4. pageArchive' # "partial" /\ PageRecordsArchived'
  BY DEF PageInv, PageRecordsArchived
<1>5. QED
  BY <1>2, <1>3, <1>4 DEF PageInv

\* Before the archive: job file, worker process, wait and tidying.
LEMMA PageProcessStep ==
  ASSUME PageInv, NEW c \in PageCalls,
         \/ PageWriteJob(c) \/ PageJobFails(c) \/ PageSpawn(c)
         \/ PageWorkerWrites(c) \/ PageWorkerEnds(c)
         \/ PageWaited(c) \/ PageTimeout(c) \/ PageCancel(c) \/ PageTidy(c)
  PROVE  PageInv'
<1> DEFINE pc == pageCall'[c]
           worker == pageWorker'[c]
           job == pageJob'[c]
<1>1. /\ PageTypeOK
      /\ UNCHANGED <<pageArchive, pageTemp, pageRecords, pageKilled>>
  BY DEF PageInv, PageWriteJob, PageJobFails, PageSpawn, PageWorkerWrites, PageWorkerEnds, PageWaited,
         PageTimeout, PageCancel, PageTidy, pageStore
<1>2. /\ PageFits(pageCall[c], pageWorker[c], pageJob[c])
      /\ pageCall[c] = "commit" => pageArchive = "complete"
  BY DEF PageInv, PageFits, PageRuns
<1>3. /\ pageCall[c] \in PagePc
      /\ pageWorker[c] \in {"none", "running", "writing", "done", "dead"}
      /\ pageJob[c] \subseteq {"temporary", "job", "part", "result"}
  BY <1>1 DEF PageTypeOK
<1>4. /\ pageCall' = [pageCall EXCEPT ![c] = pc]
      /\ pageWorker' = [pageWorker EXCEPT ![c] = worker]
      /\ pageJob' = [pageJob EXCEPT ![c] = job]
      /\ pc \in PagePc /\ worker \in {"none", "running", "writing", "done", "dead"}
      /\ job \subseteq {"temporary", "job", "part", "result"}
      /\ PageFits(pc, worker, job)
      /\ pc = "commit" => pageCall[c] = "commit"
  <2>1. CASE PageWriteJob(c)
    BY <1>1, <1>2, <1>3, <2>1 DEF PageTypeOK, PageWriteJob, PageGo, PageFits, PageClear, PagePc, PageEnded
  <2>0. CASE PageJobFails(c)
    <3>1. /\ pc = "raised" /\ worker = "none" /\ job \in {pageJob[c], {"temporary"}}
          /\ pageCall[c] \in {"idle", "job"}
      BY <1>1, <1>2, <2>0 DEF PageTypeOK, PageJobFails, PageGo, PageFits
    <3>2. job = {} \/ job = {"temporary"}
      BY <1>2, <3>1 DEF PageFits
    <3>3. /\ pageCall' = [pageCall EXCEPT ![c] = pc]
          /\ pageWorker' = [pageWorker EXCEPT ![c] = worker]
          /\ pageJob' = [pageJob EXCEPT ![c] = job]
      BY <1>1, <2>0 DEF PageTypeOK, PageJobFails, PageGo
    <3>4. QED
      BY <3>1, <3>2, <3>3 DEF PageFits, PageClear, PagePc, PageEnded
  <2>2. CASE PageSpawn(c)
    BY <1>1, <1>2, <1>3, <2>2 DEF PageTypeOK, PageSpawn, PageGo, PageFits, PageClear, PagePc, PageEnded
  <2>3. CASE PageWorkerWrites(c)
    <3>1. pageWorker[c] = "running" /\ worker = "writing" /\ pc = pageCall[c] /\ job = pageJob[c] \cup {"part"}
      BY <1>1, <2>3 DEF PageTypeOK, PageWorkerWrites
    <3>2. /\ pageCall' = [pageCall EXCEPT ![c] = pc]
          /\ pageWorker' = [pageWorker EXCEPT ![c] = worker]
          /\ pageJob' = [pageJob EXCEPT ![c] = job]
      BY <1>1, <2>3 DEF PageTypeOK, PageWorkerWrites
    <3>3. QED
      BY <1>2, <1>3, <3>1, <3>2 DEF PageFits, PageClear
  <2>4. CASE PageWorkerEnds(c)
    <3>1. /\ pageWorker[c] \in {"running", "writing"} /\ worker \in {"done", "dead"} /\ pc = pageCall[c]
          /\ job = pageJob[c] \/ job = (pageJob[c] \ {"part"}) \cup {"result"}
      BY <1>1, <2>4 DEF PageTypeOK, PageWorkerEnds, PageRuns
    <3>2. /\ pageCall' = [pageCall EXCEPT ![c] = pc]
          /\ pageWorker' = [pageWorker EXCEPT ![c] = worker]
          /\ pageJob' = [pageJob EXCEPT ![c] = job]
      BY <1>1, <2>4 DEF PageTypeOK, PageWorkerEnds
    <3>3. QED
      BY <1>2, <1>3, <3>1, <3>2 DEF PageFits, PageClear
  <2>5. CASE PageWaited(c)
    BY <1>1, <1>2, <1>3, <2>5 DEF PageTypeOK, PageWaited, PageGo, PageFits, PagePc, PageEnded, PageRuns
  <2>6. CASE PageTimeout(c)
    BY <1>1, <1>2, <1>3, <2>6 DEF PageTypeOK, PageTimeout, PageGo, PageFits, PagePc, PageEnded, PageRuns
  <2>7. CASE PageCancel(c)
    BY <1>1, <1>2, <1>3, <2>7 DEF PageTypeOK, PageCancel, PageGo, PageFits, PagePc, PageEnded
  <2>8. CASE PageTidy(c)
    <3>1. /\ worker = pageWorker[c] /\ job = pageJob[c] \ {"temporary", "job", "result"}
          /\ pc \in {"store", "raised", "cancelled"}
          /\ pageCall[c] \in {"read", "failing", "cancelling"}
          /\ pageCall[c] = "cancelling" => pc = "cancelled"
      BY <1>1, <2>8 DEF PageTypeOK, PageTidy, PageGo
    <3>2. /\ pageCall' = [pageCall EXCEPT ![c] = pc]
          /\ pageWorker' = [pageWorker EXCEPT ![c] = worker]
          /\ pageJob' = [pageJob EXCEPT ![c] = job]
      BY <1>1, <2>8 DEF PageTypeOK, PageTidy, PageGo
    <3>3. QED
      BY <1>2, <1>3, <3>1, <3>2 DEF PageFits, PageClear, PagePc, PageEnded
  <2>9. QED
    BY <2>0, <2>1, <2>2, <2>3, <2>4, <2>5, <2>6, <2>7, <2>8
<1> HIDE DEF pc, worker, job
<1>5. pageTemp' \subseteq PageCalls /\ pageRecords' \subseteq PageCalls /\ pageKilled' \in 0..PageKills
  BY <1>1 DEF PageTypeOK
<1>6. QED
  BY <1>1, <1>2, <1>4, <1>5, PageOneCall

\* The archive, the commit, and the death of the caller.
LEMMA PageArchiveStep ==
  ASSUME PageInv, NEW c \in PageCalls,
         PageStore(c) \/ PageCompress(c) \/ PageReplace(c) \/ PageStoreFails(c)
           \/ PageCommit(c) \/ PageKill(c)
  PROVE  PageInv'
<1> DEFINE pc == pageCall'[c]
           worker == pageWorker[c]
           job == pageJob[c]
<1>1. /\ PageTypeOK
      /\ pageCall' = [pageCall EXCEPT ![c] = pc]
      /\ pc \in PagePc
      /\ pageWorker' = [pageWorker EXCEPT ![c] = worker]
      /\ pageJob' = [pageJob EXCEPT ![c] = job]
  BY DEF PageInv, PageTypeOK, PagePc, PageStore, PageCompress, PageReplace, PageStoreFails, PageCommit, PageKill,
         PageGo, pageStore
<1>2. PageFits(pc, worker, job)
  <2>1. PageFits(pageCall[c], worker, job)
    BY DEF PageInv, PageFits, PageRuns
  <2>2. \/ pageCall[c] \in {"store", "temporary", "replace", "commit"}
           /\ pc \in {"temporary", "replace", "commit", "stored", "raised"}
        \/ pc = "killed"
    BY <1>1 DEF PageTypeOK, PageStore, PageCompress, PageReplace, PageStoreFails, PageCommit,
       PageKill, PageGo
  <2>3. QED
    BY <2>1, <2>2 DEF PageFits, PageClear, PageEnded
<1>3. /\ pageArchive' = pageArchive \/ pageArchive' = "complete"
      /\ pc = "commit" => pageArchive' = "complete"
      /\ pageTemp' \subseteq PageCalls
      /\ pageRecords' \subseteq PageCalls
      /\ pageRecords' = pageRecords \/ pageArchive' = "complete"
      /\ pageKilled' \in 0..PageKills
  BY PageAssumption DEF PageInv, PageTypeOK, PageStore, PageCompress, PageReplace, PageStoreFails, PageCommit,
     PageKill, PageGo, pageStore
<1>4. /\ worker \in {"none", "running", "writing", "done", "dead"}
      /\ job \subseteq {"temporary", "job", "part", "result"}
  BY <1>1 DEF PageTypeOK
<1> HIDE DEF pc, worker, job
<1>5. QED
  BY <1>1, <1>2, <1>3, <1>4, PageOneCall

LEMMA PageInvHolds == PageSpec => []PageInv
<1>1. PageInit => PageInv
  BY PageAssumption DEF PageInit, PageInv, PageTypeOK, PagePc, PageRuns, PageEnded, PageRecordsArchived
<1>2. PageInv /\ UNCHANGED pageVars => PageInv'
  BY DEF PageInv, pageVars, PageTypeOK, PageRuns, PageRecordsArchived
<1>3. PageInv /\ [PageNext]_pageVars => PageInv'
  BY <1>2, PageProcessStep, PageArchiveStep DEF PageNext
<1>4. QED
  BY <1>1, <1>3, PTL DEF PageSpec

\* A call that answered or raised left no process and no job or result file behind
\* (at most the temporary of a job file that failed before any process started),
\* and no record names an archive file that is not complete (isolated_process.py,
\* raw archive).
THEOREM PagesKept == PageSpec => []PageKept
<1>1. PageInv => PageKept
  BY DEF PageInv, PageEnded, PageClear, PageKept, PageLeavesNothing
<1>2. QED
  BY <1>1, PageInvHolds, PTL
-----------------------------------------------------------------------------
(* Static web.  While runs do not overlap and the policy stays, the run    *)
(* that is alive works on the stored checkpoint; what it is to commit is   *)
(* one batch after it.                                                     *)
WebBefore(offset) == {WebUrls[i] : i \in 1..offset}

\* What a run that holds the stored checkpoint has built from a batch.
WebBuilt(run, stored) ==
  /\ run.present \cap run.missing = {}
  /\ run.asked = WebBatch(stored) /\ run.present \cup run.missing \subseteq run.asked
  /\ run.deleted = run.missing \cap stored.missing
  /\ run.view.missing = ((stored.missing \ run.present) \cup run.missing) \ run.deleted
  /\ run.view.offset = IF WebEnd(stored) < Len(WebUrls) THEN WebEnd(stored) ELSE 0

\* A page that counts as missing was absent once, or is deleted already.
WebCounts(missing, absent) ==
  \A u \in WebPages : /\ u \in missing => absent[u] # 0
                      /\ absent[u] = 1 => u \in missing

WebDeletions(entry, absent) ==
  \A u \in WebPages : entry[u] # "none" => (entry[u] = "deleted" <=> absent[u] = 2)

WebOneByOne ==
  /\ \A r, q \in WebRuns : WebAlive(r) /\ WebAlive(q) => r = q
  /\ \A r \in WebRuns : /\ webRun[r].pc = "collect" => webRun[r].view = webStored
                        /\ webRun[r].pc = "commit" => WebBuilt(webRun[r], webStored)

\* A body that a run may ask about is stored, or is what the run brings.
WebKnown(run, entry) ==
  /\ run.pc # "commit" => run.present = {}
  /\ \A u \in run.view.validators \ run.present : entry[u] # "none"

WebInv ==
  /\ WebTypeOK
  /\ WebValidatorsStored
  /\ \A r \in WebRuns : WebKnown(webRun[r], webRecord)
  /\ webClean => /\ WebOneByOne
                 /\ WebCounts(webStored.missing, webGone)
                 /\ WebDeletions(webRecord, webGone)
                 /\ webAhead = WebBefore(webStored.offset)

LEMMA WebLength ==
  /\ Len(WebUrls) \in Nat \ {0} /\ DOMAIN WebUrls = 1..Len(WebUrls)
  /\ WebPages = WebBefore(Len(WebUrls))
  /\ \A i, j \in 1..Len(WebUrls) : WebUrls[i] = WebUrls[j] => i = j
BY WebAssumption DEF WebPages, WebBefore

\* A batch is what lies between its offset and its end.
LEMMA WebBatches ==
  ASSUME NEW view \in WebView
  PROVE  /\ WebOffset(view) = view.offset
         /\ WebEnd(view) \in (view.offset + 1)..Len(WebUrls)
         /\ WebBatch(view) \subseteq WebPages
         /\ WebBefore(view.offset) \cup WebBatch(view) = WebBefore(WebEnd(view))
<1>1. view.offset \in 0..(Len(WebUrls) - 1) /\ WebLimit \in Nat \ {0} /\ Len(WebUrls) \in Nat \ {0}
  BY WebLength, WebAssumption DEF WebView
<1>2. WebOffset(view) = view.offset
  BY <1>1 DEF WebOffset
<1>3. WebEnd(view) \in (view.offset + 1)..Len(WebUrls)
  BY <1>1, <1>2 DEF WebEnd
<1>4. WebBatch(view) = {WebUrls[i] : i \in (view.offset + 1)..WebEnd(view)}
  BY <1>2 DEF WebBatch
<1>5. WebBatch(view) \subseteq WebPages
  BY <1>1, <1>3, <1>4, WebLength DEF WebBefore
<1>6. WebBefore(view.offset) \cup WebBatch(view) = WebBefore(WebEnd(view))
  <2>1. 1..view.offset \cup (view.offset + 1)..WebEnd(view) = 1..WebEnd(view)
    BY <1>1, <1>3
  <2>2. QED
    BY <1>4, <2>1 DEF WebBefore
<1>7. QED
  BY <1>2, <1>3, <1>5, <1>6

\* Only the whole list is all of the pages.
LEMMA WebPrefixes ==
  ASSUME NEW k \in 1..Len(WebUrls)
  PROVE  WebBefore(k) = WebPages <=> k = Len(WebUrls)
<1>1. ASSUME k # Len(WebUrls), WebUrls[Len(WebUrls)] \in WebBefore(k) PROVE FALSE
  <2>1. PICK i \in 1..k : WebUrls[i] = WebUrls[Len(WebUrls)]
    BY <1>1 DEF WebBefore
  <2>2. i \in 1..Len(WebUrls) /\ Len(WebUrls) \in 1..Len(WebUrls)
    BY WebLength
  <2>3. i = Len(WebUrls)
    BY <2>1, <2>2, WebLength
  <2>4. QED
    BY <1>1, <2>3, WebLength
<1>2. WebUrls[Len(WebUrls)] \in WebPages
  BY WebLength DEF WebBefore
<1>3. QED
  BY <1>1, <1>2, WebLength

LEMMA WebStarts == WebInit => WebInv
<1> SUFFICES ASSUME WebInit PROVE WebInv
  OBVIOUS
<1>1. WebFirst \in WebView
  BY WebLength DEF WebFirst, WebView
<1>2. WebTypeOK
  BY <1>1 DEF WebInit, WebTypeOK, WebRunType, WebIdle
<1>3. WebBefore(0) = {}
  BY DEF WebBefore
<1>4. /\ \A r \in WebRuns : webRun[r].pc = "idle"
      /\ \A r \in WebRuns : WebKnown(webRun[r], webRecord)
  BY DEF WebInit, WebIdle, WebFirst, WebKnown
<1>5. webStored.validators = {} /\ webStored.missing = {} /\ webStored.offset = 0
  BY DEF WebInit, WebFirst
<1>6. WebOneByOne
  BY <1>4 DEF WebOneByOne, WebAlive
<1>7. WebCounts(webStored.missing, webGone) /\ WebDeletions(webRecord, webGone)
  BY <1>5 DEF WebInit, WebCounts, WebDeletions
<1>8. webAhead = WebBefore(webStored.offset)
  BY <1>3, <1>5 DEF WebInit
<1>9. WebValidatorsStored
  BY <1>5 DEF WebValidatorsStored
<1>10. QED
  BY <1>2, <1>4, <1>6, <1>7, <1>8, <1>9 DEF WebInv

\* A run moves, and neither the checkpoint nor the records do.
LEMMA WebRunMoves ==
  ASSUME WebInv, NEW r \in WebRuns,
         NEW run \in WebRunType,
         webRun' = [webRun EXCEPT ![r] = run],
         UNCHANGED <<webPolicy, webStored, webRecord, webGone, webAhead>>,
         webClean' \in BOOLEAN, webClean' => webClean,
         webClean' /\ run.pc # "idle" => \A q \in WebRuns \ {r} : ~WebAlive(q),
         WebKnown(run, webRecord),
         webClean /\ run.pc = "collect" => run.view = webStored,
         webClean /\ run.pc = "commit" => WebBuilt(run, webStored)
  PROVE  WebInv'
<1>1. /\ webRun'[r] = run /\ \A q \in WebRuns \ {r} : webRun'[q] = webRun[q]
      /\ webRun' \in [WebRuns -> WebRunType]
  BY DEF WebInv, WebTypeOK
<1>2. WebTypeOK'
  BY <1>1 DEF WebInv, WebTypeOK
<1>3. WebValidatorsStored'
  BY DEF WebInv, WebValidatorsStored
<1>4. \A q \in WebRuns : WebKnown(webRun'[q], webRecord')
  BY <1>1 DEF WebInv
<1>5. ASSUME webClean' PROVE WebOneByOne'
  <2>1. WebOneByOne /\ webClean
    BY <1>5 DEF WebInv
  <2>2. \A p, q \in WebRuns : WebAlive(p)' /\ WebAlive(q)' => p = q
    BY <1>1, <1>5, <2>1 DEF WebOneByOne, WebAlive
  <2>3. ASSUME NEW q \in WebRuns
        PROVE  /\ webRun'[q].pc = "collect" => webRun'[q].view = webStored
               /\ webRun'[q].pc = "commit" => WebBuilt(webRun'[q], webStored)
    BY <1>1, <2>1 DEF WebOneByOne
  <2>4. webStored' = webStored
    OBVIOUS
  <2>5. QED
    BY <2>2, <2>3, <2>4 DEF WebOneByOne
<1>6. ASSUME webClean'
      PROVE  /\ WebCounts(webStored'.missing, webGone') /\ WebDeletions(webRecord', webGone')
             /\ webAhead' = WebBefore(webStored'.offset)
  BY <1>6 DEF WebInv
<1>7. QED
  BY <1>2, <1>3, <1>4, <1>5, <1>6 DEF WebInv

LEMMA WebIdleRun ==
  /\ WebIdle \in WebRunType
  /\ WebIdle.pc = "idle" /\ \A entry : WebKnown(WebIdle, entry)
BY WebLength DEF WebIdle, WebFirst, WebView, WebRunType, WebKnown

LEMMA WebStartStep ==
  ASSUME WebInv, NEW r \in WebRuns, WebStart(r) PROVE WebInv'
<1> DEFINE run == [WebIdle EXCEPT !.pc = "collect", !.view = webStored]
<1>1. /\ webRun' = [webRun EXCEPT ![r] = run]
      /\ UNCHANGED <<webPolicy, webStored, webRecord, webGone, webAhead>>
      /\ webClean' = (webClean /\ \A q \in WebRuns \ {r} : ~WebAlive(q))
  BY DEF WebStart, WebSet
<1>2. webStored \in WebView /\ webClean \in BOOLEAN
  BY DEF WebInv, WebTypeOK
<1>3. /\ run \in WebRunType
      /\ run.pc = "collect" /\ run.view = webStored /\ run.present = {}
  BY <1>2 DEF WebIdle, WebRunType
<1>4. WebKnown(run, webRecord)
  BY <1>3 DEF WebInv, WebValidatorsStored, WebKnown
<1> HIDE DEF run
<1>5. webClean' \in BOOLEAN
  BY <1>1, Zenon
<1>6. webClean' => webClean /\ \A q \in WebRuns \ {r} : ~WebAlive(q)
  BY <1>1, Zenon
<1>7. QED
  BY <1>1, <1>3, <1>4, <1>5, <1>6, WebRunMoves

\* Failures, crashes and refused checkpoints leave the stored state alone.
LEMMA WebStops ==
  ASSUME WebInv, NEW r \in WebRuns, WebCollectFails(r) \/ WebBreak(r) PROVE WebInv'
<1>1. /\ webRun' = [webRun EXCEPT ![r] = WebIdle]
      /\ UNCHANGED <<webPolicy, webStored, webRecord, webGone, webAhead, webClean>>
  BY DEF WebCollectFails, WebBreak, WebSet, webHistory
<1>2. webClean' \in BOOLEAN
  BY <1>1 DEF WebInv, WebTypeOK
<1>3. QED
  BY <1>1, <1>2, WebIdleRun, WebRunMoves

LEMMA WebCollectStep ==
  ASSUME WebInv, NEW r \in WebRuns, WebCollect(r) PROVE WebInv'
<1> DEFINE view == webRun[r].view
<1>1. /\ webRun[r].pc = "collect" /\ view \in WebView
      /\ UNCHANGED <<webPolicy, webStored, webRecord, webGone, webAhead, webClean>>
      /\ webClean' \in BOOLEAN /\ webPolicy \in 1..2
  BY DEF WebInv, WebTypeOK, WebRunType, WebCollect, webHistory
<1>2. PICK seen \in [WebBatch(view) -> WebPresent \cup WebMissing \cup WebDropped] :
        LET present == {u \in DOMAIN seen : WebKind(seen[u]) = "present"}
            missing == {u \in DOMAIN seen : WebKind(seen[u]) = "missing"} IN
        WebSet(r, [pc |-> "commit", view |-> WebNextView(view, present, missing),
                   asked |-> DOMAIN seen, present |-> present, missing |-> missing,
                   deleted |-> WebCounted(view, present, missing).deleted])
  BY DEF WebCollect
<1> DEFINE present == {u \in DOMAIN seen : WebKind(seen[u]) = "present"}
           missing == {u \in DOMAIN seen : WebKind(seen[u]) = "missing"}
           run == [pc |-> "commit", view |-> WebNextView(view, present, missing),
                   asked |-> DOMAIN seen, present |-> present, missing |-> missing,
                   deleted |-> WebCounted(view, present, missing).deleted]
<1>3. webRun' = [webRun EXCEPT ![r] = run]
  BY <1>2 DEF WebSet
<1>4. /\ present \cap missing = {} /\ present \cup missing \subseteq WebBatch(view)
      /\ DOMAIN seen = WebBatch(view)
  OBVIOUS
<1> HIDE DEF present, missing
<1>5. present \subseteq WebPages /\ missing \subseteq WebPages /\ DOMAIN seen \subseteq WebPages
  BY <1>1, <1>4, WebBatches
<1>6. /\ run.pc = "commit" /\ run.present = present /\ run.missing = missing
      /\ run.asked = DOMAIN seen
      /\ run.deleted = missing \cap view.missing
      /\ run.view.missing = ((view.missing \ present) \cup missing) \ run.deleted
      /\ run.view.offset = IF WebEnd(view) < Len(WebUrls) THEN WebEnd(view) ELSE 0
      /\ run.view.validators = view.validators \cup present
  BY DEF WebNextView, WebCounted
<1>7. WebNextView(view, present, missing) \in WebView
  <2>1. (IF WebEnd(view) < Len(WebUrls) THEN WebEnd(view) ELSE 0) \in 0..(Len(WebUrls) - 1)
    BY <1>1, WebBatches, WebLength DEF WebView
  <2>2. view.missing \subseteq WebPages /\ view.validators \subseteq WebPages
    BY <1>1 DEF WebView
  <2>3. webPolicy \in 0..2
    BY <1>1
  <2>4. WebCounted(view, present, missing).missing \subseteq WebPages
    BY <1>5, <2>2 DEF WebCounted
  <2>5. QED
    BY <1>5, <2>1, <2>2, <2>3, <2>4 DEF WebNextView, WebView
<1>8. run \in WebRunType
  BY <1>5, <1>6, <1>7 DEF WebRunType
<1> HIDE DEF run
<1>9. WebBuilt(run, view)
  BY <1>4, <1>6 DEF WebBuilt
<1>10. ASSUME webClean
       PROVE  view = webStored /\ \A q \in WebRuns \ {r} : ~WebAlive(q)
  BY <1>1, <1>10 DEF WebInv, WebOneByOne, WebAlive
<1>11. WebKnown(run, webRecord)
  <2>1. \A u \in view.validators : webRecord[u] # "none"
    BY <1>1 DEF WebInv, WebKnown
  <2>2. QED
    BY <1>6, <2>1 DEF WebKnown
<1>12. webClean /\ run.pc = "commit" => WebBuilt(run, webStored)
  BY <1>9, <1>10
<1>13. QED
  BY <1>1, <1>3, <1>6, <1>8, <1>10, <1>11, <1>12, WebRunMoves

\* Pages before a batch and of it make up the round.
LEMMA WebRoundGoesOn ==
  ASSUME NEW stored \in WebView, NEW run, WebBuilt(run, stored)
  PROVE  (IF WebBefore(stored.offset) \cup run.asked = WebPages
          THEN {} ELSE WebBefore(stored.offset) \cup run.asked)
         = WebBefore(run.view.offset)
<1>1. WebBefore(stored.offset) \cup run.asked = WebBefore(WebEnd(stored))
  BY WebBatches DEF WebBuilt
<1>2. WebEnd(stored) \in 1..Len(WebUrls)
  BY WebBatches, WebLength DEF WebView
<1>3. WebBefore(0) = {}
  BY DEF WebBefore
<1>4. run.view.offset = IF WebEnd(stored) < Len(WebUrls) THEN WebEnd(stored) ELSE 0
  BY DEF WebBuilt
<1>5. CASE WebEnd(stored) = Len(WebUrls)
  BY <1>1, <1>2, <1>3, <1>4, <1>5, WebPrefixes, WebLength
<1>6. CASE WebEnd(stored) # Len(WebUrls)
  <2>1. WebEnd(stored) < Len(WebUrls)
    BY <1>2, <1>6, WebLength
  <2>2. QED
    BY <1>1, <1>2, <1>4, <1>6, <2>1, WebPrefixes
<1>7. QED
  BY <1>5, <1>6

\* The counts and the deletions of a commit are those of the visits.
LEMMA WebCountsGoOn ==
  ASSUME NEW stored \in WebView, NEW run, WebBuilt(run, stored),
         NEW absent \in [WebPages -> 0..2], NEW entry,
         WebCounts(stored.missing, absent), WebDeletions(entry, absent),
         NEW goneNew, goneNew = [u \in WebPages |->
           IF u \in run.present THEN 0
           ELSE IF u \in run.missing /\ absent[u] < 2 THEN absent[u] + 1 ELSE absent[u]],
         NEW recordNew, recordNew = [u \in WebPages |->
           IF u \in run.present THEN "live"
           ELSE IF u \in run.deleted /\ entry[u] # "none" THEN "deleted" ELSE entry[u]]
  PROVE  WebCounts(run.view.missing, goneNew) /\ WebDeletions(recordNew, goneNew)
<1> SUFFICES ASSUME NEW u \in WebPages
             PROVE  /\ u \in run.view.missing => goneNew[u] # 0
                    /\ goneNew[u] = 1 => u \in run.view.missing
                    /\ recordNew[u] # "none" => (recordNew[u] = "deleted" <=> goneNew[u] = 2)
  BY DEF WebCounts, WebDeletions
<1>1. /\ absent[u] \in 0..2
      /\ u \in stored.missing => absent[u] # 0
      /\ absent[u] = 1 => u \in stored.missing
      /\ entry[u] # "none" => (entry[u] = "deleted" <=> absent[u] = 2)
  BY DEF WebCounts, WebDeletions
<1>2. /\ u \in run.present => u \notin run.missing
      /\ u \in run.deleted <=> u \in run.missing /\ u \in stored.missing
      /\ u \in run.view.missing <=>
           ((u \in stored.missing /\ u \notin run.present) \/ u \in run.missing) /\ u \notin run.deleted
  BY DEF WebBuilt
<1>3. goneNew[u] = IF u \in run.present THEN 0
                   ELSE IF u \in run.missing /\ absent[u] < 2 THEN absent[u] + 1 ELSE absent[u]
  OBVIOUS
<1>4. recordNew[u] = IF u \in run.present THEN "live"
                     ELSE IF u \in run.deleted /\ entry[u] # "none" THEN "deleted" ELSE entry[u]
  OBVIOUS
<1>5. CASE u \in run.present
  BY <1>2, <1>3, <1>4, <1>5
<1>6. CASE u \notin run.present /\ u \in run.missing
  BY <1>1, <1>2, <1>3, <1>4, <1>6
<1>7. CASE u \notin run.present /\ u \notin run.missing
  BY <1>1, <1>2, <1>3, <1>4, <1>7
<1>8. QED
  BY <1>5, <1>6, <1>7

LEMMA WebCommitStep ==
  ASSUME WebInv, NEW r \in WebRuns, WebCommit(r) PROVE WebInv'
<1> DEFINE run == webRun[r]
           ahead == webAhead \cup run.asked
           next == [WebIdle EXCEPT !.pc = "collect", !.view = run.view]
<1>1. /\ run.pc = "commit" /\ run.view \in WebView /\ webStored \in WebView
      /\ run.present \subseteq WebPages /\ run.missing \subseteq WebPages
      /\ run.deleted \subseteq WebPages /\ run.asked \subseteq WebPages
      /\ webRecord \in [WebPages -> {"none", "live", "deleted"}]
      /\ webGone \in [WebPages -> 0..2] /\ webAhead \subseteq WebPages
      /\ WebKnown(run, webRecord)
  BY DEF WebCommit, WebInv, WebTypeOK, WebRunType
<1>2. /\ webStored' = run.view
      /\ webRecord' = [u \in WebPages |->
           IF u \in run.present THEN "live"
           ELSE IF u \in run.deleted /\ webRecord[u] # "none" THEN "deleted" ELSE webRecord[u]]
      /\ webGone' = [u \in WebPages |->
           IF u \in run.present THEN 0
           ELSE IF u \in run.missing /\ webGone[u] < 2 THEN webGone[u] + 1 ELSE webGone[u]]
      /\ webAhead' = IF ahead = WebPages THEN {} ELSE ahead
      /\ UNCHANGED <<webPolicy, webClean>>
  BY DEF WebCommit
<1>3. webRun' = [webRun EXCEPT ![r] = next] \/ webRun' = [webRun EXCEPT ![r] = WebIdle]
  BY DEF WebCommit, WebSet
<1>4. /\ next \in WebRunType
      /\ next.pc = "collect" /\ next.view = run.view /\ next.present = {}
  BY <1>1 DEF WebIdle, WebRunType
<1> HIDE DEF next, run
<1>5. /\ \A q \in WebRuns \ {r} : webRun'[q] = webRun[q]
      /\ webRun'[r].pc = "idle" \/ (webRun'[r].pc = "collect" /\ webRun'[r].view = run.view)
      /\ webRun' \in [WebRuns -> WebRunType]
      /\ webRun'[r] \in {next, WebIdle}
  BY <1>3, <1>4, WebIdleRun DEF WebInv, WebTypeOK
<1>6. \A u \in WebPages : webRecord[u] # "none" \/ u \in run.present => webRecord'[u] # "none"
  BY <1>1, <1>2
<1>7. \A u \in run.view.validators : webRecord'[u] # "none"
  BY <1>1, <1>6 DEF WebKnown, WebView
<1>8. WebTypeOK'
  <2>1. webRecord' \in [WebPages -> {"none", "live", "deleted"}]
    BY <1>1, <1>2
  <2>2. webGone' \in [WebPages -> 0..2]
    BY <1>1, <1>2
  <2>3. webAhead' \subseteq WebPages
    BY <1>1, <1>2
  <2>4. webPolicy' \in 1..2 /\ webClean' \in BOOLEAN
    BY <1>2 DEF WebInv, WebTypeOK
  <2>5. QED
    BY <1>1, <1>2, <1>5, <2>1, <2>2, <2>3, <2>4 DEF WebTypeOK
<1>9. WebValidatorsStored'
  BY <1>2, <1>7 DEF WebValidatorsStored
<1>10. \A q \in WebRuns : WebKnown(webRun'[q], webRecord')
  <2>1. ASSUME NEW q \in WebRuns \ {r} PROVE WebKnown(webRun'[q], webRecord')
    <3>1. WebKnown(webRun[q], webRecord) /\ webRun[q].view.validators \subseteq WebPages
      BY DEF WebInv, WebTypeOK, WebRunType, WebView
    <3>2. QED
      BY <1>5, <1>6, <3>1 DEF WebKnown
  <2>2. WebKnown(next, webRecord')
    BY <1>4, <1>7 DEF WebKnown
  <2>3. QED
    BY <1>5, <2>1, <2>2, WebIdleRun
<1>11. ASSUME webClean'
       PROVE  /\ WebOneByOne' /\ WebCounts(webStored'.missing, webGone')
              /\ WebDeletions(webRecord', webGone') /\ webAhead' = WebBefore(webStored'.offset)
  <2>1. /\ WebOneByOne /\ WebCounts(webStored.missing, webGone)
        /\ WebDeletions(webRecord, webGone) /\ webAhead = WebBefore(webStored.offset)
    BY <1>2, <1>11 DEF WebInv
  <2>2. WebBuilt(run, webStored) /\ \A q \in WebRuns \ {r} : webRun[q].pc = "idle"
    BY <1>1, <2>1 DEF WebOneByOne, WebAlive, run
  <2>3. webAhead' = WebBefore(webStored'.offset)
    BY <1>1, <1>2, <2>1, <2>2, WebRoundGoesOn
  <2>4. WebCounts(webStored'.missing, webGone') /\ WebDeletions(webRecord', webGone')
    BY <1>1, <1>2, <2>1, <2>2, WebCountsGoOn
  <2>5. WebOneByOne'
    BY <1>2, <1>5, <2>2 DEF WebOneByOne, WebAlive
  <2>6. QED
    BY <2>3, <2>4, <2>5
<1>12. QED
  BY <1>8, <1>9, <1>10, <1>11 DEF WebInv

LEMMA WebInvHolds == WebSpec => []WebInv
<1>1. WebInv /\ UNCHANGED webVars => WebInv'
  BY DEF WebInv, WebTypeOK, WebValidatorsStored, WebKnown, WebOneByOne, WebAlive, WebBuilt,
         WebCounts, WebDeletions, webVars, webHistory
<1>2. ASSUME WebInv, WebEditPolicy PROVE WebInv'
  <2>1. /\ webPolicy' = 2 /\ webClean' = FALSE
        /\ UNCHANGED <<webStored, webRecord, webRun, webGone, webAhead>>
    BY <1>2 DEF WebEditPolicy
  <2>2. WebTypeOK'
    <3>1. webPolicy' = 2
      BY <2>1, Zenon
    <3>2. webPolicy' \in 1..2
      BY <3>1
    <3>3. webClean' \in BOOLEAN
      BY <2>1, Zenon
    <3>4. QED
      BY <1>2, <2>1, <3>2, <3>3 DEF WebInv, WebTypeOK
  <2>3. WebValidatorsStored' /\ \A r \in WebRuns : WebKnown(webRun'[r], webRecord')
    BY <1>2, <2>1 DEF WebInv, WebValidatorsStored
  <2>4. QED
    BY <2>1, <2>2, <2>3 DEF WebInv
<1>3. WebInv /\ [WebNext]_webVars => WebInv'
  BY <1>1, <1>2, WebStartStep, WebCollectStep, WebStops, WebCommitStep DEF WebNext
<1>4. QED
  BY <1>3, WebStarts, PTL DEF WebSpec

\* A page is deleted exactly when the last two batches that reported it found it
\* gone, every page is requested in its turn, and a conditional request is for a
\* page that is stored, also where the worker drops pages from its result: for any
\* list of pages, batch size and number of runs (connectors/static_web.py).
THEOREM PagesTold == WebSpec => []WebPagesTrue
<1>1. WebInv => WebPagesTrue
  BY DEF WebInv, WebPagesTrue, WebDeletedWhenGoneTwice, WebRounds, WebDeletions, WebBefore
<1>2. QED
  BY <1>1, WebInvHolds, PTL
-----------------------------------------------------------------------------
(* Search signals.  Whatever is stored together is whole: an answer of the *)
(* source is replaced by all of a later one, or by none of it.             *)
SignalTogether(one, other) ==
  /\ one.metric = "interest" /\ other.metric = "interest"
  /\ one.context = other.context /\ one.group = other.group

\* Values of relative interest come with those of their request.
SignalWhole(records) ==
  /\ \A one, other \in records : SignalIdentity(one) = SignalIdentity(other) => one = other
  /\ \A one, other \in records : SignalTogether(one, other) => one.scale = other.scale
  /\ \A one \in records : one.metric = "interest" =>
       /\ one.keyword \in one.group.keywords /\ one.date \in one.group.dates
       /\ \A k \in one.group.keywords, d \in one.group.dates :
            \E other \in records : /\ SignalTogether(one, other)
                                   /\ other.keyword = k /\ other.date = d

SignalInv ==
  /\ SignalWhole(signalStored)
  /\ signalRun = [p \in SignalRuns |-> signalRun[p]]
  /\ \A p \in SignalRuns : signalRun[p].pc = "commit" => SignalWhole(signalRun[p].batch.records)

\* A later batch takes the place of an earlier one as a whole.
LEMMA SignalReplaced ==
  ASSUME NEW stored, SignalWhole(stored), NEW batch, SignalWhole(batch)
  PROVE  SignalWhole({entry \in stored :
                        SignalIdentity(entry) \notin {SignalIdentity(new) : new \in batch}} \cup batch)
<1> DEFINE kept == {entry \in stored :
                      SignalIdentity(entry) \notin {SignalIdentity(new) : new \in batch}}
<1>1. ASSUME NEW old \in kept, NEW new \in batch, SignalTogether(old, new)
      PROVE  FALSE
  <2>1. old.keyword \in new.group.keywords /\ old.date \in new.group.dates /\ new.metric = "interest"
    BY <1>1 DEF SignalWhole, SignalTogether
  <2>2. PICK other \in batch : SignalTogether(new, other) /\ other.keyword = old.keyword
                               /\ other.date = old.date
    BY <2>1 DEF SignalWhole
  <2>3. SignalIdentity(old) = SignalIdentity(other)
    BY <1>1, <2>2 DEF SignalTogether, SignalIdentity
  <2>4. QED
    BY <2>3
<1>2. \A one, other : SignalTogether(one, other) => SignalTogether(other, one)
  BY DEF SignalTogether
<1>3. ASSUME NEW one \in kept \cup batch, NEW other \in kept \cup batch,
             SignalIdentity(one) = SignalIdentity(other)
      PROVE  one = other
  <2>1. CASE one \in kept /\ other \in kept
    BY <1>3, <2>1 DEF SignalWhole
  <2>2. CASE one \in batch /\ other \in batch
    BY <1>3, <2>2 DEF SignalWhole
  <2>3. CASE one \in kept /\ other \in batch
    BY <1>3, <2>3
  <2>4. CASE one \in batch /\ other \in kept
    BY <1>3, <2>4
  <2>5. QED
    BY <2>1, <2>2, <2>3, <2>4
<1>4. ASSUME NEW one \in kept \cup batch, NEW other \in kept \cup batch, SignalTogether(one, other)
      PROVE  one.scale = other.scale
  <2>1. CASE one \in kept /\ other \in kept
    BY <1>4, <2>1 DEF SignalWhole
  <2>2. CASE one \in batch /\ other \in batch
    BY <1>4, <2>2 DEF SignalWhole
  <2>3. QED
    BY <1>1, <1>2, <1>4, <2>1, <2>2
<1>5. ASSUME NEW one \in kept \cup batch, one.metric = "interest"
      PROVE  /\ one.keyword \in one.group.keywords /\ one.date \in one.group.dates
             /\ \A k \in one.group.keywords, d \in one.group.dates :
                  \E other \in kept \cup batch : /\ SignalTogether(one, other)
                                                 /\ other.keyword = k /\ other.date = d
  <2>1. CASE one \in batch
    BY <1>5, <2>1 DEF SignalWhole
  <2>2. CASE one \in kept
    <3>1. one.keyword \in one.group.keywords /\ one.date \in one.group.dates
      BY <1>5, <2>2 DEF SignalWhole
    <3>2. ASSUME NEW k \in one.group.keywords, NEW d \in one.group.dates
          PROVE  \E other \in kept : SignalTogether(one, other) /\ other.keyword = k /\ other.date = d
      <4>1. PICK other \in stored : SignalTogether(one, other) /\ other.keyword = k /\ other.date = d
        BY <1>5, <2>2 DEF SignalWhole
      <4>2. ASSUME NEW new \in batch, SignalIdentity(other) = SignalIdentity(new) PROVE FALSE
        <5>1. SignalTogether(one, new)
          BY <4>1, <4>2 DEF SignalTogether, SignalIdentity
        <5>2. QED
          BY <1>1, <2>2, <5>1
      <4>3. other \in kept
        BY <4>2
      <4>4. QED
        BY <4>1, <4>3
    <3>3. QED
      BY <3>1, <3>2
  <2>3. QED
    BY <2>1, <2>2
<1>6. QED
  BY <1>3, <1>4, <1>5 DEF SignalWhole

\* What one answer of the source brings is whole.
LEMMA SignalAnswered ==
  ASSUME NEW r, NEW trends, NEW suggestions
  PROVE  SignalWhole((IF trends = "records" THEN SignalTrends(r) ELSE {})
                       \cup (IF suggestions = "records" THEN SignalSuggestions(r) ELSE {}))
<1> DEFINE T == IF trends = "records" THEN SignalTrends(r) ELSE {}
           S == IF suggestions = "records" THEN SignalSuggestions(r) ELSE {}
           group == SignalGroup(r.policy, SignalIndex)
           point(k, d) == [metric |-> "interest", context |-> r.context, group |-> group,
                           keyword |-> k, date |-> d, scale |-> signalFetched + 1]
           place(k) == [metric |-> "rank", context |-> r.context,
                        group |-> [keywords |-> {}, dates |-> {}],
                        keyword |-> k, date |-> signalDay, scale |-> signalFetched + 1]
<1>1. \A one \in T : \E k \in group.keywords, d \in group.dates : one = point(k, d)
  BY DEF SignalTrends, SignalGroup
<1>2. T # {} => \A k \in group.keywords, d \in group.dates : point(k, d) \in T
  BY DEF SignalTrends, SignalGroup
<1>3. \A one \in S : \E k : one = place(k)
  BY DEF SignalSuggestions
<1> HIDE DEF T, S, group
<1>4. \A one \in T \cup S : one.metric = "interest" => one \in T
  BY <1>3
<1>5. ASSUME NEW one \in T \cup S, NEW other \in T \cup S, SignalIdentity(one) = SignalIdentity(other)
      PROVE  one = other
  <2>1. one.metric = other.metric /\ one.keyword = other.keyword /\ one.date = other.date
    BY <1>5 DEF SignalIdentity
  <2>2. CASE one \in T
    BY <1>1, <1>3, <2>1, <2>2
  <2>3. CASE one \in S
    BY <1>1, <1>3, <2>1, <2>3
  <2>4. QED
    BY <2>2, <2>3
<1>6. \A one, other \in T \cup S : SignalTogether(one, other) => one.scale = other.scale
  BY <1>1, <1>4 DEF SignalTogether
<1>7. ASSUME NEW one \in T \cup S, one.metric = "interest"
      PROVE  /\ one.keyword \in one.group.keywords /\ one.date \in one.group.dates
             /\ \A k \in one.group.keywords, d \in one.group.dates :
                  \E other \in T \cup S : /\ SignalTogether(one, other)
                                          /\ other.keyword = k /\ other.date = d
  <2>1. one \in T
    BY <1>4, <1>7
  <2>2. PICK k0 \in group.keywords, d0 \in group.dates : one = point(k0, d0)
    BY <1>1, <2>1
  <2>3. one.group = group /\ one.keyword = k0 /\ one.date = d0 /\ one.context = r.context
    BY <2>2
  <2>4. ASSUME NEW k \in group.keywords, NEW d \in group.dates
        PROVE  \E other \in T \cup S : SignalTogether(one, other) /\ other.keyword = k /\ other.date = d
    <3>1. point(k, d) \in T
      BY <1>2, <2>1
    <3>2. SignalTogether(one, point(k, d)) /\ point(k, d).keyword = k /\ point(k, d).date = d
      BY <1>7, <2>3 DEF SignalTogether
    <3>3. QED
      BY <3>1, <3>2
  <2>5. QED
    BY <2>3, <2>4
<1>8. SignalWhole(T \cup S)
  BY <1>5, <1>6, <1>7 DEF SignalWhole
<1>9. QED
  BY <1>8 DEF T, S

LEMMA SignalNothing == SignalWhole({})
BY DEF SignalWhole

\* A run moves, and what is stored does not.
LEMMA SignalRunMoves ==
  ASSUME SignalInv, NEW p \in SignalRuns, NEW run, signalRun' = [signalRun EXCEPT ![p] = run],
         signalStored' = signalStored, run.pc = "commit" => SignalWhole(run.batch.records)
  PROVE  SignalInv'
<1>1. signalRun'[p] = run /\ \A q \in SignalRuns \ {p} : signalRun'[q] = signalRun[q]
  BY DEF SignalInv
<1>2. signalRun' = [q \in SignalRuns |-> signalRun'[q]]
  BY DEF SignalInv
<1>3. QED
  BY <1>1, <1>2 DEF SignalInv

LEMMA SignalAnswerStep ==
  ASSUME SignalInv, NEW p \in SignalRuns, NEW trends, NEW suggestions,
         SignalAnswer(p, trends, suggestions)
  PROVE  SignalInv'
<1> DEFINE records == (IF trends = "records" THEN SignalTrends(signalRun[p]) ELSE {})
             \cup (IF suggestions = "records" THEN SignalSuggestions(signalRun[p]) ELSE {})
<1>1. \/ signalRun' = [signalRun EXCEPT ![p] = SignalIdle]
      \/ \E error : signalRun' = [signalRun EXCEPT ![p] =
           [signalRun[p] EXCEPT !.pc = "commit",
              !.batch = [records |-> records, error |-> error,
                         warnings |-> SignalWarnings(trends, suggestions)]]]
  BY DEF SignalAnswer, SignalSet
<1>2. signalStored' = signalStored
  BY DEF SignalAnswer
<1>3. SignalWhole(records)
  BY SignalAnswered
<1> HIDE DEF records
<1>4. CASE signalRun' = [signalRun EXCEPT ![p] = SignalIdle]
  BY <1>2, <1>4, SignalRunMoves DEF SignalIdle
<1>5. ASSUME NEW error, signalRun' = [signalRun EXCEPT ![p] =
        [signalRun[p] EXCEPT !.pc = "commit",
           !.batch = [records |-> records, error |-> error,
                      warnings |-> SignalWarnings(trends, suggestions)]]]
      PROVE  SignalInv'
  <2> DEFINE run == [signalRun[p] EXCEPT !.pc = "commit",
                       !.batch = [records |-> records, error |-> error,
                                  warnings |-> SignalWarnings(trends, suggestions)]]
  <2>1. run.batch.records = records
    OBVIOUS
  <2>2. QED
    BY <1>2, <1>3, <1>5, <2>1, SignalRunMoves
<1>6. QED
  BY <1>1, <1>4, <1>5

LEMMA SignalCommitStep ==
  ASSUME SignalInv, NEW p \in SignalRuns, SignalCommit(p) PROVE SignalInv'
<1> DEFINE batch == signalRun[p].batch.records
<1>1. /\ signalRun[p].pc = "commit"
      /\ signalStored' = {entry \in signalStored :
            SignalIdentity(entry) \notin {SignalIdentity(new) : new \in batch}} \cup batch
      /\ signalRun' = [signalRun EXCEPT ![p] = SignalIdle]
  BY DEF SignalCommit, SignalSet
<1>2. SignalWhole(batch) /\ SignalWhole(signalStored)
  BY <1>1 DEF SignalInv
<1> HIDE DEF batch
<1>3. SignalWhole({entry \in signalStored :
            SignalIdentity(entry) \notin {SignalIdentity(new) : new \in batch}} \cup batch)
  BY <1>2, SignalReplaced
<1>4. SignalWhole(signalStored')
  BY <1>1, <1>3
<1>5. /\ signalRun' = [q \in SignalRuns |-> signalRun'[q]]
      /\ signalRun'[p].pc = "idle" /\ \A q \in SignalRuns \ {p} : signalRun'[q] = signalRun[q]
  BY <1>1 DEF SignalInv, SignalIdle
<1>6. QED
  BY <1>4, <1>5 DEF SignalInv

LEMMA SignalInvHolds == SignalSpec => []SignalInv
<1>1. SignalInit => SignalInv
  BY SignalNothing DEF SignalInit, SignalInv, SignalIdle
<1>2. SignalInv /\ UNCHANGED <<signalStored, signalRun>> => SignalInv'
  BY DEF SignalInv
<1>3. SignalInv /\ (SignalPassDay \/ SignalEdit \/ UNCHANGED signalVars) => SignalInv'
  BY <1>2 DEF SignalPassDay, SignalEdit, signalVars
<1>4. ASSUME SignalInv, NEW p \in SignalRuns, SignalStart(p) \/ SignalBreak(p) PROVE SignalInv'
  <2>1. \E run : signalRun' = [signalRun EXCEPT ![p] = run] /\ run.pc # "commit"
    <3> DEFINE started == [SignalIdle EXCEPT !.pc = "worker", !.policy = signalPolicy,
                                             !.context = signalContext]
    <3>1. started.pc # "commit" /\ SignalIdle.pc # "commit"
      BY DEF SignalIdle
    <3>2. \/ signalRun' = [signalRun EXCEPT ![p] = started]
          \/ signalRun' = [signalRun EXCEPT ![p] = SignalIdle]
      BY <1>4 DEF SignalStart, SignalBreak, SignalSet
    <3> HIDE DEF started
    <3>3. QED
      BY <3>1, <3>2
  <2>2. signalStored' = signalStored
    BY <1>4 DEF SignalStart, SignalBreak
  <2>3. QED
    BY <1>4, <2>1, <2>2, SignalRunMoves
<1>5. SignalInv /\ [SignalNext]_signalVars => SignalInv'
  BY <1>3, <1>4, SignalAnswerStep, SignalCommitStep DEF SignalNext
<1>6. QED
  BY <1>1, <1>5, PTL DEF SignalSpec

\* A series that is served is of one answer of the source, with all of its
\* dates, and has one value a date: for any keywords, window and number of
\* runs at once (public_search_signals.py, api/trends.py).
THEOREM SeriesOfOneScale == SignalSpec => []SignalOneScale
<1>1. ASSUME SignalInv PROVE SignalOneScale
  <2>1. SignalWhole(signalStored)
    BY <1>1 DEF SignalInv
  <2>2. SUFFICES ASSUME NEW entry \in signalStored
                 PROVE  LET series == SignalSeriesOf(SignalKey(entry)) IN
                        /\ \A one, other \in series : one.date = other.date => one = other
                        /\ \A one \in series : one.metric = "interest" =>
                             /\ \A other \in signalStored :
                                  other.metric = "interest" /\ other.context = one.context
                                      /\ other.group = one.group
                                    => other.scale = one.scale
                             /\ {x.date : x \in series} = one.group.dates
    BY DEF SignalOneScale, SignalServed
  <2> DEFINE series == SignalSeriesOf(SignalKey(entry))
  <2>3. \A one \in signalStored :
          one \in series <=> /\ one.metric = entry.metric /\ one.keyword = entry.keyword
                             /\ one.context = entry.context /\ one.group = entry.group
    BY DEF SignalSeriesOf, SignalKey
  <2>4. series \subseteq signalStored
    BY DEF SignalSeriesOf
  <2> HIDE DEF series
  <2>5. ASSUME NEW one \in series, NEW other \in series, one.date = other.date PROVE one = other
    <3>1. SignalIdentity(one) = SignalIdentity(other)
      BY <2>3, <2>4, <2>5 DEF SignalIdentity
    <3>2. QED
      BY <2>1, <2>4, <3>1 DEF SignalWhole
  <2>6. ASSUME NEW one \in series, one.metric = "interest", NEW other \in signalStored,
               other.metric = "interest", other.context = one.context, other.group = one.group
        PROVE  other.scale = one.scale
    BY <2>1, <2>4, <2>6 DEF SignalWhole, SignalTogether
  <2>7. ASSUME NEW one \in series, one.metric = "interest"
        PROVE  {x.date : x \in series} = one.group.dates
    <3>1. \A x \in series : x.metric = "interest" /\ x.group = one.group
      BY <2>3, <2>4, <2>7
    <3>2. \A x \in series : x.date \in one.group.dates
      BY <2>1, <2>4, <3>1 DEF SignalWhole
    <3>3. ASSUME NEW d \in one.group.dates PROVE \E x \in series : x.date = d
      <4>1. one.keyword \in one.group.keywords
        BY <2>1, <2>4, <2>7 DEF SignalWhole
      <4>2. PICK x \in signalStored : SignalTogether(one, x) /\ x.keyword = one.keyword /\ x.date = d
        BY <2>1, <2>4, <2>7, <4>1 DEF SignalWhole
      <4>3. x \in series
        BY <2>3, <2>4, <4>2 DEF SignalTogether
      <4>4. QED
        BY <4>2, <4>3
    <3>4. QED
      BY <3>2, <3>3
  <2>8. QED
    BY <2>5, <2>6, <2>7 DEF series
<1>2. QED
  BY <1>1, SignalInvHolds, PTL
-----------------------------------------------------------------------------
(* The video sample.  The report is the analysis of what was found; so the *)
(* view of the API has to accept every analysis.                           *)
VideoSearched(found) ==
  /\ \E k \in 0..VideoTop : found.results \in [1..k -> VideoEntry]
  /\ found.warned \in BOOLEAN

VideoInv ==
  /\ videoOfficial \in VideoPolicy
  /\ VideoSearched(videoFound)
  /\ videoPc \in {"idle", "search", "answer"} => videoReport = {}
  /\ videoReport \subseteq {VideoAnalyzed(videoFound)}
  /\ videoStored \subseteq videoReport

\* The positions that count: no more than were asked for, and all of them only
\* where every entry is valid and no video is listed twice.
LEMMA VideoPositions ==
  ASSUME NEW found, NEW k \in 0..VideoTop, found.results \in [1..k -> VideoEntry]
  PROVE  /\ VideoFirsts(found) \subseteq 1..k /\ IsFiniteSet(VideoFirsts(found))
         /\ Cardinality(VideoFirsts(found)) \in 0..VideoTop
         /\ k = VideoTop /\ VideoFirsts(found) = 1..k => Cardinality(VideoFirsts(found)) = VideoTop
         /\ Cardinality(VideoFirsts(found)) = VideoTop => k = VideoTop /\ VideoFirsts(found) = 1..k
<1>1. VideoFirsts(found) \subseteq 1..k
  BY DEF VideoFirsts, VideoValid
<1>2. IsFiniteSet(1..k) /\ Cardinality(1..k) = k /\ k \in Nat /\ VideoTop \in Nat /\ k <= VideoTop
  <2>1. k \in Nat /\ VideoTop \in Nat /\ k <= VideoTop
    BY VideoAssumption
  <2>2. IsFiniteSet(1..k) /\ Cardinality(1..k) = IF 1 > k THEN 0 ELSE k - 1 + 1
    BY <2>1, FS_Interval
  <2>3. QED
    BY <2>1, <2>2
<1>3. /\ IsFiniteSet(VideoFirsts(found)) /\ Cardinality(VideoFirsts(found)) <= Cardinality(1..k)
      /\ Cardinality(VideoFirsts(found)) = Cardinality(1..k) => VideoFirsts(found) = 1..k
  BY <1>1, <1>2, FS_Subset
<1>4. Cardinality(VideoFirsts(found)) \in Nat
  BY <1>3, FS_CardinalityType
<1>5. QED
  BY <1>1, <1>2, <1>3, <1>4

\* What "complete" means.
LEMMA VideoComplete ==
  ASSUME NEW found, VideoSearched(found)
  PROVE  VideoAnalyzed(found).complete <=>
           /\ ~found.warned
           /\ Len(found.results) = VideoTop
           /\ \A p, q \in 1..VideoTop : /\ found.results[p].valid
                                        /\ p # q => found.results[p].id # found.results[q].id
<1>1. PICK k \in 0..VideoTop : found.results \in [1..k -> VideoEntry]
  BY DEF VideoSearched
<1>2. Len(found.results) = k /\ DOMAIN found.results = 1..k
  BY <1>1, VideoAssumption
<1>3. VideoAnalyzed(found).complete <=>
        /\ Cardinality(VideoFirsts(found)) = VideoTop /\ VideoWarnings(found) = {}
        /\ VideoFirsts(found) = VideoValid(found)
  BY DEF VideoAnalyzed, VideoEvidence
<1>4. VideoWarnings(found) = {} <=> ~found.warned /\ VideoValid(found) = 1..k
  BY <1>2 DEF VideoWarnings
<1>5. VideoValid(found) = 1..k <=> \A p \in 1..k : found.results[p].valid
  BY <1>2 DEF VideoValid
<1>6. ASSUME VideoValid(found) = 1..k
      PROVE  VideoFirsts(found) = 1..k <=>
               \A p, q \in 1..k : p # q => found.results[p].id # found.results[q].id
  <2>1. VideoFirsts(found) =
          {p \in 1..k : \A q \in 1..k : found.results[q].id = found.results[p].id => p <= q}
    BY <1>6 DEF VideoFirsts
  <2>2. ASSUME VideoFirsts(found) = 1..k, NEW p \in 1..k, NEW q \in 1..k,
               found.results[p].id = found.results[q].id
        PROVE  p = q
    <3>1. p <= q /\ q <= p
      BY <2>1, <2>2
    <3>2. QED
      BY <3>1
  <2>3. ASSUME \A p, q \in 1..k : p # q => found.results[p].id # found.results[q].id
        PROVE  VideoFirsts(found) = 1..k
    <3>1. ASSUME NEW p \in 1..k, NEW q \in 1..k, found.results[q].id = found.results[p].id
          PROVE  p <= q
      <4>1. p = q
        BY <2>3, <3>1
      <4>2. QED
        BY <4>1
    <3>2. QED
      BY <2>1, <3>1
  <2>4. QED
    BY <2>2, <2>3
<1>7. ASSUME VideoAnalyzed(found).complete
      PROVE  /\ ~found.warned /\ k = VideoTop
             /\ \A p, q \in 1..k : /\ found.results[p].valid
                                   /\ p # q => found.results[p].id # found.results[q].id
  <2>1. k = VideoTop /\ VideoFirsts(found) = 1..k
    BY <1>1, <1>3, <1>7, VideoPositions
  <2>2. QED
    BY <1>3, <1>4, <1>5, <1>6, <1>7, <2>1
<1>8. ASSUME ~found.warned, k = VideoTop,
             \A p, q \in 1..k : /\ found.results[p].valid
                                /\ p # q => found.results[p].id # found.results[q].id
      PROVE  VideoAnalyzed(found).complete
  <2>1. VideoValid(found) = 1..k /\ VideoWarnings(found) = {}
    BY <1>4, <1>5, <1>8
  <2>2. VideoFirsts(found) = 1..k
    BY <1>6, <1>8, <2>1
  <2>3. Cardinality(VideoFirsts(found)) = VideoTop
    BY <1>1, <1>8, <2>2, VideoPositions
  <2>4. QED
    BY <1>3, <2>1, <2>2, <2>3
<1>9. QED
  BY <1>2, <1>7, <1>8

\* The view of the API accepts the analysis.
LEMMA VideoAccepted ==
  ASSUME NEW found, VideoSearched(found)
  PROVE  VideoConsistent(VideoAnalyzed(found))
<1> DEFINE r == VideoAnalyzed(found)
<1>1. PICK k \in 0..VideoTop : found.results \in [1..k -> VideoEntry]
  BY DEF VideoSearched
<1>2. /\ VideoFirsts(found) \subseteq 1..k
      /\ Cardinality(VideoFirsts(found)) \in 0..VideoTop
  BY <1>1, VideoPositions
<1>3. /\ r.evidence = VideoEvidence(found) /\ DOMAIN r.evidence = VideoFirsts(found)
      /\ r.results = Cardinality(VideoFirsts(found))
      /\ r.complete => r.results = VideoTop /\ r.warnings = {}
  BY DEF VideoAnalyzed, VideoEvidence
<1>4. \A b \in VideoBrands :
        /\ r.brands[b].count = Cardinality(VideoHits(r.evidence, b))
        /\ r.brands[b].share = IF r.complete THEN (100 * Cardinality(VideoHits(r.evidence, b))) \div r.results
                               ELSE VideoNoShare
        /\ r.brands[b].first = {p \in VideoHits(r.evidence, b) : \A q \in VideoHits(r.evidence, b) : p <= q}
        /\ \A o \in DOMAIN r.brands[b].origins :
             r.brands[b].origins[o] = Cardinality(VideoOf(r.evidence, b, o))
  BY DEF VideoAnalyzed
<1>5. \A p \in VideoFirsts(found) : r.evidence[p].id = found.results[p].id
  BY <1>3 DEF VideoEvidence
<1>6. \A p, q \in VideoFirsts(found) : found.results[p].id = found.results[q].id => p = q
  <2>1. ASSUME NEW p \in VideoFirsts(found), NEW q \in VideoFirsts(found),
               found.results[p].id = found.results[q].id
        PROVE  p = q
    <3>1. p <= q /\ q <= p
      BY <2>1 DEF VideoFirsts
    <3>2. p \in 1..k /\ q \in 1..k
      BY <1>2
    <3>3. QED
      BY <3>1, <3>2
  <2>2. QED
    BY <2>1
<1>7. \A p \in VideoFirsts(found) : p <= VideoTop
  BY <1>2, VideoAssumption
<1> HIDE DEF r
<1>8. QED
  BY <1>2, <1>3, <1>4, <1>5, <1>6, <1>7, VideoAssumption DEF VideoConsistent, r

\* A share is a number exactly where the sample is complete.
LEMMA VideoShareServed ==
  ASSUME NEW found, VideoSearched(found), NEW b \in VideoBrands
  PROVE  VideoAnalyzed(found).brands[b].share # VideoNoShare <=> VideoAnalyzed(found).complete
<1> DEFINE r == VideoAnalyzed(found)
           hits == VideoHits(r.evidence, b)
<1>1. r.brands[b].share = IF r.complete THEN (100 * Cardinality(hits)) \div Cardinality(VideoFirsts(found))
                          ELSE VideoNoShare
  BY DEF VideoAnalyzed, VideoEvidence
<1>2. r.complete => Cardinality(VideoFirsts(found)) = VideoTop
  BY DEF VideoAnalyzed, VideoEvidence
<1>3. hits \subseteq VideoFirsts(found)
  BY DEF VideoHits, VideoAnalyzed, VideoEvidence
<1>4. Cardinality(hits) \in Nat
  <2>1. IsFiniteSet(VideoFirsts(found))
    BY VideoPositions DEF VideoSearched
  <2>2. IsFiniteSet(hits)
    BY <1>3, <2>1, FS_Subset
  <2>3. QED
    BY <2>2, FS_CardinalityType
<1>5. \A n \in Nat, d \in Nat \ {0} : (100 * n) \div d # -1
  OBVIOUS
<1> HIDE DEF r, hits
<1>6. QED
  BY <1>1, <1>2, <1>4, <1>5, VideoAssumption DEF VideoNoShare, r

\* A video has one official brand at most.
LEMMA VideoOneOfficial ==
  ASSUME NEW found, videoOfficial \in VideoPolicy, NEW p \in DOMAIN VideoAnalyzed(found).evidence
  PROVE  Cardinality({b \in DOMAIN VideoAnalyzed(found).evidence[p].matches :
                        VideoAnalyzed(found).evidence[p].matches[b] = "official"}) <= 1
<1> DEFINE matches == VideoAnalyzed(found).evidence[p].matches
           entry == found.results[p]
           B == {b \in DOMAIN matches : matches[b] = "official"}
<1>1. p \in VideoFirsts(found)
  BY DEF VideoAnalyzed, VideoEvidence
<1>2. matches = [b \in {c \in VideoBrands : c \in entry.mentions \/ entry.channel \in videoOfficial[c]}
                   |-> VideoOrigin(entry, b)]
  BY <1>1 DEF VideoAnalyzed, VideoEvidence
<1> HIDE DEF matches
<1>3. \A b \in B : b \in VideoBrands /\ entry.channel \in videoOfficial[b]
  BY <1>2 DEF VideoOrigin
<1>4. \A a, b \in B : a = b
  BY <1>3 DEF VideoPolicy
<1> HIDE DEF B
<1>5. CASE B = {}
  BY <1>5, FS_EmptySet DEF B, matches
<1>6. CASE B # {}
  <2>1. PICK b \in B : B = {b}
    BY <1>4, <1>6
  <2>2. Cardinality(B) = 1
    BY <2>1, FS_Singleton
  <2>3. QED
    BY <2>2 DEF B, matches
<1>7. QED
  BY <1>5, <1>6

LEMMA VideoInvHolds == VideoSpec => []VideoInv
<1>1. VideoInit => VideoInv
  <2> SUFFICES ASSUME VideoInit PROVE VideoInv
    OBVIOUS
  <2>2. VideoNothing.results \in [1..0 -> VideoEntry] /\ VideoNothing.warned \in BOOLEAN
    BY DEF VideoNothing
  <2>3. 0 \in 0..VideoTop
    BY VideoAssumption
  <2>4. VideoSearched(VideoNothing)
    BY <2>2, <2>3 DEF VideoSearched
  <2>5. /\ videoOfficial \in VideoPolicy /\ videoFound = VideoNothing
        /\ videoReport = {} /\ videoStored = {}
    BY DEF VideoInit
  <2>6. VideoSearched(videoFound)
    BY <2>4, <2>5, Zenon
  <2>7. QED
    BY <2>5, <2>6 DEF VideoInv
<1>2. ASSUME VideoInv, VideoSearch PROVE VideoInv'
  <2>1. PICK k \in 0..VideoTop : \E results \in [1..k -> VideoEntry], warned \in BOOLEAN :
          videoFound' = [results |-> results, warned |-> warned]
    BY <1>2 DEF VideoSearch
  <2>2. VideoSearched(videoFound')
    BY <2>1 DEF VideoSearched
  <2>3. videoReport' = {} /\ videoStored' = {} /\ videoOfficial' = videoOfficial
    BY <1>2 DEF VideoSearch, VideoInv
  <2>4. QED
    BY <1>2, <2>2, <2>3 DEF VideoInv
<1>3. ASSUME VideoInv, videoFound' = videoFound, videoOfficial' = videoOfficial,
             videoPc' \in {"idle", "search", "answer"} => videoReport' = {},
             videoReport' \subseteq videoReport \cup {VideoAnalyzed(videoFound)},
             videoStored' \subseteq videoReport'
      PROVE  VideoInv'
  <2>1. VideoAnalyzed(videoFound)' = VideoAnalyzed(videoFound)
    <3>1. VideoEvidence(videoFound)' = VideoEvidence(videoFound)
      BY <1>3 DEF VideoEvidence, VideoFirsts, VideoValid, VideoOrigin
    <3>2. /\ VideoWarnings(videoFound)' = VideoWarnings(videoFound)
          /\ VideoFirsts(videoFound)' = VideoFirsts(videoFound)
          /\ VideoValid(videoFound)' = VideoValid(videoFound)
      BY <1>3 DEF VideoWarnings, VideoFirsts, VideoValid
    <3>3. QED
      BY <3>1, <3>2, Zenon DEF VideoAnalyzed, VideoHits, VideoOf
  <2>2. QED
    BY <1>3, <2>1 DEF VideoInv
<1>4. ASSUME VideoInv,
             VideoStart \/ VideoFails \/ VideoCollect \/ VideoCommit \/ VideoCommitFails \/ UNCHANGED videoVars
      PROVE  VideoInv'
  <2>1. videoFound' = videoFound /\ videoOfficial' = videoOfficial
    BY <1>4 DEF VideoStart, VideoFails, VideoCollect, VideoCommit, VideoCommitFails, videoVars
  <2>2. videoPc' \in {"idle", "search", "answer"} => videoReport' = {}
    BY <1>4 DEF VideoStart, VideoFails, VideoCollect, VideoCommit, VideoCommitFails, videoVars, VideoInv
  <2>3. videoReport' \subseteq videoReport \cup {VideoAnalyzed(videoFound)}
    BY <1>4 DEF VideoStart, VideoFails, VideoCollect, VideoCommit, VideoCommitFails, videoVars
  <2>4. videoStored' \subseteq videoReport'
    BY <1>4 DEF VideoStart, VideoFails, VideoCollect, VideoCommit, VideoCommitFails, videoVars, VideoInv
  <2>5. QED
    BY <1>3, <1>4, <2>1, <2>2, <2>3, <2>4
<1>5. VideoInv /\ [VideoNext]_videoVars => VideoInv'
  BY <1>2, <1>4 DEF VideoNext
<1>6. QED
  BY <1>1, <1>5, PTL DEF VideoSpec

\* Every stored snapshot is one the API serves, its share exactly where the
\* sample is complete, and no video is official for two brands: for any
\* brands, videos, channels and top_k (youtube_visibility_analysis.py,
\* api/visibility.py).
THEOREM SharesHonest == VideoSpec => []VideoShareHonest
<1>1. ASSUME VideoInv PROVE VideoShareHonest
  <2> DEFINE r == VideoAnalyzed(videoFound)
  <2>1. videoStored \subseteq {r} /\ VideoSearched(videoFound) /\ videoOfficial \in VideoPolicy
    BY <1>1 DEF VideoInv
  <2>2. VideoConsistent(r)
    BY <2>1, VideoAccepted
  <2>3. \A s \in videoStored : VideoConsistent(s)
    BY <2>1, <2>2, Zenon
  <2>4. ASSUME videoStored # {}, NEW b \in VideoBrands
        PROVE  VideoShares(b) # {} <=> r.complete
    <3>1. {s \in videoStored : VideoConsistent(s)} = {r}
      BY <2>1, <2>3, <2>4
    <3>2. VideoShares(b) = {r.brands[b].share} \ {VideoNoShare}
      BY <3>1 DEF VideoShares
    <3>3. r.brands[b].share # VideoNoShare <=> r.complete
      BY <2>1, VideoShareServed
    <3> HIDE DEF r
    <3>4. QED
      BY <3>2, <3>3
  <2>5. r.complete <=>
          /\ ~videoFound.warned
          /\ Len(videoFound.results) = VideoTop
          /\ \A p, q \in 1..VideoTop : /\ videoFound.results[p].valid
                                       /\ p # q => videoFound.results[p].id # videoFound.results[q].id
    BY <2>1, VideoComplete
  <2>6. \A s \in videoStored : \A p \in DOMAIN s.evidence :
          Cardinality({b \in DOMAIN s.evidence[p].matches : s.evidence[p].matches[b] = "official"}) <= 1
    <3>1. \A p \in DOMAIN r.evidence :
            Cardinality({b \in DOMAIN r.evidence[p].matches : r.evidence[p].matches[b] = "official"}) <= 1
      BY <2>1, VideoOneOfficial
    <3> HIDE DEF r
    <3>2. QED
      BY <2>1, <3>1
  <2> HIDE DEF r
  <2>7. QED
    BY <2>3, <2>4, <2>5, <2>6 DEF VideoShareHonest
<1>2. QED
  BY <1>1, VideoInvHolds, PTL
-----------------------------------------------------------------------------
(* SearXNG slices.  A diagnostic has a reason exactly where its slice is   *)
(* not complete, and that is where a page failed or an engine was silent;  *)
(* the answer is what the worker makes of the diagnostics it has.          *)
SliceHonest(item) ==
  /\ item.count \in Nat /\ item.complete \in BOOLEAN
  /\ item.reason \in SliceReason \cup {"none"}
  /\ item.reason # "none" <=> ~item.complete

SliceRead == [count : Nat, complete : BOOLEAN, reason : SliceReason \cup {"none"}]
SliceItem == [count : Nat, reason : SliceReason \cup {"none"}, complete : BOOLEAN,
              status : {"complete", "empty", "partial", "failed"}]

\* What a diagnostic says of its slice.
SliceTold(item) ==
  /\ SliceHonest(item)
  /\ item.status \in {"complete", "partial"} <=> item.count > 0
  /\ item.status \in {"failed", "partial"} <=> item.reason # "none"

SliceTypes ==
  /\ slicePc \in {"reading", "closing", "answered", "done"}
  /\ sliceNow \in SliceRead /\ SliceHonest(sliceNow)
  /\ sliceBrought \in Nat
  /\ sliceDone \in Seq(SliceItem)

\* The diagnostics and the records so far.
SliceSoFar ==
  /\ \A i \in DOMAIN sliceDone : SliceTold(sliceDone[i])
  /\ sliceBrought = 0 <=> \A i \in DOMAIN sliceDone : sliceDone[i].count = 0
  /\ \A i \in DOMAIN sliceDone : sliceDone[i].complete <=> i \notin sliceTruth

SliceHistory ==
  /\ sliceTruth \subseteq 1..SliceAt
  /\ SliceAt \in sliceTruth <=> ~sliceNow.complete
  /\ sliceFailed # {} => sliceTruth # {}

\* Where the worker is, and what it answered.
SlicePlace ==
  /\ slicePc \in {"reading", "closing"} => Len(sliceDone) < SliceCount
  /\ slicePc # "done" => sliceStored = <<>>
  /\ slicePc = "answered" =>
       /\ sliceNow = SliceFresh
       /\ sliceBrought > SliceLimit \/ Len(sliceDone) = SliceCount
       /\ sliceAnswer = SliceResult(sliceBrought, sliceDone)

SliceInv ==
  /\ SliceTypes
  /\ slicePc # "done" => SliceSoFar /\ SliceHistory
  /\ SlicePlace
  /\ SliceStoredTrue

LEMMA SliceInitInv == SliceInit => SliceInv
<1> SUFFICES ASSUME SliceInit PROVE SliceInv
    OBVIOUS
<1>1. SliceTypes
  BY DEF SliceInit, SliceTypes, SliceRead, SliceHonest, SliceFresh
<1>2. SliceSoFar /\ SliceHistory
  BY DEF SliceInit, SliceSoFar, SliceHistory, SliceFresh
<1>3. SlicePlace /\ SliceStoredTrue
  BY SliceAssumption DEF SliceInit, SlicePlace, SliceStoredTrue, SliceAssumption
<1> QED BY <1>1, <1>2, <1>3 DEF SliceInv

\* A page: the slice goes on honestly, whatever the page was.
LEMMA SlicePageKeeps ==
  ASSUME SliceInv, slicePc = "reading", NEW new \in Nat, NEW bad \in BOOLEAN,
         NEW reason \in SliceReasons, NEW ends \in BOOLEAN,
         sliceNow' = [count |-> sliceNow.count + new, complete |-> sliceNow.complete /\ ~bad,
                      reason |-> IF bad THEN reason ELSE sliceNow.reason],
         sliceTruth' = IF bad THEN sliceTruth \cup {SliceAt} ELSE sliceTruth,
         sliceFailed' # sliceFailed => bad, SliceTurn(ends)
  PROVE  SliceInv'
<1> USE DEF SliceInv, SliceTurn, sliceOut
<1>1. SliceTypes'
  <2>1. reason \in SliceReason \cup {"none"} /\ reason # "none"
    BY SliceAssumption DEF SliceAssumption, SliceReason
  <2>2. /\ sliceNow.count \in Nat /\ sliceNow.complete \in BOOLEAN
        /\ sliceNow.reason \in SliceReason \cup {"none"}
        /\ sliceNow.reason # "none" <=> ~sliceNow.complete
    BY DEF SliceTypes, SliceHonest
  <2>3. sliceNow' \in SliceRead /\ SliceHonest(sliceNow)'
    <3>1. CASE bad
      <4>1. (sliceNow.complete /\ ~bad) = FALSE
        BY <3>1
      <4>2. sliceNow' = [count |-> sliceNow.count + new, complete |-> FALSE, reason |-> reason]
        BY <3>1, <4>1, Zenon
      <4> QED BY <2>1, <2>2, <4>2 DEF SliceRead, SliceHonest
    <3>2. CASE ~bad
      <4>1. (sliceNow.complete /\ ~bad) = sliceNow.complete
        BY <2>2, <3>2
      <4>2. sliceNow' = [count |-> sliceNow.count + new, complete |-> sliceNow.complete,
                         reason |-> sliceNow.reason]
        BY <3>2, <4>1, Zenon
      <4> QED BY <2>2, <4>2 DEF SliceRead, SliceHonest
    <3> QED BY <3>1, <3>2
  <2> QED BY <2>3 DEF SliceTypes
<1>2. SliceAt \notin DOMAIN sliceDone /\ SliceAt' = SliceAt /\ SliceAt \in 1..SliceAt
  BY DEF SliceTypes, SliceAt
<1>3. SliceSoFar'
  BY <1>2 DEF SliceSoFar
<1>4. SliceHistory'
  BY <1>2 DEF SliceHistory, SliceTypes, SliceRead
<1>5. SlicePlace' /\ SliceStoredTrue'
  BY DEF SlicePlace, SliceStoredTrue
<1> QED BY <1>1, <1>3, <1>4, <1>5

LEMMA SliceReadsKeep ==
  ASSUME SliceInv, NEW reason \in SliceReasons,
         \/ \E new \in 0..SlicePage, silent \in BOOLEAN : SliceItems(new, silent, reason)
         \/ \E silent \in BOOLEAN : SliceEmpty(silent, reason)
         \/ \E new \in 0..SlicePage : SliceFails(new, reason)
  PROVE  SliceInv'
<1>1. ASSUME NEW new \in 0..SlicePage, NEW silent \in BOOLEAN, SliceItems(new, silent, reason)
      PROVE  SliceInv'
  <2> DEFINE ends == sliceNow.count + new = SliceMost \/ slicePage = SlicePages
  <2>1. new \in Nat /\ ends \in BOOLEAN
    BY SliceAssumption DEF SliceAssumption
  <2> QED BY <1>1, <2>1, SlicePageKeeps DEF SliceItems
<1>2. ASSUME NEW silent \in BOOLEAN, SliceEmpty(silent, reason)
      PROVE  SliceInv'
  <2>1. sliceNow' = [count |-> sliceNow.count + 0, complete |-> sliceNow.complete /\ ~silent,
                     reason |-> IF silent THEN reason ELSE sliceNow.reason]
    <3> DEFINE complete == sliceNow.complete /\ ~silent
               why == IF silent THEN reason ELSE sliceNow.reason
    <3>1. sliceNow' = [sliceNow EXCEPT !.complete = complete, !.reason = why]
      BY <1>2 DEF SliceEmpty
    <3>2. sliceNow \in SliceRead
      BY DEF SliceInv, SliceTypes
    <3> HIDE DEF complete, why
    <3>3. sliceNow' = [count |-> sliceNow.count, complete |-> complete, reason |-> why]
      BY <3>1, <3>2 DEF SliceRead
    <3>4. sliceNow.count = sliceNow.count + 0
      BY <3>2 DEF SliceRead
    <3> QED BY <3>3, <3>4, Zenon DEF complete, why
  <2> QED BY <1>2, <2>1, SlicePageKeeps DEF SliceEmpty
<1>3. ASSUME NEW new \in 0..SlicePage, SliceFails(new, reason)
      PROVE  SliceInv'
  <2>1. new \in Nat
    BY SliceAssumption DEF SliceAssumption
  <2>2. sliceNow' = [count |-> sliceNow.count + new, complete |-> sliceNow.complete /\ ~TRUE,
                     reason |-> IF TRUE THEN reason ELSE sliceNow.reason]
    BY <1>3 DEF SliceFails
  <2>3. sliceTruth' = IF TRUE THEN sliceTruth \cup {SliceAt} ELSE sliceTruth
    BY <1>3 DEF SliceFails
  <2> QED BY <1>3, <2>1, <2>2, <2>3, SlicePageKeeps DEF SliceFails
<1> QED BY <1>1, <1>2, <1>3

\* The end of a slice adds its diagnostic to the others.
LEMMA SliceCloseKeeps == ASSUME SliceInv, SliceClose PROVE SliceInv'
<1> DEFINE item == SliceDiagnostic(sliceNow)
           done == Append(sliceDone, item)
           brought == sliceBrought + sliceNow.count
<1>1. item \in SliceItem /\ SliceTold(item)
  BY DEF SliceInv, SliceTypes, SliceRead, SliceHonest, SliceDiagnostic, SliceItem, SliceTold
<1>2. /\ done \in Seq(SliceItem) /\ Len(done) = SliceAt
      /\ \A i \in DOMAIN done : i \in DOMAIN sliceDone \/ i = SliceAt
      /\ done[SliceAt] = item
      /\ \A i \in DOMAIN sliceDone : done[i] = sliceDone[i] /\ i \in DOMAIN done
      /\ SliceAt \in DOMAIN done
  BY <1>1 DEF SliceInv, SliceTypes, SliceAt
<1>3. /\ sliceDone' = done /\ sliceBrought' = brought /\ sliceNow' = SliceFresh
      /\ slicePc = "closing"
      /\ sliceTruth' = sliceTruth /\ sliceFailed' = sliceFailed /\ sliceStored' = sliceStored
  BY DEF SliceClose
<1>4. SliceTypes'
  BY <1>2, <1>3 DEF SliceClose, SliceInv, SliceTypes, SliceRead, SliceHonest, SliceFresh
<1>5. SliceSoFar'
  <2>1. \A i \in DOMAIN done : SliceTold(done[i])
    BY <1>1, <1>2, <1>3 DEF SliceInv, SliceSoFar
  <2>2. brought = 0 <=> \A i \in DOMAIN done : done[i].count = 0
    <3>1. item.count = sliceNow.count /\ sliceNow.count \in Nat /\ sliceBrought \in Nat
      BY DEF SliceDiagnostic, SliceInv, SliceTypes, SliceRead
    <3>2. brought = 0 <=> sliceBrought = 0 /\ sliceNow.count = 0
      BY <3>1
    <3>3. sliceBrought = 0 <=> \A i \in DOMAIN sliceDone : sliceDone[i].count = 0
      BY <1>3 DEF SliceInv, SliceSoFar
    <3> QED BY <1>2, <3>1, <3>2, <3>3
  <2>3. \A i \in DOMAIN done : done[i].complete <=> i \notin sliceTruth
    <3>1. item.complete = sliceNow.complete
      BY DEF SliceDiagnostic
    <3>2. \A i \in DOMAIN sliceDone : sliceDone[i].complete <=> i \notin sliceTruth
      BY <1>3 DEF SliceInv, SliceSoFar
    <3>3. SliceAt \in sliceTruth <=> ~sliceNow.complete
      BY <1>3 DEF SliceInv, SliceHistory
    <3> QED BY <1>2, <3>1, <3>2, <3>3
  <2> QED BY <1>3, <2>1, <2>2, <2>3 DEF SliceSoFar
<1>6. SliceHistory'
  <2>1. SliceAt' = SliceAt + 1 /\ SliceAt \in Nat
    BY <1>2, <1>3 DEF SliceAt, SliceInv, SliceTypes
  <2>2. sliceTruth \subseteq 1..SliceAt /\ (sliceFailed # {} => sliceTruth # {})
    BY <1>3 DEF SliceInv, SliceHistory
  <2>3. sliceTruth \subseteq 1..(SliceAt + 1) /\ SliceAt + 1 \notin sliceTruth
    BY <2>1, <2>2
  <2> QED BY <1>3, <2>1, <2>2, <2>3 DEF SliceHistory, SliceFresh
<1>7. SlicePlace'
  <2>1. Len(sliceDone) < SliceCount /\ Len(done) = Len(sliceDone) + 1 /\ Len(sliceDone) \in Nat
    BY <1>2, <1>3 DEF SliceInv, SlicePlace, SliceAt, SliceTypes
  <2>2. slicePc' # "answered" => Len(done) < SliceCount
    BY <2>1, SliceAssumption DEF SliceClose, SliceAssumption
  <2>3. slicePc' = "answered" => /\ brought > SliceLimit \/ Len(done) = SliceCount
                                 /\ sliceAnswer' = SliceResult(brought, done)
    BY <1>3 DEF SliceClose
  <2>4. slicePc' # "done" /\ sliceStored = <<>>
    BY <1>3 DEF SliceClose, SliceInv, SlicePlace
  <2> QED BY <1>3, <2>2, <2>3, <2>4 DEF SlicePlace, SliceResult
<1>8. SliceStoredTrue'
  BY DEF SliceClose, SliceStoredTrue
<1> QED BY <1>4, <1>5, <1>6, <1>7, <1>8 DEF SliceInv

\* What the worker answered is accepted.
LEMMA SliceAccepted == ASSUME SliceInv PROVE SliceAgreed
<1> SUFFICES ASSUME slicePc = "answered" PROVE SliceConsistent(sliceAnswer)
    BY DEF SliceAgreed
<1> DEFINE told == sliceAnswer.diagnostics
<1>1. sliceAnswer = SliceResult(sliceBrought, sliceDone)
  BY DEF SliceInv, SlicePlace
<1>2. CASE sliceBrought > SliceLimit
  BY <1>1, <1>2 DEF SliceResult, SliceNone, SliceConsistent
<1>3. CASE ~(sliceBrought > SliceLimit)
  <2>1. Len(sliceDone) = SliceCount /\ SliceSoFar
    BY <1>3 DEF SliceInv, SlicePlace
  <2>2. told = sliceDone
    BY <1>1, <1>3 DEF SliceResult
  <2>3. sliceAnswer.status = "error" => \A i \in DOMAIN sliceDone : sliceDone[i].count = 0
    BY <1>1, <1>3, <2>1 DEF SliceResult, SliceSoFar
  <2> QED BY <2>1, <2>2, <2>3 DEF SliceConsistent, SliceSoFar, SliceTold, SliceHonest
<1> QED BY <1>2, <1>3

\* The job ends without records.
LEMMA SliceStopKeeps ==
  ASSUME SliceInv, NEW status, NEW coverage, slicePc # "done", status # "succeeded",
         coverage # "complete", coverage = "failed" => sliceTruth # {},
         SliceStop(status, coverage)
  PROVE  SliceInv'
<1> USE DEF SliceStop, SliceInv
<1>1. SliceTypes' /\ SlicePlace'
  BY DEF SliceTypes, SlicePlace, SliceHonest
<1>2. SliceStoredTrue'
  BY DEF SlicePlace, SliceStoredTrue
<1> QED BY <1>1, <1>2

LEMMA SliceEndsKeep ==
  ASSUME SliceInv, SliceRefuse \/ SliceError \/ SliceBreak
  PROVE  SliceInv'
<1>1. CASE SliceRefuse
  BY <1>1, SliceStopKeeps DEF SliceRefuse
<1>2. CASE SliceError
  <2> DEFINE coverage == IF sliceAnswer.diagnostics = <<>> THEN "none" ELSE "failed"
             status == IF SlicePauses(sliceAnswer.error) THEN "paused" ELSE "failed"
  <2>1. coverage = "failed" => sliceTruth # {}
    <3>1. /\ sliceAnswer = SliceResult(sliceBrought, sliceDone)
          /\ sliceFailed # {} => sliceTruth # {}
          /\ sliceAnswer.status = "error"
      BY <1>2 DEF SliceError, SliceInv, SlicePlace, SliceHistory
    <3>2. CASE sliceBrought > SliceLimit
      BY <3>1, <3>2 DEF SliceResult, SliceNone
    <3>3. CASE ~(sliceBrought > SliceLimit)
      BY <3>1, <3>3 DEF SliceResult
    <3> QED BY <3>2, <3>3
  <2>2. slicePc # "done" /\ SliceStop(status, coverage) /\ coverage # "complete" /\ status # "succeeded"
    BY <1>2 DEF SliceError
  <2> HIDE DEF coverage, status
  <2> QED BY <2>1, <2>2, SliceStopKeeps
<1>3. CASE SliceBreak
  BY <1>3, SliceStopKeeps DEF SliceBreak
<1> QED BY <1>1, <1>2, <1>3

\* The records are stored and the job has its coverage.
LEMMA SliceStoreKeeps == ASSUME SliceInv, SliceStore PROVE SliceInv'
<1> DEFINE bad == \E i \in DOMAIN sliceDone : sliceDone[i].status \in {"partial", "failed"}
<1>1. /\ slicePc = "answered" /\ slicePc' = "done"
      /\ sliceJob' = [status |-> "succeeded", coverage |-> SliceCoverage(sliceBrought, sliceDone)]
      /\ sliceStored' = [i \in DOMAIN sliceDone |->
           [count |-> sliceDone[i].count, complete |-> sliceDone[i].complete]]
      /\ sliceTruth' = sliceTruth
  BY DEF SliceStore
<1>2. SliceTypes' /\ SlicePlace'
  BY <1>1 DEF SliceStore, SliceInv, SliceTypes, SlicePlace, SliceHonest
<1>3. SliceSoFar /\ SliceHistory /\ sliceNow.complete /\ sliceBrought \in Nat /\ sliceDone \in Seq(SliceItem)
  BY <1>1 DEF SliceInv, SlicePlace, SliceFresh, SliceTypes
<1>4. \A i \in sliceTruth : i \in DOMAIN sliceDone
  BY <1>3 DEF SliceHistory, SliceAt
<1>5. sliceTruth # {} <=> bad
  <2>1. \A i \in DOMAIN sliceDone : sliceDone[i].status \in {"partial", "failed"} <=> i \in sliceTruth
    BY <1>3 DEF SliceSoFar, SliceTold, SliceHonest
  <2> QED BY <2>1, <1>4
<1>6. SliceCoverage(sliceBrought, sliceDone) =
        IF bad THEN IF sliceBrought > 0 THEN "partial" ELSE "failed" ELSE "complete"
  BY DEF SliceCoverage
<1>7. SliceStoredTrue'
  <2>1. \A i \in DOMAIN sliceStored' : sliceStored'[i].complete <=> i \notin sliceTruth
    BY <1>1, <1>3 DEF SliceSoFar
  <2>2. sliceBrought = 0 => \A i \in DOMAIN sliceStored' : sliceStored'[i].count = 0
    BY <1>1, <1>3 DEF SliceSoFar
  <2>3. /\ sliceJob'.coverage = "complete" => sliceTruth = {}
        /\ sliceTruth # {} => sliceJob'.coverage \in {"partial", "failed"}
        /\ sliceJob'.coverage = "failed" => sliceTruth # {} /\ sliceBrought = 0
    <3> HIDE DEF bad
    <3> QED BY <1>1, <1>3, <1>5, <1>6
  <2> QED BY <1>1, <2>1, <2>2, <2>3 DEF SliceStoredTrue
<1> QED BY <1>1, <1>2, <1>7 DEF SliceInv

\* Worker, connector and job say the same of a search and it is true
\* (searxng_worker.py:215, searxng_results.py:147-252): for any matrix of
\* slices, page and result limits, and any mixture of silent engines, failed
\* and partial pages.
THEOREM CoverageTrue == SliceSpec => []SliceCoverageTrue
<1>1. SliceInv /\ [SliceNext]_sliceVars => SliceInv'
  <2> SUFFICES ASSUME SliceInv, [SliceNext]_sliceVars PROVE SliceInv'
      OBVIOUS
  <2>1. CASE UNCHANGED sliceVars
    BY <2>1 DEF sliceVars, SliceInv, SliceTypes, SliceSoFar, SliceTold, SliceHonest, SliceHistory, SliceAt,
                SlicePlace, SliceResult, SliceStoredTrue
  <2>2. CASE SliceNext
    BY <2>2, SliceReadsKeep, SliceCloseKeeps, SliceEndsKeep, SliceStoreKeeps DEF SliceNext
  <2> QED BY <2>1, <2>2
<1>2. SliceInv => SliceCoverageTrue
  BY SliceAccepted DEF SliceInv, SliceCoverageTrue
<1> QED BY SliceInitInv, <1>1, <1>2, PTL DEF SliceSpec
-----------------------------------------------------------------------------
(* Well-formedness, each component by itself; of GitHub, the hook, the     *)
(* worker and the web it is a part of their invariants above.              *)
SliceKinds ==
  /\ sliceNow \in [count : 0..SliceMost, complete : BOOLEAN, reason : SliceReason \cup {"none"}]
  /\ slicePage \in 1..SlicePages
  /\ sliceWarned \subseteq {"unresponsive_engine", "slice_empty", "slice_unavailable"}
  /\ sliceFailed \subseteq SliceReason
  /\ sliceJob \in [status : {"running", "succeeded", "paused", "failed"},
                   coverage : {"none", "complete", "partial", "failed"}]

\* A slice brings at most SliceMost records.
SliceBounds ==
  /\ slicePc \in {"reading", "closing", "answered", "done"}
  /\ sliceDone \in Seq(SliceItem)
  /\ Len(sliceDone) \in 0..SliceCount
  /\ sliceBrought \in Nat /\ sliceBrought <= Len(sliceDone) * SliceMost
  /\ slicePc \in {"reading", "closing"} => Len(sliceDone) < SliceCount
  /\ sliceTruth \subseteq 1..SliceCount
  /\ sliceAnswer.status \in {"none", "ok", "error"}

LEMMA SliceWellFormed == SliceSpec => []SliceTypeOK
<1> DEFINE J == SliceKinds /\ SliceBounds
<1>0. /\ SliceCount \in Nat \ {0} /\ SlicePages \in Nat \ {0} /\ SliceMost \in Nat \ {0}
      /\ SlicePage \in Nat \ {0} /\ SliceLimit \in Nat /\ SliceReasons \subseteq SliceReason
  BY SliceAssumption DEF SliceAssumption
<1>1. SliceInit => J
  BY <1>0 DEF SliceInit, SliceKinds, SliceBounds, SliceFresh, SliceNone
<1>2. ASSUME J, [SliceNext]_sliceVars PROVE J'
  <2>1. ASSUME NEW reason \in SliceReasons, NEW new \in 0..SlicePage, NEW silent \in BOOLEAN,
               SliceItems(new, silent, reason) \/ SliceEmpty(silent, reason) \/ SliceFails(new, reason)
        PROVE  J'
    <3>0. PICK ends \in BOOLEAN : SliceTurn(ends) /\ (~ends => slicePage # SlicePages)
      BY <2>1 DEF SliceItems, SliceEmpty, SliceFails
    <3>1. slicePc = "reading" /\ slicePc' \in {"reading", "closing"} /\ slicePage' \in 1..SlicePages
      BY <1>0, <1>2, <2>1, <3>0 DEF SliceItems, SliceEmpty, SliceFails, SliceTurn, SliceKinds
    <3>2. /\ sliceNow.count \in 0..SliceMost /\ sliceNow.complete \in BOOLEAN
          /\ sliceNow.reason \in SliceReason \cup {"none"}
          /\ sliceNow = [count |-> sliceNow.count, complete |-> sliceNow.complete, reason |-> sliceNow.reason]
          /\ reason \in SliceReason
      BY <1>0, <1>2 DEF SliceKinds
    <3>3. sliceNow' \in [count : 0..SliceMost, complete : BOOLEAN, reason : SliceReason \cup {"none"}]
      <4> DEFINE whole == sliceNow.complete /\ ~silent
                 why == IF silent THEN reason ELSE sliceNow.reason
      <4>1. whole \in BOOLEAN /\ why \in SliceReason \cup {"none"}
        BY <3>2
      <4>2. SliceItems(new, silent, reason) => sliceNow' = [count |-> sliceNow.count + new, complete |-> whole, reason |-> why]
                      /\ sliceNow.count + new \in 0..SliceMost
        BY <3>2, <1>0 DEF SliceItems
      <4>3. SliceEmpty(silent, reason) => sliceNow' = [count |-> sliceNow.count, complete |-> whole, reason |-> why]
        <5>1. SliceEmpty(silent, reason) => sliceNow' = [sliceNow EXCEPT !.complete = whole, !.reason = why]
          BY DEF SliceEmpty
        <5> HIDE DEF whole, why
        <5> QED BY <1>2, <5>1 DEF SliceKinds
      <4>4. SliceFails(new, reason) => sliceNow' = [count |-> sliceNow.count + new, complete |-> FALSE, reason |-> reason]
                      /\ sliceNow.count + new \in 0..SliceMost
        BY <3>2, <1>0 DEF SliceFails
      <4> HIDE DEF whole, why
      <4>5. \A c \in 0..SliceMost, w \in BOOLEAN, y \in SliceReason \cup {"none"} :
              [count |-> c, complete |-> w, reason |-> y]
                \in [count : 0..SliceMost, complete : BOOLEAN, reason : SliceReason \cup {"none"}]
        OBVIOUS
      <4>6. CASE SliceItems(new, silent, reason)
        BY <4>1, <4>2, <4>5, <4>6
      <4>7. CASE SliceEmpty(silent, reason)
        BY <3>2, <4>1, <4>3, <4>5, <4>7
      <4>8. CASE SliceFails(new, reason)
        <5>1. FALSE \in BOOLEAN /\ reason \in SliceReason \cup {"none"}
          BY <3>2
        <5>2. sliceNow.count + new \in 0..SliceMost
          BY <4>4, <4>8
        <5>3. [count |-> sliceNow.count + new, complete |-> FALSE, reason |-> reason]
                \in [count : 0..SliceMost, complete : BOOLEAN, reason : SliceReason \cup {"none"}]
          BY <5>1, <5>2
        <5> QED BY <4>4, <4>8, <5>3
      <4> QED BY <2>1, <4>6, <4>7, <4>8
    <3>4. sliceWarned' \subseteq {"unresponsive_engine", "slice_empty", "slice_unavailable"}
      BY <1>2, <2>1 DEF SliceItems, SliceEmpty, SliceFails, SliceKinds
    <3>5. sliceFailed' \subseteq SliceReason
      BY <1>2, <2>1, <3>2 DEF SliceItems, SliceEmpty, SliceFails, SliceKinds, SliceKind, SliceReason
    <3>6. SliceAt \in 1..SliceCount /\ sliceTruth' \subseteq sliceTruth \cup {SliceAt}
      <4>1. SliceAt \in 1..SliceCount
        BY <1>0, <1>2, <3>1 DEF SliceAt, SliceBounds
      <4>2. sliceTruth' = sliceTruth \/ sliceTruth' = sliceTruth \cup {SliceAt}
        BY <2>1, Zenon DEF SliceItems, SliceEmpty, SliceFails
      <4> QED BY <4>1, <4>2
    <3> QED BY <1>2, <3>0, <3>1, <3>3, <3>4, <3>5, <3>6 DEF SliceTurn, sliceOut, SliceKinds, SliceBounds
  <2>2. CASE SliceClose
    <3> DEFINE item == SliceDiagnostic(sliceNow)
               done == Append(sliceDone, item)
               brought == sliceBrought + sliceNow.count
    <3>1. item \in SliceItem /\ sliceNow.count \in 0..SliceMost
      BY <1>2 DEF SliceDiagnostic, SliceItem, SliceKinds
    <3>2. sliceDone \in Seq(SliceItem) /\ done \in Seq(SliceItem) /\ Len(done) = Len(sliceDone) + 1
      BY <1>2, <3>1 DEF SliceBounds
    <3>3. brought \in Nat /\ brought <= (Len(sliceDone) + 1) * SliceMost
      <4> DEFINE n == Len(sliceDone)
      <4>1. n \in Nat /\ sliceBrought \in Nat /\ sliceBrought <= n * SliceMost
            /\ sliceNow.count \in Nat /\ sliceNow.count <= SliceMost
        BY <1>0, <1>2, <3>1 DEF SliceBounds
      <4> HIDE DEF n
      <4>2. n * SliceMost \in Nat /\ (n + 1) * SliceMost = n * SliceMost + SliceMost
        BY <1>0, <4>1
      <4>3. brought \in Nat /\ brought <= n * SliceMost + SliceMost
        BY <1>0, <4>1, <4>2
      <4> QED BY <4>2, <4>3 DEF n
    <3>4. Len(done) \in 0..SliceCount /\ (slicePc' = "reading" => Len(done) < SliceCount)
      BY <1>0, <1>2, <2>2, <3>2 DEF SliceClose, SliceBounds
    <3>5. sliceAnswer'.status \in {"none", "ok", "error"}
      BY <1>2, <2>2 DEF SliceClose, SliceBounds, SliceResult, SliceNone
    <3>6. /\ sliceDone' = done /\ sliceBrought' = brought /\ sliceNow' = SliceFresh
          /\ slicePc' \in {"reading", "answered"}
          /\ UNCHANGED <<slicePage, sliceWarned, sliceFailed, sliceJob, sliceTruth>>
      BY <2>2 DEF SliceClose
    <3>7. SliceFresh \in [count : 0..SliceMost, complete : BOOLEAN, reason : SliceReason \cup {"none"}]
      BY <1>0 DEF SliceFresh
    <3> HIDE DEF item, done, brought
    <3>8. SliceKinds'
      BY <1>2, <3>6, <3>7 DEF SliceKinds
    <3>9. SliceBounds'
      BY <1>2, <3>2, <3>3, <3>4, <3>5, <3>6 DEF SliceBounds
    <3> QED BY <3>8, <3>9
  <2>3. CASE SliceRefuse \/ SliceError \/ SliceBreak
    <3>1. PICK status \in {"paused", "failed"}, coverage \in {"none", "failed"} : SliceStop(status, coverage)
      BY <2>3 DEF SliceRefuse, SliceError, SliceBreak
    <3> QED BY <1>2, <3>1 DEF SliceStop, SliceKinds, SliceBounds
  <2>4. CASE SliceStore
    BY <1>2, <2>4 DEF SliceStore, SliceCoverage, SliceKinds, SliceBounds
  <2>5. CASE UNCHANGED sliceVars
    BY <1>2, <2>5 DEF sliceVars, SliceKinds, SliceBounds
  <2>6. 0 \in 0..SlicePage /\ TRUE \in BOOLEAN
    BY <1>0
  <2> QED BY <1>2, <2>1, <2>2, <2>3, <2>4, <2>5, <2>6 DEF SliceNext
<1>3. J => SliceTypeOK
  <2> SUFFICES ASSUME J PROVE SliceTypeOK
    OBVIOUS
  <2>1. sliceBrought \in 0..(SliceCount * SliceMost)
    <3>1. ASSUME NEW n \in 0..SliceCount PROVE n * SliceMost <= SliceCount * SliceMost
      BY <1>0
    <3>2. SliceCount * SliceMost \in Nat /\ Len(sliceDone) * SliceMost \in Nat
      BY <1>0 DEF SliceBounds
    <3> QED BY <3>1, <3>2 DEF SliceBounds
  <2> QED BY <2>1 DEF SliceKinds, SliceBounds, SliceTypeOK
<1> QED BY <1>1, <1>2, <1>3, PTL DEF SliceSpec

SignalRow ==
  [metric : {"interest", "rank"}, context : 1..2,
   group : [keywords : SUBSET SignalKeywords, dates : SUBSET (1..SignalDays)],
   keyword : SignalKeywords, date : 1..SignalDays, scale : 1..SignalFetches]

\* The batch of a run is of rows like the stored ones.
SignalRunType ==
  [pc : {"idle", "worker", "commit"}, policy : 1..2, context : 1..2,
   batch : [records : SUBSET SignalRow, error : {"none"},
            warnings : SUBSET {"trend_empty", "trend_unavailable",
                               "suggestions_empty", "suggestions_unavailable"}]]

SignalTyped ==
  /\ signalDay \in 1..SignalDays
  /\ signalFetched \in 0..SignalFetches
  /\ signalPolicy \in 1..2 /\ signalContext \in 1..2
  /\ signalStored \subseteq SignalRow
  /\ signalMark.policy \in 0..2
  /\ signalRun \in [SignalRuns -> SignalRunType]

LEMMA SignalRows ==
  ASSUME SignalTyped, signalFetched < SignalFetches,
         NEW r, r.policy \in 1..2, r.context \in 1..2
  PROVE  SignalTrends(r) \subseteq SignalRow /\ SignalSuggestions(r) \subseteq SignalRow
<1>1. SignalDays \in Nat /\ SignalFetches \in Nat /\ SignalWindow \in Nat
  BY SignalAssumption DEF SignalAssumption
<1>2. SignalAsked(r.policy) \subseteq SignalKeywords
  BY DEF SignalAsked
<1>3. SignalIndex \subseteq 1..SignalDays
  BY <1>1 DEF SignalIndex, SignalTyped
<1>4. signalFetched + 1 \in 1..SignalFetches /\ signalDay \in 1..SignalDays
  BY <1>1 DEF SignalTyped
<1>5. SignalGroup(r.policy, SignalIndex) \in [keywords : SUBSET SignalKeywords, dates : SUBSET (1..SignalDays)]
  BY <1>2, <1>3 DEF SignalGroup
<1>6. [keywords |-> {}, dates |-> {}] \in [keywords : SUBSET SignalKeywords, dates : SUBSET (1..SignalDays)]
  OBVIOUS
<1>7. SignalTrends(r) \subseteq SignalRow
  BY <1>2, <1>3, <1>4, <1>5 DEF SignalTrends, SignalRow
<1>8. SignalSuggestions(r) \subseteq SignalRow
  BY <1>2, <1>4, <1>6 DEF SignalSuggestions, SignalRow
<1> QED BY <1>7, <1>8

LEMMA SignalWellFormed == SignalSpec => []SignalTypeOK
<1>0. SignalDays \in Nat \ {0} /\ SignalFetches \in Nat
  BY SignalAssumption DEF SignalAssumption
<1>1. SignalInit => SignalTyped
  BY <1>0 DEF SignalInit, SignalTyped, SignalRunType, SignalIdle, SignalNoBatch
<1>2. ASSUME SignalTyped, [SignalNext]_signalVars PROVE SignalTyped'
  <2>1. CASE SignalPassDay
    BY <1>0, <1>2, <2>1 DEF SignalPassDay, SignalTyped
  <2>2. CASE SignalEdit
    BY <1>2, <2>2 DEF SignalEdit, SignalTyped
  <2>3. ASSUME NEW p \in SignalRuns, SignalStart(p) \/ SignalBreak(p) PROVE SignalTyped'
    <3> DEFINE started == [SignalIdle EXCEPT !.pc = "worker", !.policy = signalPolicy,
                                             !.context = signalContext]
    <3>1. started \in SignalRunType /\ SignalIdle \in SignalRunType
      <4>1. SignalIdle \in SignalRunType
        BY DEF SignalIdle, SignalNoBatch, SignalRunType
      <4>2. signalPolicy \in 1..2 /\ signalContext \in 1..2
        BY <1>2 DEF SignalTyped
      <4> QED BY <4>1, <4>2 DEF SignalRunType
    <3>2. signalRun' = [signalRun EXCEPT ![p] = started] \/ signalRun' = [signalRun EXCEPT ![p] = SignalIdle]
      BY <2>3 DEF SignalStart, SignalBreak, SignalSet
    <3> HIDE DEF started
    <3> QED BY <1>2, <2>3, <3>1, <3>2 DEF SignalStart, SignalBreak, signalWorld, SignalTyped
  <2>4. ASSUME NEW p \in SignalRuns, SignalCommit(p) PROVE SignalTyped'
    BY <1>2, <2>4 DEF SignalCommit, SignalSet, signalWorld, SignalTyped, SignalRunType, SignalIdle, SignalNoBatch
  <2>5. ASSUME NEW p \in SignalRuns, NEW trends \in SignalPart, NEW suggestions \in SignalPart,
               SignalAnswer(p, trends, suggestions)
        PROVE  SignalTyped'
    <3> DEFINE r == signalRun[p]
               records == (IF trends = "records" THEN SignalTrends(r) ELSE {})
                            \cup (IF suggestions = "records" THEN SignalSuggestions(r) ELSE {})
               warnings == SignalWarnings(trends, suggestions)
               batch == [records |-> records, error |-> "none", warnings |-> warnings]
    <3>1. signalFetched < SignalFetches /\ signalFetched' = signalFetched + 1 /\ UNCHANGED <<signalWorld, signalStored, signalMark>>
      BY <2>5 DEF SignalAnswer
    <3>2. records \subseteq SignalRow
      <4>1. r.policy \in 1..2 /\ r.context \in 1..2
        BY <1>2 DEF SignalTyped, SignalRunType
      <4> HIDE DEF r
      <4>2. SignalTrends(r) \subseteq SignalRow /\ SignalSuggestions(r) \subseteq SignalRow
        BY <1>2, <3>1, <4>1, SignalRows
      <4> QED BY <4>2
    <3>3. warnings \subseteq {"trend_empty", "trend_unavailable", "suggestions_empty", "suggestions_unavailable"}
      BY DEF SignalWarnings
    <3>4. \/ signalRun' = [signalRun EXCEPT ![p] = SignalIdle]
          \/ signalRun' = [signalRun EXCEPT ![p] = [r EXCEPT !.pc = "commit", !.batch = batch]]
      BY <2>5, Zenon DEF SignalAnswer, SignalSet
    <3> HIDE DEF records, warnings
    <3>5. signalRun' \in [SignalRuns -> SignalRunType]
      <4>1. r \in SignalRunType
        BY <1>2 DEF SignalTyped
      <4>2. batch \in [records : SUBSET SignalRow, error : {"none"},
                      warnings : SUBSET {"trend_empty", "trend_unavailable",
                                         "suggestions_empty", "suggestions_unavailable"}]
        BY <3>2, <3>3
      <4> HIDE DEF r, batch
      <4>3. [r EXCEPT !.pc = "commit", !.batch = batch] \in SignalRunType
        BY <4>1, <4>2 DEF SignalRunType
      <4>4. SignalIdle \in SignalRunType
        BY DEF SignalIdle, SignalNoBatch, SignalRunType
      <4> QED BY <1>2, <3>4, <4>3, <4>4 DEF SignalTyped
    <3> QED BY <1>0, <1>2, <3>1, <3>5 DEF SignalTyped, signalWorld
  <2>6. CASE UNCHANGED signalVars
    BY <1>2, <2>6 DEF signalVars, SignalTyped
  <2> QED BY <1>2, <2>1, <2>2, <2>3, <2>4, <2>5, <2>6 DEF SignalNext
<1>3. SignalTyped => SignalTypeOK
  <2> SUFFICES ASSUME SignalTyped PROVE SignalTypeOK
    OBVIOUS
  <2>1. ASSUME NEW entry \in signalStored
        PROVE  /\ entry.metric \in {"interest", "rank"} /\ entry.context \in 1..2
               /\ entry.group.keywords \subseteq SignalKeywords
               /\ entry.group.dates \subseteq 1..SignalDays
               /\ entry.keyword \in SignalKeywords /\ entry.date \in 1..SignalDays
               /\ entry.scale \in 1..SignalFetches
    BY <2>1 DEF SignalTyped, SignalRow
  <2>2. \A p \in SignalRuns : signalRun[p].pc \in {"idle", "worker", "commit"}
    BY DEF SignalTyped, SignalRunType
  <2> QED BY <2>1, <2>2 DEF SignalTyped, SignalTypeOK
<1> QED BY <1>1, <1>2, <1>3, PTL DEF SignalSpec

LEMMA VideoWellFormed == VideoSpec => []VideoTypeOK
<1> DEFINE Pc == videoPc \in {"idle", "search", "answer", "collected", "done", "failed"}
<1>1. VideoInit => Pc
  BY DEF VideoInit
<1>2. Pc /\ [VideoNext]_videoVars => Pc'
  BY DEF VideoNext, VideoStart, VideoSearch, VideoFails, VideoCollect, VideoCommit, VideoCommitFails, videoVars
<1>3. ASSUME VideoInv, Pc PROVE VideoTypeOK
  <2>1. videoFound.results \in Seq(VideoEntry) /\ Len(videoFound.results) <= VideoTop
    <3>1. PICK k \in 0..VideoTop : videoFound.results \in [1..k -> VideoEntry]
      BY <1>3 DEF VideoInv, VideoSearched
    <3>2. k \in Nat /\ k <= VideoTop
      BY VideoAssumption DEF VideoAssumption
    <3> QED BY <3>1, <3>2
  <2>2. Cardinality(videoReport) <= 1
    <3>1. IsFiniteSet({VideoAnalyzed(videoFound)}) /\ Cardinality({VideoAnalyzed(videoFound)}) = 1
      BY FS_Singleton
    <3> QED BY <1>3, <3>1, FS_Subset, FS_CardinalityType DEF VideoInv
  <2> QED BY <1>3, <2>1, <2>2 DEF VideoInv, VideoSearched, VideoPolicy, VideoTypeOK
<1> QED BY <1>1, <1>2, <1>3, VideoInvHolds, PTL DEF VideoSpec

\* Each component moves by itself, and rests in an initial state otherwise.
LEMMA ConnectorsAlone ==
  ConnectorsSpec => /\ Spec /\ HookSpec /\ PageSpec /\ WebSpec /\ SliceSpec /\ SignalSpec
                    /\ VideoSpec /\ [](part \in Parts)
<1>1. ConnectorsInit => /\ Init /\ HookInit /\ PageInit /\ WebInit /\ SliceInit /\ SignalInit
                        /\ VideoInit /\ part \in Parts
  BY DEF ConnectorsInit
<1>2. [ConnectorsNext]_connectorsVars =>
        /\ [Next]_vars /\ [HookNext]_hookVars /\ [PageNext]_pageVars /\ [WebNext]_webVars
        /\ [SliceNext]_sliceVars /\ [SignalNext]_signalVars /\ [VideoNext]_videoVars
        /\ part' = part
  BY DEF ConnectorsNext, connectorsVars
<1> DEFINE Somewhere == part \in Parts
<1>3. Somewhere /\ part' = part => Somewhere'
  BY DEF Parts
<1> HIDE DEF Somewhere
<1>4. ConnectorsInit => Somewhere
  BY <1>1 DEF Somewhere
<1>5. ConnectorsSpec => []Somewhere
  BY <1>2, <1>3, <1>4, PTL DEF ConnectorsSpec
<1> QED
  BY <1>1, <1>2, <1>5, PTL DEF ConnectorsSpec, Spec, HookSpec, PageSpec, WebSpec, SliceSpec,
                              SignalSpec, VideoSpec, Somewhere

\* Whatever fails, races or is edited, every connector stays well formed: the
\* records of a slice and of a run within their limits, circuits, checkpoints,
\* lists and approvals of the kinds the code reads back
\* (github_cli.py, authorized_hook.py, searxng_worker.py, public_search_signals.py).
THEOREM ConnectorsWellFormed == ConnectorsSpec => []ConnectorTypeOK
<1>1. SnapshotInv => TypeOK
  BY DEF SnapshotInv
<1>2. HookInv => HookTypeOK
  BY DEF HookInv, HookTypeOK
<1>3. PageInv => PageTypeOK
  BY DEF PageInv, PageTypeOK
<1>4. WebInv => WebTypeOK
  BY DEF WebInv, WebTypeOK
<1> QED
  BY <1>1, <1>2, <1>3, <1>4, ConnectorsAlone, SnapshotInvHolds, HookInvHolds, PageInvHolds, WebInvHolds,
     SliceWellFormed, SignalWellFormed, VideoWellFormed, PTL DEF ConnectorTypeOK
=============================================================================
