-------------------------- MODULE DuplicateGroups --------------------------
(***************************************************************************)
(* cluster_duplicates (normalization/duplicates.py): exact buckets, then   *)
(* the candidate pairs of four hash bands, joined by a union-find whose    *)
(* roots are the smallest members.  The documents of a run are 1..DupDocs  *)
(* in the order of their identities.  A band differs in 0 or 1 bits here,  *)
(* so that documents are at distances 0..4: those around the limit of 3.   *)
(***************************************************************************)
EXTENDS Naturals, FiniteSets, FiniteSetsExt

CONSTANTS
  DupDocs,      \* documents with a text
  DupDistance   \* duplicate_policy.simhash_distance

ASSUME DupAssumption == DupDocs \in Nat /\ DupDistance \in 0..3

VARIABLES
  dupDoc,     \* documents: fingerprint, and the bands of the simhash ({}: too short for one)
  dupParent,  \* union-find
  dupTodo,    \* pairs to be joined or compared, in order
  dupPc

dupVars == <<dupDoc, dupParent, dupTodo, dupPc>>
-----------------------------------------------------------------------------
DupIds == 1..DupDocs
DupBands == 1..4
DupHash == {<<>>} \cup [DupBands -> {0, 1}]
DupNoDoc == [print |-> 1, hash |-> <<>>]

DupInit ==
  /\ dupDoc = [d \in DupIds |-> DupNoDoc]
  /\ dupParent = [d \in DupIds |-> d]
  /\ dupTodo = {}
  /\ dupPc = "documents"

DupPair(a, b) == [first |-> Min({a, b}), second |-> Max({a, b})]

\* exact_buckets: the first member of a bucket with each of the others.
DupExact(docs) ==
  {DupPair(Min({e \in DupIds : docs[e].print = docs[d].print}), d) : d \in DupIds}

\* normalize_record gives the documents: the same text has the same simhash.
\* A fingerprint is named by the first document that has it.
DupChoose ==
  /\ dupPc = "documents"
  /\ \E print \in [DupIds -> DupIds], hash \in [DupIds -> DupHash] :
       /\ \A d \in DupIds : print[d] <= d /\ print[print[d]] = print[d]
       /\ \A d \in DupIds : hash[d] = hash[print[d]]
       /\ dupDoc' = [d \in DupIds |-> [print |-> print[d], hash |-> hash[d]]]
  /\ dupTodo' = {pair \in DupExact(dupDoc') : pair.first # pair.second}
  /\ dupPc' = "exact"
  /\ UNCHANGED dupParent

DupRoot(parent, d) ==
  LET climb[n \in 0..DupDocs] == IF n = 0 THEN d ELSE parent[climb[n - 1]]
  IN climb[DupDocs]

\* Mutant: the documents are joined and not their roots.
DupUnionFlat(parent, a, b) == [parent EXCEPT ![Max({a, b})] = Min({a, b})]

\* Mutant: the roots are not sorted.
DupUnionUnsorted(parent, a, b) == [parent EXCEPT ![DupRoot(parent, a)] = DupRoot(parent, b)]

\* union: the larger root under the smaller one.
DupUnion(parent, a, b) ==
  LET left == DupRoot(parent, a)
      right == DupRoot(parent, b)
  IN IF left = right THEN parent ELSE [parent EXCEPT ![Max({left, right})] = Min({left, right})]

DupFirst == CHOOSE pair \in dupTodo : \A other \in dupTodo :
  pair.first < other.first \/ (pair.first = other.first /\ pair.second <= other.second)

DupJoinExact ==
  /\ dupPc = "exact" /\ dupTodo # {}
  /\ dupParent' = DupUnion(dupParent, DupFirst.first, DupFirst.second)
  /\ dupTodo' = dupTodo \ {DupFirst}
  /\ UNCHANGED <<dupDoc, dupPc>>

\* lsh_buckets: the documents that agree on a band are candidates.
DupCandidates ==
  {pair \in {DupPair(a, b) : a, b \in DupIds} :
     /\ pair.first # pair.second
     /\ dupDoc[pair.first].hash # <<>> /\ dupDoc[pair.second].hash # <<>>
     /\ \E band \in DupBands : dupDoc[pair.first].hash[band] = dupDoc[pair.second].hash[band]}

DupBucket ==
  /\ dupPc = "exact" /\ dupTodo = {}
  /\ dupTodo' = DupCandidates
  /\ dupPc' = "near"
  /\ UNCHANGED <<dupDoc, dupParent>>

DupApart(a, b) == Cardinality({band \in DupBands : dupDoc[a].hash[band] # dupDoc[b].hash[band]})

DupJoinNear ==
  /\ dupPc = "near" /\ dupTodo # {}
  /\ dupParent' = IF DupApart(DupFirst.first, DupFirst.second) <= DupDistance
                  THEN DupUnion(dupParent, DupFirst.first, DupFirst.second) ELSE dupParent
  /\ dupTodo' = dupTodo \ {DupFirst}
  /\ UNCHANGED <<dupDoc, dupPc>>

\* The groups: the components with more than one member, and their kind.
DupGroups ==
  LET of(root) == {d \in DupIds : DupRoot(dupParent, d) = root} IN
  {[members |-> of(root),
    kind |-> IF Cardinality({dupDoc[d].print : d \in of(root)}) = 1 THEN "exact" ELSE "near"] :
     root \in {d \in DupIds : Cardinality(of(d)) > 1}}

DupFinish ==
  /\ dupPc = "near" /\ dupTodo = {}
  /\ dupPc' = "done"
  /\ UNCHANGED <<dupDoc, dupParent, dupTodo>>

DupNext ==
  \/ DupChoose \/ DupJoinExact \/ DupBucket \/ DupJoinNear \/ DupFinish

DupSpec == DupInit /\ [][DupNext]_dupVars
-----------------------------------------------------------------------------
DupTypeOK ==
  /\ dupDoc \in [DupIds -> [print : DupIds, hash : DupHash]]
  /\ dupParent \in [DupIds -> DupIds]
  /\ \A d \in DupIds : dupParent[d] <= d
  /\ dupPc \in {"documents", "exact", "near", "done"}

\* The definition the groups are held to: documents are alike if they have one
\* fingerprint or simhashes within the distance, whatever bands they share,
\* and a group is what chains of alike documents connect.
DupAlike(a, b) ==
  \/ dupDoc[a].print = dupDoc[b].print
  \/ dupDoc[a].hash # <<>> /\ dupDoc[b].hash # <<>> /\ DupApart(a, b) <= DupDistance

DupChained(members) ==
  \A part \in (SUBSET members) \ {{}, members} :
    \E a \in part, b \in members \ part : DupAlike(a, b)

\* cluster_duplicates returns exactly the connected groups of alike documents:
\* the four bands miss no pair within a distance of three, a group is connected
\* and nothing alike is left outside, and "exact" is said where all of its
\* documents are the same text.
DupGroupsRight ==
  dupPc = "done" =>
    /\ \A group \in DupGroups :
         /\ DupChained(group.members)
         /\ group.kind = "exact" <=> \A a, b \in group.members : dupDoc[a].print = dupDoc[b].print
    /\ \A a, b \in DupIds : a # b /\ DupAlike(a, b) =>
         \E group \in DupGroups : {a, b} \subseteq group.members
=============================================================================
