--------------------------- MODULE GitHubSnapshot ---------------------------
(***************************************************************************)
(* The GitHub search connector (connectors/github_issues.py) infers        *)
(* deletions from what is no longer found: it walks the result pages, one  *)
(* page per request, and compares a cycle it takes for a complete snapshot *)
(* with the one before.  The result list changes between two requests, a   *)
(* response may be incomplete, a page that did not change is a 304, and a  *)
(* run may die with a page it has not committed (github_cli.py).           *)
(*                                                                         *)
(* A checkpoint is stored with every page, so a run that ends and the next *)
(* one look the same as one run; one run at a time works on the source.    *)
(***************************************************************************)
EXTENDS Naturals, Sequences, FiniteSets

CONSTANTS
  Ids,        \* issues and pull requests
  PageSize,   \* pagination.page_size
  MaxPages,   \* pagination.max_pages
  SearchCap,  \* the search interface serves the first 1000 results only
  MaxChanges, \* bound: changes of the result list per behaviour
  None        \* no response

VARIABLES
  upstream,   \* the result list, best match first (external)
  changes,    \* changes of the list so far
  record,     \* table ingested_records: absent, live or tombstoned
  checkpoint, \* connector_states
  held        \* the response of the request that is not committed yet

VARIABLES
  removals,   \* history: removals from the list so far
  steady,     \* history: ids that were in the list all the time
  gone        \* history: safe cycles since an id was last in one

world == <<upstream, changes, removals, steady>>
vars == <<world, record, checkpoint, held, gone>>
-----------------------------------------------------------------------------
Least(a, b) == IF a < b THEN a ELSE b
Elements(s) == {s[i] : i \in 1..Len(s)}

Lists == {s \in UNION {[1..n -> Ids] : n \in 0..Cardinality(Ids)} :
            Cardinality(Elements(s)) = Len(s)}

Pages == 1..MaxPages

Response == [ids : SUBSET Ids, total : 0..Cardinality(Ids), more : BOOLEAN, incomplete : BOOLEAN]

ASSUME SnapshotAssumption ==
  /\ IsFiniteSet(Ids)
  /\ PageSize \in Nat \ {0}
  /\ MaxPages \in Nat \ {0}
  /\ SearchCap \in Nat
  /\ MaxChanges \in Nat
  /\ None \notin Response
  /\ None \notin [answer : Response, fresh : BOOLEAN]

\* The caches of a URL (etag, next, ids, total, incomplete) are written
\* together; a page of the search is one URL.
Checkpoint ==
  [page : Pages, seen : SUBSET Ids, previous : SUBSET Ids, missing : SUBSET Ids,
   hasPrevious : BOOLEAN, cache : [Pages -> Response \cup {None}]]

FirstCheckpoint ==
  [page |-> 1, seen |-> {}, previous |-> {}, missing |-> {},
   hasPrevious |-> FALSE, cache |-> [p \in Pages |-> None]]

\* What the server answers for a page of the list (external).
PageOf(list, page, incomplete) ==
  LET served == Least(Len(list), SearchCap) IN
  [ids |-> {list[i] : i \in ((page - 1) * PageSize + 1)..Least(page * PageSize, served)},
   total |-> Len(list),
   more |-> page * PageSize < served,
   incomplete |-> incomplete]
-----------------------------------------------------------------------------
Init ==
  /\ upstream \in Lists
  /\ changes = 0
  /\ record = [i \in Ids |-> "absent"]
  /\ checkpoint = FirstCheckpoint
  /\ held = None
  /\ removals = 0
  /\ steady = Elements(upstream)
  /\ gone = [i \in Ids |-> 0]

Before(i, k) ==
  \E n \in 1..Len(upstream) : upstream[n] = k /\ \E m \in 1..(n - 1) : upstream[m] = i
KeepsOrder(list, ids) ==
  \A n \in 1..Len(list) : \A m \in 1..(n - 1) :
    {list[m], list[n]} \subseteq ids => Before(list[m], list[n])

Change(ids, unmoved) ==
  /\ changes < MaxChanges
  /\ changes' = changes + 1
  /\ \E list \in Lists :
       /\ Elements(list) = ids
       /\ KeepsOrder(list, unmoved)
       /\ upstream' = list
  /\ UNCHANGED <<record, checkpoint, held, gone>>

\* The list is sorted by update time: a record that is updated moves to the
\* front, one that (again) matches or is indexed comes in at its place.
Appear(id) ==
  /\ id \notin Elements(upstream)
  /\ Change(Elements(upstream) \cup {id}, Elements(upstream))
  /\ UNCHANGED <<removals, steady>>

Update(id) ==
  /\ id \in Elements(upstream)
  /\ Change(Elements(upstream), Elements(upstream) \ {id})
  /\ upstream'[1] = id
  /\ UNCHANGED <<removals, steady>>

Disappear(id) ==
  /\ id \in Elements(upstream)
  /\ Change(Elements(upstream) \ {id}, Elements(upstream) \ {id})
  /\ removals' = removals + 1
  /\ steady' = steady \ {id}

\* An incomplete response is computed from part of the list.  A page that
\* equals the cached one is a 304, unless the content of a record changed.
Collect(list, fresh) ==
  LET answer == PageOf(list, checkpoint.page, list # upstream) IN
  /\ held = None
  /\ Elements(list) \subseteq Elements(upstream)
  /\ KeepsOrder(list, Elements(list))
  /\ checkpoint.cache[checkpoint.page] # answer => fresh
  /\ held' = [answer |-> answer, fresh |-> fresh]
  /\ UNCHANGED <<world, record, checkpoint, gone>>

\* The request fails, or the run dies before its commit: rolled back.
Drop ==
  /\ held # None
  /\ held' = None
  /\ UNCHANGED <<world, record, checkpoint, gone>>
-----------------------------------------------------------------------------
Seen == checkpoint.seen \cup held.answer.ids

\* Mutant: the page limit does not end a cycle.
HasMoreAlways == held.answer.more

HasMore == held.answer.more /\ checkpoint.page < MaxPages

\* The cycle ends here and its pages are taken for a complete snapshot.
SafeCompleteSnapshot ==
  /\ ~held.answer.more
  /\ ~held.answer.incomplete
  /\ held.answer.total <= SearchCap
  /\ Cardinality(Seen) = held.answer.total

\* Ids that are missing from a safe cycle, now or for the second time.
Absent == (checkpoint.missing \cup checkpoint.previous) \ Seen
MissingTwice == IF checkpoint.hasPrevious THEN Absent \cap checkpoint.missing ELSE {}

\* The records of the page, the tombstones and the next checkpoint, in one
\* transaction.  A 304 brings no records.
Store(safe, deleted) ==
  /\ held # None
  /\ record' = [i \in Ids |-> IF i \in deleted /\ record[i] # "absent" THEN "deleted"
                              ELSE IF held.fresh /\ i \in held.answer.ids THEN "live"
                              ELSE record[i]]
  /\ checkpoint' =
       [page |-> IF HasMore THEN checkpoint.page + 1 ELSE 1,
        seen |-> IF HasMore THEN Seen ELSE {},
        previous |-> IF safe THEN Seen ELSE checkpoint.previous,
        missing |-> IF safe /\ checkpoint.hasPrevious THEN Absent \ deleted ELSE checkpoint.missing,
        hasPrevious |-> checkpoint.hasPrevious \/ safe,
        cache |-> [checkpoint.cache EXCEPT ![checkpoint.page] = held.answer]]
  /\ gone' = [i \in Ids |-> IF ~safe THEN gone[i]
                            ELSE IF i \in Seen THEN 0 ELSE Least(gone[i] + 1, 2)]
  /\ held' = None
  /\ UNCHANGED world

\* Mutants: one absence is enough; any cycle that ends is a snapshot; the
\* page is noted in the checkpoint although its records are not written.
CommitAtOnce ==
  Store(SafeCompleteSnapshot,
        IF SafeCompleteSnapshot /\ checkpoint.hasPrevious THEN Absent ELSE {})

CommitEveryCycle ==
  Store(~HasMore /\ ~held.answer.incomplete,
        IF ~HasMore /\ ~held.answer.incomplete THEN MissingTwice ELSE {})

CommitCheckpointAlone ==
  /\ held # None
  /\ checkpoint' = [checkpoint EXCEPT !.page = IF HasMore THEN @ + 1 ELSE 1,
                                      !.seen = IF HasMore THEN Seen ELSE {},
                                      !.cache[checkpoint.page] = held.answer]
  /\ held' = None
  /\ UNCHANGED <<world, record, gone>>

Commit == Store(SafeCompleteSnapshot, IF SafeCompleteSnapshot THEN MissingTwice ELSE {})

Next ==
  \/ \E id \in Ids : Appear(id) \/ Update(id) \/ Disappear(id)
  \/ \E list \in Lists, fresh \in BOOLEAN : Collect(list, fresh)
  \/ Drop
  \/ Commit

Spec == Init /\ [][Next]_vars
-----------------------------------------------------------------------------
TypeOK ==
  /\ upstream \in Lists
  /\ changes \in 0..MaxChanges
  /\ record \in [Ids -> {"absent", "live", "deleted"}]
  /\ checkpoint \in Checkpoint
  /\ held \in [answer : Response, fresh : BOOLEAN] \cup {None}
  /\ removals \in 0..MaxChanges
  /\ steady \subseteq Ids
  /\ gone \in [Ids -> 0..2]

\* Whatever the checkpoint remembers (ids of this cycle, of the last
\* snapshot, missing ones, ids of a page a 304 may stand for) is stored, so
\* that no later 304 or cycle relies on records that were never written
\* (github_issues.py:167-175, github_cli.py:169-189).
RememberedIsStored ==
  \A i \in checkpoint.seen \cup checkpoint.previous \cup checkpoint.missing
           \cup UNION {checkpoint.cache[p].ids : p \in {q \in Pages : checkpoint.cache[q] # None}} :
    record[i] # "absent"

\* A record is tombstoned only after two safe cycles without it since it was
\* last in one: incomplete, cut or mixed cycles in between prove nothing
\* (tests/test_github_connector.py:311).
TombstoneNeedsTwo ==
  [][\A i \in Ids : record[i] = "live" /\ record'[i] = "deleted" => gone'[i] = 2]_vars

\* The pages of a cycle are read at different times, and one removal between
\* two requests can hide another record from a cycle that still looks
\* complete; that alone never tombstones a record the source never lost
\* (github_issues.py:219-241).
OneRemovalHarmless ==
  \A i \in steady : record[i] = "deleted" => removals >= 2

\* storage/models.py:87: a record is the latest durable representation of the
\* one at the source; what a safe cycle has just seen is not a tombstone.
SeenIsLive ==
  [][held # None /\ held' = None /\ checkpoint' # checkpoint /\ SafeCompleteSnapshot
       => \A i \in Seen : record'[i] = "live"]_vars
=============================================================================
