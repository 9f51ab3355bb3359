--------------------------- MODULE ReadinessCache ---------------------------
(***************************************************************************)
(* The readiness check of a task (collection_readiness.py): a dependency   *)
(* that comes and goes, checks by several request threads that hold the    *)
(* lock only around the cache, and the answer each request is given.       *)
(***************************************************************************)
EXTENDS Naturals, FiniteSets

CONSTANTS
  ReadyThreads,  \* request threads
  ReadyCache,    \* cache_seconds
  ReadyTime      \* bound: the clock, 0..ReadyTime

ASSUME ReadyAssumption == ReadyCache \in Nat /\ ReadyTime \in Nat

VARIABLES
  readyNow,      \* time.monotonic()
  readyUp,       \* at each time that has passed: whether the dependency was up at its end
  readyCached,   \* _cache: when the check of the entry began, when it looked, what it saw
  readyThread    \* the requests

readyVars == <<readyNow, readyUp, readyCached, readyThread>>
-----------------------------------------------------------------------------
ReadyNone == [began |-> 0, looked |-> 0, up |-> FALSE]
ReadyIdle == [pc |-> "idle", force |-> FALSE, began |-> 0, seen |-> ReadyNone]
ReadySet(t, r) == readyThread' = [readyThread EXCEPT ![t] = r]

ReadyInit ==
  /\ readyNow = 0
  /\ readyUp = {}
  /\ readyCached = {}
  /\ readyThread = [t \in ReadyThreads |-> ReadyIdle]

\* Time passes; the dependency (the SearXNG container) may change.
ReadyPass(up) ==
  /\ readyNow < ReadyTime
  /\ readyNow' = readyNow + 1
  /\ readyUp' = IF up THEN readyUp \cup {readyNow + 1} ELSE readyUp
  /\ UNCHANGED <<readyCached, readyThread>>

\* check: the clock is read first.  Tasks of one endpoint and the same engines
\* share an entry.
ReadyAsk(t, force) ==
  /\ readyThread[t].pc = "idle"
  /\ ReadySet(t, [ReadyIdle EXCEPT !.pc = "cache", !.force = force, !.began = readyNow])
  /\ UNCHANGED <<readyNow, readyUp, readyCached>>

\* Mutant: the entry is fresh for one second more.
ReadyFreshLate(entry, now) == now <= entry.began + ReadyCache

ReadyFresh(entry, now) == now < entry.began + ReadyCache

ReadyHit(t) ==
  LET r == readyThread[t] IN
  /\ r.pc = "cache" /\ ~r.force
  /\ \E entry \in readyCached :
       /\ ReadyFresh(entry, r.began)
       /\ ReadySet(t, [r EXCEPT !.pc = "answered", !.seen = entry])
  /\ UNCHANGED <<readyNow, readyUp, readyCached>>

ReadyMiss(t) ==
  LET r == readyThread[t] IN
  /\ r.pc = "cache"
  /\ r.force \/ \A entry \in readyCached : ~ReadyFresh(entry, r.began)
  /\ ReadySet(t, [r EXCEPT !.pc = "check"])
  /\ UNCHANGED <<readyNow, readyUp, readyCached>>

\* Mutant: the entry's age counts from the end of the check.
ReadyEntryLate(t) == [readyThread[t].seen EXCEPT !.began = readyNow]

ReadyEntry(t) == readyThread[t].seen

\* _check_uncached: the answer of /config, or none within the timeout.
ReadyLook(t) ==
  /\ readyThread[t].pc = "check"
  /\ ReadySet(t, [readyThread[t] EXCEPT !.pc = "store",
       !.seen = [began |-> readyThread[t].began, looked |-> readyNow, up |-> readyNow \in readyUp]])
  /\ UNCHANGED <<readyNow, readyUp, readyCached>>

\* The entry is replaced, also one of a later check.
ReadyStore(t) ==
  /\ readyThread[t].pc = "store"
  /\ readyCached' = {ReadyEntry(t)}
  /\ ReadySet(t, [readyThread[t] EXCEPT !.pc = "answered"])
  /\ UNCHANGED <<readyNow, readyUp>>

ReadyEnd(t) ==
  /\ readyThread[t].pc = "answered"
  /\ ReadySet(t, ReadyIdle)
  /\ UNCHANGED <<readyNow, readyUp, readyCached>>

ReadyNext ==
  \/ \E up \in BOOLEAN : ReadyPass(up)
  \/ \E t \in ReadyThreads :
       \/ \E force \in BOOLEAN : ReadyAsk(t, force)
       \/ ReadyHit(t) \/ ReadyMiss(t) \/ ReadyLook(t) \/ ReadyStore(t) \/ ReadyEnd(t)

ReadySpec == ReadyInit /\ [][ReadyNext]_readyVars
-----------------------------------------------------------------------------
ReadyTypeOK ==
  /\ readyNow \in 0..ReadyTime
  /\ readyUp \subseteq 0..ReadyTime
  /\ Cardinality(readyCached) <= 1
  /\ \A t \in ReadyThreads :
       /\ readyThread[t].pc \in {"idle", "cache", "check", "store", "answered"}
       /\ readyThread[t].began \in 0..ReadyTime

\* An answer is true of some moment less than cache_seconds before the request
\* was made, or later; the answer of a preflight (force) of a moment after it
\* was made: a slow check that stores its older result over a newer one, or a
\* shared entry, cannot let an older state be told.
ReadyAnswerRecent ==
  \A t \in ReadyThreads : LET r == readyThread[t] IN
    r.pc = "answered" =>
      /\ r.seen.up <=> r.seen.looked \in readyUp
      /\ r.force => r.seen.looked >= r.began
      /\ r.seen.looked >= r.began \/ r.seen.looked + ReadyCache > r.began
=============================================================================
