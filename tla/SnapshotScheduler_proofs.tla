---------------------- MODULE SnapshotScheduler_proofs ----------------------
(***************************************************************************)
(* The two computations of slots agree and the scheduler never goes back,  *)
(* for any schedules, intervals and anchors, any number of processes and   *)
(* failures, and any way the clock is stepped.                             *)
(***************************************************************************)
EXTENDS SnapshotScheduler, TLAPS
-----------------------------------------------------------------------------
(* Slots.                                                                  *)

\* Division with a remainder.
LEMMA Division ==
  ASSUME NEW x \in Nat, NEW i \in Nat \ {0}
  PROVE  /\ x \div i \in Nat
         /\ i * (x \div i) \in Nat
         /\ i * (x \div i) <= x /\ x < i * (x \div i) + i
OBVIOUS

LEMMA Products ==
  ASSUME NEW i \in Nat \ {0}, NEW a \in Nat, NEW b \in Nat
  PROVE  /\ i * (a + 1) = i * a + i
         /\ a <= b => i * a <= i * b
         /\ a < b => i * a + i <= i * b
OBVIOUS

\* Whole intervals are ordered like their numbers.
LEMMA Intervals ==
  ASSUME NEW i \in Nat \ {0}, NEW x \in Nat, NEW y \in Nat
  PROVE  /\ x <= y => i * (x \div i) <= i * (y \div i)
         /\ i * (x \div i + 1) <= y <=> i * (x \div i) < i * (y \div i)
<1> DEFINE a == x \div i
           b == y \div i
<1>1. /\ a \in Nat /\ i * a \in Nat /\ i * a <= x /\ x < i * a + i
      /\ b \in Nat /\ i * b \in Nat /\ i * b <= y /\ y < i * b + i
  BY Division
<1> HIDE DEF a, b
<1>2. i * (a + 1) = i * a + i
  BY <1>1, Products
<1>3. a < b => i * a + i <= i * b
  BY <1>1, Products
<1>4. b < a => i * b + i <= i * a
  BY <1>1, Products
<1>5. x <= y => i * a <= i * b
  BY <1>1, <1>4
<1>6. i * (a + 1) <= y <=> i * a < i * b
  <2>1. CASE a < b
    BY <1>1, <1>2, <1>3, <2>1
  <2>2. CASE a = b
    BY <1>1, <1>2, <2>2
  <2>3. CASE b < a
    BY <1>1, <1>2, <1>4, <2>3
  <2>4. QED
    BY <1>1, <2>1, <2>2, <2>3
<1>7. QED
  BY <1>5, <1>6 DEF a, b

\* A slot does not begin after the times it is for, and slots are ordered
\* like those times.
LEMMA SlotOrder ==
  ASSUME NEW s \in Schedules, NEW t \in Nat, NEW u \in Nat
  PROVE  /\ CurrentSlot(s, t) \in Nat /\ Anchor[s] <= CurrentSlot(s, t)
         /\ CurrentSlot(s, t) <= t <=> Anchor[s] <= t
         /\ t <= u => CurrentSlot(s, t) <= CurrentSlot(s, u)
         /\ Anchor[s] <= t =>
              (NextAfter(s, t) <= u <=> CurrentSlot(s, t) < CurrentSlot(s, u))
         /\ NextAfter(s, t) <= u => Anchor[s] <= u
<1> DEFINE a == Anchor[s]
           i == Interval[s]
<1>1. a \in Nat /\ i \in Nat \ {0}
  BY SchedulerAssumption
<1>2. /\ CurrentSlot(s, t) = IF t < a THEN a ELSE a + i * ((t - a) \div i)
      /\ CurrentSlot(s, u) = IF u < a THEN a ELSE a + i * ((u - a) \div i)
      /\ NextAfter(s, t) = IF t < a THEN a ELSE a + i * ((t - a) \div i + 1)
  BY DEF CurrentSlot, NextAfter
<1> HIDE DEF a, i
<1>3. CASE t < a /\ u < a
  BY <1>1, <1>2, <1>3 DEF a
<1>4. ASSUME t >= a
      PROVE  /\ t - a \in Nat /\ (t - a) \div i \in Nat
             /\ i * ((t - a) \div i) \in Nat /\ i * ((t - a) \div i) <= t - a
             /\ i * ((t - a) \div i + 1) = i * ((t - a) \div i) + i
  <2>1. t - a \in Nat
    BY <1>1, <1>4
  <2>2. QED
    BY <1>1, <2>1, Division, Products
<1>5. ASSUME u >= a
      PROVE  /\ u - a \in Nat
             /\ i * ((u - a) \div i) \in Nat /\ i * ((u - a) \div i) <= u - a
  BY <1>1, <1>5, Division
<1>6. CASE t < a /\ u >= a
  BY <1>1, <1>2, <1>5, <1>6 DEF a
<1>7. CASE t >= a /\ u < a
  BY <1>1, <1>2, <1>4, <1>7 DEF a
<1>8. CASE t >= a /\ u >= a
  <2>1. /\ t - a <= u - a => i * ((t - a) \div i) <= i * ((u - a) \div i)
        /\ i * ((t - a) \div i + 1) <= u - a
             <=> i * ((t - a) \div i) < i * ((u - a) \div i)
    BY <1>1, <1>4, <1>5, <1>8, Intervals
  <2>2. QED
    BY <1>1, <1>2, <1>4, <1>5, <1>8, <2>1 DEF a
<1>9. QED
  BY <1>1, <1>3, <1>6, <1>7, <1>8
-----------------------------------------------------------------------------
(* The inductive invariant.                                                *)

Busy(p) == tick[p].pc \notin {"off", "gone"}

\* A job is for the slot of the tick that created it.
JobsPlaced ==
  \A j \in slotJobs : Anchor[j.schedule] <= j.created /\ j.slot = CurrentSlot(j.schedule, j.created)

\* A schedule with jobs has a latest one.
LatestThere ==
  \A s \in Schedules : JobsOf(s) # {} =>
    \E j \in JobsOf(s) : \A k \in JobsOf(s) : k.created <= j.created

\* One scheduler at a time, and what it still has to do belongs to its tick.
OneScheduler == \A p, q \in Schedulers : Busy(p) /\ Busy(q) => p = q
TicksFormed ==
  \A p \in Schedulers :
    /\ tick[p].pc \notin {"reading", "queueing", "submitting"} => tick[p].due = {}
    /\ tick[p].pc # "queueing" => tick[p].insert = {}
    /\ tick[p].due \cap tick[p].insert = {}

\* What a tick found due is still due at its time.
StillDue ==
  \A p \in Schedulers : \A s \in tick[p].due \cup tick[p].insert :
    IsDue(s, tick[p].at, Triggered(s))

SlotInv == SlotTypeOK /\ JobsPlaced /\ LatestThere /\ OneScheduler /\ TicksFormed /\ StillDue

LEMMA InitSlotInv == SlotInit => SlotInv
<1> SUFFICES ASSUME SlotInit PROVE SlotInv
  OBVIOUS
<1>1. SlotTypeOK
  BY SchedulerAssumption DEF SlotInit, SlotTypeOK, Tick, NoTick
<1>2. JobsPlaced /\ LatestThere /\ OneScheduler /\ TicksFormed /\ StillDue
  BY DEF SlotInit, JobsPlaced, LatestThere, OneScheduler, TicksFormed, StillDue, Busy, NoTick, JobsOf
<1>3. QED
  BY <1>1, <1>2 DEF SlotInv

LEMMA Typings ==
  ASSUME SlotInv
  PROVE  /\ slotJobs \subseteq Job /\ tick \in [Schedulers -> Tick] /\ now \in Nat /\ now <= MaxTime
         /\ \A p \in Schedulers : tick[p] \in Tick /\ tick[p].at \in Nat
         /\ \A j \in slotJobs : j.schedule \in Schedules /\ j.slot \in Nat /\ j.created \in Nat
BY SchedulerAssumption DEF SlotInv, SlotTypeOK, Job, Tick

\* The last job of a schedule.
LEMMA LatestJob ==
  ASSUME SlotInv, NEW s \in Schedules
  PROVE  /\ Triggered(s) = {} <=> JobsOf(s) = {}
         /\ Triggered(s) # {} =>
              LET last == Latest(Triggered(s)) IN
              /\ last \in Nat /\ Anchor[s] <= last
              /\ \A k \in JobsOf(s) : k.created <= last
<1>1. Triggered(s) = {} <=> JobsOf(s) = {}
  BY DEF Triggered
<1>2. ASSUME Triggered(s) # {}
      PROVE  /\ Latest(Triggered(s)) \in Triggered(s)
             /\ \A u \in Triggered(s) : u <= Latest(Triggered(s))
  <2>1. PICK j \in JobsOf(s) : \A k \in JobsOf(s) : k.created <= j.created
    BY <1>1, <1>2 DEF SlotInv, LatestThere
  <2>2. j.created \in Triggered(s) /\ \A u \in Triggered(s) : u <= j.created
    BY <2>1 DEF Triggered
  <2>3. QED
    BY <2>2 DEF Latest
<1>3. \A t \in Triggered(s) : t \in Nat /\ Anchor[s] <= t
  BY Typings DEF Triggered, JobsOf, SlotInv, JobsPlaced
<1>4. \A k \in JobsOf(s) : k.created \in Triggered(s)
  BY DEF Triggered
<1>5. QED
  BY <1>1, <1>2, <1>3, <1>4

\* A schedule that is due at a time has no job for that slot or a later one.
LEMMA DueIsLater ==
  ASSUME SlotInv, NEW s \in Schedules, NEW t \in Nat, IsDue(s, t, Triggered(s))
  PROVE  /\ Anchor[s] <= t
         /\ \A k \in JobsOf(s) : k.created <= t /\ k.slot < CurrentSlot(s, t)
<1>1. CASE Triggered(s) = {}
  BY <1>1, LatestJob, SchedulerAssumption DEF IsDue
<1>2. CASE Triggered(s) # {}
  <2> DEFINE last == Latest(Triggered(s))
  <2>1. /\ last \in Nat /\ Anchor[s] <= last
        /\ \A k \in JobsOf(s) : k.created <= last
        /\ NextAfter(s, last) <= t
    BY <1>2, LatestJob DEF IsDue
  <2> HIDE DEF last
  <2>2. Anchor[s] <= t /\ CurrentSlot(s, last) < CurrentSlot(s, t)
    BY <2>1, SlotOrder
  <2>3. last <= t
    <3>1. CurrentSlot(s, t) \in Nat /\ CurrentSlot(s, last) \in Nat
      BY <2>1, SlotOrder
    <3>2. t <= last => CurrentSlot(s, t) <= CurrentSlot(s, last)
      BY <2>1, SlotOrder
    <3>3. QED
      BY <2>1, <2>2, <3>1, <3>2
  <2>4. ASSUME NEW k \in JobsOf(s)
        PROVE  k.created <= t /\ k.slot < CurrentSlot(s, t)
    <3>1. k.created \in Nat /\ k.schedule = s /\ k.slot = CurrentSlot(s, k.created)
      BY Typings DEF JobsOf, SlotInv, JobsPlaced
    <3>2. /\ CurrentSlot(s, k.created) \in Nat /\ CurrentSlot(s, last) \in Nat
          /\ CurrentSlot(s, t) \in Nat
          /\ CurrentSlot(s, k.created) <= CurrentSlot(s, last)
      BY <2>1, <3>1, SlotOrder
    <3>3. QED
      BY <2>1, <2>2, <2>3, <3>1, <3>2
  <2>5. QED
    BY <2>2, <2>4
<1>3. QED
  BY <1>1, <1>2

\* A step of one scheduler that queues nothing.
LEMMA QuietTick ==
  ASSUME SlotInv, NEW p \in Schedulers, NEW r \in Tick,
         tick' = [tick EXCEPT ![p] = r], slotJobs' = slotJobs,
         now' \in 0..MaxTime, open' \subseteq Schedules, slotFaults' \in 0..SlotFaults,
         r.pc \notin {"off", "gone"} => \A q \in Schedulers \ {p} : ~Busy(q),
         r.pc \notin {"reading", "queueing", "submitting"} => r.due = {},
         r.pc # "queueing" => r.insert = {},
         r.due \cap r.insert = {},
         \A s \in r.due \cup r.insert : IsDue(s, r.at, Triggered(s))
  PROVE  SlotInv'
<1>1. tick \in [Schedulers -> Tick]
  BY Typings
<1>2. tick'[p] = r /\ \A q \in Schedulers \ {p} : tick'[q] = tick[q]
  BY <1>1
<1>3. SlotTypeOK'
  BY <1>1 DEF SlotInv, SlotTypeOK
<1>4. /\ JobsPlaced'
      /\ \A s : JobsOf(s)' = JobsOf(s) /\ Triggered(s)' = Triggered(s)
  BY DEF SlotInv, JobsPlaced, JobsOf, Triggered
<1>5. LatestThere'
  BY <1>4 DEF SlotInv, LatestThere
<1>6. OneScheduler'
  BY <1>2 DEF SlotInv, OneScheduler, Busy
<1>7. TicksFormed'
  BY <1>2 DEF SlotInv, TicksFormed
<1>8. StillDue'
  BY <1>2, <1>4 DEF SlotInv, StillDue, IsDue
<1>9. QED
  BY <1>3, <1>4, <1>5, <1>6, <1>7, <1>8 DEF SlotInv

LEMMA IdleTicks ==
  /\ NoTick \in Tick /\ GoneTick \in Tick
  /\ [NoTick EXCEPT !.pc = "waiting"] \in Tick
  /\ \A b \in BOOLEAN : [NoTick EXCEPT !.pc = "waiting", !.stopping = b] \in Tick
<1>1. 0 \in 0..MaxTime
  BY SchedulerAssumption
<1>2. NoTick \in Tick
  BY <1>1 DEF Tick, NoTick
<1>3. [NoTick EXCEPT !.pc = "waiting"] \in Tick /\ [NoTick EXCEPT !.pc = "gone"] \in Tick
  BY <1>2 DEF Tick
<1>4. ASSUME NEW b \in BOOLEAN
      PROVE  [NoTick EXCEPT !.pc = "waiting", !.stopping = b] \in Tick
  BY <1>2 DEF Tick
<1>5. QED
  BY <1>2, <1>3, <1>4 DEF GoneTick

\* Start, Shutdown, End, Wait, TickFails and KillTick leave a tick with nothing to
\* do, or the one there was.
LEMMA LifeStep ==
  ASSUME SlotInv, NEW p \in Schedulers,
         Start(p) \/ Shutdown(p) \/ End(p) \/ Wait(p) \/ TickFails(p) \/ KillTick(p)
  PROVE  SlotInv'
<1>1. /\ tick \in [Schedulers -> Tick] /\ tick[p] \in Tick
      /\ now \in 0..MaxTime /\ open \subseteq Schedules /\ slotFaults \in 0..SlotFaults
  BY Typings DEF SlotInv, SlotTypeOK
<1>2. slotJobs' = slotJobs /\ now' = now /\ open' = open /\ slotFaults' \in 0..SlotFaults
  BY <1>1, SchedulerAssumption DEF Start, Shutdown, End, Wait, TickFails, KillTick, SlotFault
<1>3. CASE Start(p)
  <2>1. /\ tick' = [tick EXCEPT ![p] = [NoTick EXCEPT !.pc = "waiting"]]
        /\ \A q \in Schedulers \ {p} : ~Busy(q)
    BY <1>1, <1>3 DEF Start, NoTick, Busy
  <2>2. LET r == [NoTick EXCEPT !.pc = "waiting"] IN
        r.pc = "waiting" /\ r.due = {} /\ r.insert = {}
    BY DEF NoTick
  <2>3. QED
    BY <1>1, <1>2, <2>1, <2>2, IdleTicks, QuietTick
<1>4. CASE Shutdown(p)
  <2> DEFINE r == [tick[p] EXCEPT !.stopping = TRUE]
  <2>1. /\ tick' = [tick EXCEPT ![p] = r] /\ r \in Tick
        /\ r.pc = tick[p].pc /\ r.due = tick[p].due /\ r.insert = tick[p].insert /\ r.at = tick[p].at
    BY <1>1, <1>4 DEF Shutdown, Tick
  <2>2. \A q \in Schedulers \ {p} : ~Busy(q)
    BY <1>4 DEF Shutdown, SlotInv, OneScheduler, Busy
  <2> HIDE DEF r
  <2>3. QED
    BY <1>1, <1>2, <2>1, <2>2, QuietTick DEF SlotInv, TicksFormed, StillDue
<1>5. CASE End(p) \/ KillTick(p)
  <2>1. tick' = [tick EXCEPT ![p] = GoneTick]
    BY <1>5 DEF End, KillTick
  <2>2. GoneTick.pc = "gone" /\ GoneTick.due = {} /\ GoneTick.insert = {}
    BY DEF GoneTick, NoTick
  <2>3. QED
    BY <1>1, <1>2, <2>1, <2>2, IdleTicks, QuietTick
<1>6. CASE Wait(p) \/ TickFails(p)
  <2> DEFINE r == [NoTick EXCEPT !.pc = "waiting", !.stopping = tick[p].stopping]
  <2>1. tick' = [tick EXCEPT ![p] = r] /\ Busy(p)
    BY <1>6 DEF Wait, TickFails, Busy
  <2>2. r.pc = "waiting" /\ r.due = {} /\ r.insert = {}
    BY DEF NoTick
  <2>3. r \in Tick
    BY <1>1, IdleTicks DEF Tick
  <2>4. \A q \in Schedulers \ {p} : ~Busy(q)
    BY <2>1 DEF SlotInv, OneScheduler
  <2> HIDE DEF r
  <2>5. QED
    BY <1>1, <1>2, <2>1, <2>2, <2>3, <2>4, QuietTick
<1>7. QED
  BY <1>3, <1>4, <1>5, <1>6

\* Begin, LastTriggered, Consider and Submit: what is due is due at the time
\* of the tick.
LEMMA TickStep ==
  ASSUME SlotInv, NEW p \in Schedulers,
         \/ Begin(p) \/ Submit(p)
         \/ \E s \in Schedules : LastTriggered(p, s) \/ Consider(p, s)
  PROVE  SlotInv'
<1>1. /\ tick \in [Schedulers -> Tick] /\ tick[p] \in Tick
      /\ now \in 0..MaxTime /\ open \subseteq Schedules /\ slotFaults \in 0..SlotFaults
  BY Typings DEF SlotInv, SlotTypeOK
<1>2. slotJobs' = slotJobs /\ now' = now /\ open' = open /\ slotFaults' = slotFaults
  BY DEF Begin, Submit, LastTriggered, Consider
<1>3. \A q \in Schedulers \ {p} : ~Busy(q)
  BY DEF Begin, Submit, LastTriggered, Consider, SlotInv, OneScheduler, Busy
<1>4. CASE Begin(p)
  <2> DEFINE r == [tick[p] EXCEPT !.pc = "reading", !.at = now, !.unread = Schedules]
  <2>1. tick' = [tick EXCEPT ![p] = r] /\ r \in Tick
    BY <1>1, <1>4 DEF Begin, Tick
  <2>2. r.pc = "reading" /\ r.due = {} /\ r.insert = {}
    BY <1>1, <1>4 DEF Begin, Tick, SlotInv, TicksFormed
  <2> HIDE DEF r
  <2>3. QED
    BY <1>1, <1>2, <1>3, <2>1, <2>2, QuietTick
<1>5. CASE Submit(p)
  <2> DEFINE r == [tick[p] EXCEPT !.pc = "queueing"]
  <2>1. tick' = [tick EXCEPT ![p] = r] /\ r \in Tick
    BY <1>1, <1>5 DEF Submit, Tick
  <2>2. r.pc = "queueing" /\ r.due = tick[p].due /\ r.insert = tick[p].insert /\ r.at = tick[p].at
    BY <1>1 DEF Tick
  <2> HIDE DEF r
  <2>3. QED
    BY <1>1, <1>2, <1>3, <2>1, <2>2, QuietTick DEF SlotInv, TicksFormed, StillDue
<1>6. ASSUME NEW s \in Schedules, LastTriggered(p, s)
      PROVE  SlotInv'
  <2> DEFINE due == IF IsDue(s, tick[p].at, Triggered(s)) THEN tick[p].due \cup {s} ELSE tick[p].due
             pc == IF tick[p].unread = {s} THEN "queueing" ELSE tick[p].pc
             r == [tick[p] EXCEPT !.unread = tick[p].unread \ {s}, !.due = due, !.pc = pc]
  <2>1. tick' = [tick EXCEPT ![p] = r] /\ tick[p].pc = "reading"
    BY <1>1, <1>6 DEF LastTriggered
  <2>2. due \subseteq Schedules /\ pc \in {"reading", "queueing"}
    BY <1>1, <2>1 DEF Tick
  <2>3. \A u \in due : u \in tick[p].due \/ IsDue(u, tick[p].at, Triggered(u))
    OBVIOUS
  <2> HIDE DEF due, pc
  <2>4. r \in Tick /\ r.pc = pc /\ r.due = due /\ r.insert = tick[p].insert /\ r.at = tick[p].at
    BY <1>1, <2>2 DEF Tick
  <2>5. tick[p].insert = {}
    BY <2>1 DEF SlotInv, TicksFormed
  <2> HIDE DEF r
  <2>6. \A u \in r.due \cup r.insert : IsDue(u, r.at, Triggered(u))
    BY <2>3, <2>4, <2>5 DEF SlotInv, StillDue
  <2>7. QED
    BY <1>1, <1>2, <1>3, <2>1, <2>2, <2>4, <2>5, <2>6, QuietTick
<1>7. ASSUME NEW s \in Schedules, Consider(p, s)
      PROVE  SlotInv'
  <2> DEFINE insert == IF s \in open /\ ~Queued(s, CurrentSlot(s, tick[p].at)) THEN {s} ELSE {}
             r == [tick[p] EXCEPT !.due = tick[p].due \ {s}, !.insert = insert]
  <2>1. /\ tick' = [tick EXCEPT ![p] = r] /\ tick[p].pc = "queueing"
        /\ s \in tick[p].due
    BY <1>1, <1>7 DEF Consider
  <2>2. insert \subseteq {s}
    OBVIOUS
  <2> HIDE DEF insert
  <2>3. /\ r \in Tick /\ r.pc = "queueing" /\ r.due = tick[p].due \ {s} /\ r.insert = insert
        /\ r.at = tick[p].at
    BY <1>1, <2>1, <2>2 DEF Tick
  <2> HIDE DEF r
  <2>4. \A u \in r.due \cup r.insert : IsDue(u, r.at, Triggered(u))
    BY <2>1, <2>2, <2>3 DEF SlotInv, StillDue
  <2>5. QED
    BY <1>1, <1>2, <1>3, <2>1, <2>2, <2>3, <2>4, QuietTick
<1>8. QED
  BY <1>4, <1>5, <1>6, <1>7

\* The new job is the latest of its schedule and for a later slot.
LEMMA InsertLater ==
  ASSUME SlotInv, NEW p \in Schedulers, NEW s \in Schedules, Insert(p, s)
  PROVE  /\ tick[p].pc = "queueing" /\ s \in tick[p].insert /\ tick[p].at \in Nat
         /\ Anchor[s] <= tick[p].at
         /\ \A k \in JobsOf(s) : k.created <= tick[p].at /\ k.slot < CurrentSlot(s, tick[p].at)
<1>1. tick[p].pc = "queueing" /\ s \in tick[p].insert /\ tick[p].at \in Nat
  BY Typings DEF Insert
<1>2. IsDue(s, tick[p].at, Triggered(s))
  BY <1>1 DEF SlotInv, StillDue
<1>3. QED
  BY <1>1, <1>2, DueIsLater

LEMMA InsertStep ==
  ASSUME SlotInv, NEW p \in Schedulers, NEW s \in Schedules, Insert(p, s)
  PROVE  SlotInv'
<1> DEFINE t == tick[p]
           n == [schedule |-> s, slot |-> CurrentSlot(s, t.at), created |-> t.at]
           r == [t EXCEPT !.pc = "submitting", !.insert = {}]
<1>1. /\ tick \in [Schedulers -> Tick] /\ t \in Tick /\ t.at \in Nat
      /\ t.pc = "queueing" /\ s \in t.insert
      /\ Anchor[s] <= t.at
      /\ \A k \in JobsOf(s) : k.created <= t.at
  BY Typings, InsertLater
<1>2. slotJobs' = slotJobs \cup {n} /\ tick' = [tick EXCEPT ![p] = r] /\ UNCHANGED <<now, open, slotFaults>>
  BY <1>1 DEF Insert
<1>3. /\ r \in Tick /\ r.pc = "submitting" /\ r.due = t.due /\ r.insert = {} /\ r.at = t.at
      /\ t.due = tick[p].due /\ t.at = tick[p].at
  BY <1>1 DEF Tick
<1>4. n \in Job /\ n.schedule = s /\ n.created = t.at /\ n.slot = CurrentSlot(s, t.at)
  BY <1>1, SlotOrder DEF Job
<1>5. s \notin t.due /\ \A q \in Schedulers \ {p} : ~Busy(q)
  BY <1>1 DEF SlotInv, TicksFormed, OneScheduler, Busy
<1> HIDE DEF t, n, r
<1>6. tick'[p] = r /\ \A q \in Schedulers \ {p} : tick'[q] = tick[q]
  BY <1>1, <1>2
<1>7. SlotTypeOK'
  BY <1>1, <1>2, <1>3, <1>4 DEF SlotInv, SlotTypeOK
<1>8. JobsPlaced'
  BY <1>1, <1>2, <1>4 DEF SlotInv, JobsPlaced
<1>9. JobsOf(s)' = JobsOf(s) \cup {n} /\ \A u \in Schedules \ {s} : JobsOf(u)' = JobsOf(u)
  BY <1>2, <1>4 DEF JobsOf
<1>10. LatestThere'
  <2>1. ASSUME NEW u \in Schedules, JobsOf(u)' # {}
        PROVE  \E j \in JobsOf(u)' : \A k \in JobsOf(u)' : k.created <= j.created
    <3>1. CASE u = s
      BY <1>1, <1>4, <1>9, <3>1
    <3>2. CASE u # s
      BY <1>9, <2>1, <3>2 DEF SlotInv, LatestThere
    <3>3. QED
      BY <3>1, <3>2
  <2>2. QED
    BY <2>1 DEF LatestThere
<1>11. OneScheduler'
  BY <1>5, <1>6 DEF SlotInv, OneScheduler, Busy
<1>12. TicksFormed'
  BY <1>3, <1>6 DEF SlotInv, TicksFormed
<1>13. StillDue'
  <2>1. \A u \in Schedules \ {s} : Triggered(u)' = Triggered(u)
    BY <1>9 DEF Triggered
  <2>2. ASSUME NEW q \in Schedulers, NEW u \in tick'[q].due \cup tick'[q].insert
        PROVE  IsDue(u, tick'[q].at, Triggered(u)')
    <3>1. CASE q = p
      <4>1. u \in t.due /\ u # s /\ tick'[q].at = tick[p].at /\ u \in tick[p].due
        BY <1>3, <1>5, <1>6, <2>2, <3>1
      <4>2. u \in Schedules
        BY <4>1, Typings DEF Tick
      <4>3. QED
        BY <2>1, <4>1, <4>2 DEF SlotInv, StillDue
    <3>2. CASE q # p
      <4>1. tick'[q] = tick[q] /\ ~Busy(q)
        BY <1>5, <1>6, <3>2
      <4>2. tick[q].due = {} /\ tick[q].insert = {}
        BY <4>1 DEF SlotInv, TicksFormed, Busy
      <4>3. QED
        BY <2>2, <4>1, <4>2
    <3>3. QED
      BY <3>1, <3>2
  <2>3. QED
    BY <2>2 DEF StillDue, IsDue
<1>14. QED
  BY <1>7, <1>8, <1>10, <1>11, <1>12, <1>13 DEF SlotInv

LEMMA NextSlotInv == SlotInv /\ [SlotNext]_slotVars => SlotInv'
<1> SUFFICES ASSUME SlotInv, [SlotNext]_slotVars PROVE SlotInv'
  OBVIOUS
<1>1. CASE UNCHANGED slotVars \/ Pass \/ StepBack \/ \E s \in Schedules : Gate(s)
  <2>1. slotJobs' = slotJobs /\ tick' = tick
    BY <1>1 DEF slotVars, Pass, StepBack, Gate
  <2>2. SlotTypeOK'
    BY <1>1, SchedulerAssumption DEF SlotInv, SlotTypeOK, slotVars, Pass, StepBack, Gate, SlotFault
  <2>3. (JobsPlaced /\ LatestThere /\ OneScheduler /\ TicksFormed /\ StillDue)'
    BY <2>1 DEF SlotInv, JobsPlaced, LatestThere, OneScheduler, TicksFormed, StillDue,
                Busy, JobsOf, Triggered, IsDue
  <2>4. QED
    BY <2>2, <2>3 DEF SlotInv
<1>2. QED
  BY <1>1, LifeStep, TickStep, InsertStep DEF SlotNext, Work

LEMMA SlotInvHolds == SlotSpec => []SlotInv
BY InitSlotInv, NextSlotInv, PTL DEF SlotSpec

\* A schedule is due exactly when its current slot has begun and is later than
\* the slot of its last job, on any clock and for any interval and anchor.
THEOREM SlotsComputedAlike == SlotSpec => []DueIsUnserved
<1>1. ASSUME SlotInv PROVE DueIsUnserved
  <2>1. now \in Nat /\ SlotTypeOK
    BY <1>1, Typings DEF SlotInv
  <2>2. ASSUME NEW s \in Schedules
        PROVE  LET last == Latest(Triggered(s)) IN
               IF Triggered(s) = {} THEN IsDue(s, now, {}) <=> CurrentSlot(s, now) <= now
               ELSE IsDue(s, now, Triggered(s)) <=> CurrentSlot(s, last) < CurrentSlot(s, now)
    <3>1. CASE Triggered(s) = {}
      BY <2>1, <3>1, SlotOrder, SchedulerAssumption DEF IsDue
    <3>2. CASE Triggered(s) # {}
      <4>1. Latest(Triggered(s)) \in Nat /\ Anchor[s] <= Latest(Triggered(s))
        BY <1>1, <3>2, LatestJob
      <4>2. QED
        BY <2>1, <3>2, <4>1, SlotOrder DEF IsDue
    <3>3. QED
      BY <3>1, <3>2
  <2>3. QED
    BY <2>1, <2>2 DEF DueIsUnserved
<1>2. QED
  BY <1>1, SlotInvHolds, PTL

\* A new job of a schedule is for a later slot than all its jobs: missed
\* windows are not replayed, also after the clock was stepped back.
THEOREM SlotsNeverReturn == SlotSpec => SlotsAdvance
<1>1. ASSUME SlotInv, [SlotNext]_slotVars
      PROVE  [\A j \in slotJobs' \ slotJobs : \A k \in JobsOf(j.schedule) : k.slot < j.slot]_slotJobs
  <2>1. ASSUME NEW p \in Schedulers, NEW s \in Schedules, Insert(p, s),
               NEW j \in slotJobs' \ slotJobs, NEW k \in JobsOf(j.schedule)
        PROVE  k.slot < j.slot
    <3>1. j = [schedule |-> s, slot |-> CurrentSlot(s, tick[p].at), created |-> tick[p].at]
      BY <2>1 DEF Insert
    <3>2. j.schedule = s /\ j.slot = CurrentSlot(s, tick[p].at)
      BY <3>1
    <3>3. QED
      BY <1>1, <2>1, <3>2, InsertLater
  <2>2. CASE slotJobs' = slotJobs
    BY <2>2
  <2>3. slotJobs' = slotJobs \/ \E p \in Schedulers, s \in Schedules : Insert(p, s)
    BY <1>1 DEF slotVars, SlotNext, Work, Pass, StepBack, Gate, Start, Shutdown, Begin, Submit, Wait, End,
                LastTriggered, Consider, TickFails, KillTick
  <2>4. QED
    BY <2>1, <2>2, <2>3
<1>2. QED
  BY <1>1, SlotInvHolds, PTL DEF SlotSpec, SlotsAdvance
=============================================================================
