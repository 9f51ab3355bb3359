-------------------------- MODULE SnapshotScheduler --------------------------
(***************************************************************************)
(* The snapshot scheduler (snapshot_schedules.py): a daemon thread of each *)
(* API process polls, reads the clock once per tick, compares it with the  *)
(* last job of every schedule, and queues one job for the current slot of  *)
(* each that is due.  The clock may be stepped back, a tick may fail half  *)
(* way, and a process may be shut down or killed in the middle of one.     *)
(* One process serves at a time (docs/local_console.md:40); two threads    *)
(* that insert for one slot are in CollectionJobs (SlotCommands).          *)
(***************************************************************************)
EXTENDS Naturals, FiniteSets

CONSTANTS
  Schedules,   \* the active schedules of the catalog
  Interval,    \* interval_minutes of each, in units of time
  Anchor,      \* anchor_utc of each
  Schedulers,  \* the scheduler threads, one for each API process instance
  MaxTime,     \* bound: the clock
  SlotFaults   \* bound: failed ticks and clock steps back

ASSUME SchedulerAssumption ==
  /\ Interval \in [Schedules -> Nat \ {0}]
  /\ Anchor \in [Schedules -> Nat]
  /\ MaxTime \in Nat
  /\ SlotFaults \in Nat

VARIABLES
  now,       \* the clock
  open,      \* schedules that nothing refuses: approval, source, queue limit
  slotJobs,  \* the jobs of the schedules: schedule, slot and created_at
  tick,      \* the scheduler threads
  slotFaults

slotVars == <<now, open, slotJobs, tick, slotFaults>>
-----------------------------------------------------------------------------
Job == [schedule : Schedules, slot : Nat, created : Nat]

NoTick == [pc |-> "off", stopping |-> FALSE, at |-> 0, unread |-> {}, due |-> {}, insert |-> {}]
GoneTick == [NoTick EXCEPT !.pc = "gone"]

Tick == [pc : {"off", "waiting", "reading", "queueing", "submitting", "gone"}, stopping : BOOLEAN,
         at : 0..MaxTime, unread : SUBSET Schedules, due : SUBSET Schedules,
         insert : SUBSET Schedules]

JobsOf(s) == {j \in slotJobs : j.schedule = s}
Triggered(s) == {j.created : j \in JobsOf(s)}
Latest(times) == CHOOSE t \in times : \A u \in times : u <= t

\* Mutant: the slot that holds t counts as the next one.
NextAfterLate(s, t) ==
  IF t < Anchor[s] THEN Anchor[s]
  ELSE Anchor[s] + Interval[s] * ((t - Anchor[s]) \div Interval[s] + 2)

NextAfter(s, t) ==
  IF t < Anchor[s] THEN Anchor[s]
  ELSE Anchor[s] + Interval[s] * ((t - Anchor[s]) \div Interval[s] + 1)

CurrentSlot(s, t) ==
  IF t < Anchor[s] THEN Anchor[s]
  ELSE Anchor[s] + Interval[s] * ((t - Anchor[s]) \div Interval[s])

\* Mutant: what was triggered before is left to the unique index.
IsDueAnyway(s, t, triggered) == t >= Anchor[s]

\* The runtime switch, auto_start and the status of the schedule are on.
IsDue(s, t, triggered) ==
  IF triggered = {} THEN t >= Anchor[s] ELSE NextAfter(s, Latest(triggered)) <= t

Queued(s, slot) == \E j \in JobsOf(s) : j.slot = slot
-----------------------------------------------------------------------------
SlotInit ==
  /\ now = 0
  /\ open \in SUBSET Schedules
  /\ slotJobs = {}
  /\ tick = [p \in Schedulers |-> NoTick]
  /\ slotFaults = 0

SlotFault == slotFaults < SlotFaults /\ slotFaults' = slotFaults + 1

Pass ==
  /\ now < MaxTime
  /\ now' = now + 1
  /\ UNCHANGED <<open, slotJobs, tick, slotFaults>>

StepBack ==
  /\ SlotFault
  /\ now > 0
  /\ now' = now - 1
  /\ UNCHANGED <<open, slotJobs, tick>>

\* An operator disables or enables the source, or the queue fills or empties.
Gate(s) ==
  /\ open' = IF s \in open THEN open \ {s} ELSE open \cup {s}
  /\ UNCHANGED <<now, slotJobs, tick, slotFaults>>

Start(p) ==
  /\ tick[p] = NoTick
  /\ \A q \in Schedulers : tick[q].pc \in {"off", "gone"}
  /\ tick' = [tick EXCEPT ![p].pc = "waiting"]
  /\ UNCHANGED <<now, open, slotJobs, slotFaults>>

Shutdown(p) ==
  /\ tick[p].pc \notin {"off", "gone"}
  /\ ~tick[p].stopping
  /\ tick' = [tick EXCEPT ![p].stopping = TRUE]
  /\ UNCHANGED <<now, open, slotJobs, slotFaults>>

\* The loop ends between two ticks.
End(p) ==
  /\ tick[p].pc = "waiting"
  /\ tick[p].stopping
  /\ tick' = [tick EXCEPT ![p] = GoneTick]
  /\ UNCHANGED <<now, open, slotJobs, slotFaults>>

\* Mutant: the clock is rounded up.
BeginRounded(p) ==
  /\ tick[p].pc = "waiting"
  /\ ~tick[p].stopping
  /\ tick' = [tick EXCEPT ![p] = [@ EXCEPT !.pc = "reading", !.at = now + 1, !.unread = Schedules]]
  /\ UNCHANGED <<now, open, slotJobs, slotFaults>>

Begin(p) ==
  /\ tick[p].pc = "waiting"
  /\ ~tick[p].stopping
  /\ tick' = [tick EXCEPT ![p] = [@ EXCEPT !.pc = "reading", !.at = now, !.unread = Schedules]]
  /\ UNCHANGED <<now, open, slotJobs, slotFaults>>

\* One query for each schedule.
LastTriggered(p, s) ==
  LET t == tick[p] IN
  /\ t.pc = "reading"
  /\ s \in t.unread
  /\ tick' = [tick EXCEPT
       ![p].unread = @ \ {s},
       ![p].due = IF IsDue(s, t.at, Triggered(s)) THEN @ \cup {s} ELSE @,
       ![p].pc = IF t.unread = {s} THEN "queueing" ELSE @]
  /\ UNCHANGED <<now, open, slotJobs, slotFaults>>

\* The next due schedule: nothing is queued where a gate is shut or the slot
\* has its job; otherwise the thread goes on to the insert.
Consider(p, s) ==
  LET t == tick[p] IN
  /\ t.pc = "queueing"
  /\ s \in t.due
  /\ t.insert = {}
  /\ tick' = [tick EXCEPT
       ![p].due = @ \ {s},
       ![p].insert = IF s \in open /\ ~Queued(s, CurrentSlot(s, t.at)) THEN {s} ELSE {}]
  /\ UNCHANGED <<now, open, slotJobs, slotFaults>>

\* The job is created at the time of the tick, whatever the clock says now.
Insert(p, s) ==
  LET t == tick[p] IN
  /\ t.pc = "queueing"
  /\ s \in t.insert
  /\ slotJobs' = slotJobs \cup {[schedule |-> s, slot |-> CurrentSlot(s, t.at), created |-> t.at]}
  /\ tick' = [tick EXCEPT ![p].pc = "submitting", ![p].insert = {}]
  /\ UNCHANGED <<now, open, slotFaults>>

\* Handed to the executor, or refused by it and marked as failed: in both
\* cases the slot has its job.
Submit(p) ==
  /\ tick[p].pc = "submitting"
  /\ tick' = [tick EXCEPT ![p].pc = "queueing"]
  /\ UNCHANGED <<now, open, slotJobs, slotFaults>>

Wait(p) ==
  LET t == tick[p] IN
  /\ t.pc = "queueing"
  /\ t.due = {} /\ t.insert = {}
  /\ tick' = [tick EXCEPT ![p] = [NoTick EXCEPT !.pc = "waiting", !.stopping = t.stopping]]
  /\ UNCHANGED <<now, open, slotJobs, slotFaults>>

\* An exception ends the tick, with the schedules it has not come to.
TickFails(p) ==
  LET t == tick[p] IN
  /\ SlotFault
  /\ t.pc \in {"reading", "queueing", "submitting"}
  /\ tick' = [tick EXCEPT ![p] = [NoTick EXCEPT !.pc = "waiting", !.stopping = t.stopping]]
  /\ UNCHANGED <<now, open, slotJobs>>

KillTick(p) ==
  /\ tick[p].pc \notin {"off", "gone"}
  /\ tick' = [tick EXCEPT ![p] = GoneTick]
  /\ UNCHANGED <<now, open, slotJobs, slotFaults>>

Work(p) ==
  \/ Begin(p) \/ Submit(p) \/ Wait(p) \/ End(p)
  \/ \E s \in Schedules : LastTriggered(p, s) \/ Consider(p, s) \/ Insert(p, s)

SlotNext ==
  \/ Pass \/ StepBack
  \/ \E s \in Schedules : Gate(s)
  \/ \E p \in Schedulers :
       Start(p) \/ Shutdown(p) \/ Work(p) \/ TickFails(p) \/ KillTick(p)

SlotSpec == SlotInit /\ [][SlotNext]_slotVars

\* The loop polls for ever, and a stopped API is started again.
FairSlotSpec ==
  SlotSpec /\ WF_slotVars(\E p \in Schedulers : Start(p)) /\ \A p \in Schedulers : WF_slotVars(Work(p))
-----------------------------------------------------------------------------
SlotTypeOK ==
  /\ now \in 0..MaxTime
  /\ open \subseteq Schedules
  /\ slotJobs \subseteq Job
  /\ tick \in [Schedulers -> Tick]
  /\ slotFaults \in 0..SlotFaults

\* The two ways the code computes slots agree, also on a clock that was stepped
\* back: a schedule is due exactly when its current slot has begun and is later
\* than the slot of its last job (snapshot_schedules.py:46-53, 267-272).
DueIsUnserved ==
  /\ SlotTypeOK
  /\ \A s \in Schedules :
       LET last == Latest(Triggered(s)) IN
       IF Triggered(s) = {} THEN IsDue(s, now, {}) <=> CurrentSlot(s, now) <= now
       ELSE IsDue(s, now, Triggered(s)) <=> CurrentSlot(s, last) < CurrentSlot(s, now)

\* The scheduler never goes back: a new job of a schedule is for a later slot
\* than all its jobs, so missed windows are not replayed, also after the
\* clock was stepped back (docs/operations_api.md:61).
SlotsAdvance ==
  [][\A j \in slotJobs' \ slotJobs : \A k \in JobsOf(j.schedule) : k.slot < j.slot]_slotJobs

Served(s) ==
  CurrentSlot(s, now) <= now => \E j \in JobsOf(s) : j.slot >= CurrentSlot(s, now)

\* A schedule whose gates stay open gets a job for its current slot (or has
\* one for a later slot, after the clock was stepped back), again and again:
\* failed ticks, restarts and missed windows do not stop it while the API is
\* started again (snapshot_schedules.py:145-171).
CurrentSlotServed ==
  \A s \in Schedules :
    <>[](s \in open) => []<>(Served(s) \/ \A p \in Schedulers : tick[p].pc = "gone")
==============================================================================
