------------------------- MODULE DurableRun_proofs -------------------------
(***************************************************************************)
(* No record of the feed is missed and every run is accounted for, for any *)
(* number of runs, overlapping calls, pages, records and faults.           *)
(***************************************************************************)
EXTENDS DurableRun, FiniteSetTheorems, TLAPS

\* The program points at which the row of the run is open.
Working == {"load", "collect", "commit", "finish", "failing"}

\* What has been read is stored, whoever stored it.
OffsetStored(r) ==
  /\ call[r].offset <= published
  /\ 1..call[r].offset \subseteq stored

PagesCounted(r) ==
  /\ call[r].pc \in {"off", "check", "open", "load"} => call[r].pages = 0
  /\ call[r].pc \in {"collect", "commit"} => call[r].pages < MaxPages

\* A page starts where the call has got to, and is the last one only when it
\* ends where the source ended when it was read.
PageSound(r) ==
  LET b == call[r].batch IN
  call[r].pc = "commit" =>
    /\ b.from = call[r].offset
    /\ b.from <= b.to
    /\ b.to <= published
    /\ ~b.more => goal[r] <= b.to

CaughtUp(r) == call[r].pages < MaxPages => 1..goal[r] \subseteq stored

\* A run that has succeeded, or is about to, has caught up.
SuccessTrue(r) ==
  /\ call[r].pc = "finish" => CaughtUp(r)
  /\ run[r].status = "succeeded" =>
       call[r].pc \in {"closing", "returned", "raised", "killed"} /\ CaughtUp(r)

\* The row of the run follows the call.
RunFollows(r) ==
  /\ call[r].pc \in {"off", "check", "open"} => run[r].status = "none"
  /\ call[r].pc \in Working => run[r].status = "running"
  /\ events[r] = CASE run[r].status = "succeeded" -> {"completed"}
                   [] run[r].status \in {"failed", "paused"} -> {"stopped"}
                   [] OTHER -> {}

CallSound(r) ==
  OffsetStored(r) /\ PagesCounted(r) /\ PageSound(r) /\ SuccessTrue(r) /\ RunFollows(r)

FeedInv ==
  /\ TypeOK
  /\ NothingSkipped
  /\ checkpoint <= published
  /\ stored \subseteq 1..published
  /\ \A r \in Runs : CallSound(r)

\* The runs nobody will mark any more.
Lost == {r \in Runs : run[r].status = "running" /\ call[r].pc \notin Working}

LostCounted == IsFiniteSet(Lost) /\ Cardinality(Lost) <= faults

DurableInv == FeedInv /\ LostCounted
-----------------------------------------------------------------------------
(* The feed: a step of one call leaves the other calls sound.              *)

\* Only the call r and its run move.
Alone(r) ==
  \A q \in Runs \ {r} :
    call'[q] = call[q] /\ run'[q] = run[q] /\ events'[q] = events[q] /\ goal'[q] = goal[q]

LEMMA CallTypes ==
  ASSUME TypeOK, NEW r \in Runs
  PROVE  /\ call[r] \in Call /\ call[r].pc \in Pc /\ call[r].offset \in 0..MaxRecords
         /\ call[r].pages \in 0..MaxPages /\ call[r].batch \in Batch
         /\ call[r].stop \in {"failed", "paused"} /\ call[r].raises \in BOOLEAN
         /\ call[r].batch.from \in 0..MaxRecords /\ call[r].batch.to \in 0..MaxRecords
         /\ call[r].batch.more \in BOOLEAN
         /\ run[r] \in [status : RunStatus, seen : Nat]
         /\ goal[r] \in 0..MaxRecords /\ published \in Nat /\ MaxRecords \in Nat
         /\ MaxPages \in Nat \ {0} /\ PageSize \in Nat \ {0}
BY DurableAssumption DEF TypeOK, Call, Batch

\* What is published and stored only grows, so the others stay sound.
LEMMA OthersSound ==
  ASSUME FeedInv, NEW r \in Runs, Alone(r),
         published' \in Nat, published <= published', stored \subseteq stored',
         NEW q \in Runs, q # r
  PROVE  CallSound(q)'
<1>1. call'[q] = call[q] /\ run'[q] = run[q] /\ events'[q] = events[q] /\ goal'[q] = goal[q]
  BY DEF Alone
<1>2. CallSound(q)
  BY DEF FeedInv
<1>3. OffsetStored(q)' /\ PageSound(q)'
  BY <1>1, <1>2, CallTypes DEF FeedInv, CallSound, OffsetStored, PageSound
<1>4. PagesCounted(q)' /\ SuccessTrue(q)'
  BY <1>1, <1>2 DEF CallSound, PagesCounted, SuccessTrue, CaughtUp
<1>5. RunFollows(q)'
  BY <1>1, <1>2, Zenon DEF CallSound, RunFollows
<1>6. QED
  BY <1>3, <1>4, <1>5 DEF CallSound

\* The steps that store nothing.
LEMMA CallStep ==
  ASSUME FeedInv, NEW r \in Runs, Alone(r), TypeOK', CallSound(r)',
         UNCHANGED <<published, stored, checkpoint>>
  PROVE  FeedInv'
<1>1. published' \in Nat /\ published <= published' /\ stored \subseteq stored'
  BY DurableAssumption DEF FeedInv, TypeOK
<1>2. \A q \in Runs : CallSound(q)'
  BY <1>1, OthersSound
<1>3. QED
  BY <1>2 DEF FeedInv, NothingSkipped

\* The steps that only change a field or two of their call, and neither what
\* it has read nor how far it got.
LEMMA GotoStep ==
  ASSUME FeedInv, NEW r \in Runs,
         NEW c \in Call, call' = [call EXCEPT ![r] = c],
         c.offset = call[r].offset, c.pages = call[r].pages,
         UNCHANGED <<published, stored, checkpoint, run, events, goal>>,
         enabled' \in BOOLEAN, faults' \in 0..MaxFaults,
         c.pc \in {"closing", "failing", "returned", "raised", "killed", "open"},
         c.pc = "failing" => call[r].pc \in Working,
         c.pc = "open" => call[r].pc = "check",
         call[r].pc # "off"
  PROVE  FeedInv'
<1>1. call'[r] = c /\ Alone(r)
  BY DEF FeedInv, TypeOK, Alone
<1>2. TypeOK'
  BY DEF FeedInv, TypeOK
<1>3. CallSound(r)
  BY DEF FeedInv
<1>4. OffsetStored(r)' /\ PagesCounted(r)' /\ PageSound(r)' /\ SuccessTrue(r)'
  BY <1>1, <1>3 DEF CallSound, OffsetStored, PagesCounted, PageSound, SuccessTrue, CaughtUp, Working
<1>5. RunFollows(r)'
  <2>1. /\ c.pc \in {"off", "check", "open"} => run[r].status = "none"
        /\ c.pc \in Working => run[r].status = "running"
    BY <1>3 DEF CallSound, RunFollows, Working
  <2>2. QED
    BY <1>1, <1>3, <2>1, Zenon DEF CallSound, RunFollows
<1>6. QED
  BY <1>1, <1>2, <1>4, <1>5, CallStep DEF CallSound

LEMMA NewCallTypes ==
  /\ NoBatch \in Batch /\ NewCall \in Call /\ [NewCall EXCEPT !.pc = "off"] \in Call
  /\ NewCall.pc = "check" /\ NewCall.offset = 0 /\ NewCall.pages = 0
<1>1. NoBatch \in Batch
  BY DurableAssumption DEF NoBatch, Batch
<1>2. NewCall \in Call
  BY <1>1, DurableAssumption DEF NewCall, Call, Pc
<1>3. [NewCall EXCEPT !.pc = "off"] \in Call
  BY <1>2 DEF Call, Pc
<1>4. QED
  BY <1>1, <1>2, <1>3 DEF NewCall

LEMMA InitFeedInv == Init => FeedInv
<1> SUFFICES ASSUME Init PROVE FeedInv
  OBVIOUS
<1>1. [NewCall EXCEPT !.pc = "off"] \in Call
  BY NewCallTypes
<1>2. TypeOK
  BY <1>1, DurableAssumption DEF Init, TypeOK, RunStatus
<1>3. ASSUME NEW r \in Runs
      PROVE  CallSound(r)
  <2>1. /\ call[r].pc = "off" /\ call[r].offset = 0 /\ call[r].pages = 0
        /\ run[r].status = "none" /\ events[r] = {}
    BY DEF Init, NewCall
  <2>2. RunFollows(r)
    BY <2>1 DEF RunFollows, Working
  <2>3. OffsetStored(r) /\ PagesCounted(r) /\ PageSound(r) /\ SuccessTrue(r)
    BY <2>1 DEF Init, OffsetStored, PagesCounted, PageSound, SuccessTrue
  <2>4. QED
    BY <2>2, <2>3 DEF CallSound
<1>4. NothingSkipped /\ checkpoint <= published /\ stored \subseteq 1..published
  BY DEF Init, NothingSkipped
<1>5. QED
  BY <1>2, <1>3, <1>4 DEF FeedInv

LEMMA PublishFeedInv ==
  ASSUME FeedInv, Publish \/ Toggle
  PROVE  FeedInv'
<1>1. /\ published' \in 0..MaxRecords /\ published <= published' /\ enabled' \in BOOLEAN
      /\ UNCHANGED <<stored, checkpoint, run, events, call, faults, goal>>
  <2>1. published \in 0..MaxRecords /\ MaxRecords \in Nat /\ enabled \in BOOLEAN
    BY DurableAssumption DEF FeedInv, TypeOK
  <2>2. CASE Publish
    BY <2>1, <2>2 DEF Publish, db
  <2>3. CASE Toggle
    BY <2>1, <2>3 DEF Toggle, db
  <2>4. QED
    BY <2>2, <2>3
<1>2. TypeOK'
  BY <1>1 DEF FeedInv, TypeOK
<1>3. ASSUME NEW q \in Runs
      PROVE  CallSound(q)'
  <2>1. CallSound(q)
    BY DEF FeedInv
  <2>2. OffsetStored(q)' /\ PageSound(q)'
    BY <1>1, <2>1, CallTypes DEF FeedInv, CallSound, OffsetStored, PageSound
  <2>3. PagesCounted(q)' /\ SuccessTrue(q)'
    BY <1>1, <2>1 DEF CallSound, PagesCounted, SuccessTrue, CaughtUp
  <2>4. RunFollows(q)'
    BY <1>1, <2>1, Zenon DEF CallSound, RunFollows
  <2>5. QED
    BY <2>2, <2>3, <2>4 DEF CallSound
<1>4. checkpoint' <= published' /\ stored' \subseteq 1..published' /\ NothingSkipped'
  BY <1>1 DEF FeedInv, TypeOK, NothingSkipped
<1>5. QED
  BY <1>2, <1>3, <1>4 DEF FeedInv

LEMMA InvokeFeedInv ==
  ASSUME FeedInv, NEW r \in Runs, Invoke(r)
  PROVE  FeedInv'
<1>1. /\ call' = [call EXCEPT ![r] = NewCall] /\ call[r].pc = "off"
      /\ UNCHANGED <<published, enabled, stored, checkpoint, run, events, faults, goal>>
  BY DEF Invoke, db
<1>2. TypeOK'
  BY <1>1, NewCallTypes DEF FeedInv, TypeOK
<1>3. call'[r] = NewCall /\ Alone(r)
  BY <1>1 DEF FeedInv, TypeOK, Alone
<1>4. CallSound(r) /\ run[r].status = "none"
  BY <1>1 DEF FeedInv, CallSound, RunFollows
<1>5. OffsetStored(r)' /\ PagesCounted(r)' /\ PageSound(r)' /\ SuccessTrue(r)'
  BY <1>1, <1>3, <1>4, NewCallTypes, CallTypes
  DEF FeedInv, OffsetStored, PagesCounted, PageSound, SuccessTrue
<1>6. RunFollows(r)'
  <2>1. call'[r].pc = "check" /\ "check" \notin Working
    BY <1>3, NewCallTypes DEF Working
  <2>2. QED
    BY <1>1, <1>4, <2>1, Zenon DEF CallSound, RunFollows
<1>7. QED
  BY <1>1, <1>2, <1>3, <1>5, <1>6, CallStep DEF CallSound

LEMMA LoadFeedInv ==
  ASSUME FeedInv, NEW r \in Runs, Load(r)
  PROVE  FeedInv'
<1> DEFINE c == [call[r] EXCEPT !.pc = "collect", !.offset = checkpoint]
<1>1. /\ call' = [call EXCEPT ![r] = c] /\ call[r].pc = "load"
      /\ UNCHANGED <<published, enabled, stored, checkpoint, run, events, faults, goal>>
  BY DEF Load, db
<1>2. /\ c \in Call /\ c.pc = "collect" /\ c.offset = checkpoint /\ c.pages = call[r].pages
  BY CallTypes DEF FeedInv, TypeOK, Call, Pc
<1> HIDE DEF c
<1>3. call'[r] = c /\ Alone(r)
  BY <1>1 DEF FeedInv, TypeOK, Alone
<1>4. TypeOK'
  BY <1>1, <1>2 DEF FeedInv, TypeOK
<1>5. CallSound(r) /\ run[r].status = "running"
  BY <1>1 DEF FeedInv, CallSound, RunFollows, Working
<1>6. OffsetStored(r)' /\ PagesCounted(r)' /\ PageSound(r)' /\ SuccessTrue(r)'
  BY <1>1, <1>2, <1>3, <1>5, DurableAssumption
  DEF FeedInv, NothingSkipped, CallSound, OffsetStored, PagesCounted, PageSound, SuccessTrue
<1>7. RunFollows(r)'
  <2>1. call'[r].pc = "collect"
    BY <1>2, <1>3
  <2>2. QED
    BY <1>1, <1>5, <2>1, Zenon DEF CallSound, RunFollows
<1>8. QED
  BY <1>1, <1>3, <1>4, <1>6, <1>7, CallStep DEF CallSound

LEMMA CollectFeedInv ==
  ASSUME FeedInv, NEW r \in Runs, Collect(r)
  PROVE  FeedInv'
<1> DEFINE from == call[r].offset
           to == Least(from + PageSize, published)
           b == [from |-> from, to |-> to, more |-> to < published]
           c == [call[r] EXCEPT !.pc = "commit", !.batch = b]
<1>1. /\ call' = [call EXCEPT ![r] = c] /\ call[r].pc = "collect" /\ from <= published
      /\ goal' = [goal EXCEPT ![r] = published]
      /\ UNCHANGED <<published, enabled, stored, checkpoint, run, events, faults>>
  BY DEF Collect, db
<1>2. to \in 0..MaxRecords /\ from <= to /\ to <= published /\ from \in 0..MaxRecords
  BY <1>1, CallTypes DEF FeedInv, TypeOK, Least
<1>3. b \in Batch /\ b.from = from /\ b.to = to /\ (~b.more => published <= to)
  <2>1. (to < published) \in BOOLEAN /\ (to >= published <=> ~(to < published))
    BY <1>2, CallTypes DEF FeedInv
  <2> HIDE DEF to
  <2>2. b.from = from /\ b.to = to /\ b.more = (to < published)
    OBVIOUS
  <2>3. b \in Batch
    BY <1>2, <2>1 DEF Batch
  <2>4. ~b.more => to >= published
    BY <2>1, <2>2, Zenon
  <2>5. to >= published => published <= to
    BY <1>2, CallTypes DEF FeedInv
  <2>6. QED
    BY <2>2, <2>3, <2>4, <2>5
<1>4. /\ c \in Call /\ c.pc = "commit" /\ c.offset = from /\ c.pages = call[r].pages
      /\ c.batch = b
  BY <1>3, CallTypes DEF FeedInv, Call, Pc
<1> HIDE DEF c, b, to
<1>5. call'[r] = c /\ goal'[r] = published /\ Alone(r)
  BY <1>1 DEF FeedInv, TypeOK, Alone
<1>6. TypeOK'
  BY <1>1, <1>4 DEF FeedInv, TypeOK
<1>7. CallSound(r) /\ run[r].status = "running"
  BY <1>1 DEF FeedInv, CallSound, RunFollows, Working
<1>8. OffsetStored(r)' /\ PagesCounted(r)' /\ SuccessTrue(r)'
  BY <1>1, <1>4, <1>5, <1>7 DEF CallSound, OffsetStored, PagesCounted, SuccessTrue
<1>9. PageSound(r)'
  BY <1>1, <1>2, <1>3, <1>4, <1>5 DEF PageSound
<1>10. RunFollows(r)'
  <2>1. call'[r].pc = "commit"
    BY <1>4, <1>5
  <2>2. QED
    BY <1>1, <1>7, <2>1, Zenon DEF CallSound, RunFollows
<1>11. QED
  BY <1>1, <1>5, <1>6, <1>8, <1>9, <1>10, CallStep DEF CallSound

\* The steps of the call that end it, or may.
LEMMA LeaveFeedInv ==
  ASSUME FeedInv, NEW r \in Runs,
         \/ Check(r) \/ Close(r) \/ LoseCommit(r) \/ LoseMark(r) \/ CloseFails(r) \/ Kill(r)
         \/ \E s \in {"failed", "paused"} : CollectFails(r, s)
  PROVE  FeedInv'
<1>1. call[r] \in Call /\ enabled \in BOOLEAN /\ faults \in 0..MaxFaults /\ NoBatch \in Batch
  BY CallTypes, NewCallTypes DEF FeedInv, TypeOK
<1>2. Fault => faults' \in 0..MaxFaults
  BY <1>1, DurableAssumption DEF Fault
<1>3. CASE Check(r)
  <2> DEFINE c == [call[r] EXCEPT !.pc = IF enabled THEN "open" ELSE "closing",
                                  !.stop = IF enabled THEN @ ELSE "paused",
                                  !.raises = ~enabled]
  <2>1. c \in Call /\ c.offset = call[r].offset /\ c.pages = call[r].pages
        /\ c.pc \in {"open", "closing"}
    BY <1>1 DEF Call, Pc
  <2>2. call' = [call EXCEPT ![r] = c]
    BY <1>3 DEF Check
  <2> HIDE DEF c
  <2>3. QED
    BY <1>1, <1>3, <2>1, <2>2, GotoStep DEF Check, db
<1>4. CASE Close(r)
  <2> DEFINE c == [call[r] EXCEPT !.pc = IF call[r].raises THEN "raised" ELSE "returned"]
  <2>1. c \in Call /\ c.offset = call[r].offset /\ c.pages = call[r].pages
        /\ c.pc \in {"raised", "returned"}
    BY <1>1 DEF Call, Pc
  <2>2. call' = [call EXCEPT ![r] = c]
    BY <1>4 DEF Close, Goto
  <2> HIDE DEF c
  <2>3. QED
    BY <1>1, <1>4, <2>1, <2>2, GotoStep DEF Close, db
<1>5. CASE LoseCommit(r)
  <2> DEFINE c == [call[r] EXCEPT !.pc = "failing", !.stop = "failed", !.raises = TRUE,
                                  !.batch = NoBatch]
  <2>1. c \in Call /\ c.offset = call[r].offset /\ c.pages = call[r].pages /\ c.pc = "failing"
    BY <1>1 DEF Call, Pc
  <2>2. call' = [call EXCEPT ![r] = c]
    BY <1>5 DEF LoseCommit
  <2> HIDE DEF c
  <2>3. QED
    BY <1>1, <1>2, <1>5, <2>1, <2>2, GotoStep DEF LoseCommit, db, Working
<1>6. CASE LoseMark(r)
  <2> DEFINE c == [call[r] EXCEPT !.pc = "closing", !.stop = "failed", !.raises = TRUE]
  <2>1. c \in Call /\ c.offset = call[r].offset /\ c.pages = call[r].pages /\ c.pc = "closing"
    BY <1>1 DEF Call, Pc
  <2>2. call' = [call EXCEPT ![r] = c]
    BY <1>6 DEF LoseMark
  <2> HIDE DEF c
  <2>3. QED
    BY <1>1, <1>2, <1>6, <2>1, <2>2, GotoStep DEF LoseMark, db
<1>7. CASE CloseFails(r)
  <2> DEFINE c == [call[r] EXCEPT !.pc = "raised", !.raises = TRUE, !.stop = "failed"]
  <2>1. c \in Call /\ c.offset = call[r].offset /\ c.pages = call[r].pages /\ c.pc = "raised"
    BY <1>1 DEF Call, Pc
  <2>2. call' = [call EXCEPT ![r] = c]
    BY <1>7 DEF CloseFails
  <2> HIDE DEF c
  <2>3. QED
    BY <1>1, <1>2, <1>7, <2>1, <2>2, GotoStep DEF CloseFails, db
<1>8. CASE Kill(r)
  <2> DEFINE c == [call[r] EXCEPT !.pc = "killed"]
  <2>1. c \in Call /\ c.offset = call[r].offset /\ c.pages = call[r].pages /\ c.pc = "killed"
    BY <1>1 DEF Call, Pc
  <2>2. call' = [call EXCEPT ![r] = c]
    BY <1>8 DEF Kill, Goto
  <2> HIDE DEF c
  <2>3. QED
    BY <1>1, <1>2, <1>8, <2>1, <2>2, GotoStep DEF Kill, Alive, db
<1>9. ASSUME NEW s \in {"failed", "paused"}, CollectFails(r, s)
      PROVE  FeedInv'
  <2> DEFINE c == [call[r] EXCEPT !.pc = "failing", !.stop = s, !.raises = TRUE]
  <2>1. c \in Call /\ c.offset = call[r].offset /\ c.pages = call[r].pages /\ c.pc = "failing"
    BY <1>1 DEF Call, Pc
  <2>2. call' = [call EXCEPT ![r] = c]
    BY <1>9 DEF CollectFails
  <2> HIDE DEF c
  <2>3. QED
    BY <1>1, <1>9, <2>1, <2>2, GotoStep DEF CollectFails, db, Working
<1>10. QED
  BY <1>3, <1>4, <1>5, <1>6, <1>7, <1>8, <1>9

LEMMA MarkFeedInv ==
  ASSUME FeedInv, NEW r \in Runs, Open(r) \/ Finish(r) \/ MarkFailed(r)
  PROVE  FeedInv'
<1>1. PICK pc \in {"load", "closing"}, s \in RunStatus \ {"none"} :
        /\ call' = [call EXCEPT ![r].pc = pc]
        /\ run' = [run EXCEPT ![r].status = s]
        /\ \/ call[r].pc = "open" /\ pc = "load" /\ s = "running" /\ UNCHANGED events
           \/ call[r].pc = "finish" /\ pc = "closing" /\ s = "succeeded"
              /\ events' = [events EXCEPT ![r] = @ \cup {"completed"}]
           \/ call[r].pc = "failing" /\ pc = "closing" /\ s \in {"failed", "paused"}
              /\ events' = [events EXCEPT ![r] = @ \cup {"stopped"}]
        /\ UNCHANGED <<published, enabled, stored, checkpoint, faults, goal>>
  <2>1. call[r].stop \in {"failed", "paused"}
    BY CallTypes DEF FeedInv
  <2>2. CASE Open(r)
    BY <2>2 DEF Open, Goto, RunStatus
  <2>3. CASE Finish(r)
    BY <2>3 DEF Finish, Goto, RunStatus
  <2>4. CASE MarkFailed(r)
    BY <2>1, <2>4 DEF MarkFailed, Goto, RunStatus
  <2>5. QED
    BY <2>2, <2>3, <2>4
<1> DEFINE c == [call[r] EXCEPT !.pc = pc]
           w == [run[r] EXCEPT !.status = s]
<1>2. /\ c \in Call /\ c.offset = call[r].offset /\ c.pages = call[r].pages /\ c.pc = pc
      /\ w \in [status : RunStatus, seen : Nat] /\ w.status = s
  BY CallTypes DEF FeedInv, TypeOK, Call, Pc
<1>3. call' = [call EXCEPT ![r] = c] /\ run' = [run EXCEPT ![r] = w]
  BY <1>1
<1> HIDE DEF c, w
<1>4. call'[r] = c /\ run'[r] = w /\ Alone(r)
  BY <1>1, <1>3 DEF FeedInv, TypeOK, Alone
<1>5. events' \in [Runs -> SUBSET {"completed", "stopped"}]
  BY <1>1 DEF FeedInv, TypeOK
<1>6. TypeOK'
  <2>1. call' \in [Runs -> Call] /\ run' \in [Runs -> [status : RunStatus, seen : Nat]]
    BY <1>2, <1>3 DEF FeedInv, TypeOK
  <2>2. QED
    BY <1>1, <1>5, <2>1 DEF FeedInv, TypeOK
<1>7. CallSound(r)
  BY DEF FeedInv
<1>8. OffsetStored(r)' /\ PagesCounted(r)' /\ PageSound(r)'
  BY <1>1, <1>2, <1>4, <1>7 DEF CallSound, OffsetStored, PagesCounted, PageSound
<1>9. SuccessTrue(r)'
  BY <1>1, <1>2, <1>4, <1>7 DEF CallSound, SuccessTrue, CaughtUp
<1>10. RunFollows(r)'
  <2>1. /\ c.pc \in {"off", "check", "open"} => w.status = "none"
        /\ c.pc \in Working => w.status = "running"
    BY <1>1, <1>2 DEF Working
  <2>2. events[r] = {}
    BY <1>1, <1>7 DEF CallSound, RunFollows, Working
  <2>3. events'[r] = CASE w.status = "succeeded" -> {"completed"}
                       [] w.status \in {"failed", "paused"} -> {"stopped"}
                       [] OTHER -> {}
    BY <1>1, <1>2, <2>2 DEF FeedInv, TypeOK
  <2>4. QED
    BY <1>4, <2>1, <2>3, Zenon DEF RunFollows
<1>11. QED
  BY <1>1, <1>4, <1>6, <1>8, <1>9, <1>10, CallStep DEF CallSound

\* The transaction of a page.
LEMMA CommitFeedInv ==
  ASSUME FeedInv, NEW r \in Runs, Commit(r)
  PROVE  FeedInv'
<1> DEFINE b == call[r].batch
           again == b.more /\ call[r].pages + 1 < MaxPages
           next == IF again THEN "collect" ELSE "finish"
           c == [call[r] EXCEPT !.pages = @ + 1, !.offset = b.to, !.batch = NoBatch, !.pc = next]
           w == [run[r] EXCEPT !.seen = @ + Cardinality(Page(r))]
<1>1. /\ call[r].pc = "commit"
      /\ call' = [call EXCEPT ![r] = c] /\ run' = [run EXCEPT ![r] = w]
      /\ stored' = stored \cup Page(r) /\ checkpoint' = b.to
      /\ UNCHANGED <<published, enabled, events, faults, goal>>
  BY DEF Commit, Advance
<1>2. CallSound(r)
  BY DEF FeedInv
<1>3. /\ call[r].pages \in Nat /\ call[r].pages + 1 <= MaxPages
      /\ b.from = call[r].offset /\ b.from \in Nat /\ b.from <= b.to
      /\ b.to \in 0..MaxRecords /\ b.to <= published /\ published <= MaxRecords
      /\ published \in Nat
      /\ (~b.more => goal[r] <= b.to)
  BY <1>1, <1>2, CallTypes DEF FeedInv, TypeOK, CallSound, PagesCounted, PageSound
<1>4. w \in [status : RunStatus, seen : Nat] /\ w.status = "running"
  <2>1. Page(r) = (b.from + 1)..b.to
    BY DEF Page
  <2>2. Cardinality(Page(r)) \in Nat
    <3>1. b.from + 1 \in Int /\ b.to \in Int
      BY <1>3
    <3>2. IsFiniteSet((b.from + 1)..b.to)
      BY <3>1, FS_Interval
    <3>3. QED
      BY <2>1, <3>2, FS_CardinalityType
  <2>3. run[r].status = "running"
    BY <1>1, <1>2 DEF CallSound, RunFollows, Working
  <2>4. QED
    BY <2>2, <2>3, CallTypes DEF FeedInv
<1>5. /\ c \in Call /\ c.pages = call[r].pages + 1 /\ c.offset = b.to /\ c.pc = next
  <2>1. next \in Pc
    BY DEF Pc
  <2>2. call[r] \in Call /\ call[r].pages + 1 \in 0..MaxPages /\ b.to \in 0..MaxRecords
        /\ NoBatch \in Batch
    BY <1>3, CallTypes, NewCallTypes DEF FeedInv
  <2> HIDE DEF next
  <2>3. QED
    BY <2>1, <2>2 DEF Call
<1>6. Page(r) = (call[r].offset + 1)..b.to
  BY <1>3 DEF Page
<1>7. next = "collect" => c.pages < MaxPages
  BY <1>5
<1>8. next = "finish" => ~b.more \/ c.pages >= MaxPages
  BY <1>3, <1>5, CallTypes DEF FeedInv
<1>9. next \in {"collect", "finish"}
  OBVIOUS
<1> HIDE DEF c, w, next, again
<1>10. call'[r] = c /\ run'[r] = w /\ Alone(r)
  BY <1>1 DEF FeedInv, TypeOK, Alone
<1>11. 1..b.to \subseteq stored'
  <2>1. 1..call[r].offset \subseteq stored
    BY <1>2 DEF CallSound, OffsetStored
  <2>2. \A i \in 1..b.to : i \in 1..call[r].offset \/ i \in (call[r].offset + 1)..b.to
    BY <1>3
  <2>3. QED
    BY <1>1, <1>6, <2>1, <2>2
<1>12. stored' \subseteq 1..published /\ stored \subseteq stored'
  <2>1. Page(r) \subseteq 1..published
    BY <1>3, <1>6
  <2>2. QED
    BY <1>1, <2>1 DEF FeedInv
<1>13. TypeOK'
  <2>1. call' \in [Runs -> Call]
    BY <1>1, <1>5 DEF FeedInv, TypeOK
  <2>2. run' \in [Runs -> [status : RunStatus, seen : Nat]]
    BY <1>1, <1>4 DEF FeedInv, TypeOK
  <2>3. stored' \subseteq 1..MaxRecords
    BY <1>3, <1>12, CallTypes DEF FeedInv
  <2>4. QED
    BY <1>1, <1>3, <2>1, <2>2, <2>3 DEF FeedInv, TypeOK
<1>14. OffsetStored(r)' /\ PagesCounted(r)' /\ PageSound(r)'
  BY <1>1, <1>3, <1>5, <1>7, <1>9, <1>10, <1>11 DEF OffsetStored, PagesCounted, PageSound
<1>15. SuccessTrue(r)'
  <2>1. ASSUME next = "finish", c.pages < MaxPages
        PROVE  1..goal[r] \subseteq stored'
    <3>1. goal[r] <= b.to /\ goal[r] \in Nat
      BY <1>3, <1>5, <1>8, <2>1, CallTypes DEF FeedInv
    <3>2. QED
      BY <1>3, <1>11, <3>1
  <2>2. QED
    BY <1>1, <1>4, <1>5, <1>9, <1>10, <2>1 DEF SuccessTrue, CaughtUp
<1>16. RunFollows(r)'
  <2>1. c.pc \in Working /\ c.pc \notin {"off", "check", "open"}
    BY <1>5, <1>9 DEF Working
  <2>2. run[r].status = "running" /\ w.status = "running"
    BY <1>1, <1>2, <1>4 DEF CallSound, RunFollows, Working
  <2>3. QED
    BY <1>1, <1>2, <1>10, <2>1, <2>2, Zenon DEF CallSound, RunFollows
<1>17. \A q \in Runs : CallSound(q)'
  BY <1>1, <1>3, <1>10, <1>12, <1>14, <1>15, <1>16, OthersSound DEF CallSound
<1>18. QED
  BY <1>1, <1>3, <1>11, <1>12, <1>13, <1>17 DEF FeedInv, NothingSkipped
-----------------------------------------------------------------------------
(* The account of the runs.                                                *)

LEMMA OneMore ==
  ASSUME NEW S, NEW T, NEW x, NEW n \in Nat,
         IsFiniteSet(S), Cardinality(S) <= n, T \subseteq S \cup {x}
  PROVE  IsFiniteSet(T) /\ Cardinality(T) <= n + 1
<1>1. IsFiniteSet(S \cup {x}) /\ Cardinality(S \cup {x}) <= n + 1
  <2>1. Cardinality(S) \in Nat
    BY FS_CardinalityType
  <2>2. /\ IsFiniteSet(S \cup {x})
        /\ Cardinality(S \cup {x}) = IF x \in S THEN Cardinality(S) ELSE Cardinality(S) + 1
    BY FS_AddElement
  <2>3. QED
    BY <2>1, <2>2
<1>2. QED
  BY <1>1, FS_Subset, FS_CardinalityType

LEMMA NoMore ==
  ASSUME NEW S, NEW T, NEW n \in Nat, NEW m \in Nat,
         IsFiniteSet(S), Cardinality(S) <= n, T \subseteq S, n <= m
  PROVE  IsFiniteSet(T) /\ Cardinality(T) <= m
BY FS_Subset, FS_CardinalityType

\* A step of one call loses a run only when it is a fault.
LEMMA LostStep ==
  ASSUME DurableInv, NEW r \in Runs, Alone(r),
         \/ faults' = faults /\ (r \in Lost' => r \in Lost)
         \/ faults' = faults + 1
  PROVE  LostCounted'
<1>1. faults \in Nat /\ faults' \in Nat /\ faults <= faults'
  BY DurableAssumption DEF DurableInv, FeedInv, TypeOK
<1>2. \A q \in Runs : q # r /\ q \in Lost' => q \in Lost
  BY DEF Alone, Lost
<1>3. CASE faults' = faults /\ (r \in Lost' => r \in Lost)
  <2>1. Lost' \subseteq Lost
    BY <1>2, <1>3 DEF Lost
  <2>2. QED
    BY <1>1, <1>3, <2>1, NoMore DEF DurableInv, LostCounted
<1>4. CASE faults' = faults + 1
  <2>1. Lost' \subseteq Lost \cup {r}
    BY <1>2 DEF Lost
  <2>2. QED
    BY <1>1, <1>4, <2>1, OneMore DEF DurableInv, LostCounted
<1>5. QED
  BY <1>3, <1>4

LEMMA InvokeLost ==
  ASSUME DurableInv, NEW r \in Runs, Invoke(r)
  PROVE  LostCounted'
<1>1. call'[r] = NewCall /\ call[r].pc = "off" /\ UNCHANGED <<run, events, faults, goal>> /\ Alone(r)
  BY DEF DurableInv, FeedInv, TypeOK, Invoke, db, Alone
<1>2. r \notin Lost'
  BY <1>1 DEF DurableInv, FeedInv, CallSound, RunFollows, Lost
<1>3. QED
  BY <1>1, <1>2, LostStep

LEMMA StepLost ==
  ASSUME DurableInv, NEW r \in Runs, Step(r) \/ Breakdown(r)
  PROVE  LostCounted'
<1>1. Alone(r)
  BY DEF DurableInv, FeedInv, TypeOK, Alone, db, Goto, Step, Breakdown, Check, Open, Load, Collect,
     Commit, Advance, Finish, CollectFails, MarkFailed, Close, LoseCommit, LoseMark, CloseFails, Kill
<1>2. CASE Breakdown(r)
  BY <1>1, <1>2, LostStep DEF Breakdown, Fault, LoseCommit, LoseMark, CloseFails, Kill
<1>3. CASE Step(r)
  <2>1. /\ CallSound(r) /\ call[r] \in Call /\ run[r] \in [status : RunStatus, seen : Nat]
        /\ call \in [Runs -> Call] /\ run \in [Runs -> [status : RunStatus, seen : Nat]]
    BY CallTypes DEF DurableInv, FeedInv, TypeOK
  <2>2. faults' = faults
    BY <1>3 DEF Step, db, Check, Open, Load, Collect, Commit, Advance, Finish, CollectFails,
       MarkFailed, Close
  <2>3. r \in Lost' => r \in Lost
    <3> USE DEF db, Goto, Lost, Working, CallSound, RunFollows
    <3>1. CASE Check(r)
      BY <2>1, <3>1 DEF Check
    <3>2. CASE Open(r)
      BY <2>1, <3>2 DEF Open
    <3>3. CASE Load(r)
      BY <2>1, <3>3 DEF Load
    <3>4. CASE Collect(r)
      BY <2>1, <3>4 DEF Collect
    <3>5. CASE Commit(r)
      BY <2>1, <3>5 DEF Commit, Advance
    <3>6. CASE Finish(r)
      BY <2>1, <3>6 DEF Finish
    <3>7. CASE MarkFailed(r)
      <4>1. run'[r].status = call[r].stop /\ call[r].stop \in {"failed", "paused"}
        BY <2>1, <3>7 DEF MarkFailed, Call
      <4>2. run'[r].status # "running"
        BY <4>1, Zenon
      <4>3. QED
        BY <4>2
    <3>8. CASE Close(r)
      BY <2>1, <3>8 DEF Close
    <3>9. CASE \E s \in {"failed", "paused"} : CollectFails(r, s)
      <4>1. call'[r].pc = "failing"
        BY <2>1, <3>9 DEF CollectFails, Call
      <4>2. QED
        BY <4>1
    <3>10. QED
      BY <1>3, <3>1, <3>2, <3>3, <3>4, <3>5, <3>6, <3>7, <3>8, <3>9 DEF Step
  <2>4. QED
    BY <1>1, <2>2, <2>3, LostStep
<1>4. QED
  BY <1>2, <1>3

LEMMA StepDurableInv ==
  ASSUME DurableInv, NEW r \in Runs, Invoke(r) \/ Step(r) \/ Breakdown(r)
  PROVE  DurableInv'
<1>1. FeedInv'
  BY InvokeFeedInv, LoadFeedInv, CollectFeedInv, LeaveFeedInv, MarkFeedInv, CommitFeedInv
  DEF DurableInv, Step, Breakdown
<1>2. LostCounted'
  BY InvokeLost, StepLost
<1>3. QED
  BY <1>1, <1>2 DEF DurableInv

LEMMA WorldDurableInv ==
  ASSUME DurableInv, Publish \/ Toggle
  PROVE  DurableInv'
<1>1. UNCHANGED <<run, call, faults>>
  BY DEF Publish, Toggle, db
<1>2. LostCounted'
  BY <1>1 DEF DurableInv, LostCounted, Lost
<1>3. QED
  BY <1>2, PublishFeedInv DEF DurableInv

LEMMA InitDurableInv == Init => DurableInv
<1> SUFFICES ASSUME Init PROVE DurableInv
  OBVIOUS
<1>1. Lost = {} /\ faults = 0
  BY DEF Init, Lost
<1>2. QED
  BY <1>1, InitFeedInv, FS_EmptySet DEF DurableInv, LostCounted

LEMMA NextDurableInv == DurableInv /\ [Next]_vars => DurableInv'
<1> SUFFICES ASSUME DurableInv, [Next]_vars PROVE DurableInv'
  OBVIOUS
<1>1. CASE UNCHANGED vars
  <2>1. UNCHANGED <<published, enabled, stored, checkpoint, run, events, call, faults, goal>>
    BY <1>1 DEF vars, db
  <2>2. TypeOK' /\ NothingSkipped' /\ LostCounted'
    BY <2>1 DEF DurableInv, FeedInv, TypeOK, NothingSkipped, LostCounted, Lost
  <2>3. ASSUME NEW q \in Runs
        PROVE  CallSound(q)'
    <3>1. CallSound(q)
      BY DEF DurableInv, FeedInv
    <3>2. OffsetStored(q)' /\ PagesCounted(q)' /\ PageSound(q)' /\ SuccessTrue(q)'
      BY <2>1, <3>1 DEF CallSound, OffsetStored, PagesCounted, PageSound, SuccessTrue, CaughtUp
    <3>3. RunFollows(q)'
      BY <2>1, <3>1, Zenon DEF CallSound, RunFollows
    <3>4. QED
      BY <3>2, <3>3 DEF CallSound
  <2>4. QED
    BY <2>1, <2>2, <2>3 DEF DurableInv, FeedInv
<1>2. CASE Next
  BY <1>2, StepDurableInv, WorldDurableInv DEF Next
<1>3. QED
  BY <1>1, <1>2

LEMMA DurableInvHolds == Spec => []DurableInv
BY InitDurableInv, NextDurableInv, PTL DEF Spec
-----------------------------------------------------------------------------
\* No record is missed: everything before the stored checkpoint is stored, and
\* a run that succeeded below its page limit has stored all that was published
\* when it read its last page, however many calls overlap and wherever they
\* fail or are killed (connectors/durable.py:87-121).
THEOREM FeedNeverGaps == Spec => []FeedComplete
<1>1. DurableInv => FeedComplete
  BY DEF DurableInv, FeedInv, FeedComplete, SucceededCaughtUp, CallSound, SuccessTrue, CaughtUp
<1>2. QED
  BY <1>1, DurableInvHolds, PTL

\* Every run is settled exactly with its audit event, and the runs that say
\* "running" although nobody works on them are no more than the faults
\* (connectors/durable.py:121-173).
THEOREM RunsAccountedFor == Spec => []RunsAccounted
<1>1. DurableInv => RunsAccounted
  <2> SUFFICES ASSUME DurableInv PROVE RunsAccounted
    OBVIOUS
  <2>1. {r \in Runs : run[r].status = "running" /\ ~Alive(r)} \subseteq Lost
    BY DEF Lost, Working, Alive
  <2>2. faults \in Nat
    BY DurableAssumption DEF DurableInv, FeedInv, TypeOK
  <2>3. Cardinality({r \in Runs : run[r].status = "running" /\ ~Alive(r)}) <= faults
    BY <2>1, <2>2, NoMore DEF DurableInv, LostCounted
  <2>4. \A r \in Runs : RunFollows(r)
    BY DEF DurableInv, FeedInv, CallSound
  <2>5. QED
    BY <2>3, <2>4, Zenon DEF RunsAccounted, RunFollows
<1>2. QED
  BY <1>1, DurableInvHolds, PTL
=============================================================================
