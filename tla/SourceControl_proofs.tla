------------------------ MODULE SourceControl_proofs ------------------------
(***************************************************************************)
(* The audit trail of every source is complete and chained, answers are    *)
(* true, and the trails implement the versioned switch, for any number of  *)
(* sources, keys and concurrent handlers and any bound on the version.     *)
(***************************************************************************)
EXTENDS SourceControl, TLAPS

\* What a handler read is still true, or somebody else has taken the version
\* it is about to name: then its commit will be refused.
WritersKnow ==
  \A t \in Handlers : handler[t].pc = "write" =>
    LET r == handler[t].request  s == r.source IN
    /\ r.expected <= state[s].version
    /\ r.expected = state[s].version => handler[t].before = Effective(s, state[s].enabled)

\* A source nobody has changed yet is enabled.
EnabledAtStart == \A s \in Sources : state[s].version = 0 => state[s].enabled = TRUE

\* What a handler is about to tell is what is stored for its key.
TellersStored ==
  \A t \in Handlers : handler[t].pc = "answer" =>
    commands[handler[t].key] =
      [request |-> handler[t].request, version |-> handler[t].request.expected + 1]

\* A stored command made the version it names, and the event of that version
\* carries its key.
CommandsLogged ==
  \A k \in Keys : commands[k] # NoCommand =>
    LET c == commands[k]  log == trail[c.request.source] IN
    /\ c.version = c.request.expected + 1
    /\ c.version \in 1..Len(log)
    /\ log[c.version].key = k

\* An event belongs to a stored command for this source and this version.
EventsCommanded ==
  \A s \in Sources : \A i \in 1..Len(trail[s]) :
    LET c == commands[trail[s][i].key] IN
    /\ c # NoCommand
    /\ c.request.source = s
    /\ c.request.expected + 1 = i

\* What clients were told is what is stored.
ToldStored ==
  \A a \in told : commands[a.key] = [request |-> a.request, version |-> a.version]

ControlInv ==
  /\ ControlTypeOK /\ AuditComplete /\ AuditChains
  /\ EnabledAtStart /\ WritersKnow /\ TellersStored /\ CommandsLogged /\ EventsCommanded /\ ToldStored
-----------------------------------------------------------------------------
LEMMA InitControlInv == ControlInit => ControlInv
<1> SUFFICES ASSUME ControlInit PROVE ControlInv
  OBVIOUS
<1>1. ControlTypeOK
  BY DEF ControlInit, ControlTypeOK, NoState, HandlerState, Entry
<1>2. AuditComplete /\ AuditChains /\ EventsCommanded /\ EnabledAtStart
  BY DEF ControlInit, NoState, AuditComplete, AuditChains, EventsCommanded, EnabledAtStart
<1>3. WritersKnow /\ TellersStored
  BY DEF ControlInit, IdleHandler, WritersKnow, TellersStored
<1>4. CommandsLogged /\ ToldStored
  BY DEF ControlInit, CommandsLogged, ToldStored
<1>5. QED
  BY <1>1, <1>2, <1>3, <1>4 DEF ControlInv

\* The steps that leave the tables alone: the handlers that are to write or to
\* answer afterwards know what they must.
LEMMA QuietStep ==
  ASSUME ControlInv, UNCHANGED controlDb, ControlTypeOK', WritersKnow', TellersStored', ToldStored'
  PROVE  ControlInv'
<1>1. UNCHANGED <<state, commands, trail>>
  BY DEF controlDb
<1>2. AuditComplete' /\ AuditChains' /\ EnabledAtStart'
  BY <1>1 DEF ControlInv, AuditComplete, AuditChains, EnabledAtStart, Effective
<1>3. CommandsLogged' /\ EventsCommanded'
  BY <1>1 DEF ControlInv, CommandsLogged, EventsCommanded
<1>4. QED
  BY <1>2, <1>3 DEF ControlInv

LEMMA HandlerKinds ==
  ASSUME ControlTypeOK, NEW t \in Handlers
  PROVE  /\ handler[t].pc \in {"idle", "read", "write", "answer"}
         /\ handler[t].pc # "idle" => handler[t].key \in Keys /\ handler[t].request \in ControlRequest
         /\ handler[t].pc \in {"write", "answer"} =>
              handler[t] \in [pc : {"write", "answer"}, key : Keys, request : ControlRequest,
                              before : BOOLEAN]
BY DEF ControlTypeOK, HandlerState, IdleHandler

LEMMA ReceiveInv ==
  ASSUME ControlInv, NEW t \in Handlers, NEW k \in Keys, NEW r \in ControlRequest, Receive(t, k, r)
  PROVE  ControlInv'
<1>1. ControlTypeOK'
  BY DEF ControlInv, ControlTypeOK, Receive, Become, controlDb, HandlerState
<1>2. \A u \in Handlers : handler'[u].pc \in {"write", "answer"} => handler'[u] = handler[u]
  BY DEF ControlInv, ControlTypeOK, Receive, Become
<1>3. WritersKnow' /\ TellersStored' /\ ToldStored' /\ UNCHANGED controlDb
  BY <1>2 DEF ControlInv, Receive, controlDb, WritersKnow, TellersStored, ToldStored, Effective
<1>4. QED
  BY <1>1, <1>3, QuietStep

LEMMA ReplayInv ==
  ASSUME ControlInv, NEW k \in Keys, NEW r \in ControlRequest, ControlReplay(k, r)
  PROVE  ControlInv'
<1>1. commands[k] \in Stored /\ commands[k].request = r
  BY DEF ControlInv, ControlTypeOK, ControlReplay
<1>2. ControlTypeOK'
  BY <1>1 DEF ControlInv, ControlTypeOK, ControlReplay, controlDb, Stored, ControlAnswer
<1>3. ToldStored'
  <2>1. commands[k] = [request |-> r, version |-> commands[k].version]
    BY <1>1 DEF Stored
  <2>2. UNCHANGED commands
    BY DEF ControlReplay, controlDb
  <2>3. told' = told \cup {[key |-> k, request |-> r, version |-> commands[k].version]}
    BY DEF ControlReplay
  <2>4. ToldStored
    BY DEF ControlInv
  <2>5. ASSUME NEW a \in told'
        PROVE  commands[a.key] = [request |-> a.request, version |-> a.version]
    <3>1. CASE a \in told
      BY <2>4, <3>1 DEF ToldStored
    <3>2. CASE a = [key |-> k, request |-> r, version |-> commands[k].version]
      BY <2>1, <3>2, Zenon
    <3>3. QED
      BY <2>3, <3>1, <3>2
  <2>6. QED
    BY <2>2, <2>5 DEF ToldStored
<1>4. WritersKnow' /\ TellersStored' /\ UNCHANGED controlDb
  BY DEF ControlInv, ControlReplay, controlDb, WritersKnow, TellersStored, Effective
<1>5. QED
  BY <1>2, <1>3, <1>4, QuietStep

LEMMA ReadInv ==
  ASSUME ControlInv, NEW t \in Handlers, Read(t)
  PROVE  ControlInv'
<1> DEFINE s == handler[t].request.source
           w == [pc |-> "write", key |-> handler[t].key, request |-> handler[t].request,
                 before |-> Effective(s, state[s].enabled)]
<1>1. handler[t].key \in Keys /\ handler[t].request \in ControlRequest /\ s \in Sources
  BY HandlerKinds DEF ControlInv, Read, ControlRequest
<1>2. /\ \/ handler' = [handler EXCEPT ![t] = w] /\ state[s].version = handler[t].request.expected
         \/ handler' = [handler EXCEPT ![t] = IdleHandler]
      /\ UNCHANGED <<controlDb, told>>
  BY DEF Read, Become
<1>3. w \in HandlerState /\ IdleHandler \in HandlerState
  BY <1>1 DEF HandlerState, ControlInv, ControlTypeOK, Effective
<1>4. ControlTypeOK'
  BY <1>2, <1>3 DEF ControlInv, ControlTypeOK, controlDb
<1>5. WritersKnow'
  <2>1. ASSUME NEW u \in Handlers, handler'[u].pc = "write"
        PROVE  \/ handler'[u] = handler[u]
               \/ handler'[u] = w /\ state[s].version = handler[t].request.expected
    BY <1>2, <2>1 DEF ControlInv, ControlTypeOK, IdleHandler
  <2>2. state[s].version \in Nat
    BY <1>1 DEF ControlInv, ControlTypeOK
  <2>3. ASSUME NEW u \in Handlers, handler'[u] = w, state[s].version = handler[t].request.expected
        PROVE  /\ handler'[u].request.expected <= state[handler'[u].request.source].version
               /\ handler'[u].before = Effective(handler'[u].request.source,
                                                 state[handler'[u].request.source].enabled)
    BY <2>2, <2>3
  <2>4. UNCHANGED state
    BY <1>2 DEF controlDb
  <2>5. QED
    BY <2>1, <2>3, <2>4 DEF WritersKnow, ControlInv, Effective
<1>6. TellersStored'
  <2>1. \A u \in Handlers : handler'[u].pc = "answer" => handler'[u] = handler[u]
    BY <1>2 DEF ControlInv, ControlTypeOK, IdleHandler
  <2>2. QED
    BY <1>2, <2>1 DEF ControlInv, controlDb, TellersStored
<1>7. ToldStored'
  BY <1>2 DEF ControlInv, controlDb, ToldStored
<1>8. QED
  BY <1>2, <1>4, <1>5, <1>6, <1>7, QuietStep

\* Conflict, Lose and Reply: the handler rests.
LEMMA RestInv ==
  ASSUME ControlInv, NEW t \in Handlers, Become(t, IdleHandler), UNCHANGED controlDb,
         ControlTypeOK', ToldStored'
  PROVE  ControlInv'
<1>1. \A u \in Handlers : handler'[u].pc # "idle" => handler'[u] = handler[u]
  BY DEF ControlInv, ControlTypeOK, Become, IdleHandler
<1>2. UNCHANGED <<state, commands>>
  BY DEF controlDb
<1>3. WritersKnow'
  BY <1>1, <1>2 DEF ControlInv, WritersKnow, Effective
<1>4. TellersStored'
  BY <1>1, <1>2 DEF ControlInv, TellersStored
<1>5. QED
  BY <1>3, <1>4, QuietStep

LEMMA DropInv ==
  ASSUME ControlInv, NEW t \in Handlers, Conflict(t) \/ Lose(t)
  PROVE  ControlInv'
<1>1. Become(t, IdleHandler) /\ UNCHANGED <<state, commands, trail, told>>
  BY DEF Conflict, Lose, controlDb
<1>2. ControlTypeOK'
  BY <1>1 DEF ControlInv, ControlTypeOK, Become, HandlerState
<1>3. ToldStored'
  BY <1>1 DEF ControlInv, ToldStored
<1>4. QED
  BY <1>1, <1>2, <1>3, RestInv DEF controlDb

LEMMA ReplyInv ==
  ASSUME ControlInv, NEW t \in Handlers, Reply(t)
  PROVE  ControlInv'
<1> DEFINE h == handler[t]
           a == [key |-> h.key, request |-> h.request, version |-> h.request.expected + 1]
<1>1. Become(t, IdleHandler) /\ told' = told \cup {a} /\ UNCHANGED <<state, commands, trail>>
  BY DEF Reply, controlDb
<1>2. h.pc = "answer" /\ h.key \in Keys /\ h.request \in ControlRequest
  BY HandlerKinds DEF Reply, ControlInv
<1>3. a \in ControlAnswer
  BY <1>2, ControlAssumption DEF ControlRequest, ControlAnswer
<1>4. ControlTypeOK'
  BY <1>1, <1>3 DEF ControlInv, ControlTypeOK, Become, HandlerState
<1>5. commands[a.key] = [request |-> a.request, version |-> a.version]
  BY <1>2 DEF ControlInv, TellersStored
<1>6. ToldStored'
  BY <1>1, <1>5 DEF ControlInv, ToldStored
<1>7. QED
  BY <1>1, <1>4, <1>6, RestInv DEF controlDb

\* The transaction: everything it changes, and that it changes nothing else.
LEMMA CommitEffect ==
  ASSUME ControlInv, NEW t \in Handlers, ControlCommit(t)
  PROVE  LET h == handler[t]  r == h.request  s == r.source
             e == [key |-> h.key, before |-> h.before, after |-> Effective(s, r.enabled),
                   version |-> r.expected + 1] IN
         /\ h.pc = "write" /\ h.key \in Keys /\ r \in ControlRequest /\ s \in Sources
         /\ r.expected \in Nat /\ r.enabled \in BOOLEAN
         /\ state[s].version = r.expected /\ commands[h.key] = NoCommand
         /\ Len(trail[s]) = r.expected /\ trail[s] \in Seq(Entry) /\ e \in Entry
         /\ h.before = Effective(s, state[s].enabled)
         /\ state' = [state EXCEPT ![s] = [enabled |-> r.enabled, version |-> r.expected + 1]]
         /\ commands' = [commands EXCEPT ![h.key] = [request |-> r, version |-> r.expected + 1]]
         /\ trail' = [trail EXCEPT ![s] = Append(trail[s], e)]
         /\ handler' = [handler EXCEPT ![t] = [pc |-> "answer", key |-> h.key, request |-> r,
                                               before |-> h.before]]
         /\ told' = told
<1> DEFINE h == handler[t]
           r == h.request
           s == r.source
           e == [key |-> h.key, before |-> h.before, after |-> Effective(s, r.enabled),
                 version |-> r.expected + 1]
<1>1. h.pc = "write" /\ h.key \in Keys /\ r \in ControlRequest
      /\ h \in [pc : {"write", "answer"}, key : Keys, request : ControlRequest, before : BOOLEAN]
  BY HandlerKinds DEF ControlCommit, ControlInv
<1>2. s \in Sources /\ r.expected \in Nat /\ r.enabled \in BOOLEAN
  BY <1>1, ControlAssumption DEF ControlRequest
<1>3. state[s].version = r.expected /\ commands[h.key] = NoCommand
  BY DEF ControlCommit
<1>4. Len(trail[s]) = r.expected /\ trail[s] \in Seq(Entry)
  BY <1>2, <1>3 DEF ControlInv, ControlTypeOK, AuditComplete
<1>5. e \in Entry
  <2>1. Effective(s, r.enabled) \in BOOLEAN
    BY <1>2 DEF Effective
  <2>2. QED
    BY <1>1, <1>2, <2>1 DEF Entry
<1>6. h.before = Effective(s, state[s].enabled)
  BY <1>1, <1>3 DEF ControlInv, WritersKnow
<1>7. /\ state' = [state EXCEPT ![s] = [enabled |-> r.enabled, version |-> r.expected + 1]]
      /\ commands' = [commands EXCEPT ![h.key] = [request |-> r, version |-> r.expected + 1]]
      /\ trail' = [trail EXCEPT ![s] = Append(trail[s], e)]
      /\ told' = told
  BY DEF ControlCommit, Write
<1>8. handler' = [handler EXCEPT ![t] = [pc |-> "answer", key |-> h.key, request |-> r,
                                        before |-> h.before]]
  <2>1. handler' = [handler EXCEPT ![t] = [h EXCEPT !.pc = "answer"]]
    BY DEF ControlCommit, Write
  <2>2. [h EXCEPT !.pc = "answer"] = [pc |-> "answer", key |-> h.key, request |-> r,
                                      before |-> h.before]
    BY <1>1
  <2>3. QED
    BY <2>1, <2>2
<1>9. QED
  BY <1>1, <1>2, <1>3, <1>4, <1>5, <1>6, <1>7, <1>8

LEMMA AppendFacts ==
  ASSUME NEW S, NEW q \in Seq(S), NEW x \in S
  PROVE  /\ Append(q, x) \in Seq(S) /\ Len(Append(q, x)) = Len(q) + 1
         /\ \A i \in 1..Len(q) : Append(q, x)[i] = q[i]
         /\ Append(q, x)[Len(q) + 1] = x
OBVIOUS

LEMMA CommitInv ==
  ASSUME ControlInv, NEW t \in Handlers, ControlCommit(t)
  PROVE  ControlInv'
<1> DEFINE h == handler[t]
           r == h.request
           s == r.source
           n == r.expected + 1
           e == [key |-> h.key, before |-> h.before, after |-> Effective(s, r.enabled), version |-> n]
           c == [request |-> r, version |-> n]
           g == [pc |-> "answer", key |-> h.key, request |-> r, before |-> h.before]
<1>1. /\ h.pc = "write" /\ h.key \in Keys /\ r \in ControlRequest /\ s \in Sources
      /\ r.expected \in Nat /\ r.enabled \in BOOLEAN /\ n \in Nat \ {0}
      /\ state[s].version = r.expected /\ commands[h.key] = NoCommand
      /\ Len(trail[s]) = r.expected /\ trail[s] \in Seq(Entry) /\ e \in Entry
      /\ h.before = Effective(s, state[s].enabled) /\ h.before \in BOOLEAN
  BY CommitEffect DEF Entry
<1>2. /\ state' = [state EXCEPT ![s] = [enabled |-> r.enabled, version |-> n]]
      /\ commands' = [commands EXCEPT ![h.key] = c]
      /\ trail' = [trail EXCEPT ![s] = Append(trail[s], e)]
      /\ handler' = [handler EXCEPT ![t] = g]
      /\ told' = told
  BY CommitEffect
<1>3. /\ state \in [Sources -> [enabled : BOOLEAN, version : Nat]]
      /\ commands \in [Keys -> Stored \cup {NoCommand}]
      /\ trail \in [Sources -> Seq(Entry)]
      /\ handler \in [Handlers -> HandlerState]
  BY DEF ControlInv, ControlTypeOK
<1>4. /\ state'[s] = [enabled |-> r.enabled, version |-> n]
      /\ trail'[s] = Append(trail[s], e)
      /\ commands'[h.key] = c
      /\ \A q \in Sources \ {s} : state'[q] = state[q] /\ trail'[q] = trail[q]
      /\ \A k \in Keys \ {h.key} : commands'[k] = commands[k]
      /\ \A u \in Handlers \ {t} : handler'[u] = handler[u]
      /\ handler'[t] = g
  BY <1>1, <1>2, <1>3
<1>5. c \in Stored /\ c # NoCommand
  BY <1>1, ControlAssumption DEF Stored
<1>6. /\ trail'[s] \in Seq(Entry) /\ Len(trail'[s]) = n
      /\ \A i \in 1..Len(trail[s]) : trail'[s][i] = trail[s][i]
      /\ trail'[s][n] = e
  <2>1. trail'[s] = Append(trail[s], e) /\ trail[s] \in Seq(Entry) /\ e \in Entry /\ Len(trail[s]) + 1 = n
    BY <1>1, <1>4
  <2>2. QED
    BY <2>1, AppendFacts
<1>6a. g \in HandlerState
  BY <1>1 DEF HandlerState
<1>6b. /\ e.key = h.key /\ e.before = h.before /\ e.after = Effective(s, r.enabled) /\ e.version = n
      /\ c.request = r /\ c.version = n /\ r.source = s /\ n = r.expected + 1
      /\ g.pc = "answer" /\ g.key = h.key /\ g.request = r
      /\ c = [request |-> r, version |-> r.expected + 1]
  OBVIOUS
<1> HIDE DEF h, r, s, n, e, c, g
<1>7. ControlTypeOK'
  BY <1>1, <1>2, <1>3, <1>4, <1>5, <1>6, <1>6a DEF ControlInv, ControlTypeOK
<1>8. AuditComplete'
  <2>1. /\ Len(trail'[s]) = state'[s].version
        /\ trail'[s][Len(trail'[s])].after = Effective(s, state'[s].enabled)
    BY <1>4, <1>6, <1>6b
  <2>2. \A i \in 1..Len(trail'[s]) : trail'[s][i].version = i
    <3>1. \A i \in 1..Len(trail[s]) : trail[s][i].version = i
      BY <1>1 DEF ControlInv, AuditComplete
    <3>2. QED
      BY <1>1, <1>6, <1>6b, <3>1
  <2>3. QED
    BY <1>4, <2>1, <2>2 DEF ControlInv, AuditComplete, Effective
<1>9. AuditChains'
  <2>1. ASSUME NEW i \in 1..Len(trail'[s])
        PROVE  /\ i = 1 => trail'[s][i].before = Effective(s, TRUE)
               /\ i # 1 => trail'[s][i].before = trail'[s][i - 1].after
    <3>1. CASE i # n
      <4>1. i \in 1..n /\ Len(trail[s]) = n - 1 /\ n \in Nat
        BY <1>1, <1>6, <1>6b
      <4>6. i \in 1..Len(trail[s]) /\ trail'[s][i] = trail[s][i]
        BY <1>6, <3>1, <4>1
      <4>2. i # 1 => i - 1 \in 1..Len(trail[s])
        BY <4>6
      <4>3. i # 1 => trail'[s][i - 1] = trail[s][i - 1]
        BY <1>6, <4>2
      <4>4. /\ i = 1 => trail[s][i].before = Effective(s, TRUE)
            /\ i # 1 => trail[s][i].before = trail[s][i - 1].after
        BY <1>1, <4>6, Zenon DEF ControlInv, AuditChains
      <4>5. QED
        BY <4>6, <4>3, <4>4, Zenon
    <3>2. CASE i = n /\ n = 1
      <4>1. state[s].version = 0 /\ h.before = Effective(s, state[s].enabled)
        BY <1>1, <1>6b, <3>2
      <4>2. state[s].enabled = TRUE
        BY <1>1, <4>1 DEF ControlInv, EnabledAtStart
      <4>3. QED
        BY <1>6, <1>6b, <3>2, <4>1, <4>2, Zenon
    <3>3. CASE i = n /\ n # 1
      <4>1. n - 1 \in 1..Len(trail[s]) /\ Len(trail[s]) = n - 1
        BY <1>1, <1>6b, <3>3
      <4>2. h.before = trail[s][n - 1].after
        BY <1>1, <1>6b, <4>1 DEF ControlInv, AuditComplete
      <4>3. trail'[s][n - 1] = trail[s][n - 1]
        BY <1>6, <4>1
      <4>4. QED
        BY <1>6, <1>6b, <3>3, <4>2, <4>3, Zenon
    <3>4. QED
      BY <3>1, <3>2, <3>3
  <2>2. ASSUME NEW q \in Sources, NEW i \in 1..Len(trail'[q])
        PROVE  trail'[q][i].before =
                 (IF i = 1 THEN Effective(q, TRUE) ELSE trail'[q][i - 1].after)
    <3>1. CASE q = s
      BY <2>1, <3>1, Zenon
    <3>2. CASE q # s
      <4>1. trail'[q] = trail[q]
        BY <1>4, <3>2
      <4>2. QED
        BY <4>1, Zenon DEF ControlInv, AuditChains
    <3>3. QED
      BY <3>1, <3>2
  <2>3. QED
    BY <2>2, Zenon DEF AuditChains
<1>10. WritersKnow'
  <2>1. ASSUME NEW u \in Handlers, handler'[u].pc = "write"
        PROVE  /\ handler'[u].request.expected <= state'[handler'[u].request.source].version
               /\ handler'[u].request.expected = state'[handler'[u].request.source].version
                    => handler'[u].before = Effective(handler'[u].request.source,
                                                      state'[handler'[u].request.source].enabled)
    <3>1. handler'[u] = handler[u] /\ handler[u].pc = "write"
      BY <1>4, <1>6b, <2>1
    <3>2. handler[u].request.source \in Sources /\ handler[u].request.expected \in Nat
      BY <3>1, HandlerKinds, ControlAssumption DEF ControlInv, ControlRequest
    <3>3. /\ handler[u].request.expected <= state[handler[u].request.source].version
          /\ handler[u].request.expected = state[handler[u].request.source].version
               => handler[u].before = Effective(handler[u].request.source,
                                                state[handler[u].request.source].enabled)
      BY <3>1 DEF ControlInv, WritersKnow
    <3>4. CASE handler[u].request.source = s
      BY <1>1, <1>4, <1>6b, <3>1, <3>2, <3>3, <3>4
    <3>5. CASE handler[u].request.source # s
      BY <1>4, <3>1, <3>2, <3>3, <3>5
    <3>6. QED
      BY <3>4, <3>5
  <2>2. QED
    BY <2>1 DEF WritersKnow, Effective
<1>11. TellersStored'
  <2>1. ASSUME NEW u \in Handlers, handler'[u].pc = "answer"
        PROVE  commands'[handler'[u].key] =
                 [request |-> handler'[u].request, version |-> handler'[u].request.expected + 1]
    <3>1. CASE u = t
      BY <1>4, <1>6b, <3>1
    <3>2. CASE u # t
      <4>1. handler'[u] = handler[u]
        BY <1>4, <3>2
      <4>2. handler[u].key \in Keys /\ handler[u].request \in ControlRequest
        BY <2>1, <4>1, HandlerKinds DEF ControlInv
      <4>3. commands[handler[u].key] =
              [request |-> handler[u].request, version |-> handler[u].request.expected + 1]
        BY <2>1, <4>1 DEF ControlInv, TellersStored
      <4>4. commands[handler[u].key] # NoCommand
        BY <4>2, <4>3, ControlAssumption DEF Stored, ControlRequest
      <4>5. QED
        BY <1>1, <1>4, <4>1, <4>2, <4>3, <4>4
    <3>3. QED
      BY <3>1, <3>2
  <2>2. QED
    BY <2>1 DEF TellersStored
<1>12. CommandsLogged'
  <2>1. ASSUME NEW k \in Keys, commands'[k] # NoCommand
        PROVE  /\ commands'[k].version = commands'[k].request.expected + 1
               /\ commands'[k].version \in 1..Len(trail'[commands'[k].request.source])
               /\ trail'[commands'[k].request.source][commands'[k].version].key = k
    <3>1. CASE k = h.key
      BY <1>1, <1>4, <1>6, <1>6b, <3>1
    <3>2. CASE k # h.key
      <4>1. commands'[k] = commands[k] /\ commands[k] \in Stored
        BY <1>3, <1>4, <2>1, <3>2
      <4>2. commands[k].request.source \in Sources
        BY <4>1 DEF Stored, ControlRequest
      <4>3. /\ commands[k].version = commands[k].request.expected + 1
            /\ commands[k].version \in 1..Len(trail[commands[k].request.source])
            /\ trail[commands[k].request.source][commands[k].version].key = k
        BY <2>1, <4>1 DEF ControlInv, CommandsLogged
      <4>4. CASE commands[k].request.source = s
        BY <1>1, <1>4, <1>6, <4>1, <4>3, <4>4
      <4>5. CASE commands[k].request.source # s
        BY <1>4, <4>1, <4>2, <4>3, <4>5
      <4>6. QED
        BY <4>4, <4>5
    <3>3. QED
      BY <3>1, <3>2
  <2>2. QED
    BY <2>1 DEF CommandsLogged
<1>13. \A q \in Sources : \A i \in 1..Len(trail[q]) :
         /\ trail[q][i].key \in Keys \ {h.key}
         /\ commands'[trail[q][i].key] = commands[trail[q][i].key]
  <2>1. ASSUME NEW q \in Sources, NEW i \in 1..Len(trail[q])
        PROVE  trail[q][i].key \in Keys \ {h.key}
    <3>1. trail[q][i] \in Entry
      BY <1>3
    <3>2. commands[trail[q][i].key] # NoCommand
      BY DEF ControlInv, EventsCommanded
    <3>3. QED
      BY <1>1, <3>1, <3>2 DEF Entry
  <2>2. QED
    BY <1>4, <2>1
<1>14. EventsCommanded'
  <2>1. ASSUME NEW q \in Sources, NEW i \in 1..Len(trail'[q])
        PROVE  /\ commands'[trail'[q][i].key] # NoCommand
               /\ commands'[trail'[q][i].key].request.source = q
               /\ commands'[trail'[q][i].key].request.expected + 1 = i
    <3>1. CASE i \in 1..Len(trail[q]) /\ trail'[q][i] = trail[q][i]
      BY <1>13, <3>1 DEF ControlInv, EventsCommanded
    <3>2. CASE q = s /\ i = n
      <4>1. trail'[q][i].key = h.key /\ commands'[h.key] = c
        BY <1>4, <1>6, <1>6b, <3>2
      <4>2. QED
        BY <1>5, <1>6b, <3>2, <4>1
    <3>3. CASE q = s /\ i # n
      <4>1. i \in 1..n /\ Len(trail[s]) = n - 1 /\ n \in Nat
        BY <1>1, <1>6, <1>6b, <3>3
      <4>2. QED
        BY <1>6, <3>1, <3>3, <4>1
    <3>4. CASE q # s
      BY <1>4, <3>1, <3>4
    <3>5. QED
      BY <3>2, <3>3, <3>4
  <2>2. QED
    BY <2>1 DEF EventsCommanded
<1>15. ToldStored'
  <2>1. ASSUME NEW a \in told
        PROVE  commands'[a.key] = [request |-> a.request, version |-> a.version]
    <3>1. a \in ControlAnswer
      BY DEF ControlInv, ControlTypeOK
    <3>2. commands[a.key] = [request |-> a.request, version |-> a.version]
      BY DEF ControlInv, ToldStored
    <3>3. commands[a.key] # NoCommand /\ a.key \in Keys
      BY <3>1, <3>2, ControlAssumption DEF ControlAnswer, Stored
    <3>4. QED
      BY <1>1, <1>4, <3>2, <3>3
  <2>2. QED
    BY <1>2, <2>1 DEF ToldStored
<1>16. EnabledAtStart'
  BY <1>1, <1>4 DEF ControlInv, EnabledAtStart
<1>17. QED
  BY <1>7, <1>8, <1>9, <1>10, <1>11, <1>12, <1>14, <1>15, <1>16 DEF ControlInv

LEMMA NextControlInv == ControlInv /\ [ControlNext]_controlVars => ControlInv'
<1> SUFFICES ASSUME ControlInv, [ControlNext]_controlVars PROVE ControlInv'
  OBVIOUS
<1>1. CASE UNCHANGED controlVars
  <2>1. UNCHANGED <<state, commands, trail, handler, told>>
    BY <1>1 DEF controlVars, controlDb
  <2>2. ControlTypeOK' /\ ToldStored'
    BY <2>1 DEF ControlInv, ControlTypeOK, ToldStored
  <2>3. WritersKnow' /\ TellersStored'
    BY <2>1 DEF ControlInv, WritersKnow, TellersStored, Effective
  <2>4. QED
    BY <2>1, <2>2, <2>3, QuietStep DEF controlDb
<1>2. CASE ControlNext
  BY <1>2, ReceiveInv, ReplayInv, ReadInv, CommitInv, DropInv, ReplyInv DEF ControlNext
<1>3. QED
  BY <1>1, <1>2

LEMMA ControlInvHolds == ControlSpec => []ControlInv
BY InitControlInv, NextControlInv, PTL DEF ControlSpec

\* The audit trail of every source tells, event by event, how its state came
\* to be: complete, in order, and each event starting where the one before it
\* ended, although a handler reads "before" a statement earlier than it writes
\* (api/control.py:100-200).
THEOREM TrailComplete == ControlSpec => []AuditTrail
<1>1. ControlInv => AuditTrail
  BY DEF ControlInv, AuditTrail
<1>2. QED
  BY <1>1, ControlInvHolds, PTL

\* Every answer a client was given for a key is the stored outcome of its own
\* request, and the event of that version carries its key, whatever was lost
\* or retried (docs/operations_api.md:81).
THEOREM AnswersHonest == ControlSpec => []AnswersTrue
<1>1. ControlInv => AnswersTrue
  <2> SUFFICES ASSUME ControlInv, NEW a \in told
               PROVE  /\ commands[a.key] = [request |-> a.request, version |-> a.version]
                      /\ a.version = a.request.expected + 1
                      /\ trail[a.request.source][a.version].key = a.key
    BY DEF AnswersTrue
  <2>1. a.key \in Keys /\ [request |-> a.request, version |-> a.version] \in Stored
    BY DEF ControlInv, ControlTypeOK, ControlAnswer, Stored
  <2>2. commands[a.key] = [request |-> a.request, version |-> a.version]
    BY DEF ControlInv, ToldStored
  <2>3. commands[a.key] # NoCommand
    BY <2>1, <2>2, ControlAssumption
  <2>4. QED
    BY <2>1, <2>2, <2>3 DEF ControlInv, CommandsLogged
<1>2. QED
  BY <1>1, ControlInvHolds, PTL
-----------------------------------------------------------------------------
(* Refinement: a commit is a Set of the versioned switch, every other step  *)
(* leaves the change log as it is.                                          *)

LEMMA InitRefines == ControlInit => Switch!Init
BY DEF ControlInit, Switch!Init, ChangeLog

\* The log depends on the trails and on the commands of their events only.
LEMMA LogKept ==
  ASSUME UNCHANGED <<trail, commands>>
  PROVE  ChangeLog' = ChangeLog
BY DEF ChangeLog

LEMMA CommitRefines ==
  ASSUME ControlInv, NEW t \in Handlers, ControlCommit(t)
  PROVE  Switch!Next
<1> DEFINE h == handler[t]
           r == h.request
           s == r.source
           e == [key |-> h.key, before |-> h.before, after |-> Effective(s, r.enabled),
                 version |-> r.expected + 1]
           x == [key |-> h.key, enabled |-> r.enabled, expected |-> r.expected]
           C(q, i) == [key |-> trail[q][i].key,
                       enabled |-> commands[trail[q][i].key].request.enabled,
                       expected |-> commands[trail[q][i].key].request.expected]
           D(q, i) == [key |-> trail'[q][i].key,
                       enabled |-> commands'[trail'[q][i].key].request.enabled,
                       expected |-> commands'[trail'[q][i].key].request.expected]
<1>1. /\ h.key \in Keys /\ s \in Sources /\ r.expected \in Nat /\ r.enabled \in BOOLEAN
      /\ commands[h.key] = NoCommand
      /\ Len(trail[s]) = r.expected /\ trail[s] \in Seq(Entry)
      /\ commands' = [commands EXCEPT ![h.key] = [request |-> r, version |-> r.expected + 1]]
      /\ trail' = [trail EXCEPT ![s] = Append(trail[s], e)]
  BY CommitEffect
<1>2. commands \in [Keys -> Stored \cup {NoCommand}] /\ trail \in [Sources -> Seq(Entry)]
  BY DEF ControlInv, ControlTypeOK
<1>3. \A q \in Sources : \A i \in 1..Len(trail[q]) : trail[q][i].key \in Keys \ {h.key}
  <2>1. ASSUME NEW q \in Sources, NEW i \in 1..Len(trail[q])
        PROVE  trail[q][i].key \in Keys \ {h.key}
    <3>1. trail[q][i] \in Entry
      BY <1>2
    <3>2. commands[trail[q][i].key] # NoCommand
      BY DEF ControlInv, EventsCommanded
    <3>3. QED
      BY <1>1, <3>1, <3>2 DEF Entry
  <2>2. QED
    BY <2>1
<1>4. \A q \in Sources : /\ Len(trail[q]) \in Nat
                         /\ ChangeLog[q] = [i \in 1..Len(trail[q]) |-> C(q, i)]
                         /\ Len(ChangeLog[q]) = Len(trail[q])
  BY <1>2 DEF ChangeLog
<1>5. ~Switch!Used(h.key)
  <2>1. ASSUME NEW q \in Sources, NEW i \in 1..Len(ChangeLog[q]), ChangeLog[q][i].key = h.key
        PROVE  FALSE
    <3>1. i \in 1..Len(trail[q]) /\ ChangeLog[q][i] = C(q, i)
      BY <1>4, <2>1
    <3>2. QED
      BY <1>3, <2>1, <3>1
  <2>2. QED
    BY <2>1 DEF Switch!Used
<1>6. ChangeLog'[s] = Append(ChangeLog[s], x)
  <2>1. /\ Len(trail'[s]) = Len(trail[s]) + 1
        /\ \A i \in 1..Len(trail[s]) : trail'[s][i] = trail[s][i]
        /\ trail'[s][Len(trail[s]) + 1] = e
    <3>1. e \in Entry
      BY CommitEffect
    <3>2. trail'[s] = Append(trail[s], e) /\ trail[s] \in Seq(Entry)
      BY <1>1, <1>2
    <3> HIDE DEF e
    <3>3. QED
      BY <3>1, <3>2, AppendFacts
  <2>2. \A i \in 1..Len(trail[s]) : D(s, i) = C(s, i)
    <3>1. ASSUME NEW i \in 1..Len(trail[s])
          PROVE  /\ trail'[s][i] = trail[s][i]
                 /\ commands'[trail[s][i].key] = commands[trail[s][i].key]
      BY <1>1, <1>2, <1>3, <2>1
    <3>2. QED
      BY <3>1
  <2>3. D(s, Len(trail[s]) + 1) = x
    <3>1. commands'[h.key] = [request |-> r, version |-> r.expected + 1]
      BY <1>1, <1>2
    <3>2. QED
      BY <2>1, <3>1
  <2>4. Len(trail[s]) \in Nat
    BY <1>1
  <2>5. ChangeLog'[s] = [i \in 1..(Len(trail[s]) + 1) |-> D(s, i)]
    BY <1>1, <2>1 DEF ChangeLog
  <2>6. ChangeLog[s] = [i \in 1..Len(trail[s]) |-> C(s, i)]
    BY <1>1, <1>4
  <2> HIDE DEF C, D, x
  <2>7. QED
    BY <2>2, <2>3, <2>4, <2>5, <2>6
<1>7. \A q \in Sources \ {s} : ChangeLog'[q] = ChangeLog[q]
  <2>1. ASSUME NEW q \in Sources \ {s}
        PROVE  [i \in 1..Len(trail'[q]) |-> D(q, i)] = [i \in 1..Len(trail[q]) |-> C(q, i)]
    <3>1. trail'[q] = trail[q]
      BY <1>1, <1>2
    <3>2. \A i \in 1..Len(trail[q]) : D(q, i) = C(q, i)
      BY <1>1, <1>2, <1>3, <3>1
    <3> HIDE DEF C, D
    <3>3. QED
      BY <3>1, <3>2
  <2>2. QED
    BY <2>1 DEF ChangeLog
<1>8. ChangeLog' = [ChangeLog EXCEPT ![s] = Append(ChangeLog[s], x)]
  <2> DEFINE old == ChangeLog
             new == ChangeLog'
  <2>1. /\ old = [q \in Sources |-> old[q]]
        /\ new = [q \in Sources |-> new[q]]
    BY DEF ChangeLog
  <2>2. new[s] = Append(old[s], x) /\ \A q \in Sources \ {s} : new[q] = old[q]
    BY <1>6, <1>7
  <2> HIDE DEF old, new, x
  <2>3. new = [old EXCEPT ![s] = Append(old[s], x)]
    BY <2>1, <2>2
  <2>4. QED
    BY <2>3 DEF old, new
<1>9. Switch!Set(s, h.key, r.enabled)
  BY <1>1, <1>4, <1>5, <1>8 DEF Switch!Set
<1>10. QED
  BY <1>1, <1>9 DEF Switch!Next

\* Only a commit touches the trails or the commands.
LEMMA OthersKeep ==
  ASSUME [ControlNext]_controlVars, ~\E t \in Handlers : ControlCommit(t)
  PROVE  UNCHANGED <<trail, commands>>
BY DEF ControlNext, controlVars, controlDb, ControlReplay, Receive, Read, Conflict, Reply, Lose

\* The audit trails of all sources together implement the versioned switch:
\* every commit is one change made by a caller who knew the change before it,
\* with a key that made no other change, and no other step shows
\* (api/control.py:60-200).
THEOREM RefinesSwitch == ControlSpec => ImplementsSwitch
<1>1. ControlInv /\ [ControlNext]_controlVars => [Switch!Next]_ChangeLog
  BY CommitRefines, OthersKeep, LogKept
<1>2. QED
  BY <1>1, InitRefines, ControlInvHolds, PTL DEF ControlSpec, ImplementsSwitch, Switch!Spec
=============================================================================
