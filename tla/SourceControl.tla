--------------------------- MODULE SourceControl ---------------------------
(***************************************************************************)
(* Enabling and disabling a source (api/control.py): concurrent handlers   *)
(* with an idempotency key and an expected version each.  A handler reads  *)
(* the stored command, then the state of the source, and commits the new   *)
(* state, the command and the audit event in one transaction; others act   *)
(* in between, and an answer may be lost on its way to the client.         *)
(***************************************************************************)
EXTENDS Naturals, Sequences, FiniteSets

CONSTANTS
  Sources,     \* entries of the registry
  Allowed,     \* those with status "allowed"
  KillSwitch,  \* those with a kill switch
  Keys,        \* command hashes: (actor, idempotency key)
  Handlers,    \* request handlers, over all API processes
  MaxVersion,  \* bound: the largest expected version a request names
  NoCommand    \* no command, no request

ControlRequest == [source : Sources, enabled : BOOLEAN, expected : 0..MaxVersion]
Stored == [request : ControlRequest, version : Nat \ {0}]

ASSUME ControlAssumption ==
  /\ Allowed \subseteq Sources
  /\ KillSwitch \subseteq Sources
  /\ MaxVersion \in Nat
  /\ NoCommand \notin Keys
  /\ NoCommand \notin Stored

VARIABLES
  state,     \* source_control_states; version 0 where there is no row
  commands,  \* source_control_commands: the request and the version it made
  trail,     \* the source_control_changed events of each source, in order
  handler,   \* the request handlers
  told       \* history: what the clients were told

controlDb == <<state, commands, trail>>
controlVars == <<state, commands, trail, handler, told>>
-----------------------------------------------------------------------------
ControlAnswer == [key : Keys, request : ControlRequest, version : Nat \ {0}]
Entry == [key : Keys, before : BOOLEAN, after : BOOLEAN, version : Nat \ {0}]

IdleHandler == [pc |-> "idle"]
HandlerState ==
  {IdleHandler}
  \cup [pc : {"read"}, key : Keys, request : ControlRequest]
  \cup [pc : {"write", "answer"}, key : Keys, request : ControlRequest, before : BOOLEAN]

\* No row means no override: the source is enabled.
NoState == [enabled |-> TRUE, version |-> 0]

\* What the registry permits and the override allows together.
Effective(s, enabled) == s \in Allowed /\ enabled

Become(t, h) == handler' = [handler EXCEPT ![t] = h]
-----------------------------------------------------------------------------
ControlInit ==
  /\ state = [s \in Sources |-> NoState]
  /\ commands = [k \in Keys |-> NoCommand]
  /\ trail = [s \in Sources |-> <<>>]
  /\ handler = [t \in Handlers |-> IdleHandler]
  /\ told = {}

\* The registry check, and no stored command for the key.
Receive(t, k, r) ==
  /\ handler[t].pc = "idle"
  /\ r.enabled => r.source \in Allowed \cap KillSwitch
  /\ commands[k] = NoCommand
  /\ Become(t, [pc |-> "read", key |-> k, request |-> r])
  /\ UNCHANGED <<controlDb, told>>

\* Mutant: the stored request is not compared with the new one.
ReplayAny(k, r) ==
  /\ r.enabled => r.source \in Allowed \cap KillSwitch
  /\ commands[k] # NoCommand
  /\ told' = told \cup {[key |-> k, request |-> r, version |-> commands[k].version]}
  /\ UNCHANGED <<controlDb, handler>>

\* A stored command with the same request is answered with its first result;
\* with another request it is a 409, which changes nothing.
ControlReplay(k, r) ==
  /\ r.enabled => r.source \in Allowed \cap KillSwitch
  /\ commands[k] # NoCommand
  /\ commands[k].request = r
  /\ told' = told \cup {[key |-> k, request |-> r, version |-> commands[k].version]}
  /\ UNCHANGED <<controlDb, handler>>

Read(t) ==
  LET h == handler[t]  s == h.request.source IN
  /\ h.pc = "read"
  /\ IF state[s].version = h.request.expected
     THEN Become(t, [pc |-> "write", key |-> h.key, request |-> h.request,
                     before |-> Effective(s, state[s].enabled)])
     ELSE Become(t, IdleHandler)
  /\ UNCHANGED <<controlDb, told>>

\* Mutant: the version is stored as it was expected, without the increment.
WriteSameVersion(t) ==
  LET h == handler[t]  r == h.request  s == r.source IN
  /\ state' = [state EXCEPT ![s] = [enabled |-> r.enabled, version |-> r.expected]]
  /\ commands' = [commands EXCEPT ![h.key] = [request |-> r, version |-> r.expected]]
  /\ trail' = [trail EXCEPT ![s] = Append(@,
       [key |-> h.key, before |-> h.before, after |-> Effective(s, r.enabled),
        version |-> r.expected])]
  /\ handler' = [handler EXCEPT ![t].pc = "answer"]
  /\ UNCHANGED told

\* The transaction: the new state, the command and the audit event.
Write(t) ==
  LET h == handler[t]  r == h.request  s == r.source IN
  /\ state' = [state EXCEPT ![s] = [enabled |-> r.enabled, version |-> r.expected + 1]]
  /\ commands' = [commands EXCEPT ![h.key] = [request |-> r, version |-> r.expected + 1]]
  /\ trail' = [trail EXCEPT ![s] = Append(@,
       [key |-> h.key, before |-> h.before, after |-> Effective(s, r.enabled),
        version |-> r.expected + 1])]
  /\ handler' = [handler EXCEPT ![t].pc = "answer"]
  /\ UNCHANGED told

\* Mutants: the update does not name the expected version, or the command
\* hash is not a key of its table.
CommitBlindly(t) ==
  /\ handler[t].pc = "write"
  /\ commands[handler[t].key] = NoCommand
  /\ Write(t)

CommitAgain(t) ==
  /\ handler[t].pc = "write"
  /\ state[handler[t].request.source].version = handler[t].request.expected
  /\ Write(t)

\* The update names the version it expects; where no row was found, the
\* insert meets the primary key instead.
ControlCommit(t) ==
  /\ handler[t].pc = "write"
  /\ state[handler[t].request.source].version = handler[t].request.expected
  /\ commands[handler[t].key] = NoCommand
  /\ Write(t)

\* No row updated, or a primary key violated: rolled back, 409.
Conflict(t) ==
  /\ handler[t].pc = "write"
  /\ \/ state[handler[t].request.source].version # handler[t].request.expected
     \/ commands[handler[t].key] # NoCommand
  /\ Become(t, IdleHandler)
  /\ UNCHANGED <<controlDb, told>>

Reply(t) ==
  LET h == handler[t] IN
  /\ h.pc = "answer"
  /\ told' = told \cup {[key |-> h.key, request |-> h.request, version |-> h.request.expected + 1]}
  /\ Become(t, IdleHandler)
  /\ UNCHANGED controlDb

\* The process is killed or the connection is lost: nothing more is told.
Lose(t) ==
  /\ handler[t].pc # "idle"
  /\ Become(t, IdleHandler)
  /\ UNCHANGED <<controlDb, told>>

ControlNext ==
  \/ \E k \in Keys, r \in ControlRequest : ControlReplay(k, r) \/ \E t \in Handlers : Receive(t, k, r)
  \/ \E t \in Handlers : Read(t) \/ ControlCommit(t) \/ Conflict(t) \/ Reply(t) \/ Lose(t)

ControlSpec == ControlInit /\ [][ControlNext]_controlVars
-----------------------------------------------------------------------------
ControlTypeOK ==
  /\ state \in [Sources -> [enabled : BOOLEAN, version : Nat]]
  /\ commands \in [Keys -> Stored \cup {NoCommand}]
  /\ trail \in [Sources -> Seq(Entry)]
  /\ handler \in [Handlers -> HandlerState]
  /\ told \subseteq ControlAnswer

\* The audit trail of a source is complete and in order: its n-th event made
\* version n, and the last one made the state that is stored, whatever
\* handlers ran concurrently or died (api/control.py:131-200).
AuditComplete ==
  \A s \in Sources :
    LET log == trail[s] IN
    /\ Len(log) = state[s].version
    /\ \A i \in 1..Len(log) : log[i].version = i
    /\ log # <<>> => log[Len(log)].after = Effective(s, state[s].enabled)

\* Every event starts from where the event before it ended: before_enabled,
\* read a statement earlier than the update, is never stale
\* (api/control.py:112, 183).
AuditChains ==
  \A s \in Sources : \A i \in 1..Len(trail[s]) :
    trail[s][i].before =
      (IF i = 1 THEN Effective(s, TRUE) ELSE trail[s][i - 1].after)

\* The trail alone tells how the state of a source came to be, from the first
\* event to the stored state (api/control.py:100-200).
AuditTrail == ControlTypeOK /\ AuditComplete /\ AuditChains

\* A client is told one outcome for one key, however often it retries, and
\* the version it is told was made by its own request
\* (docs/operations_api.md:81).
AnswersTrue ==
  \A a \in told :
    /\ commands[a.key] = [request |-> a.request, version |-> a.version]
    /\ a.version = a.request.expected + 1
    /\ trail[a.request.source][a.version].key = a.key

\* The change behind each event of an audit trail, by its command.
ChangeLog ==
  [s \in Sources |-> [i \in 1..Len(trail[s]) |->
    [key |-> trail[s][i].key,
     enabled |-> commands[trail[s][i].key].request.enabled,
     expected |-> commands[trail[s][i].key].request.expected]]]

\* The audit trails implement the versioned switch.
Switch == INSTANCE VersionedSwitch WITH log <- ChangeLog

ImplementsSwitch == Switch!Spec
=============================================================================
