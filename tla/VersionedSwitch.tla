-------------------------- MODULE VersionedSwitch --------------------------
(***************************************************************************)
(* What the source control interface promises: the changes of a source     *)
(* form one sequence, a change is made by a caller who knew the change     *)
(* before it, and a command takes effect at most once, on one source.      *)
(***************************************************************************)
EXTENDS Naturals, Sequences

CONSTANTS Sources, Keys

VARIABLE log  \* the changes of each source, in order

Change == [key : Keys, enabled : BOOLEAN, expected : Nat]

Used(k) == \E s \in Sources : \E i \in 1..Len(log[s]) : log[s][i].key = k

Init == log = [s \in Sources |-> <<>>]

Set(s, k, e) ==
  /\ ~Used(k)
  /\ log' = [log EXCEPT ![s] = Append(@, [key |-> k, enabled |-> e, expected |-> Len(@)])]

Next == \E s \in Sources, k \in Keys, e \in BOOLEAN : Set(s, k, e)

Spec == Init /\ [][Next]_log
=============================================================================
