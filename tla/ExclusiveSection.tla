-------------------------- MODULE ExclusiveSection --------------------------
(***************************************************************************)
(* What a per-account send queue promises to its callers, with no word on  *)
(* how it is done: the calls of one lane run one at a time, in the order   *)
(* they joined; at most Limit of them are outstanding; a call that would   *)
(* exceed the limit is refused and leaves no trace.                        *)
(*                                                                         *)
(* NonceCoordinator implements it with a chain of promises, which end with *)
(* the process; BscSend, whose calls queue there, relies on it.            *)
(***************************************************************************)
EXTENDS Naturals, FiniteSets

CONSTANTS Call,    \* the calls ever made
          Lane,    \* Lane[c]: the account call c is for
          Limit    \* most calls outstanding in one lane

VARIABLES phase,   \* "idle", "queued", "running", "done" or "refused"
          ahead    \* ahead[c]: the calls outstanding in c's lane when c joined

vars == <<phase, ahead>>

Outstanding(k) == {d \in Call : Lane[d] = k /\ phase[d] \in {"queued", "running"}}

Init == /\ phase = [c \in Call |-> "idle"]
        /\ ahead = [c \in Call |-> {}]

Join(c) == /\ phase[c] = "idle"
           /\ Cardinality(Outstanding(Lane[c])) < Limit
           /\ phase' = [phase EXCEPT ![c] = "queued"]
           /\ ahead' = [ahead EXCEPT ![c] = Outstanding(Lane[c])]

Refuse(c) == /\ phase[c] = "idle"
             /\ Cardinality(Outstanding(Lane[c])) >= Limit
             /\ phase' = [phase EXCEPT ![c] = "refused"]
             /\ UNCHANGED ahead

\* A call runs only after every call it found before it is over.
Start(c) == /\ phase[c] = "queued"
            /\ \A d \in ahead[c] : phase[d] = "done"
            /\ phase' = [phase EXCEPT ![c] = "running"]
            /\ UNCHANGED ahead

\* The operation may end, by value or by exception, as soon as it runs.
Finish(c) == /\ phase[c] = "running"
             /\ phase' = [phase EXCEPT ![c] = "done"]
             /\ UNCHANGED ahead

Next == \E c \in Call : Join(c) \/ Refuse(c) \/ Start(c) \/ Finish(c)

Spec == Init /\ [][Next]_vars
=============================================================================
