--------------------------- MODULE SendLifecycle ---------------------------
(***************************************************************************)
(* What the user of the wallet is promised about every signed transaction, *)
(* with no word on queues, caches, retries or restarts:                    *)
(*   - the network never holds a transaction the wallet has no record of;  *)
(*   - a record is only shown as seen, confirmed, failed or replaced when  *)
(*     the network gave a reason for it;                                   *)
(*   - of all transactions with one nonce at most one is ever settled;     *)
(*   - a final record is never changed again.                              *)
(***************************************************************************)
EXTENDS Naturals

CONSTANTS Tx,       \* signed transactions; equal ones have equal hashes
          NonceOf   \* NonceOf[t]: the account nonce t is signed with

VARIABLES life,     \* life[t]: what the wallet's store says of t
          sent      \* the transactions some node has accepted

vars == <<life, sent>>

Pending == {"submitting", "network_seen"}
Settled == {"confirmed", "failed"}

Init == /\ life = [t \in Tx |-> "none"]
        /\ sent = {}

Record(t) == /\ life[t] = "none"
             /\ life' = [life EXCEPT ![t] = "submitting"]
             /\ UNCHANGED sent

Broadcast(t) == /\ life[t] # "none"
                /\ sent' = sent \cup {t}
                /\ UNCHANGED life

See(t) == /\ life[t] = "submitting"
          /\ t \in sent
          /\ life' = [life EXCEPT ![t] = "network_seen"]
          /\ UNCHANGED sent

Settle(t) == /\ life[t] = "network_seen"
             /\ \A u \in Tx : NonceOf[u] = NonceOf[t] => life[u] \notin Settled
             /\ \E s \in Settled : life' = [life EXCEPT ![t] = s]
             /\ UNCHANGED sent

\* Only a rival with the same nonce that the network holds replaces t.
Replace(t) == /\ life[t] \in Pending
              /\ \E u \in sent \ {t} : NonceOf[u] = NonceOf[t]
              /\ life' = [life EXCEPT ![t] = "replaced"]
              /\ UNCHANGED sent

Next == \E t \in Tx : Record(t) \/ Broadcast(t) \/ See(t) \/ Settle(t) \/ Replace(t)

Spec == Init /\ [][Next]_vars
=============================================================================
