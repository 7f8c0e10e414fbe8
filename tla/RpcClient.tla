----------------------------- MODULE RpcClient ------------------------------
(***************************************************************************)
(* BscReadClient (bsc-core, rpc/client.js) against nodes that fail, lag,   *)
(* serve another chain, or take a transaction and lose the answer.         *)
(*                                                                         *)
(* Every request is preceded by eth_chainId on the same transport.  request*)
(* goes through the first MaxAttempts transports until one answers;        *)
(* broadcastSignedTransaction does so too, and after each failure looks the*)
(* transaction up on all transports before it tries the next;              *)
(* waitForTransactionReceipt polls by request until its deadline.  All     *)
(* calls here are about one signed transaction.  A request, with the       *)
(* eth_chainId before it, is one action: a node does not change its chain. *)
(* An aborted request may still reach its node later.                      *)
(***************************************************************************)
EXTENDS Integers, FiniteSets

CONSTANTS Transports,     \* number of transports, in fail-over order
          MaxAttempts,    \* #maxAttempts
          Broadcast,      \* calls of broadcastSignedTransaction
          Wait,           \* calls of waitForTransactionReceipt
          Confirmations,
          MaxPolls,       \* bound: polls before the deadline
          MaxHeight,      \* bound: blocks
          MaxFaults       \* bound: requests that fail

ASSUME TransportAssumption == Transports \in Nat /\ MaxAttempts \in 1 .. Transports
ASSUME CallAssumption == Broadcast \cap Wait = {}
ASSUME PolicyAssumption == Confirmations \in Nat \ {0} /\ MaxPolls \in Nat
ASSUME BoundAssumption == MaxHeight \in Nat /\ MaxFaults \in Nat

Node == 1 .. Transports
Call == Broadcast \cup Wait
None == 0

VARIABLES
  wrong,    \* nodes of another chain
  pool,     \* nodes that hold the transaction
  late,     \* nodes an aborted eth_sendRawTransaction is still on its way to
  height,   \* each node's block number
  block,    \* the block of the transaction, or None
  reverts,  \* what the receipt says
  pc,       \* "ask", "sleep", or how the call ended
  task,     \* the request under way: "send", "find", "receipt" or "height"
  at,       \* transport of the request under way
  tries,    \* transports a broadcast has sent to, polls a wait has made
  failed,   \* history: transports that failed since the request, or the lookup, began
  held,     \* history: nodes that hold the transaction since the lookup began
  faults

network == <<wrong, pool, late, height, block, reverts>>
calls == <<pc, task, at, tries>>
vars == <<network, calls, failed, held, faults>>

Ended == {"sent", "confirmed", "reverted", "unavailable", "mismatch", "malformed", "timeout"}
Honest == Node \ wrong

Init == /\ wrong \in SUBSET Node
        /\ pool \in SUBSET Honest  \* the transaction may have been broadcast before
        /\ late = {}
        /\ height = [n \in Node |-> IF n \in wrong THEN MaxHeight ELSE 0]
        /\ block = None
        /\ reverts = FALSE
        /\ pc = [c \in Call |-> "ask"]
        /\ task = [c \in Call |-> IF c \in Broadcast THEN "send" ELSE "receipt"]
        /\ at = [c \in Call |-> 1]
        /\ tries = [c \in Call |-> 0]
        /\ failed = [c \in Call |-> {}]
        /\ held = [c \in Call |-> {}]
        /\ faults = 0

\* The request under way fails: an HTTP or JSON-RPC error, an answer that is
\* not one, or nothing before #timeoutMs.
Fault == faults < MaxFaults /\ faults' = faults + 1

End(c, outcome) == /\ pc' = [pc EXCEPT ![c] = outcome]
                   /\ UNCHANGED <<task, at, tries, failed, held>>

\* Request t goes to transport n.
Address(c, t, n) == /\ pc' = [pc EXCEPT ![c] = "ask"]
                    /\ task' = [task EXCEPT ![c] = t]
                    /\ at' = [at EXCEPT ![c] = n]

\* A new request, or a new round of lookups, begins.
BeginRound(c, t, n) == /\ Address(c, t, n)
                       /\ failed' = [failed EXCEPT ![c] = {}]
                       /\ held' = [held EXCEPT ![c] = pool']

Blame(c) == failed' = [failed EXCEPT ![c] = @ \cup {at[c]}]

\* broadcastSignedTransaction: the next turn of its loop.
\* Mutant: the transport that failed is tried again.
TrySame(c) ==
  IF tries[c] < MaxAttempts
  THEN Address(c, "send", tries[c] + 1) /\ UNCHANGED tries
  ELSE pc' = [pc EXCEPT ![c] = "unavailable"] /\ UNCHANGED <<task, at, tries>>

TryNext(c) ==
  IF tries[c] + 1 < MaxAttempts
  THEN Address(c, "send", tries[c] + 2) /\ tries' = [tries EXCEPT ![c] = @ + 1]
  ELSE pc' = [pc EXCEPT ![c] = "unavailable"] /\ UNCHANGED <<task, at, tries>>

\* #findKnownTransaction goes on, or has asked every transport.
NotFound(c) == /\ IF at[c] < Transports
                  THEN Address(c, "find", at[c] + 1) /\ UNCHANGED tries
                  ELSE TryNext(c)
               /\ UNCHANGED held

\* Mutant: the last transport is never asked.
OtherTransportButLast(c) ==
  /\ IF at[c] + 1 < MaxAttempts THEN Address(c, task[c], at[c] + 1)
     ELSE pc' = [pc EXCEPT ![c] = "unavailable"] /\ UNCHANGED <<task, at>>
  /\ UNCHANGED <<tries, held>>

\* request: the next transport.
OtherTransport(c) ==
  /\ IF at[c] < MaxAttempts THEN Address(c, task[c], at[c] + 1)
     ELSE pc' = [pc EXCEPT ![c] = "unavailable"] /\ UNCHANGED <<task, at>>
  /\ UNCHANGED <<tries, held>>

\* Mutant: a lookup that fails ends the round.
CaughtOnce(c) == \/ task[c] = "send" /\ BeginRound(c, "find", 1) /\ UNCHANGED tries
                 \/ task[c] = "find" /\ TryNext(c) /\ Blame(c) /\ UNCHANGED held
                 \/ task[c] \in {"receipt", "height"} /\ OtherTransport(c) /\ Blame(c)

\* The catch blocks.
Caught(c) == \/ task[c] = "send" /\ BeginRound(c, "find", 1) /\ UNCHANGED tries
             \/ task[c] = "find" /\ NotFound(c) /\ Blame(c)
             \/ task[c] \in {"receipt", "height"} /\ OtherTransport(c) /\ Blame(c)

\* Mutant: only the first transport of a request is asked for its chain.
AsksUnasserted(c, t) == pc[c] = "ask" /\ task[c] = t /\ (at[c] = 1 => at[c] \in Honest)

\* Request t is under way, and #assertChain lets it pass.
Asks(c, t) == pc[c] = "ask" /\ task[c] = t /\ at[c] \in Honest

\* It does not: the call is over, but a lookup skips the transport.
Mismatch(c) == /\ pc[c] = "ask" /\ at[c] \in wrong
               /\ UNCHANGED <<network, faults>>
               /\ IF task[c] = "find" THEN Caught(c) ELSE End(c, "mismatch")

\* No answer is had, and nothing reaches the node.
Fails(c) == pc[c] = "ask" /\ Fault /\ UNCHANGED network /\ Caught(c)

\* eth_sendRawTransaction: the node takes the transaction and says so ...
Sent(c) == /\ Asks(c, "send")
           /\ pool' = pool \cup {at[c]}
           /\ End(c, "sent")
           /\ UNCHANGED <<wrong, late, height, block, reverts, faults>>

\* ... refuses it, because it has it already or does not want it ...
Refused(c) == /\ Asks(c, "send")
              /\ UNCHANGED <<network, faults>>
              /\ Caught(c)

\* ... or only the answer is lost, or the request is late.
SendFails(c) == /\ Asks(c, "send")
                /\ Fault
                /\ \/ pool' = pool \cup {at[c]} /\ UNCHANGED late
                   \/ late' = late \cup {at[c]} /\ UNCHANGED pool
                /\ Caught(c)
                /\ UNCHANGED <<wrong, height, block, reverts>>

\* eth_getTransactionByHash.
Find(c) == /\ Asks(c, "find") /\ UNCHANGED <<network, faults>>
           /\ \/ at[c] \in pool /\ End(c, "sent")
              \/ at[c] \notin pool /\ NotFound(c) /\ UNCHANGED failed

\* A receipt or a quantity that does not parse is not asked for elsewhere.
Malformed(c) == /\ Asks(c, "receipt") \/ Asks(c, "height")
                /\ UNCHANGED network
                /\ Fault
                /\ End(c, "malformed")

Sleep(c) == End(c, "sleep")

\* eth_getTransactionReceipt.
Receipt(c) ==
  LET known == block # None /\ height[at[c]] >= block IN
  /\ Asks(c, "receipt") /\ UNCHANGED <<network, faults>>
  /\ \/ ~known /\ Sleep(c)
     \/ known /\ reverts /\ End(c, "reverted")
     \/ known /\ ~reverts /\ BeginRound(c, "height", 1) /\ UNCHANGED tries

\* eth_blockNumber, of a node that may lag behind the one with the receipt.
Height(c) ==
  LET deep == height[at[c]] >= block + Confirmations - 1 IN
  /\ Asks(c, "height") /\ UNCHANGED <<network, faults>>
  /\ \/ deep /\ End(c, "confirmed")
     \/ ~deep /\ Sleep(c)

\* The poll interval is over, and the deadline has passed or not.
Wake(c) == /\ pc[c] = "sleep"
           /\ UNCHANGED <<network, faults>>
           /\ \/ End(c, "timeout")
              \/ /\ tries[c] < MaxPolls
                 /\ tries' = [tries EXCEPT ![c] = @ + 1]
                 /\ BeginRound(c, "receipt", 1)
-----------------------------------------------------------------------------
(* The network.                                                            *)

\* A node gets the transaction, from an aborted request or another node.
Spread(n) == /\ n \in late \/ (n \in Honest /\ pool # {})
             /\ n \notin pool
             /\ pool' = pool \cup {n}
             /\ late' = late \ {n}
             /\ UNCHANGED <<wrong, height, block, reverts, calls, failed, held, faults>>

\* A node drops it before it is mined.
Evict(n) == /\ block = None
            /\ n \in pool
            /\ pool' = pool \ {n}
            /\ held' = [c \in Call |-> held[c] \ {n}]
            /\ UNCHANGED <<wrong, late, height, block, reverts, calls, failed, faults>>

\* It is in the block after the newest one.
Mine == /\ block = None /\ pool # {}
        /\ \E b \in 1 .. MaxHeight :
             /\ \A n \in Honest : height[n] < b
             /\ b = 1 \/ \E n \in Honest : height[n] = b - 1
             /\ block' = b
        /\ reverts' \in BOOLEAN
        /\ UNCHANGED <<wrong, pool, late, height, calls, failed, held, faults>>

\* A node gets the next block, with the transactions in it.
Grow(n) == /\ n \in Honest /\ height[n] < MaxHeight
           /\ height' = [height EXCEPT ![n] = @ + 1]
           /\ pool' = IF block = height[n] + 1 THEN pool \cup {n} ELSE pool
           /\ UNCHANGED <<wrong, late, block, reverts, calls, failed, held, faults>>

Step(c) == \/ Mismatch(c) \/ Fails(c) \/ Sent(c) \/ Refused(c) \/ SendFails(c)
           \/ Find(c) \/ Receipt(c) \/ Height(c) \/ Malformed(c) \/ Wake(c)

Next == \/ \E c \in Call : Step(c)
        \/ \E n \in Node : Spread(n) \/ Evict(n) \/ Grow(n)
        \/ Mine

Spec == Init /\ [][Next]_vars

\* Requests are answered or aborted after #timeoutMs, and the interval ends.
FairSpec == Spec /\ \A c \in Call : WF_vars(Step(c))
-----------------------------------------------------------------------------
\* The calls' state, and the nodes': only nodes of the chain are ever given
\* the signed transaction.
TypeOK == /\ wrong \subseteq Node
          /\ pool \subseteq Honest /\ late \subseteq Honest
          /\ height \in [Node -> 0 .. MaxHeight]
          /\ block \in 0 .. MaxHeight
          /\ reverts \in BOOLEAN
          /\ pc \in [Call -> {"ask", "sleep"} \cup Ended]
          /\ task \in [Call -> {"send", "find", "receipt", "height"}]
          /\ at \in [Call -> Node]
          /\ tries \in [Call -> 0 .. MaxAttempts + MaxPolls]
          /\ failed \in [Call -> SUBSET Node]
          /\ held \in [Call -> SUBSET Honest]
          /\ faults \in 0 .. MaxFaults

\* Idempotent broadcast recovery: a broadcast is reported as not observed only
\* if every node that held the transaction all through the last lookup failed
\* to answer it, however the transaction got there: by an answer that was lost,
\* a request that arrived late, an earlier call, or another node.
KnownIsFound ==
  \A c \in Broadcast : pc[c] = "unavailable" => held[c] \subseteq failed[c]

\* request gives up on a wait only after every transport it may use failed.
FailOverIsComplete ==
  \A c \in Wait : pc[c] = "unavailable" => 1 .. MaxAttempts \subseteq failed[c]

\* A receipt is returned for a transaction that is in a block of the right
\* chain with the confirmations asked for, although the receipt and the block
\* number may come from different nodes.
ReceiptIsDeep ==
  \A c \in Wait : pc[c] = "confirmed" =>
    /\ block # None /\ ~reverts
    /\ \E n \in Honest : height[n] >= block + Confirmations - 1

\* No call waits for ever, whatever the nodes do.
CallsEnd == \A c \in Call : <>(pc[c] \in Ended)
=============================================================================
