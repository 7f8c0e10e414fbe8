-------------------------- MODULE RpcClient_proofs --------------------------
(***************************************************************************)
(* Proofs about the RPC client, for any number of transports, attempts,    *)
(* calls and faults.                                                       *)
(*                                                                         *)
(* A lookup goes through the transports in order.  What makes its verdict  *)
(* good is that a transport it has passed either failed or did not hold the*)
(* transaction at that moment, and a node that did not is not among those  *)
(* that hold it since the lookup began (Passed).  A request of a wait goes  *)
(* through the transports in the same way (Exhausted), and what a receipt  *)
(* said stays true while the block number is asked for (Deep).             *)
(***************************************************************************)
EXTENDS RpcClient, TLAPS

Passed(c) ==
  /\ held[c] \subseteq pool
  /\ c \in Broadcast /\ pc[c] = "ask" /\ task[c] = "find" =>
       \A n \in held[c] : n < at[c] => n \in failed[c]
  /\ c \in Broadcast /\ pc[c] = "unavailable" => held[c] \subseteq failed[c]

Exhausted(c) ==
  c \in Wait =>
    /\ pc[c] = "ask" => \A n \in 1 .. MaxAttempts : n < at[c] => n \in failed[c]
    /\ pc[c] = "unavailable" => 1 .. MaxAttempts \subseteq failed[c]

IsMined == block # None /\ ~reverts
IsDeep == IsMined /\ \E n \in Honest : height[n] >= block + Confirmations - 1

Deep(c) ==
  c \in Wait =>
    /\ pc[c] = "ask" /\ task[c] = "height" => IsMined
    /\ pc[c] = "confirmed" => IsDeep

\* Each kind of call makes its own requests, and counts within its limit.
Kind(c) == /\ c \in Broadcast => /\ task[c] \in {"send", "find"} /\ tries[c] < MaxAttempts
                                 /\ pc[c] # "sleep"
           /\ c \in Wait => task[c] \in {"receipt", "height"} /\ tries[c] <= MaxPolls
                            /\ at[c] <= MaxAttempts

IInv == /\ TypeOK
        /\ \A c \in Call : Kind(c) /\ Passed(c) /\ Exhausted(c) /\ Deep(c)

Label == {"ask", "sleep"} \cup Ended
-----------------------------------------------------------------------------
(* A step of one call leaves the others alone.                             *)

CallTypes == /\ pc \in [Call -> Label]
             /\ task \in [Call -> {"send", "find", "receipt", "height"}]
             /\ at \in [Call -> Node]
             /\ tries \in [Call -> 0 .. MaxAttempts + MaxPolls]
             /\ failed \in [Call -> SUBSET Node]
             /\ held \in [Call -> SUBSET Honest]

Alone(c) == \A d \in Call \ {c} :
  /\ pc'[d] = pc[d] /\ task'[d] = task[d] /\ at'[d] = at[d]
  /\ tries'[d] = tries[d] /\ failed'[d] = failed[d] /\ held'[d] = held[d]

\* What a call does to its own state when it goes on or ends.
Good(c) == CallTypes' /\ Alone(c) /\ Kind(c)' /\ Passed(c)' /\ Exhausted(c)' /\ Deep(c)'

LEMMA LimitFacts == MaxAttempts \in Nat \ {0} /\ Transports \in Nat /\ MaxAttempts <= Transports
                    /\ MaxPolls \in Nat /\ MaxHeight \in Nat /\ MaxFaults \in Nat
BY TransportAssumption, PolicyAssumption, BoundAssumption

LEMMA StepKeeps ==
  ASSUME IInv, NEW c \in Call, Good(c), pool \subseteq pool',
         pool' \subseteq Honest, late' \subseteq Honest, faults' \in 0 .. MaxFaults,
         UNCHANGED <<wrong, height, block, reverts>>
  PROVE  IInv'
<1>1. TypeOK'
  BY DEF IInv, TypeOK, Good, CallTypes, Label, Honest
<1>2. ASSUME NEW d \in Call PROVE Kind(d)' /\ Passed(d)' /\ Exhausted(d)' /\ Deep(d)'
  <2>1. CASE d = c BY <2>1 DEF Good
  <2>2. CASE d # c
    <3>1. Kind(d)' /\ Passed(d)' BY <2>2 DEF Good, Alone, IInv, Kind, Passed
    <3>2. Exhausted(d)' BY <2>2 DEF Good, Alone, IInv, Exhausted
    <3>3. Deep(d)' BY <2>2 DEF Good, Alone, IInv, Deep, IsDeep, IsMined, Honest
    <3> QED BY <3>1, <3>2, <3>3
  <2> QED BY <2>1, <2>2
<1> QED BY <1>1, <1>2 DEF IInv

LEMMA EndGood ==
  ASSUME IInv, NEW c \in Call, NEW outcome \in Label \ {"ask", "unavailable"},
         End(c, outcome), pool \subseteq pool', wrong' = wrong, outcome = "sleep" => c \in Wait,
         outcome = "confirmed" => IsDeep'
  PROVE  Good(c)
<1>1. CallTypes' /\ Alone(c) /\ pc'[c] = outcome
  BY DEF End, IInv, TypeOK, CallTypes, Label, Alone, Honest
<1>2. Kind(c)' BY <1>1, CallAssumption DEF End, IInv, Kind
<1>3. Passed(c)' BY <1>1 DEF End, IInv, Passed
<1>4. Exhausted(c)' /\ Deep(c)' BY <1>1 DEF Exhausted, Deep
<1> QED BY <1>1, <1>2, <1>3, <1>4 DEF Good

LEMMA AddressTypes ==
  ASSUME TypeOK, NEW c \in Call, NEW t \in {"send", "find", "receipt", "height"},
         NEW n \in Node, Address(c, t, n)
  PROVE  /\ pc' \in [Call -> Label] /\ task' \in [Call -> {"send", "find", "receipt", "height"}]
         /\ at' \in [Call -> Node]
         /\ pc'[c] = "ask" /\ task'[c] = t /\ at'[c] = n
         /\ \A d \in Call \ {c} : pc'[d] = pc[d] /\ task'[d] = task[d] /\ at'[d] = at[d]
BY DEF TypeOK, Address, Label

\* A new round has passed nobody.
LEMMA BeginRoundGood ==
  ASSUME IInv, NEW c \in Call, NEW t, BeginRound(c, t, 1), pool' \subseteq Honest',
         wrong' = wrong,
         c \in Broadcast => t = "find" /\ UNCHANGED tries,
         c \in Wait => /\ t \in {"receipt", "height"}
                       /\ t = "height" => IsMined'
                       /\ tries' \in [Call -> 0 .. MaxAttempts + MaxPolls]
                       /\ tries'[c] <= MaxPolls
                       /\ \A d \in Call \ {c} : tries'[d] = tries[d]
  PROVE  Good(c)
<1>0. TypeOK /\ 1 \in Node /\ 1 <= MaxAttempts /\ Address(c, t, 1)
      /\ t \in {"send", "find", "receipt", "height"} /\ Honest' = Honest
  BY LimitFacts DEF IInv, Node, BeginRound, Call, Honest
<1>1. /\ pc' \in [Call -> Label] /\ task' \in [Call -> {"send", "find", "receipt", "height"}]
      /\ at' \in [Call -> Node]
      /\ pc'[c] = "ask" /\ task'[c] = t /\ at'[c] = 1
      /\ \A d \in Call \ {c} : pc'[d] = pc[d] /\ task'[d] = task[d] /\ at'[d] = at[d]
  BY <1>0, AddressTypes
<1>2. /\ failed' \in [Call -> SUBSET Node] /\ held' \in [Call -> SUBSET Honest]
      /\ held'[c] = pool'
      /\ \A d \in Call \ {c} : failed'[d] = failed[d] /\ held'[d] = held[d]
  BY <1>0 DEF BeginRound, TypeOK
<1>3. tries' \in [Call -> 0 .. MaxAttempts + MaxPolls] /\ \A d \in Call \ {c} : tries'[d] = tries[d]
  BY <1>0 DEF TypeOK, Call
<1>4. Kind(c)' BY <1>0, <1>1, CallAssumption DEF Kind, IInv
<1>5. Passed(c)'
  <2>1. \A n \in held'[c] : ~(n < 1) BY <1>2, LimitFacts DEF Node, Honest
  <2> QED BY <1>1, <1>2, <2>1 DEF Passed
<1>6. Exhausted(c)' /\ Deep(c)' BY <1>0, <1>1, LimitFacts DEF Exhausted, Deep
<1> QED BY <1>0, <1>1, <1>2, <1>3, <1>4, <1>5, <1>6 DEF Good, CallTypes, Alone

\* The lookup goes on past a transport that failed or does not hold it.
LEMMA NotFoundGood ==
  ASSUME IInv, NEW c \in Call, c \in Broadcast, pc[c] = "ask", task[c] = "find",
         NotFound(c), pool' = pool, wrong' = wrong,
         \/ Blame(c)
         \/ at[c] \notin pool /\ UNCHANGED failed
  PROVE  Good(c)
<1>0. TypeOK /\ Kind(c) /\ Passed(c) /\ Honest' = Honest /\ at[c] \in Node /\ held' = held
      /\ c \notin Wait /\ tries[c] \in Nat /\ tries[c] < MaxAttempts
  BY CallAssumption, LimitFacts DEF IInv, NotFound, Honest, TypeOK, Kind
<1>1. /\ failed' \in [Call -> SUBSET Node] /\ failed[c] \subseteq failed'[c]
      /\ \A d \in Call \ {c} : failed'[d] = failed[d]
      /\ at[c] \in held[c] => at[c] \in failed'[c]
  BY <1>0 DEF Blame, TypeOK, Passed
<1>2. \A n \in held[c] : n <= at[c] => n \in failed'[c]
  <2> SUFFICES ASSUME NEW n \in held[c], n <= at[c] PROVE n \in failed'[c] OBVIOUS
  <2>1. n \in Int /\ at[c] \in Int BY <1>0 DEF TypeOK, Honest, Node
  <2>2. CASE n < at[c] BY <1>0, <1>1, <2>2 DEF Passed
  <2>3. CASE n = at[c] BY <1>1, <2>3
  <2> QED BY <2>1, <2>2, <2>3
<1>3. CASE at[c] < Transports /\ Address(c, "find", at[c] + 1) /\ UNCHANGED tries
  <2>1. at[c] + 1 \in Node BY <1>0, <1>3, LimitFacts DEF Node
  <2>2. /\ pc' \in [Call -> Label] /\ task' \in [Call -> {"send", "find", "receipt", "height"}]
        /\ at' \in [Call -> Node]
        /\ pc'[c] = "ask" /\ task'[c] = "find" /\ at'[c] = at[c] + 1
        /\ \A d \in Call \ {c} : pc'[d] = pc[d] /\ task'[d] = task[d] /\ at'[d] = at[d]
    BY <1>0, <1>3, <2>1, AddressTypes
  <2>3. \A n \in held[c] : n < at[c] + 1 => n <= at[c]
    BY <1>0 DEF TypeOK, Honest, Node
  <2>4. Passed(c)' BY <1>0, <1>2, <2>2, <2>3 DEF Passed
  <2>5. Kind(c)' BY <1>0, <1>3, <2>2 DEF Kind
  <2> QED BY <1>0, <1>1, <1>3, <2>2, <2>4, <2>5 DEF Good, CallTypes, Alone, TypeOK, Exhausted, Deep
<1>4. CASE at[c] >= Transports /\ TryNext(c)
  <2>1. held[c] \subseteq failed'[c]
    <3>1. \A n \in held[c] : n <= at[c] BY <1>0, <1>4, LimitFacts DEF TypeOK, Honest, Node
    <3> QED BY <1>2, <3>1
  <2>2. CASE /\ tries[c] + 1 < MaxAttempts /\ Address(c, "send", tries[c] + 2)
             /\ tries' = [tries EXCEPT ![c] = @ + 1]
    <3>1. tries[c] + 2 \in Node BY <1>0, <2>2, LimitFacts DEF Node
    <3>2. /\ pc' \in [Call -> Label] /\ task' \in [Call -> {"send", "find", "receipt", "height"}]
          /\ at' \in [Call -> Node]
          /\ pc'[c] = "ask" /\ task'[c] = "send"
          /\ \A d \in Call \ {c} : pc'[d] = pc[d] /\ task'[d] = task[d] /\ at'[d] = at[d]
      BY <1>0, <2>2, <3>1, AddressTypes
    <3>3. /\ tries' \in [Call -> 0 .. MaxAttempts + MaxPolls] /\ tries'[c] < MaxAttempts
          /\ \A d \in Call \ {c} : tries'[d] = tries[d]
      BY <1>0, <2>2, LimitFacts DEF TypeOK
    <3>4. Passed(c)' /\ Kind(c)' BY <1>0, <3>2, <3>3 DEF Passed, Kind
    <3> QED BY <1>0, <1>1, <3>2, <3>3, <3>4 DEF Good, CallTypes, Alone, TypeOK, Exhausted, Deep
  <2>3. CASE pc' = [pc EXCEPT ![c] = "unavailable"] /\ UNCHANGED <<task, at, tries>>
    <3>1. pc' \in [Call -> Label] /\ pc'[c] = "unavailable" /\ \A d \in Call \ {c} : pc'[d] = pc[d]
      BY <1>0, <2>3 DEF TypeOK, Label, Ended
    <3>2. Passed(c)' /\ Kind(c)' BY <1>0, <2>1, <2>3, <3>1 DEF Passed, Kind
    <3> QED BY <1>0, <1>1, <2>3, <3>1, <3>2 DEF Good, CallTypes, Alone, TypeOK, Exhausted, Deep
  <2> QED BY <1>4, <2>2, <2>3 DEF TryNext
<1>5. at[c] < Transports \/ at[c] >= Transports BY <1>0, LimitFacts DEF Node
<1> QED BY <1>0, <1>3, <1>4, <1>5 DEF NotFound

LEMMA OtherTransportGood ==
  ASSUME IInv, NEW c \in Call, c \in Wait, OtherTransport(c), Blame(c),
         pc[c] = "ask", pool \subseteq pool', UNCHANGED <<wrong, block, reverts>>
  PROVE  Good(c)
<1>0. TypeOK /\ Kind(c) /\ Passed(c) /\ Honest' = Honest /\ at[c] \in Node
      /\ c \notin Broadcast /\ UNCHANGED <<tries, held>>
  BY CallAssumption DEF IInv, OtherTransport, Honest, TypeOK
<1>a. /\ at[c] \in failed'[c] /\ \A n \in 1 .. MaxAttempts : n < at[c] => n \in failed'[c]
      /\ task[c] = "height" => IsMined
  BY <1>0 DEF IInv, Exhausted, Deep, Blame, TypeOK
<1>1. failed' \in [Call -> SUBSET Node] /\ \A d \in Call \ {c} : failed'[d] = failed[d]
  BY <1>0 DEF Blame, TypeOK
<1>2. Passed(c)' BY <1>0 DEF Passed
<1>3. CASE at[c] < MaxAttempts /\ Address(c, task[c], at[c] + 1)
  <2>1. at[c] + 1 \in Node /\ at[c] + 1 <= MaxAttempts BY <1>0, <1>3, LimitFacts DEF Node
  <2>2. task[c] \in {"send", "find", "receipt", "height"} BY <1>0 DEF TypeOK
  <2>3. /\ pc' \in [Call -> Label] /\ task' \in [Call -> {"send", "find", "receipt", "height"}]
        /\ at' \in [Call -> Node]
        /\ pc'[c] = "ask" /\ task'[c] = task[c] /\ at'[c] = at[c] + 1
        /\ \A d \in Call \ {c} : pc'[d] = pc[d] /\ task'[d] = task[d] /\ at'[d] = at[d]
    BY <1>0, <1>3, <2>1, <2>2, AddressTypes
  <2>4. Kind(c)' BY <1>0, <2>1, <2>3 DEF Kind
  <2>5. Exhausted(c)'
    <3> SUFFICES ASSUME NEW n \in 1 .. MaxAttempts, n < at[c] + 1 PROVE n \in failed'[c]
      BY <2>3 DEF Exhausted
    <3>1. n = at[c] \/ n < at[c] BY <1>0, LimitFacts DEF Node
    <3> QED BY <1>a, <3>1
  <2>6. Deep(c)' BY <1>a, <1>0, <2>3 DEF Deep, IsMined
  <2> QED BY <1>0, <1>1, <1>2, <2>3, <2>4, <2>5, <2>6 DEF Good, CallTypes, Alone, TypeOK
<1>4. CASE at[c] >= MaxAttempts /\ pc' = [pc EXCEPT ![c] = "unavailable"] /\ UNCHANGED <<task, at>>
  <2>1. pc' \in [Call -> Label] /\ \A d \in Call \ {c} : pc'[d] = pc[d]
    BY <1>0, <1>4 DEF TypeOK, Label, Ended
  <2>2. Kind(c)' BY <1>0, <1>4 DEF Kind
  <2>3. Exhausted(c)'
    <3> SUFFICES ASSUME NEW n \in 1 .. MaxAttempts PROVE n \in failed'[c]
      BY <1>0, <1>4 DEF Exhausted, TypeOK
    <3>1. n = at[c] \/ n < at[c] BY <1>0, <1>4, LimitFacts DEF Node, Kind
    <3> QED BY <1>a, <3>1
  <2>4. Deep(c)' BY <1>0, <1>4 DEF Deep, TypeOK
  <2> QED BY <1>0, <1>1, <1>2, <1>4, <2>1, <2>2, <2>3, <2>4 DEF Good, CallTypes, Alone, TypeOK
<1>5. at[c] < MaxAttempts \/ at[c] >= MaxAttempts BY <1>0, LimitFacts DEF Node
<1> QED BY <1>3, <1>4, <1>5 DEF OtherTransport

\* A lookup changes nothing on the network; only a broadcast that was sent may.
LEMMA CaughtGood ==
  ASSUME IInv, NEW c \in Call, pc[c] = "ask", Caught(c), UNCHANGED <<wrong, block, reverts>>,
         pool \subseteq pool', pool' \subseteq Honest, task[c] # "send" => pool' = pool
  PROVE  Good(c)
<1>0. TypeOK /\ Kind(c) /\ Honest' = Honest BY DEF IInv, Honest
<1>1. CASE task[c] = "send" /\ BeginRound(c, "find", 1) /\ UNCHANGED tries
  <2>1. c \in Broadcast /\ c \notin Wait BY <1>0, <1>1, CallAssumption DEF Kind, Call
  <2> QED BY <1>0, <1>1, <2>1, BeginRoundGood
<1>2. CASE task[c] = "find" /\ NotFound(c) /\ Blame(c)
  <2>1. c \in Broadcast BY <1>0, <1>2 DEF Kind, Call
  <2> QED BY <1>2, <2>1, NotFoundGood
<1>3. CASE task[c] \in {"receipt", "height"} /\ OtherTransport(c) /\ Blame(c)
  <2>1. c \in Wait BY <1>0, <1>3 DEF Kind, Call
  <2> QED BY <1>3, <2>1, OtherTransportGood
<1> QED BY <1>1, <1>2, <1>3 DEF Caught
-----------------------------------------------------------------------------
LEMMA FaultType == ASSUME IInv PROVE faults \in 0 .. MaxFaults /\ (Fault => faults' \in 0 .. MaxFaults)
BY LimitFacts DEF IInv, TypeOK, Fault

\* Every step of a call is one of the above, and hurts no node.
LEMMA CallStepKeeps ==
  ASSUME IInv, NEW c \in Call, Step(c)
  PROVE  IInv'
<1>0. TypeOK /\ Kind(c) /\ Passed(c) /\ pool \subseteq Honest /\ late \subseteq Honest
  BY DEF IInv, TypeOK
<1>a. Ended \ {"unavailable"} \subseteq Label \ {"ask", "unavailable"}
      /\ "sleep" \in Label \ {"ask", "unavailable"}
  BY DEF Label, Ended
<1>1. CASE Mismatch(c)
  <2>1. UNCHANGED <<network, faults>> BY <1>1 DEF Mismatch
  <2>2. CASE Caught(c)
    <3>1. Good(c) BY <1>0, <1>1, <2>1, <2>2, CaughtGood DEF Mismatch, network
    <3> QED BY <1>0, <2>1, <3>1, FaultType, StepKeeps DEF network
  <2>3. CASE End(c, "mismatch")
    <3>1. Good(c) BY <1>a, <2>1, <2>3, EndGood DEF network, Ended
    <3> QED BY <1>0, <2>1, <3>1, FaultType, StepKeeps DEF network
  <2> QED BY <1>1, <2>2, <2>3 DEF Mismatch
<1>2. CASE Fails(c)
  <2>1. Good(c) BY <1>0, <1>2, CaughtGood DEF Fails, network
  <2> QED BY <1>0, <1>2, <2>1, FaultType, StepKeeps DEF Fails, network
<1>3. CASE Sent(c)
  <2>1. pool \subseteq pool' /\ pool' \subseteq Honest BY <1>0, <1>3 DEF Sent, Asks
  <2>2. Good(c) BY <1>a, <1>3, <2>1, EndGood DEF Sent, Ended
  <2> QED BY <1>0, <1>3, <2>1, <2>2, FaultType, StepKeeps DEF Sent
<1>4. CASE Refused(c)
  <2>1. Good(c) BY <1>0, <1>4, CaughtGood DEF Refused, Asks, network
  <2> QED BY <1>0, <1>4, <2>1, FaultType, StepKeeps DEF Refused, network
<1>5. CASE SendFails(c)
  <2>1. pool \subseteq pool' /\ pool' \subseteq Honest /\ late' \subseteq Honest
    BY <1>0, <1>5 DEF SendFails, Asks
  <2>2. Good(c) BY <1>0, <1>5, <2>1, CaughtGood DEF SendFails, Asks
  <2> QED BY <1>5, <2>1, <2>2, FaultType, StepKeeps DEF SendFails
<1>6. CASE Find(c)
  <2>1. UNCHANGED <<network, faults>> /\ pc[c] = "ask" /\ task[c] = "find" BY <1>6 DEF Find, Asks
  <2>2. Good(c)
    <3>1. CASE End(c, "sent") BY <1>a, <2>1, <3>1, EndGood DEF network, Ended
    <3>2. CASE at[c] \notin pool /\ NotFound(c) /\ UNCHANGED failed
      <4>1. c \in Broadcast BY <1>0, <2>1 DEF Kind, Call
      <4> QED BY <2>1, <3>2, <4>1, NotFoundGood DEF network
    <3> QED BY <1>6, <3>1, <3>2 DEF Find
  <2> QED BY <1>0, <2>1, <2>2, FaultType, StepKeeps DEF network
<1>7. CASE Receipt(c)
  <2>1. UNCHANGED <<network, faults>> /\ task[c] = "receipt" /\ c \in Wait
    BY <1>0, <1>7 DEF Receipt, Asks, Kind, Call
  <2>2. Good(c)
    <3>1. CASE Sleep(c) \/ End(c, "reverted")
      BY <1>a, <2>1, <3>1, EndGood DEF network, Ended, Sleep
    <3>2. CASE block # None /\ ~reverts /\ BeginRound(c, "height", 1) /\ UNCHANGED tries
      <4>1. c \in Wait /\ c \notin Broadcast BY <1>0, <2>1, CallAssumption DEF Kind, Call
      <4>2. tries \in [Call -> 0 .. MaxAttempts + MaxPolls] /\ tries[c] <= MaxPolls
        BY <1>0, <4>1 DEF TypeOK, Kind
      <4>3. pool' \subseteq Honest' /\ wrong' = wrong BY <1>0, <2>1 DEF network, Honest
      <4>4. IsMined' BY <2>1, <3>2 DEF IsMined, network
      <4> QED BY <3>2, <4>1, <4>2, <4>3, <4>4, BeginRoundGood
    <3> QED BY <1>7, <3>1, <3>2 DEF Receipt
  <2> QED BY <1>0, <2>1, <2>2, FaultType, StepKeeps DEF network
<1>8. CASE Height(c)
  <2>1. UNCHANGED <<network, faults>> /\ c \in Wait
    BY <1>0, <1>8 DEF Height, Asks, Kind, Call
  <2>2. IsMined BY <1>8, <2>1 DEF Height, Asks, IInv, Deep, Call
  <2>3. Good(c)
    <3>1. CASE Sleep(c) BY <1>a, <2>1, <3>1, EndGood DEF network, Sleep
    <3>2. CASE height[at[c]] >= block + Confirmations - 1 /\ End(c, "confirmed")
      <4>1. IsDeep /\ IsDeep' BY <1>8, <2>1, <2>2, <3>2 DEF IsDeep, IsMined, Height, Asks, network, Honest
      <4> QED BY <1>a, <2>1, <3>2, <4>1, EndGood DEF network, Ended
    <3> QED BY <1>8, <3>1, <3>2 DEF Height
  <2> QED BY <1>0, <2>1, <2>3, FaultType, StepKeeps DEF network
<1>9. CASE Malformed(c)
  <2>1. Good(c) BY <1>a, <1>9, EndGood DEF Malformed, network, Ended
  <2> QED BY <1>0, <1>9, <2>1, FaultType, StepKeeps DEF Malformed, network
<1>10. CASE Wake(c)
  <2>1. UNCHANGED <<network, faults>> BY <1>10 DEF Wake
  <2>2. Good(c)
    <3>1. CASE End(c, "timeout") BY <1>a, <2>1, <3>1, EndGood DEF network, Ended
    <3>2. CASE /\ tries[c] < MaxPolls /\ tries' = [tries EXCEPT ![c] = @ + 1]
               /\ BeginRound(c, "receipt", 1)
      <4>1. c \in Wait /\ c \notin Broadcast
        BY <1>0, <1>10, CallAssumption DEF Wake, Kind, Call
      <4>2. /\ tries' \in [Call -> 0 .. MaxAttempts + MaxPolls] /\ tries'[c] <= MaxPolls
            /\ \A d \in Call \ {c} : tries'[d] = tries[d]
        BY <1>0, <3>2, LimitFacts DEF TypeOK
      <4>3. pool' \subseteq Honest' /\ wrong' = wrong BY <1>0, <2>1 DEF network, Honest
      <4> QED BY <3>2, <4>1, <4>2, <4>3, BeginRoundGood
    <3> QED BY <1>10, <3>1, <3>2 DEF Wake
  <2> QED BY <1>0, <2>1, <2>2, FaultType, StepKeeps DEF network
<1> QED BY <1>1, <1>2, <1>3, <1>4, <1>5, <1>6, <1>7, <1>8, <1>9, <1>10 DEF Step

\* What the network does to the nodes, no call notices.
LEMMA NodesKeep ==
  ASSUME IInv, UNCHANGED <<wrong, calls, failed, faults>>,
         pool' \subseteq Honest, late' \subseteq Honest,
         height' \in [Node -> 0 .. MaxHeight], block' \in 0 .. MaxHeight, reverts' \in BOOLEAN,
         held' \in [Call -> SUBSET Honest], IsMined => IsMined', IsDeep => IsDeep',
         \A c \in Call : held'[c] \subseteq held[c] /\ held'[c] \subseteq pool'
  PROVE  IInv'
<1>1. TypeOK' BY DEF IInv, TypeOK, calls, Honest
<1>2. ASSUME NEW c \in Call PROVE Kind(c)' /\ Passed(c)' /\ Exhausted(c)' /\ Deep(c)'
  <2>1. Kind(c)' /\ Passed(c)' BY DEF IInv, Kind, Passed, calls
  <2>2. Exhausted(c)' BY DEF IInv, Exhausted, calls
  <2>3. Deep(c)' BY DEF IInv, Deep, calls
  <2> QED BY <2>1, <2>2, <2>3
<1> QED BY <1>1, <1>2 DEF IInv

LEMMA NetworkKeeps ==
  ASSUME IInv, Mine \/ \E n \in Node : Spread(n) \/ Evict(n) \/ Grow(n)
  PROVE  IInv'
<1>0. TypeOK /\ \A c \in Call : held[c] \subseteq pool BY DEF IInv, Passed
<1>1. CASE Mine
  <2>1. block' \in 0 .. MaxHeight BY <1>1, LimitFacts DEF Mine
  <2> QED BY <1>0, <1>1, <2>1, NodesKeep DEF Mine, TypeOK, IsMined, IsDeep
<1>2. ASSUME NEW n \in Node, Spread(n) PROVE IInv'
  <2>1. n \in Honest BY <1>0, <1>2 DEF Spread, TypeOK
  <2> QED BY <1>0, <1>2, <2>1, NodesKeep DEF Spread, TypeOK, IsMined, IsDeep, Honest
<1>3. ASSUME NEW n \in Node, Evict(n) PROVE IInv'
  <2>1. held' \in [Call -> SUBSET Honest]
        /\ \A c \in Call : held'[c] \subseteq held[c] /\ held'[c] \subseteq pool'
    BY <1>0, <1>3 DEF Evict, TypeOK
  <2> QED BY <1>0, <1>3, <2>1, NodesKeep DEF Evict, TypeOK, IsMined, IsDeep, Honest
<1>4. ASSUME NEW n \in Node, Grow(n) PROVE IInv'
  <2>1. height' \in [Node -> 0 .. MaxHeight] BY <1>0, <1>4, LimitFacts DEF Grow, TypeOK
  <2>2. pool \subseteq pool' /\ pool' \subseteq Honest
    BY <1>0, <1>4, LimitFacts DEF Grow, TypeOK, Honest
  <2>3. IsDeep => IsDeep'
    <3> SUFFICES ASSUME NEW m \in Honest, height[m] >= block + Confirmations - 1
                 PROVE  height'[m] >= block + Confirmations - 1
      BY <1>4 DEF Grow, IsDeep, IsMined, Honest
    <3>1. height[m] \in Nat /\ height'[m] \in Nat /\ height'[m] >= height[m]
      BY <1>0, <1>4, LimitFacts DEF Grow, TypeOK, Honest
    <3> QED BY <1>0, <3>1, PolicyAssumption DEF TypeOK
  <2> QED BY <1>0, <1>4, <2>1, <2>2, <2>3, NodesKeep DEF Grow, TypeOK, IsMined
<1> QED BY <1>1, <1>2, <1>3, <1>4

LEMMA InitEstablishes == Init => IInv
<1> SUFFICES ASSUME Init PROVE IInv OBVIOUS
<1>1. TypeOK
  <2>1. 1 \in Node /\ 0 \in 0 .. MaxHeight /\ MaxHeight \in 0 .. MaxHeight
        /\ 0 \in 0 .. MaxAttempts + MaxPolls /\ 0 \in 0 .. MaxFaults
    BY LimitFacts DEF Node
  <2> QED BY <2>1 DEF Init, TypeOK, None
<1>2. ASSUME NEW c \in Call PROVE Kind(c) /\ Passed(c) /\ Exhausted(c) /\ Deep(c)
  BY <1>2, LimitFacts, CallAssumption DEF Init, Kind, Passed, Exhausted, Deep, Call
<1> QED BY <1>1, <1>2 DEF IInv

LEMMA Inductive == IInv /\ [Next]_vars => IInv'
<1> SUFFICES ASSUME IInv, [Next]_vars PROVE IInv' OBVIOUS
<1>1. ASSUME NEW c \in Call, Step(c) PROVE IInv' BY <1>1, CallStepKeeps
<1>2. CASE Mine \/ \E n \in Node : Spread(n) \/ Evict(n) \/ Grow(n) BY <1>2, NetworkKeeps
<1>3. CASE UNCHANGED vars
  BY <1>3 DEF vars, network, calls, IInv, TypeOK, Kind, Passed, Exhausted, Deep, IsDeep,
                  IsMined, Honest
<1> QED BY <1>1, <1>2, <1>3 DEF Next

\* The client's state keeps to its types: in particular no signed transaction
\* is given to a node that serves another chain.
THEOREM TypeCorrect == Spec => []TypeOK
<1>1. IInv => TypeOK BY DEF IInv
<1> QED BY <1>1, InitEstablishes, Inductive, PTL DEF Spec

\* Idempotent broadcast recovery, however many transports, attempts and faults:
\* a broadcast is reported as not observed only if every node that held the
\* transaction all through the last lookup failed to answer it.
THEOREM KnownTransactionsAreFound == Spec => []KnownIsFound
<1>1. IInv => KnownIsFound BY DEF IInv, Passed, KnownIsFound, Call
<1> QED BY <1>1, InitEstablishes, Inductive, PTL DEF Spec

\* A wait gives up for want of an answer only after all the transports of one
\* of its requests failed.
THEOREM FailOverReachesAll == Spec => []FailOverIsComplete
<1>1. IInv => FailOverIsComplete BY DEF IInv, Exhausted, FailOverIsComplete, Call
<1> QED BY <1>1, InitEstablishes, Inductive, PTL DEF Spec

\* A returned receipt has its confirmations on a node of the right chain.
THEOREM ReceiptsAreDeep == Spec => []ReceiptIsDeep
<1>1. IInv => ReceiptIsDeep BY DEF IInv, Deep, IsDeep, IsMined, ReceiptIsDeep, Call
<1> QED BY <1>1, InitEstablishes, Inductive, PTL DEF Spec
=============================================================================
