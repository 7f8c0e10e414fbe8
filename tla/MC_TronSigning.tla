--------------------------- MODULE MC_TronSigning ---------------------------
(* Account k2 pays alone; account k1 needs both keys, an update after which   *)
(* it may transfer tokens alone is drafted, and others come from elsewhere.   *)
EXTENDS TronSigning, TLC

CONSTANTS k1, k2, trx, trc20, good, double, heavy, twice

Key(address, weight) == [address |-> address, weight |-> weight]
Permission(type, threshold, keys, types) ==
  [type |-> type, parent |-> 0, threshold |-> threshold, keys |-> keys,
   operations |-> IF types = {} THEN <<>> ELSE encodeOperations(types)]
Owner(threshold, keys) == Permission(0, threshold, keys, {})
Active(threshold, keys, types) == Permission(2, threshold, keys, types)
Structure(owner, actives) == [owner |-> owner, actives |-> actives]

Both == <<Key(k1, 1), Key(k2, 1)>>
Tokens == {TriggerSmartContract}

MCStructures ==
  [k \in {k1, k2} |->
     IF k = k1 THEN Structure(Owner(2, Both), <<Active(2, Both, Tokens)>>)
               ELSE Structure(Owner(1, <<Key(k2, 1)>>), <<>>)]

MCTokenOf == trx :> "trx" @@ trc20 :> "trc20"
MCAccountOf == [x \in Effects |-> IF x \in {trx, twice} THEN k2 ELSE k1]
MCIdOf == [x \in Effects |-> IF x = trc20 THEN 2 ELSE 0]

\* The draft is in order.  Of the updates from elsewhere one lists a key twice, the other has a
\* threshold that its keys do not reach.
Twice(k) == Structure(Owner(2, <<Key(k, 1), Key(k, 1)>>), <<>>)
MCStructureOf ==
  good :> Structure(Owner(2, <<Key(k2, 2), Key(k1, 1)>>), <<Active(1, <<Key(k1, 1)>>, Tokens)>>)
  @@ double :> Twice(k1) @@ twice :> Twice(k2) @@ heavy :> Structure(Owner(3, Both), <<>>)
=============================================================================
