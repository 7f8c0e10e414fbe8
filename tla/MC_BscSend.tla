----------------------------- MODULE MC_BscSend -----------------------------
(* Small instances of the send service.                                    *)
EXTENDS BscSend, TLC

CONSTANTS o1, o2, q1, q2, toAnn, orderA, orderB

MCOrder == {orderA, orderB}

\* One payment, for an energy order.
OnePayment == q1 :> toAnn
ForOrder == q1 :> orderA

\* The same payment quoted twice, each time for another energy order.
SamePayment == q1 :> toAnn @@ q2 :> toAnn
TwoOrders == q1 :> orderA @@ q2 :> orderB

SymmetricOps == Permutations(Op)
=============================================================================
