--------------------------- MODULE MC_EnergyRecovery ---------------------------
(* Two payments of one wallet, and one of another for an order of the first.  *)
EXTENDS EnergyRecovery, TLC

CONSTANTS orderA, orderB, w1, w2, s1, s2, s3

MCPayment == 1 .. 3
MCOrderOf == 1 :> orderA @@ 2 :> orderB @@ 3 :> orderB
MCWalletOf == 1 :> w1 @@ 2 :> w1 @@ 3 :> w2
MCSweptBy == s1 :> w1 @@ s2 :> w1 @@ s3 :> w2
=============================================================================
