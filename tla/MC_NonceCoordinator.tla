------------------------ MODULE MC_NonceCoordinator ------------------------
(* Five calls on two accounts; the first account is spelled in two ways.   *)
EXTENDS NonceCoordinator, TLC

CONSTANTS c1, c2, c3, c4, c5, checksummed, lower, other

MCCall == {c1, c2, c3, c4, c5}
MCAddress == {checksummed, lower, other}
MCKey == {lower, other}
MCLowerCase == [a \in MCAddress |-> IF a = checksummed THEN lower ELSE a]
MCAddressOf == c1 :> checksummed @@ c2 :> lower @@ c3 :> lower @@ c4 :> checksummed @@ c5 :> other
=============================================================================
