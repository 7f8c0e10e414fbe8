------------------------------ MODULE MC_AppLock ------------------------------
(* One PIN of four digits and two of six.                                     *)
EXTENDS AppLock

CONSTANTS pin4, a, b
=============================================================================
