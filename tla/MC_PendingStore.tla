-------------------------- MODULE MC_PendingStore ---------------------------
(* Small instances of the pending-transaction store.                       *)
EXTENDS PendingStore
=============================================================================
