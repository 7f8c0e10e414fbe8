---------------------------- MODULE MC_RpcClient ----------------------------
(* A small instance of the RPC client.                                     *)
EXTENDS RpcClient
=============================================================================
