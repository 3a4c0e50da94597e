------------------------------- MODULE MCRpc -------------------------------
(* A small instance of Rpc for TLC: the callers p and q. *)
EXTENDS Rpc, TLC

CONSTANTS p, q
=============================================================================
