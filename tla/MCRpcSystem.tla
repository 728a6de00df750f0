---------------------------- MODULE MCRpcSystem ----------------------------
(* Model-checking instances of RpcSystem.  Clients are interchangeable:    *)
(* nothing in the endpoints depends on which client is meant.              *)
EXTENDS RpcSystem, TLC

ClientSymmetry == Permutations(Clients)
=============================================================================
