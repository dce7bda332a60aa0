-------------------------------- MODULE MCRpc --------------------------------
(* Model-checking instance of the RPC framework by itself. *)
EXTENDS Rpc
=============================================================================
