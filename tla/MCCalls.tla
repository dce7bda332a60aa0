-------------------------------- MODULE MCCalls --------------------------------
(* Model-checking instance of ClientCalls. *)
EXTENDS ClientCalls
=============================================================================
