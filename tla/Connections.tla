----------------------------- MODULE Connections -----------------------------
(***************************************************************************)
(* What the pickers of loadbalance have in common: the ready connections   *)
(* a PickerBuilder was given, numbered as in the picker's slice, and the   *)
(* goroutines that call Pick.  One picker lives in a model: gRPC builds    *)
(* another, with all state new, whenever connections come or go.           *)
(***************************************************************************)
EXTENDS Integers

CONSTANTS
    NConns,   \* how many connections Build is given, at the most
    Callers   \* goroutines that pick and call, again and again

Conns == 1 .. NConns

ASSUME ConnsAssumption == NConns \in Nat
=============================================================================
