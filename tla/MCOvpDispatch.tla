----------------------------- MODULE MCOvpDispatch -----------------------------
(* OvpDispatch on one task; its dispatchers are interchangeable. *)
EXTENDS OvpDispatch, TLC

DispatcherSymmetry == Permutations(Dispatchers)
===============================================================================
