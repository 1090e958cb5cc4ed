----------------------------- MODULE MCOvpRuntime -----------------------------
(* OvpRuntime on few tasks and commits; tasks are interchangeable. *)
EXTENDS OvpRuntimeInv, TLC

TaskSymmetry == Permutations(Tasks)
===============================================================================
