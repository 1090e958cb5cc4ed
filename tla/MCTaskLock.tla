------------------------------ MODULE MCTaskLock ------------------------------
(* TaskLock on a small set of interchangeable processes. *)
EXTENDS TaskLock, TLC

ProcSymmetry == Permutations(Procs)
===============================================================================
