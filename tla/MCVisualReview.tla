---------------------------- MODULE MCVisualReview ----------------------------
(* VisualReview on interchangeable users, pids and commits. *)
EXTENDS VisualReview, TLC

Symmetry == Permutations(Users) \union Permutations(Pids) \union Permutations(Commits)
===============================================================================
