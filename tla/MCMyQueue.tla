----------------------------- MODULE MCMyQueue -----------------------------
(* MyQueue for TLC: the symmetries that the runs without liveness use. *)
EXTENDS MyQueue, TLC

(* Nothing in MyQueue tells two users, two videos or two workers apart. *)
Symmetry == Permutations(Users) \cup Permutations(Videos) \cup Permutations(Workers)
=============================================================================
