----------------------------- MODULE MCMembers -----------------------------
(* Members for TLC: one seeded account. *)
EXTENDS Members, TLC

CONSTANTS seed, n1, n2, e1, e2

MCUsernames == {seed, n1, n2}
MCEmails == {seed, e1, e2}
MCSeeds == <<[username |-> seed, email |-> seed]>>

(* The names that are not seeded, and the workers, are interchangeable. *)
Symmetry == Permutations({n1, n2}) \cup Permutations({e1, e2}) \cup Permutations(Workers)
=============================================================================
