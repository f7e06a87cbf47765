------------------------------ MODULE MCTUVotes ------------------------------
(* Instances of TUVotes for TLC. *)
EXTENDS TUVotes, TLC

CONSTANTS ann, bob, tom, w1, w2

(* No definition names a user or a worker. *)
AllSymmetry == Permutations(Users) \cup Permutations(Workers)
=============================================================================
