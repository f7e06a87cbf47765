----------------------------- MODULE MCCommunity -----------------------------
(* Instances of Community for TLC: ann is a user without privileges, tom a  *)
(* Trusted User; the package bases are orphans.                             *)
EXTENDS Community, TLC

CONSTANTS ann, tom, foo, bar, baz, hello, bye, web, w1, w2

MCMaintainerOf == [b \in Bases |-> NULL]

(* Workers run the same code and no definition names a package base or a    *)
(* text; only safety is checked under this symmetry.                        *)
Symmetry == Permutations(Workers) \cup Permutations(Bases) \cup Permutations(Texts)
=============================================================================
