------------------------------ MODULE MCPkgBase ------------------------------
(* Instances of PkgBase for TLC: ann and bob are users without privileges,  *)
(* tom is a Trusted User.                                                   *)
EXTENDS PkgBase, TLC

CONSTANTS ann, bob, tom, foo, w1, w2

(* Workers run the same code; only safety is checked under this symmetry.   *)
WorkerSymmetry == Permutations(Workers)

(* So are users without privileges: no definition names one of them.        *)
UserSymmetry == Permutations(Users \ TrustedUsers)

=============================================================================
