---------------------------- MODULE MCNotifications ----------------------------
(* Small instances of Notifications. *)
EXTENDS Notifications, TLC

CONSTANTS ann, tom, foo, w1, w2

MCMaintainerOf == foo :> ann
MCWatchers == foo :> {ann}

(* Workers run the same code; only safety is checked under this symmetry.   *)
WorkerSymmetry == Permutations(Workers)
=============================================================================
