------------------------------ MODULE MCGitPush ------------------------------
(* Instances of GitPush for TLC.  tom is privileged.  foo1 and foo2 are two *)
(* versions of package base foo, the second with one more package, foo3 is  *)
(* another commit with the version of foo2, bad one the hook refuses; bar1  *)
(* is of bar, wants the package of foo1 and has a blacklisted name.         *)
EXTENDS GitPush, TLC

CONSTANTS ann, tom, foo, bar, app, lib, ban, foo1, foo2, foo3, bar1, bad, s1, s2

MCVersion == (foo1 :> 1 @@ foo2 :> 2 @@ bar1 :> 1 @@ foo3 :> 2 @@ bad :> 2)
MCNamesOf == (foo1 :> {app} @@ foo2 :> {app, lib} @@ bar1 :> {app, ban}
                @@ foo3 :> {app} @@ bad :> {app})
MCBaseOf == (foo1 :> foo @@ foo2 :> foo @@ bar1 :> bar @@ foo3 :> foo @@ bad :> foo)

MCVersionOf == [r \in Revisions |-> MCVersion[r]]
MCNames == [r \in Revisions |-> MCNamesOf[r]]
MCBase == [r \in Revisions |-> MCBaseOf[r]]

(* Of the histories of foo: a tip, another one, and two that extend the first. *)
FooHistories == {<<foo1>>, <<foo3>>, <<foo1, foo1>>, <<foo1, foo3>>}
ShortHistories == BoundedSeq(Revisions, 2) \ {<<>>}
UnmixedHistories == {h \in ShortHistories : BaseOf[Last(h)] = BaseOf[h[1]]}

(* Sessions run the same code; only safety is checked under this symmetry.  *)
SessionSymmetry == Permutations(Sessions)

=============================================================================
