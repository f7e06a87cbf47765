------------------------------ MODULE Lifecycle ------------------------------
(***************************************************************************)
(* What the web server promises of the disappearance of package bases,     *)
(* whatever its handlers do to get there: requests go into a ledger that   *)
(* is only appended to, a request that was decided stays decided, and a    *)
(* package base goes only when a request to remove it has been decided.    *)
(* PkgBase, Community and Notifications implement this.                    *)
(***************************************************************************)
EXTENDS Naturals, Sequences

CONSTANTS Users, Bases

VARIABLES live,    \* the package bases there are
          ledger   \* the requests ever filed

Removals == {"deletion", "merge"}

Entry(t, b, u) == [type |-> t, name |-> b, by |-> u, decided |-> FALSE]

Init == /\ live = Bases
        /\ ledger = <<>>

(* User u requests something of a package base.                             *)
File(t, b, u) ==
    /\ b \in live
    /\ ledger' = Append(ledger, Entry(t, b, u))
    /\ UNCHANGED live

(* Requests are decided, perhaps not for the first time.                    *)
Decide(S) ==
    /\ ledger' = [i \in DOMAIN ledger |->
                     IF i \in S THEN [ledger[i] EXCEPT !.decided = TRUE]
                     ELSE ledger[i]]
    /\ UNCHANGED live

Warrants(i, b) == /\ ledger[i].name = b
                  /\ ledger[i].type \in Removals
                  /\ ledger[i].decided

Remove(b) ==
    /\ b \in live
    /\ \E i \in DOMAIN ledger : Warrants(i, b)
    /\ live' = live \ {b}
    /\ UNCHANGED ledger

Next ==
    \/ \E t \in Removals \cup {"orphan"}, b \in Bases, u \in Users : File(t, b, u)
    \/ \E S \in SUBSET DOMAIN ledger : Decide(S)
    \/ \E b \in Bases : Remove(b)

Spec == Init /\ [][Next]_<<live, ledger>>
=============================================================================
