---- MODULE MCAccounts ----
(* An instance of Accounts for TLC: a Trusted User and an account to be.    *)
EXTENDS Accounts, TLC

CONSTANTS ann, tom, n1, n2, p1, p2, key1, key2, w1, w2

MCFounders == [u \in Users |->
    IF u = tom THEN [type |-> TrustedUser, name |-> n1, suspended |-> FALSE,
                     passwd |-> p1, resetKey |-> FALSE]
    ELSE [type |-> 0, name |-> NULL, suspended |-> FALSE, passwd |-> NULL,
          resetKey |-> FALSE]]

form(n, s, k, t, p) ==
    [name |-> n, suspended |-> s, key |-> k, type |-> t, passwd |-> p]

MCForms == {form(n2, FALSE, key1, 0, p2), form(n1, TRUE, key2, 3, NULL),
            form(n2, FALSE, NULL, 2, p1)}

WorkerSymmetry == Permutations(Workers)
====
