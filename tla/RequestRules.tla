---------------------------- MODULE RequestRules ----------------------------
(***************************************************************************)
(* The rules of aurweb/packages/requests.py as operators on the table      *)
(* PackageRequests.  The table is a sequence indexed by the auto-increment *)
(* ID; rows are never removed.  A row keeps the columns the rules look at: *)
(*                                                                         *)
(*   type     ReqTypeID                                                    *)
(*   base     PackageBaseID; NULL once the package base has been deleted   *)
(*   name     PackageBaseName, which survives the package base             *)
(*   into     MergeBaseName                                                *)
(*   by       UsersID, who filed the request                               *)
(*   ts       RequestTS                                                    *)
(*   status   Status                                                       *)
(*   closure  ClosureComment: none, a text of ClosureFactory or a text     *)
(*            typed by a person                                            *)
(*   closed   whether Closer and ClosedTS were filled in (always together) *)
(***************************************************************************)
EXTENDS Integers, Sequences

CONSTANTS Users, Bases, NULL, IdleTime

ASSUME NULLAssumption == NULL \notin Users \cup Bases
ASSUME IdleTimeAssumption == IdleTime \in Nat

Types == {"deletion", "orphan", "merge"}
Statuses == {"Pending", "Closed", "Accepted", "Rejected"}

Request == [type : Types, base : Bases \cup {NULL}, name : Bases,
            into : Bases \cup {NULL}, by : Users, ts : Nat,
            status : Statuses, closure : {"none", "auto", "user"},
            closed : BOOLEAN]

(* Mutant: PackageBaseName is left to the foreign key.                      *)
NewNamelessRequest(t, b, into, u, now) ==
    [type |-> t, base |-> b, name |-> NULL, into |-> into, by |-> u, ts |-> now,
     status |-> "Pending", closure |-> "none", closed |-> FALSE]

(* A row as PackageRequest's constructor and the defaults of the table      *)
(* leave it.                                                                *)
NewRequest(t, b, into, u, now) ==
    [type |-> t, base |-> b, name |-> b, into |-> into, by |-> u, ts |-> now,
     status |-> "Pending", closure |-> "none", closed |-> FALSE]

(* The pending requests of type t about the existing package base b. *)
PendingIds(reqs, t, b) ==
    {i \in DOMAIN reqs : /\ reqs[i].base = b
                         /\ reqs[i].type = t
                         /\ reqs[i].status = "Pending"}

(* update_closure_comment, called with a non-empty text. *)
UpdateClosureComment(reqs, t, b, into) ==
    [i \in DOMAIN reqs |->
        IF i \in PendingIds(reqs, t, b) /\ (t = "merge" => reqs[i].into = into)
        THEN [reqs[i] EXCEPT !.closure = "user"]
        ELSE reqs[i]]

VerifyOrphanRequest(reqs, b, now) ==
    \E i \in PendingIds(reqs, "orphan", b) : now - reqs[i].ts > IdleTime

ToAccept(reqs, t, b, into) ==
    {i \in PendingIds(reqs, t, b) : into # NULL => reqs[i].into = into}

ToReject(reqs, t, b, into) ==
    PendingIds(reqs, t, b) \ ToAccept(reqs, t, b, into)

(* close_pkgreq on the rows ids.  A text of ClosureFactory is written where *)
(* the row was loaded without one (blank); otherwise the attribute is       *)
(* assigned the value it was loaded with, which writes nothing.             *)
ClosePkgreq(reqs, ids, blank, status) ==
    [i \in DOMAIN reqs |->
        IF i \in ids
        THEN [reqs[i] EXCEPT !.status = status, !.closed = TRUE,
                             !.closure = IF i \in blank THEN "auto" ELSE @]
        ELSE reqs[i]]

Blank(reqs, ids) == {i \in ids : reqs[i].closure = "none"}

(* Mutant: ondelete is CASCADE, as it is of the tables beside.              *)
DropRequests(reqs, b) ==
    LET Other(r) == r.base # b IN SelectSeq(reqs, Other)

(* DELETE on the package base sets the foreign key of its requests to NULL. *)
DetachRequests(reqs, b) ==
    [i \in DOMAIN reqs |->
        IF reqs[i].base = b THEN [reqs[i] EXCEPT !.base = NULL] ELSE reqs[i]]

(* What of a table of requests is a promise to those who filed them, the    *)
(* ledger of Lifecycle.                                                     *)
LedgerOf(reqs) ==
    [i \in DOMAIN reqs |->
        [type |-> reqs[i].type, name |-> reqs[i].name, by |-> reqs[i].by,
         decided |-> reqs[i].status # "Pending"]]
=============================================================================
