------------------------- MODULE RequestRulesProofs -------------------------
(* Lemmas about the rules of RequestRules: each keeps a table of requests a *)
(* table of requests, and none takes away what is known of a row.           *)
EXTENDS RequestRules, TLAPS, SequenceTheorems

(* A table of requests stays a sequence when its rows are rewritten.        *)
LEMMA RewriteType ==
    ASSUME NEW S, NEW s \in Seq(S), NEW t,
           t = [i \in DOMAIN s |-> t[i]],
           \A i \in DOMAIN s : t[i] \in S
    PROVE  t \in Seq(S) /\ Len(t) = Len(s) /\ DOMAIN t = DOMAIN s
<1>1. DOMAIN s = 1 .. Len(s) /\ Len(s) \in Nat
  BY LenProperties
<1>2. t \in [1 .. Len(s) -> S]
  BY <1>1
<1>3. t \in Seq(S)
  BY <1>1, <1>2
<1> QED
  BY <1>1, <1>2, <1>3, LenProperties

-----------------------------------------------------------------------------
(* The rules of RequestRules keep a table of requests a table of requests.  *)

LEMMA NewRequestType ==
    ASSUME NEW t \in Types, NEW b \in Bases, NEW into \in Bases \cup {NULL},
           NEW u \in Users, NEW at \in Nat
    PROVE  NewRequest(t, b, into, u, at) \in Request
BY DEF NewRequest, Request, Statuses

LEMMA UpdateClosureCommentType ==
    ASSUME NEW s \in Seq(Request), NEW t, NEW b, NEW into
    PROVE  /\ UpdateClosureComment(s, t, b, into) \in Seq(Request)
           /\ DOMAIN UpdateClosureComment(s, t, b, into) = DOMAIN s
<1> DEFINE new == UpdateClosureComment(s, t, b, into)
<1>1. \A i \in DOMAIN s : s[i] \in Request
  BY LenProperties
<1>2. \A i \in DOMAIN s : new[i] \in Request
  BY <1>1 DEF UpdateClosureComment, Request
<1>3. new = [i \in DOMAIN s |-> new[i]]
  BY DEF UpdateClosureComment
<1> HIDE DEF new
<1> QED
  BY <1>2, <1>3, RewriteType DEF new

LEMMA ClosePkgreqType ==
    ASSUME NEW s \in Seq(Request), NEW ids, NEW blank, NEW status \in Statuses
    PROVE  /\ ClosePkgreq(s, ids, blank, status) \in Seq(Request)
           /\ DOMAIN ClosePkgreq(s, ids, blank, status) = DOMAIN s
<1> DEFINE new == ClosePkgreq(s, ids, blank, status)
<1>1. \A i \in DOMAIN s : s[i] \in Request
  BY LenProperties
<1>2. \A i \in DOMAIN s : new[i] \in Request
  BY <1>1 DEF ClosePkgreq, Request
<1>3. new = [i \in DOMAIN s |-> new[i]]
  BY DEF ClosePkgreq
<1> HIDE DEF new
<1> QED
  BY <1>2, <1>3, RewriteType DEF new

LEMMA DetachRequestsType ==
    ASSUME NEW s \in Seq(Request), NEW b
    PROVE  /\ DetachRequests(s, b) \in Seq(Request)
           /\ DOMAIN DetachRequests(s, b) = DOMAIN s
<1> DEFINE new == DetachRequests(s, b)
<1>1. \A i \in DOMAIN s : s[i] \in Request
  BY LenProperties
<1>2. \A i \in DOMAIN s : new[i] \in Request
  BY <1>1 DEF DetachRequests, Request
<1>3. new = [i \in DOMAIN s |-> new[i]]
  BY DEF DetachRequests
<1> HIDE DEF new
<1> QED
  BY <1>2, <1>3, RewriteType DEF new

(* A step that writes nothing but the status of some rows.                  *)
LEMMA StatusWriteType ==
    ASSUME NEW s \in Seq(Request), NEW ids, NEW status \in Statuses, NEW new,
           new = [i \in DOMAIN s |-> IF i \in ids THEN [s[i] EXCEPT !.status = status]
                                     ELSE s[i]]
    PROVE  new \in Seq(Request) /\ DOMAIN new = DOMAIN s
<1>1. \A i \in DOMAIN s : s[i] \in Request
  BY LenProperties
<1>2. \A i \in DOMAIN s : new[i] \in Request
  BY <1>1 DEF Request
<1>3. new = [i \in DOMAIN s |-> new[i]]
  OBVIOUS
<1> QED
  BY <1>2, <1>3, RewriteType

LEMMA PendingIdsType ==
    ASSUME NEW s \in Seq(Request), NEW t, NEW b
    PROVE  PendingIds(s, t, b) \in SUBSET Nat
BY LenProperties DEF PendingIds

LEMMA AppendRequest ==
    ASSUME NEW s \in Seq(Request), NEW r \in Request
    PROVE  /\ Append(s, r) \in Seq(Request)
           /\ Len(s) + 1 \in Nat
           /\ DOMAIN Append(s, r) = DOMAIN s \cup {Len(s) + 1}
           /\ Append(s, r)[Len(s) + 1] = r
           /\ \A i \in DOMAIN s : Append(s, r)[i] = s[i]
           /\ Len(s) + 1 \notin DOMAIN s
BY AppendProperties, LenProperties

-----------------------------------------------------------------------------
(* What a rule does not do to a row: take it, its type, target, name or      *)
(* author away, move it to another package base, or open it again.            *)
KeepsRows(s, t) ==
    \A i \in DOMAIN s :
        /\ i \in DOMAIN t
        /\ t[i].type = s[i].type /\ t[i].name = s[i].name
        /\ t[i].into = s[i].into /\ t[i].by = s[i].by
        /\ t[i].base \in {NULL, s[i].base}
        /\ s[i].status # "Pending" => t[i].status # "Pending"

LEMMA KeepsRowsSame == ASSUME NEW s PROVE KeepsRows(s, s)
BY DEF KeepsRows

LEMMA KeepsRowsAppend ==
    ASSUME NEW s \in Seq(Request), NEW r \in Request
    PROVE  KeepsRows(s, Append(s, r))
BY AppendRequest DEF KeepsRows

LEMMA KeepsRowsUpdate ==
    ASSUME NEW s \in Seq(Request), NEW t, NEW b, NEW into
    PROVE  KeepsRows(s, UpdateClosureComment(s, t, b, into))
<1>1. \A i \in DOMAIN s : s[i] \in Request
  BY LenProperties
<1> QED
  BY <1>1 DEF UpdateClosureComment, KeepsRows, Request

LEMMA KeepsRowsClose ==
    ASSUME NEW s \in Seq(Request), NEW ids, NEW blank,
           NEW status \in Statuses \ {"Pending"}
    PROVE  KeepsRows(s, ClosePkgreq(s, ids, blank, status))
<1>1. \A i \in DOMAIN s : s[i] \in Request
  BY LenProperties
<1> QED
  BY <1>1 DEF ClosePkgreq, KeepsRows, Request

LEMMA KeepsRowsDetach ==
    ASSUME NEW s \in Seq(Request), NEW b
    PROVE  KeepsRows(s, DetachRequests(s, b))
<1>1. \A i \in DOMAIN s : s[i] \in Request
  BY LenProperties
<1> QED
  BY <1>1 DEF DetachRequests, KeepsRows, Request

LEMMA KeepsRowsTwice ==
    ASSUME NEW s, NEW t, NEW v, KeepsRows(s, t), KeepsRows(t, v)
    PROVE  KeepsRows(s, v)
BY DEF KeepsRows

-----------------------------------------------------------------------------
(* The ledger of a table of requests: a row that is added is entered, and   *)
(* what the rules do to the rows decides some of the entries, perhaps none. *)
LEMMA LedgerAppended ==
    ASSUME NEW s \in Seq(Request), NEW r \in Request
    PROVE  LedgerOf(Append(s, r)) =
             Append(LedgerOf(s), [type |-> r.type, name |-> r.name, by |-> r.by,
                                  decided |-> r.status # "Pending"])
<1> DEFINE row(q) == [type |-> q.type, name |-> q.name, by |-> q.by,
                      decided |-> q.status # "Pending"]
           rows == [i \in 1 .. Len(s) |-> row(s[i])]
<1>1. DOMAIN s = 1 .. Len(s) /\ Len(s) \in Nat
  BY LenProperties
<1>2. LedgerOf(s) = rows
  BY <1>1 DEF LedgerOf
<1>3. LedgerOf(Append(s, r)) =
         [i \in 1 .. Len(s) + 1 |-> IF i = Len(s) + 1 THEN row(r) ELSE row(s[i])]
  BY <1>1 DEF LedgerOf
<1> HIDE DEF row
<1>4. rows \in Seq({row(s[i]) : i \in 1 .. Len(s)}) /\ Len(rows) = Len(s)
  BY <1>1
<1>5. Append(rows, row(r)) =
         [i \in 1 .. Len(s) + 1 |-> IF i = Len(s) + 1 THEN row(r) ELSE rows[i]]
  BY <1>1, <1>4
<1>6. LedgerOf(Append(s, r)) = Append(LedgerOf(s), row(r))
  BY <1>1, <1>2, <1>3, <1>5
<1> QED
  BY <1>6 DEF row

LEMMA LedgerKept ==
    ASSUME NEW s, NEW t, KeepsRows(s, t), DOMAIN t = DOMAIN s
    PROVE  \E S \in SUBSET DOMAIN LedgerOf(s) :
              LedgerOf(t) = [i \in DOMAIN LedgerOf(s) |->
                                IF i \in S
                                THEN [LedgerOf(s)[i] EXCEPT !.decided = TRUE]
                                ELSE LedgerOf(s)[i]]
<1> DEFINE S == {i \in DOMAIN s : t[i].status # "Pending"}
<1>1. \A i \in DOMAIN s :
         LedgerOf(t)[i] = IF i \in S THEN [LedgerOf(s)[i] EXCEPT !.decided = TRUE]
                          ELSE LedgerOf(s)[i]
  BY DEF LedgerOf, KeepsRows
<1>2. /\ DOMAIN LedgerOf(s) = DOMAIN s
      /\ LedgerOf(t) = [i \in DOMAIN s |-> LedgerOf(t)[i]]
  BY DEF LedgerOf
<1>3. S \in SUBSET DOMAIN LedgerOf(s)
  BY <1>2
<1> HIDE DEF S
<1> QED
  BY <1>1, <1>2, <1>3
=============================================================================
