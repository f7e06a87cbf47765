---------------------------- MODULE PkgBaseProofs ----------------------------
(* Theorems about PkgBase: type correctness, for any number of workers,     *)
(* users and package bases, with crashes and whatever the bounds.           *)
EXTENDS PkgBase, RequestRulesProofs, TLAPS, FiniteSetTheorems, SequenceTheorems,
        WellFoundedInduction

-----------------------------------------------------------------------------
(* The strengthening of TypeOK that is inductive: what a handler remembers  *)
(* has the type its next steps rely on, and priorities are bounded, so that *)
(* there is a latest one.                                                   *)

TypedSteps == {"disownNote", "disown", "verify", "file", "decide",
               "deleteNote", "handle", "create"}

JobFits(j) == /\ j.pc # "idle" => j.user \in Users
              /\ j.pc = "insert" => j.seen \in Users
              /\ j.pc \in TypedSteps => j.type \in Types

Bounded(rows) == \E n \in Nat : \A r \in rows : r.prio <= n

TypeInv == /\ TypeOK
           /\ \A w \in Workers : JobFits(job[w])
           /\ \A b \in Bases : Bounded(comaint[b])

(* A worker whose job is replaced.                                          *)
LEMMA JobReplaced ==
    ASSUME job \in [Workers -> Job], \A w \in Workers : JobFits(job[w]),
           NEW w \in Workers, NEW j \in Job, JobFits(j),
           job' = [job EXCEPT ![w] = j]
    PROVE  job' \in [Workers -> Job] /\ \A v \in Workers : JobFits(job'[v])
OBVIOUS

LEMMA IdleFits == Idle \in Job /\ JobFits(Idle)
BY DEF Idle, Job, JobFits, Steps, AllOps, TypedSteps

LEMMA CallFits ==
    ASSUME NEW op \in AllOps, NEW pc \in Steps, NEW u \in Users,
           NEW b \in Bases \cup {NULL}, pc \notin TypedSteps, pc # "insert"
    PROVE  Call(op, pc, u, b) \in Job /\ JobFits(Call(op, pc, u, b))
BY IdleFits DEF Call, Idle, Job, JobFits

LEMMA HandleFits ==
    ASSUME NEW old \in Job, old.user \in Users, old.type \in Types,
           NEW pc \in {"create", "settle"}, NEW found \in BOOLEAN,
           NEW ids \in SUBSET Nat, NEW blank \in SUBSET Nat
    PROVE  LET j == [old EXCEPT !.pc = pc, !.found = found, !.ids = ids,
                                !.blank = blank]
           IN  j \in Job /\ JobFits(j)
BY DEF Job, JobFits, Steps, TypedSteps

LEMMA InsertFits ==
    ASSUME NEW old \in Job, old.user \in Users, NEW u \in Users,
           NEW rest \in SUBSET Users, NEW at \in Nat
    PROVE  LET j == [old EXCEPT !.pc = "insert", !.seen = u, !.add = rest, !.at = at]
           IN  j \in Job /\ JobFits(j)
BY DEF Job, JobFits, Steps, TypedSteps

LEMMA FinishType ==
    ASSUME TypeInv, NEW w \in Workers, Finish(w)
    PROVE  job' \in [Workers -> Job] /\ \A v \in Workers : JobFits(job'[v])
BY IdleFits, JobReplaced DEF Finish, TypeInv, TypeOK

LEMMA GotoType ==
    ASSUME TypeInv, NEW w \in Workers, NEW pc \in Steps, Goto(w, pc),
           job[w].pc # "idle", pc # "insert",
           pc \in TypedSteps => job[w].type \in Types
    PROVE  job' \in [Workers -> Job] /\ \A v \in Workers : JobFits(job'[v])
<1> DEFINE j == [job[w] EXCEPT !.pc = pc]
<1>1. job[w] \in Job /\ JobFits(job[w])
  BY DEF TypeInv, TypeOK
<1>2. j \in Job
  BY <1>1 DEF Job
<1>3. JobFits(j)
  BY <1>1, <1>2 DEF Job, JobFits
<1>4. job' = [job EXCEPT ![w] = j]
  BY DEF Goto
<1> QED
  BY <1>2, <1>3, <1>4, JobReplaced DEF TypeInv, TypeOK

-----------------------------------------------------------------------------
(* Co-maintainers.                                                          *)

(* A non-empty set of naturals with an upper bound has a largest element.   *)
LEMMA LargestNatural ==
    ASSUME NEW P \in SUBSET Nat, P # {}, NEW n \in Nat, \A p \in P : p <= n
    PROVE  \E p \in P : \A q \in P : q <= p
<1> DEFINE U == {m \in Nat : \A p \in P : p <= m}
<1>1. PICK m \in U : \A k \in U : ~(<<k, m>> \in OpToRel(<, Nat))
  BY NatLessThanWellFounded, WFMin
<1>2. \A k \in U : ~(k < m)
  BY <1>1 DEF OpToRel
<1>3. PICK p \in P : TRUE
  OBVIOUS
<1>4. CASE m \in P
  BY <1>4
<1>5. CASE m \notin P
  <2>1. m > 0 /\ m - 1 \in Nat
    BY <1>3, <1>5
  <2>2. m - 1 \in U
    BY <1>5, <2>1
  <2> QED
    BY <1>2, <2>1, <2>2
<1> QED
  BY <1>4, <1>5

LEMMA LatestPriorityType ==
    ASSUME NEW rows \in SUBSET Row, Bounded(rows)
    PROVE  LatestPriority(rows) \in Nat
<1> DEFINE P == {r.prio : r \in rows}
<1>1. CASE rows = {}
  BY <1>1 DEF LatestPriority
<1>2. CASE rows # {}
  <2>1. P \in SUBSET Nat /\ P # {}
    BY <1>2 DEF Row
  <2>2. PICK n \in Nat : \A p \in P : p <= n
    BY DEF Bounded
  <2>3. \E p \in P : \A q \in P : q <= p
    BY <2>1, <2>2, LargestNatural
  <2>4. \E p \in P : \A r \in rows : r.prio <= p
    BY <2>3
  <2> QED
    BY <1>2, <2>1, <2>4 DEF LatestPriority
<1> QED
  BY <1>1, <1>2

(* The rows after a rotation: ranks are naturals and bounded by the number  *)
(* of co-maintainers there were.                                            *)
LEMMA RotatedType ==
    ASSUME NEW all \in SUBSET Row, NEW f \in Rotations(all),
           NEW rows \in SUBSET all, Bounded(all)
    PROVE  Rotated(rows, f) \in SUBSET Row /\ Bounded(Rotated(rows, f))
<1> DEFINE c == Cardinality(UsersOf(all))
<1>1. c \in Nat
  <2>1. UsersOf(all) \in SUBSET Users
    BY DEF UsersOf, Row
  <2> QED
    BY <2>1, UsersAssumption, FS_Subset, FS_CardinalityType
<1>2. f \in [UsersOf(all) -> 1 .. c]
  BY DEF Rotations
<1>3. \A r \in rows : r \in Row /\ f[r.user] \in 1 .. c /\ f[r.user] \in Nat
  BY <1>1, <1>2 DEF UsersOf
<1>4. Rotated(rows, f) \in SUBSET Row
  BY <1>3 DEF Rotated, Row
<1>5. PICK n \in Nat : \A r \in all : r.prio <= n
  BY DEF Bounded
<1>6. PICK m \in Nat : n <= m /\ c <= m
  BY <1>1
<1>7. \A r \in Rotated(rows, f) : r.prio <= m
  <2>1. \A r \in rows : r.prio \in Nat /\ r.prio <= m
    BY <1>5, <1>6 DEF Row
  <2>2. \A r \in rows : [r EXCEPT !.prio = f[r.user]].prio <= m
    BY <1>1, <1>3, <1>6 DEF Row
  <2> QED
    BY <2>1, <2>2 DEF Rotated
<1> QED
  BY <1>4, <1>7 DEF Bounded

-----------------------------------------------------------------------------
(* Each step keeps TypeInv.                                                 *)

(* A handler that receives a call changes its job and nothing else.         *)
LEMMA ReceiveType ==
    ASSUME TypeInv, NEW w \in Workers, NEW j \in Job, JobFits(j), Receive(w, j),
           UNCHANGED <<live, maintainer, columns, comaint, notified, reqs, now>>
    PROVE  TypeInv'
<1>1. job' \in [Workers -> Job] /\ \A v \in Workers : JobFits(job'[v])
  BY JobReplaced DEF Receive, TypeInv, TypeOK
<1> QED
  BY <1>1 DEF TypeInv, TypeOK, columns

(* So does a step that only moves on in its job.                            *)
LEMMA ReadType ==
    ASSUME TypeInv,
           job' \in [Workers -> Job], \A v \in Workers : JobFits(job'[v]),
           UNCHANGED <<live, maintainer, columns, comaint, notified, reqs, now>>
    PROVE  TypeInv'
BY DEF TypeInv, TypeOK, columns

LEMMA ServeType ==
    ASSUME TypeInv, NEW w \in Workers, NEW u \in Users, NEW b \in Bases,
           Serve(w, u, b)
    PROVE  TypeInv'
<1>1. CASE AdoptPost(w, u, b)
  BY <1>1, CallFits, ReceiveType DEF AdoptPost, Steps, AllOps, TypedSteps
<1>2. CASE ApiAdoptPost(w, u, b)
  <2> DEFINE p == u \in notified[b]
             j == [Call("apiAdopt", "apiAdopt", u, b) EXCEPT !.found = p]
  <2>1. p \in BOOLEAN
    OBVIOUS
  <2>2. Receive(w, j)
    BY <1>2 DEF ApiAdoptPost
  <2> HIDE DEF p
  <2>3. j \in Job /\ JobFits(j)
    BY <2>1 DEF Job, JobFits, Steps, AllOps, TypedSteps, Call, Idle
  <2> QED
    BY <1>2, <2>2, <2>3, ReceiveType DEF ApiAdoptPost
<1>3. CASE DisownPost(w, u, b)
  <2>1. PICK c \in BOOLEAN :
           Receive(w, [Call("disown", "disownNote", u, b) EXCEPT
                          !.type = "orphan", !.comment = c])
    BY <1>3 DEF DisownPost
  <2> DEFINE j == [Call("disown", "disownNote", u, b) EXCEPT
                      !.type = "orphan", !.comment = c]
  <2>2. j \in Job /\ JobFits(j)
    BY DEF Job, JobFits, Steps, AllOps, TypedSteps, Call, Idle, Types
  <2> QED
    BY <1>3, <2>1, <2>2, ReceiveType DEF DisownPost
<1>4. CASE ApiDisownPost(w, u, b)
  <2> DEFINE ids == PendingIds(reqs, "orphan", b)
             j == [Call("apiDisown", "apiClose", u, b) EXCEPT !.ids = ids]
  <2>1. ids \in SUBSET Nat
    BY PendingIdsType DEF TypeInv, TypeOK
  <2>2. j \in Job /\ JobFits(j)
    BY <2>1 DEF Job, JobFits, Steps, AllOps, TypedSteps, Call, Idle
  <2> QED
    BY <1>4, <2>2, ReceiveType DEF ApiDisownPost
<1>5. CASE \E S \in SUBSET Users : ComaintPost(w, u, b, S)
  <2>1. PICK S \in SUBSET Users : ComaintPost(w, u, b, S)
    BY <1>5
  <2> DEFINE records == UsersOf(comaint[b])
             j == [Call("comaint", "remove", u, b) EXCEPT
                      !.drop = records \ S, !.add = S \ records]
  <2>2. records \in SUBSET Users
    BY DEF UsersOf, Row, TypeInv, TypeOK
  <2>3. j \in Job /\ JobFits(j)
    BY <2>2 DEF Job, JobFits, Steps, AllOps, TypedSteps, Call, Idle
  <2> QED
    BY <2>1, <2>3, ReceiveType DEF ComaintPost
<1>6. CASE \E t \in Types, into \in Bases \cup {NULL} : RequestPost(w, u, b, t, into)
  <2>1. PICK t \in Types, into \in Bases \cup {NULL} : RequestPost(w, u, b, t, into)
    BY <1>6
  <2> DEFINE j == [Call("request", "file", u, b) EXCEPT
                      !.type = t, !.into = into, !.comment = TRUE, !.at = now]
  <2>2. j \in Job /\ JobFits(j)
    BY DEF Job, JobFits, Steps, AllOps, TypedSteps, Call, Idle, TypeInv, TypeOK
  <2> QED
    BY <2>1, <2>2, ReceiveType DEF RequestPost
<1>7. CASE DeletePost(w, u, b)
  <2>1. PICK c \in BOOLEAN :
           Receive(w, [Call("delete", IF c THEN "deleteNote" ELSE "handle", u, b)
                          EXCEPT !.type = "deletion", !.comment = c])
    BY <1>7 DEF DeletePost
  <2> DEFINE j == [Call("delete", IF c THEN "deleteNote" ELSE "handle", u, b)
                      EXCEPT !.type = "deletion", !.comment = c]
  <2>2. j \in Job /\ JobFits(j)
    BY DEF Job, JobFits, Steps, AllOps, TypedSteps, Call, Idle, Types
  <2> QED
    BY <1>7, <2>1, <2>2, ReceiveType DEF DeletePost
<1>8. CASE FlagPost(w, u, b)
  <2> DEFINE j == [Call("flag", "flag", u, b) EXCEPT !.at = now]
  <2>1. j \in Job /\ JobFits(j)
    BY DEF Job, JobFits, Steps, AllOps, TypedSteps, Call, Idle, TypeInv, TypeOK
  <2> QED
    BY <1>8, <2>1, ReceiveType DEF FlagPost
<1>9. CASE UnflagPost(w, u, b)
  <2> DEFINE j == [Call("unflag", "unflag", u, b) EXCEPT !.seen = flagger[b]]
  <2>1. j \in Job /\ JobFits(j)
    BY DEF Job, JobFits, Steps, AllOps, TypedSteps, Call, Idle, TypeInv, TypeOK
  <2> QED
    BY <1>9, <2>1, ReceiveType DEF UnflagPost
<1>10. CASE NotifyPost(w, u, b)
  BY <1>10, CallFits, ReceiveType DEF NotifyPost, Steps, AllOps, TypedSteps
<1>11. CASE UnnotifyPost(w, u, b)
  BY <1>11, CallFits, ReceiveType DEF UnnotifyPost, Steps, AllOps, TypedSteps
<1> QED
  BY <1>1, <1>2, <1>3, <1>4, <1>5, <1>6, <1>7, <1>8, <1>9, <1>10, <1>11 DEF Serve

LEMMA ClosePostType ==
    ASSUME TypeInv, NEW w \in Workers, NEW u \in Users, NEW i \in DOMAIN reqs,
           ClosePost(w, u, i)
    PROVE  TypeInv'
<1>1. PICK c \in BOOLEAN :
         Receive(w, [Call("close", "close", u, NULL) EXCEPT
                        !.comment = c, !.ids = {i}, !.blank = Blank(reqs, {i}),
                        !.seen = reqs[i].status])
  BY DEF ClosePost
<1> DEFINE j == [Call("close", "close", u, NULL) EXCEPT
                    !.comment = c, !.ids = {i}, !.blank = Blank(reqs, {i}),
                    !.seen = reqs[i].status]
<1>2. i \in Nat /\ reqs[i] \in Request
  BY LenProperties DEF TypeInv, TypeOK
<1>3. j \in Job /\ JobFits(j)
  BY <1>2 DEF Job, JobFits, Steps, AllOps, TypedSteps, Call, Idle, Blank, Request
<1> QED
  BY <1>1, <1>3, ReceiveType DEF ClosePost

(* Steps that read and go on.                                               *)
LEMMA ReadStepsType ==
    ASSUME TypeInv, NEW w \in Workers,
           \/ DisownInstance(w) \/ Verify(w) \/ Handle(w)
           \/ Decide(w) \/ AddNext(w) \/ Vanished(w) \/ Crash(w)
    PROVE  TypeInv'
<1>0. job[w] \in Job /\ JobFits(job[w])
  BY DEF TypeInv, TypeOK
<1>1. CASE DisownInstance(w)
  BY <1>0, <1>1, GotoType, FinishType, ReadType
  DEF DisownInstance, At, Steps, TypedSteps, JobFits
<1>2. CASE Verify(w)
  BY <1>0, <1>2, GotoType, FinishType, ReadType
  DEF Verify, At, Steps, TypedSteps, JobFits
<1>3. CASE Handle(w)
  <2> DEFINE ids == ToAccept(reqs, job[w].type, job[w].base, NULL)
             blank == Blank(reqs, ids)
             pc == IF ids = {} THEN "create" ELSE "settle"
             p == ids # {}
             j == [job[w] EXCEPT !.pc = pc, !.found = p, !.ids = ids,
                                 !.blank = blank]
  <2>1. job' = [job EXCEPT ![w] = j]
    BY <1>3, <1>0 DEF Handle, TypeInv, TypeOK
  <2>2. p \in BOOLEAN /\ pc \in {"create", "settle"}
    OBVIOUS
  <2>3. ids \in SUBSET Nat /\ blank \in SUBSET Nat
    BY PendingIdsType DEF ToAccept, Blank, TypeInv, TypeOK
  <2>4. job[w].user \in Users /\ job[w].type \in Types
    BY <1>0, <1>3 DEF Handle, At, JobFits, TypedSteps
  <2> HIDE DEF p, ids, pc, blank
  <2>6. j \in Job /\ JobFits(j)
    BY <1>0, <2>2, <2>3, <2>4, HandleFits
  <2>7. job' \in [Workers -> Job] /\ \A v \in Workers : JobFits(job'[v])
    BY <2>1, <2>6, JobReplaced DEF TypeInv, TypeOK
  <2> QED
    BY <1>3, <2>7, ReadType DEF Handle
<1>4. CASE Decide(w)
  <2> DEFINE j == [job[w] EXCEPT !.pc = "autoOrphan",
                                 !.seen = maintainer[job[w].base]]
  <2>1. job[w].pc = "decide" /\ job[w].base \in Bases
    BY <1>4 DEF Decide, At, TypeInv, TypeOK
  <2>2. CASE job' = [job EXCEPT ![w].pc = "autoOrphan",
                                ![w].seen = maintainer[job[w].base]]
    <3>1. job' = [job EXCEPT ![w] = j]
      BY <1>0, <2>2 DEF TypeInv, TypeOK
    <3>2. j \in Job /\ JobFits(j)
      BY <1>0, <2>1 DEF Job, JobFits, Steps, TypedSteps, TypeInv, TypeOK
    <3>3. job' \in [Workers -> Job] /\ \A v \in Workers : JobFits(job'[v])
      BY <3>1, <3>2, JobReplaced DEF TypeInv, TypeOK
    <3> QED
      BY <1>4, <3>3, ReadType DEF Decide
  <2>3. CASE Goto(w, "handle")
    BY <1>0, <1>4, <2>1, <2>3, GotoType, ReadType
    DEF Decide, Steps, TypedSteps, JobFits
  <2>4. CASE Finish(w)
    BY <1>4, <2>4, FinishType, ReadType DEF Decide
  <2> QED
    BY <1>4, <2>2, <2>3, <2>4 DEF Decide
<1>5. CASE AddNext(w)
  <2>1. job[w].pc = "add" /\ job[w].base \in Bases
    BY <1>5 DEF AddNext, At, TypeInv, TypeOK
  <2>2. CASE Finish(w)
    BY <1>5, <2>2, FinishType, ReadType DEF AddNext
  <2>3. ASSUME NEW u \in job[w].add \ {maintainer[job[w].base]},
               NEW passed \in SUBSET {maintainer[job[w].base]},
               job' = [job EXCEPT ![w].pc = "insert", ![w].seen = u,
                          ![w].add = @ \ (passed \cup {u}),
                          ![w].at = LatestPriority(comaint[job[w].base]) + 1]
        PROVE  TypeInv'
    <3> DEFINE latest == LatestPriority(comaint[job[w].base]) + 1
               rest == job[w].add \ (passed \cup {u})
    <3>0. /\ comaint[job[w].base] \in SUBSET Row
          /\ Bounded(comaint[job[w].base])
      BY <2>1 DEF TypeInv, TypeOK
    <3>1. latest \in Nat
      BY <3>0, LatestPriorityType
    <3>2. job' = [job EXCEPT ![w] = [job[w] EXCEPT !.pc = "insert", !.seen = u,
                                        !.add = rest, !.at = latest]]
      BY <1>0, <2>3 DEF TypeInv, TypeOK
    <3>a. u \in Users /\ rest \in SUBSET Users /\ job[w].user \in Users
      BY <1>0, <2>1 DEF Job, JobFits
    <3> DEFINE j == [job[w] EXCEPT !.pc = "insert", !.seen = u,
                                   !.add = rest, !.at = latest]
    <3> HIDE DEF latest, rest
    <3>3. j \in Job /\ JobFits(j)
      BY <1>0, <3>1, <3>a, InsertFits
    <3>4. job' \in [Workers -> Job] /\ \A v \in Workers : JobFits(job'[v])
      BY <3>2, <3>3, JobReplaced DEF TypeInv, TypeOK
    <3> QED
      BY <1>5, <3>4, ReadType DEF AddNext
  <2> QED
    BY <1>5, <2>2, <2>3 DEF AddNext
<1>6. CASE Vanished(w)
  BY <1>6, FinishType, ReadType DEF Vanished
<1>7. CASE Crash(w)
  BY <1>7, FinishType, ReadType DEF Crash
<1> QED
  BY <1>1, <1>2, <1>3, <1>4, <1>5, <1>6, <1>7
(* Steps that write the columns of the package base or its notifications.   *)
LEMMA ColumnStepsType ==
    ASSUME TypeInv, NEW w \in Workers,
           \/ Adopt(w) \/ ApiAdopt(w) \/ Orphan(w) \/ Flag(w) \/ Unflag(w)
           \/ Notify(w) \/ Unnotify(w)
    PROVE  TypeInv'
<1>0. job[w] \in Job /\ JobFits(job[w])
  BY DEF TypeInv, TypeOK
<1>1. /\ job[w].pc # "idle" => job[w].user \in Users
      /\ job[w].at \in Nat
      /\ job[w].base \in Bases \cup {NULL}
  BY <1>0 DEF Job, JobFits
<1>2. Finish(w)
  BY DEF Adopt, ApiAdopt, Orphan, Flag, Unflag, Notify, Unnotify
<1>3. job' \in [Workers -> Job] /\ \A v \in Workers : JobFits(job'[v])
  BY <1>2, FinishType
<1>4. UNCHANGED <<live, comaint, reqs, now, submittedTS>>
  BY DEF Adopt, ApiAdopt, Orphan, Flag, Unflag, Notify, Unnotify, columns
<1>5. maintainer' \in [Bases -> Users \cup {NULL}]
  BY <1>1 DEF Adopt, ApiAdopt, Orphan, Flag, Unflag, Notify, Unnotify, At,
     TypeInv, TypeOK
<1>6. /\ flagger' \in [Bases -> Users \cup {NULL}]
      /\ oodTS' \in [Bases -> Nat]
  <2>1. CASE Flag(w)
    BY <1>1, <2>1 DEF Flag, At, TypeInv, TypeOK
  <2>2. CASE Unflag(w)
    <3>1. CASE job[w].seen = NULL
      BY <2>2, <3>1 DEF Unflag, TypeInv, TypeOK
    <3>2. CASE job[w].seen # NULL
      <4>1. /\ oodTS' = [oodTS EXCEPT ![job[w].base] = 0]
            /\ flagger' = [flagger EXCEPT ![job[w].base] = NULL]
        BY <2>2, <3>2 DEF Unflag
      <4> QED
        BY <4>1 DEF TypeInv, TypeOK
    <3> QED
      BY <3>1, <3>2
  <2>3. CASE UNCHANGED <<flagger, oodTS>>
    BY <2>3 DEF TypeInv, TypeOK
  <2> QED
    BY <2>1, <2>2, <2>3 DEF Adopt, ApiAdopt, Orphan, Notify, Unnotify, columns
<1>7. notified' \in [Bases -> SUBSET Users]
  BY <1>1 DEF Adopt, ApiAdopt, Orphan, Flag, Unflag, Notify, Unnotify, At,
     TypeInv, TypeOK
<1> QED
  BY <1>3, <1>4, <1>5, <1>6, <1>7 DEF TypeInv, TypeOK

(* Steps that write requests and nothing else.                              *)
LEMMA RequestStepsType ==
    ASSUME TypeInv, NEW w \in Workers,
           \/ DisownNote(w) \/ DeleteNote(w) \/ ApiClose(w) \/ Settle(w)
           \/ Close(w)
    PROVE  TypeInv' /\ DOMAIN reqs' = DOMAIN reqs
<1>0. job[w] \in Job /\ JobFits(job[w]) /\ reqs \in Seq(Request)
  BY DEF TypeInv, TypeOK
<1>1. ASSUME UNCHANGED <<live, maintainer, columns, comaint, notified, now>>,
             reqs' \in Seq(Request), NEW pc \in Steps, Goto(w, pc),
             job[w].pc # "idle", pc # "insert",
             pc \in TypedSteps => job[w].type \in Types
      PROVE  TypeInv'
  <2>1. job' \in [Workers -> Job] /\ \A v \in Workers : JobFits(job'[v])
    BY <1>1, GotoType
  <2> QED
    BY <1>1, <2>1 DEF TypeInv, TypeOK, columns
<1>2. CASE DisownNote(w)
  BY <1>0, <1>1, <1>2, UpdateClosureCommentType
  DEF DisownNote, At, Steps, TypedSteps, JobFits
<1>3. CASE DeleteNote(w)
  BY <1>0, <1>1, <1>3, UpdateClosureCommentType
  DEF DeleteNote, At, Steps, TypedSteps, JobFits
<1>4. CASE ApiClose(w)
  <2>1. reqs' \in Seq(Request) /\ DOMAIN reqs' = DOMAIN reqs
    BY <1>0, <1>4, StatusWriteType DEF ApiClose, Statuses
  <2> QED
    BY <1>1, <1>4, <2>1 DEF ApiClose, Steps, TypedSteps
<1>5. CASE Settle(w)
  <2>1. reqs' \in Seq(Request) /\ DOMAIN reqs' = DOMAIN reqs
    BY <1>0, <1>5, ClosePkgreqType DEF Settle, Statuses
  <2> QED
    BY <1>1, <1>5, <2>1 DEF Settle, Steps, TypedSteps
<1>6. CASE Close(w)
  <2>1. \A i \in DOMAIN reqs : reqs[i] \in Request
    BY <1>0, LenProperties
  <2>a. reqs' = [i \in DOMAIN reqs |-> reqs'[i]]
    BY <1>6 DEF Close
  <2>2. ASSUME NEW i \in DOMAIN reqs
        PROVE  reqs'[i] \in Request
    <3>2. ASSUME NEW status \in Statuses, NEW closure \in {"none", "auto", "user"}
          PROVE  [reqs[i] EXCEPT !.status = status, !.closure = closure,
                                 !.closed = TRUE] \in Request
      BY <2>1 DEF Request
    <3>3. reqs[i].status \in Statuses /\ reqs[i].closure \in {"none", "auto", "user"}
      BY <2>1 DEF Request
    <3> QED
      BY <1>6, <2>1, <3>2, <3>3 DEF Close, Statuses
  <2>3. reqs' \in Seq(Request) /\ DOMAIN reqs' = DOMAIN reqs
    BY <1>0, <2>a, <2>2, RewriteType
  <2>4. job' \in [Workers -> Job] /\ \A v \in Workers : JobFits(job'[v])
    BY <1>6, FinishType DEF Close
  <2> QED
    BY <1>6, <2>3, <2>4 DEF Close, TypeInv, TypeOK, columns
<1> QED
  BY <1>2, <1>3, <1>4, <1>5, <1>6
(* Steps that write co-maintainers, and perhaps the maintainer.             *)
LEMMA ComaintWritten ==
    ASSUME TypeInv, NEW b \in Bases, NEW rows \in SUBSET Row, Bounded(rows),
           comaint' = [comaint EXCEPT ![b] = rows],
           NEW m \in Users \cup {NULL},
           maintainer' \in {maintainer, [maintainer EXCEPT ![b] = m]},
           job' \in [Workers -> Job], \A v \in Workers : JobFits(job'[v]),
           UNCHANGED <<live, columns, notified, reqs, now>>
    PROVE  TypeInv'
<1>1. maintainer' \in [Bases -> Users \cup {NULL}]
  BY DEF TypeInv, TypeOK
<1>2. comaint' \in [Bases -> SUBSET Row]
  BY DEF TypeInv, TypeOK
<1>3. \A c \in Bases : Bounded(comaint'[c])
  BY DEF TypeInv, TypeOK
<1> QED
  BY <1>1, <1>2, <1>3 DEF TypeInv, TypeOK, columns

LEMMA WithoutType ==
    ASSUME NEW rows \in SUBSET Row, Bounded(rows), NEW users
    PROVE  /\ Without(rows, users) \in SUBSET rows
           /\ Without(rows, users) \in SUBSET Row
           /\ Bounded(Without(rows, users))
BY DEF Without, Bounded

(* The row that goes when a maintainer leaves, and where the rest moves to. *)
LEMMA PromoteType ==
    ASSUME TypeInv, NEW w \in Workers, Promote(w)
    PROVE  TypeInv'
<1> DEFINE b == job[w].base
           rows == comaint[b]
<1>1. b \in Bases
  BY DEF Promote, At, TypeInv, TypeOK
<1>2. rows \in SUBSET Row /\ Bounded(rows)
  BY <1>1 DEF TypeInv, TypeOK
<1>3. job' \in [Workers -> Job] /\ \A v \in Workers : JobFits(job'[v])
  BY FinishType DEF Promote
<1>4. CASE UNCHANGED comaint /\ maintainer' \in {maintainer, [maintainer EXCEPT ![b] = NULL]}
  <2>1. comaint' = [comaint EXCEPT ![b] = rows]
    BY <1>1, <1>4 DEF TypeInv, TypeOK
  <2> QED
    BY <1>1, <1>2, <1>3, <1>4, <2>1, ComaintWritten DEF Promote
<1>5. ASSUME NEW f \in Rotations(rows), NEW r \in rows,
             maintainer' = [maintainer EXCEPT ![b] = r.user],
             comaint' = [comaint EXCEPT ![b] = Rotated(Without(rows, {r.user}), f)]
      PROVE  TypeInv'
  <2> DEFINE new == Rotated(Without(rows, {r.user}), f)
  <2>1. new \in SUBSET Row /\ Bounded(new)
    BY <1>2, RotatedType, WithoutType
  <2>2. r.user \in Users
    BY <1>2 DEF Row
  <2> HIDE DEF new
  <2>3. comaint' = [comaint EXCEPT ![b] = new]
    BY <1>5 DEF new
  <2> QED
    BY <1>1, <1>3, <1>5, <2>1, <2>2, <2>3, ComaintWritten DEF Promote
<1> QED
  BY <1>4, <1>5 DEF Promote

LEMMA ComaintStepsType ==
    ASSUME TypeInv, NEW w \in Workers,
           \/ Remove(w) \/ Rotate(w) \/ AddComaintainer(w) \/ ApiPromote(w)
    PROVE  TypeInv'
<1> DEFINE b == job[w].base
           rows == comaint[b]
<1>0. job[w] \in Job /\ JobFits(job[w])
  BY DEF TypeInv, TypeOK
<1>1. b \in Bases
  BY DEF Remove, Rotate, AddComaintainer, ApiPromote, At, TypeInv, TypeOK
<1>2. rows \in SUBSET Row /\ Bounded(rows)
  BY <1>1 DEF TypeInv, TypeOK
<1>3. CASE Remove(w)
  <2>1. comaint' = [comaint EXCEPT ![b] = Without(rows, job[w].drop)]
    BY <1>1, <1>3 DEF Remove, TypeInv, TypeOK
  <2>2. job' \in [Workers -> Job] /\ \A v \in Workers : JobFits(job'[v])
    BY <1>0, <1>3, GotoType DEF Remove, At, Steps, TypedSteps
  <2> QED
    BY <1>1, <1>2, <1>3, <2>1, <2>2, WithoutType, ComaintWritten DEF Remove
<1>4. CASE Rotate(w)
  <2>1. PICK f \in Rotations(rows) :
           \/ Finish(w) /\ UNCHANGED comaint
           \/ /\ comaint' = [comaint EXCEPT ![b] = Rotated(rows, f)]
              /\ Goto(w, "add")
    BY <1>4 DEF Rotate
  <2>2. CASE Finish(w) /\ UNCHANGED comaint
    BY <1>4, <2>2, FinishType, ReadType DEF Rotate
  <2>3. CASE /\ comaint' = [comaint EXCEPT ![b] = Rotated(rows, f)]
             /\ Goto(w, "add")
    <3>1. job' \in [Workers -> Job] /\ \A v \in Workers : JobFits(job'[v])
      BY <1>0, <1>4, <2>3, GotoType DEF Rotate, At, Steps, TypedSteps
    <3>2. Rotated(rows, f) \in SUBSET Row /\ Bounded(Rotated(rows, f))
      BY <1>2, RotatedType
    <3> QED
      BY <1>1, <1>4, <2>3, <3>1, <3>2, ComaintWritten DEF Rotate
  <2> QED
    BY <2>1, <2>2, <2>3
<1>5. CASE AddComaintainer(w)
  <2> DEFINE new == [user |-> job[w].seen, prio |-> job[w].at, row |-> w]
  <2>1. comaint' = [comaint EXCEPT ![b] = rows \cup {new}]
    BY <1>1, <1>5 DEF AddComaintainer, TypeInv, TypeOK
  <2>2. new \in Row
    BY <1>0, <1>5 DEF AddComaintainer, At, JobFits, Job, Row
  <2>3. Bounded(rows \cup {new})
    <3>1. PICK n \in Nat : \A r \in rows : r.prio <= n
      BY <1>2 DEF Bounded
    <3>2. PICK m \in Nat : n <= m /\ new.prio <= m
      BY <2>2 DEF Row
    <3>3. \A r \in rows \cup {new} : r.prio <= m
      BY <1>2, <2>2, <3>1, <3>2 DEF Row
    <3> QED
      BY <3>3 DEF Bounded
  <2>4. job' \in [Workers -> Job] /\ \A v \in Workers : JobFits(job'[v])
    BY <1>0, <1>5, GotoType DEF AddComaintainer, At, Steps, TypedSteps
  <2> HIDE DEF new
  <2> QED
    BY <1>1, <1>2, <1>5, <2>1, <2>2, <2>3, <2>4, ComaintWritten DEF AddComaintainer
<1>6. CASE ApiPromote(w)
  <2>1. job' \in [Workers -> Job] /\ \A v \in Workers : JobFits(job'[v])
    BY <1>6, FinishType DEF ApiPromote
  <2>2. CASE rows = {}
    <3>1. comaint' = [comaint EXCEPT ![b] = rows]
      BY <1>1, <1>6, <2>2 DEF ApiPromote, TypeInv, TypeOK
    <3> QED
      BY <1>1, <1>2, <1>6, <2>1, <2>2, <3>1, ComaintWritten DEF ApiPromote
  <2>3. CASE rows # {}
    <3>1. PICK u \in UsersOf(rows) :
             /\ maintainer' = [maintainer EXCEPT ![b] = u]
             /\ comaint' = [comaint EXCEPT ![b] = Without(rows, {u})]
      BY <1>1, <1>6, <2>3 DEF ApiPromote, TypeInv, TypeOK
    <3>2. u \in Users
      BY <1>2 DEF UsersOf, Row
    <3> QED
      BY <1>1, <1>2, <1>6, <2>1, <3>1, <3>2, WithoutType, ComaintWritten
      DEF ApiPromote
  <2> QED
    BY <2>2, <2>3
<1> QED
  BY <1>3, <1>4, <1>5, <1>6
(* Steps that insert requests, decide them in passing or delete.            *)
LEMMA AppendedType ==
    ASSUME TypeInv, NEW r \in Request
    PROVE  /\ Append(reqs, r) \in Seq(Request)
           /\ Len(reqs) + 1 \in Nat
           /\ DOMAIN Append(reqs, r) = DOMAIN reqs \cup {Len(reqs) + 1}
           /\ Append(reqs, r)[Len(reqs) + 1] = r
           /\ \A i \in DOMAIN reqs : Append(reqs, r)[i] = reqs[i]
BY AppendProperties, LenProperties DEF TypeInv, TypeOK

LEMMA FileFits ==
    ASSUME NEW old \in Job, JobFits(old), old.pc = "file", NEW ids \in SUBSET Nat
    PROVE  LET j == [old EXCEPT !.pc = "decide", !.ids = ids]
           IN  j \in Job /\ JobFits(j)
BY DEF Job, JobFits, Steps, TypedSteps

LEMMA CreateFits ==
    ASSUME NEW old \in Job, JobFits(old), old.pc = "create", NEW ids \in SUBSET Nat
    PROVE  LET j == [old EXCEPT !.pc = "settle", !.ids = ids, !.blank = ids]
           IN  j \in Job /\ JobFits(j)
BY DEF Job, JobFits, Steps, TypedSteps

LEMMA InsertStepsType ==
    ASSUME TypeInv, NEW w \in Workers, File(w) \/ Create(w)
    PROVE  TypeInv'
<1> DEFINE id == Len(reqs) + 1
<1>0. /\ job[w] \in Job /\ JobFits(job[w]) /\ job \in [Workers -> Job]
      /\ now \in Nat /\ live \subseteq Bases
  BY DEF TypeInv, TypeOK
<1>1. {id} \in SUBSET Nat
  BY LenProperties DEF TypeInv, TypeOK
<1>2. CASE File(w)
  <2> DEFINE j == [job[w] EXCEPT !.pc = "decide", !.ids = {id}]
             r == NewRequest(job[w].type, job[w].base, job[w].into, job[w].user, job[w].at)
  <2>1. r \in Request
    BY <1>0, <1>2, NewRequestType DEF File, At, Job, JobFits, TypedSteps
  <2>2. job' = [job EXCEPT ![w] = j]
    BY <1>0, <1>2 DEF File
  <2>3. j \in Job /\ JobFits(j)
    BY <1>0, <1>1, <1>2, FileFits DEF File, At
  <2> HIDE DEF j, r
  <2>4. job' \in [Workers -> Job] /\ \A v \in Workers : JobFits(job'[v])
    BY <1>0, <2>2, <2>3, JobReplaced DEF TypeInv
  <2>5. reqs' = Append(reqs, r)
    BY <1>2 DEF File, r
  <2> QED
    BY <1>2, <2>1, <2>4, <2>5, AppendedType DEF File, TypeInv, TypeOK, columns
<1>3. CASE Create(w)
  <2> DEFINE j == [job[w] EXCEPT !.pc = "settle", !.ids = {id}, !.blank = {id}]
             r == NewRequest(job[w].type, job[w].base, NULL, job[w].user, 0)
  <2>1. r \in Request
    BY <1>0, <1>3, NewRequestType DEF Create, At, Job, JobFits, TypedSteps
  <2>2. job' = [job EXCEPT ![w] = j]
    BY <1>0, <1>3 DEF Create
  <2>3. j \in Job /\ JobFits(j)
    BY <1>0, <1>1, <1>3, CreateFits DEF Create, At
  <2> HIDE DEF j, r
  <2>4. job' \in [Workers -> Job] /\ \A v \in Workers : JobFits(job'[v])
    BY <1>0, <2>2, <2>3, JobReplaced DEF TypeInv
  <2>5. reqs' = Append(reqs, r)
    BY <1>3 DEF Create, r
  <2> QED
    BY <1>3, <2>1, <2>4, <2>5, AppendedType DEF Create, TypeInv, TypeOK, columns
<1> QED
  BY <1>2, <1>3

LEMMA AutoOrphanType ==
    ASSUME TypeInv, NEW w \in Workers, AutoOrphan(w)
    PROVE  TypeInv' /\ DOMAIN reqs' = DOMAIN reqs
<1>1. job' \in [Workers -> Job] /\ \A v \in Workers : JobFits(job'[v])
  BY FinishType DEF AutoOrphan
<1>2. reqs' \in Seq(Request) /\ DOMAIN reqs' = DOMAIN reqs
  <2>1. \A i \in DOMAIN reqs : reqs[i] \in Request
    BY LenProperties DEF TypeInv, TypeOK
  <2>2. \A i \in DOMAIN reqs : reqs'[i] \in Request
    BY <2>1 DEF AutoOrphan, Request, Statuses
  <2>3. reqs' = [i \in DOMAIN reqs |-> reqs'[i]]
    BY DEF AutoOrphan
  <2> QED
    BY <2>2, <2>3, RewriteType DEF TypeInv, TypeOK
<1>3. maintainer' \in [Bases -> Users \cup {NULL}]
  BY DEF AutoOrphan, TypeInv, TypeOK
<1> QED
  BY <1>1, <1>2, <1>3 DEF AutoOrphan, TypeInv, TypeOK, columns

LEMMA DeleteType ==
    ASSUME TypeInv, NEW w \in Workers, Delete(w)
    PROVE  TypeInv' /\ DOMAIN reqs' = DOMAIN reqs
<1>1. job' \in [Workers -> Job] /\ \A v \in Workers : JobFits(job'[v])
  BY FinishType DEF Delete
<1>2. reqs' \in Seq(Request) /\ DOMAIN reqs' = DOMAIN reqs
  BY UpdateClosureCommentType, DetachRequestsType DEF Delete, TypeInv, TypeOK
<1>3. /\ live' \subseteq Bases
      /\ maintainer' \in [Bases -> Users \cup {NULL}]
      /\ flagger' \in [Bases -> Users \cup {NULL}]
      /\ oodTS' \in [Bases -> Nat]
      /\ submittedTS' \in [Bases -> Nat]
      /\ notified' \in [Bases -> SUBSET Users]
  BY DEF Delete, TypeInv, TypeOK
<1>4. comaint' \in [Bases -> SUBSET Row] /\ \A b \in Bases : Bounded(comaint'[b])
  <2>1. Bounded({})
    BY DEF Bounded
  <2> QED
    BY <2>1 DEF Delete, TypeInv, TypeOK
<1> QED
  BY <1>1, <1>2, <1>3, <1>4 DEF Delete, TypeInv, TypeOK

LEMMA StepType ==
    ASSUME TypeInv, NEW w \in Workers, Step(w) \/ Crash(w)
    PROVE  TypeInv'
BY ReadStepsType, ColumnStepsType, RequestStepsType, PromoteType,
   ComaintStepsType, InsertStepsType, AutoOrphanType, DeleteType
DEF Step

LEMMA InitType == Init => TypeInv
<1> SUFFICES ASSUME Init PROVE TypeInv
  OBVIOUS
<1>1. reqs \in Seq(Request)
  BY DEF Init
<1>2. job \in [Workers -> Job] /\ \A w \in Workers : JobFits(job[w])
  BY IdleFits DEF Init
<1>3. \A b \in Bases : Bounded(comaint[b])
  BY DEF Init, Bounded
<1> QED
  BY <1>1, <1>2, <1>3, IdleTimeAssumption DEF Init, TypeInv, TypeOK

LEMMA NextType == TypeInv /\ [Next]_vars => TypeInv'
<1> SUFFICES ASSUME TypeInv, [Next]_vars PROVE TypeInv'
  OBVIOUS
<1>1. ASSUME NEW w \in Workers, NEW u \in Users, NEW b \in Bases, Serve(w, u, b)
      PROVE  TypeInv'
  BY <1>1, ServeType
<1>2. ASSUME NEW w \in Workers, NEW u \in Users, NEW i \in DOMAIN reqs,
             ClosePost(w, u, i)
      PROVE  TypeInv'
  BY <1>2, ClosePostType
<1>3. ASSUME NEW w \in Workers, Step(w) \/ Crash(w)
      PROVE  TypeInv'
  BY <1>3, StepType
<1>4. CASE Tick
  BY <1>4 DEF Tick, TypeInv, TypeOK, columns
<1>5. CASE UNCHANGED vars
  BY <1>5 DEF vars, columns, TypeInv, TypeOK
<1> QED
  BY <1>1, <1>2, <1>3, <1>4, <1>5 DEF Next, Quiet

(* Whatever calls the workers interleave and wherever they die, the tables  *)
(* and what the handlers remember keep their types: in particular a request *)
(* is always filed about a name, and only users become maintainers.         *)
THEOREM TypeCorrect == Spec => []TypeOK
<1>1. TypeInv => TypeOK
  BY DEF TypeInv
<1> QED
  BY <1>1, InitType, NextType, PTL DEF Spec
=============================================================================
