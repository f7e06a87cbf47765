--------------------------- MODULE CommunityProofs ---------------------------
(* Theorems about Community, for any number of workers, users, package      *)
(* bases and comments, and whatever the bounds.                             *)
EXTENDS Community, RequestRulesProofs, FiniteSetTheorems

-----------------------------------------------------------------------------
(* The strengthening of TypeOK that is inductive: what a handler remembers  *)
(* has the type its next steps rely on.                                     *)

Rowwise == {"edit", "render", "save", "erase", "restore", "pin", "unpin"}
Loaded == {"save", "erase", "restore", "pin", "unpin"}

JobFits(j, n) ==
    /\ j.pc # "idle" => j.user \in Users /\ j.base \in Bases /\ j.op # "none"
    /\ j.op = "merge" \/ j.pc = "file" => j.into \in Bases
    /\ j.pc \in {"target", "move", "remove"} => j.op = "merge"
    /\ j.pc \in {"vote", "unvote"} => j.op # "merge"
    /\ j.pc \in Rowwise => j.id \in 1 .. n
    /\ j.pc \in Loaded => j.row \in Comment
    /\ j.pc \in {"post", "edit"} => j.text \in Texts

TypeInv == /\ TypeOK
           /\ \A w \in Workers : JobFits(job[w], Len(comments))

tables == <<live, votes, numVotes, notified, comments, keywords, reqs>>

LEMMA Comments ==
    ASSUME TypeInv
    PROVE  /\ Len(comments) \in Nat /\ DOMAIN comments = 1 .. Len(comments)
           /\ \A i \in DOMAIN comments : comments[i] \in Comment
BY LenProperties DEF TypeInv, TypeOK

(* A worker whose job is replaced, while comments are only added.           *)
LEMMA JobReplaced ==
    ASSUME TypeInv, NEW w \in Workers, NEW j \in Job, NEW n \in Nat,
           Len(comments) <= n, JobFits(j, n), job' = [job EXCEPT ![w] = j]
    PROVE  job' \in [Workers -> Job] /\ \A v \in Workers : JobFits(job'[v], n)
<1>1. \A v \in Workers : job'[v] = IF v = w THEN j ELSE job[v]
  BY DEF TypeInv, TypeOK
<1>2. \A v \in Workers : JobFits(job[v], n)
  BY Comments DEF TypeInv, JobFits
<1>3. job' \in [Workers -> Job]
  BY DEF TypeInv, TypeOK
<1> QED
  BY <1>1, <1>2, <1>3

LEMMA JobChanged ==
    ASSUME TypeInv, NEW w \in Workers, NEW j \in Job, NEW n \in Nat,
           n = Len(comments), JobFits(j, n), job' = [job EXCEPT ![w] = j]
    PROVE  job' \in [Workers -> Job] /\ \A v \in Workers : JobFits(job'[v], n)
<1>1. Len(comments) <= n
  OBVIOUS
<1> QED
  BY <1>1, JobReplaced

LEMMA IdleFits ==
    ASSUME NEW n \in Nat
    PROVE  Idle \in Job /\ JobFits(Idle, n)
BY DEF Idle, Job, JobFits, Steps, AllOps, Rowwise, Loaded

LEMMA FinishType ==
    ASSUME TypeInv, NEW w \in Workers, Finish(w), NEW n \in Nat, n = Len(comments)
    PROVE  job' \in [Workers -> Job] /\ \A v \in Workers : JobFits(job'[v], n)
BY IdleFits, JobChanged DEF Finish

LEMMA GotoFits ==
    ASSUME NEW old \in Job, NEW n \in Nat, JobFits(old, n), NEW pc \in Steps,
           old.pc # "idle",
           pc \in {"target", "move", "remove"} => old.op = "merge",
           pc \in Rowwise => old.pc \in Rowwise,
           pc \notin Loaded \cup {"post", "edit", "file", "vote", "unvote"}
    PROVE  LET j == [old EXCEPT !.pc = pc] IN j \in Job /\ JobFits(j, n)
BY DEF Job, JobFits, Rowwise, Loaded

LEMMA GotoType ==
    ASSUME TypeInv, NEW w \in Workers, NEW pc \in Steps, Goto(w, pc),
           NEW n \in Nat, n = Len(comments), job[w].pc # "idle",
           pc \in {"target", "move", "remove"} => job[w].op = "merge",
           pc \in Rowwise => job[w].pc \in Rowwise,
           pc \notin Loaded \cup {"post", "edit", "file", "vote", "unvote"}
    PROVE  job' \in [Workers -> Job] /\ \A v \in Workers : JobFits(job'[v], n)
<1> DEFINE j == [job[w] EXCEPT !.pc = pc]
<1>1. job[w] \in Job /\ JobFits(job[w], n)
  BY DEF TypeInv, TypeOK
<1>2. j \in Job /\ JobFits(j, n)
  BY <1>1, GotoFits
<1>3. job' = [job EXCEPT ![w] = j]
  BY DEF Goto, TypeInv, TypeOK
<1> HIDE DEF j
<1> QED
  BY <1>2, <1>3, JobChanged

LEMMA NextBaseType ==
    ASSUME TypeInv, NEW w \in Workers, NEW pc \in {"look", "handle"},
           NextBase(w, pc), NEW n \in Nat, n = Len(comments), job[w].pc # "idle"
    PROVE  job' \in [Workers -> Job] /\ \A v \in Workers : JobFits(job'[v], n)
<1>0. job[w] \in Job /\ JobFits(job[w], n)
  BY DEF TypeInv, TypeOK
<1>1. CASE job[w].rest = {}
  BY <1>1, FinishType DEF NextBase
<1>2. CASE job[w].rest # {}
  <2>1. PICK b \in job[w].rest :
          job' = [job EXCEPT ![w].pc = pc, ![w].base = b, ![w].rest = @ \ {b}]
    BY <1>2 DEF NextBase
  <2> DEFINE j == [job[w] EXCEPT !.pc = pc, !.base = b, !.rest = @ \ {b}]
  <2>2. j \in Job /\ JobFits(j, n)
    <3>1. b \in Bases /\ pc \in Steps
      BY <1>0 DEF Job, Steps
    <3>2. j \in Job
      BY <1>0, <3>1 DEF Job
    <3>3. /\ j.pc = pc /\ j.base = b /\ j.op = job[w].op
          /\ j.user = job[w].user /\ j.into = job[w].into
      BY <1>0 DEF Job
    <3> HIDE DEF j
    <3> QED
      BY <1>0, <3>1, <3>2, <3>3 DEF JobFits, Rowwise, Loaded
  <2>3. job' = [job EXCEPT ![w] = j]
    BY <2>1 DEF TypeInv, TypeOK
  <2> HIDE DEF j
  <2> QED
    BY <2>2, <2>3, JobChanged
<1> QED
  BY <1>1, <1>2

LEMMA CommittedType ==
    ASSUME TypeInv, NEW w \in Workers,
           Committed(w), NEW n \in Nat, n = Len(comments), job[w].pc # "idle"
    PROVE  job' \in [Workers -> Job] /\ \A v \in Workers : JobFits(job'[v], n)
<1>0. job[w] \in Job /\ JobFits(job[w], n)
  BY DEF TypeInv, TypeOK
<1>1. CASE job[w].rest = {}
  BY <1>1, FinishType DEF Committed
<1>2. CASE job[w].rest # {}
  <2>1. PICK b \in job[w].rest :
          job' = [job EXCEPT ![w].pc = "look", ![w].base = b,
                             ![w].rest = @ \ {b}, ![w].found = TRUE]
    BY <1>2 DEF Committed
  <2> DEFINE j == [job[w] EXCEPT !.pc = "look", !.base = b,
                                 !.rest = @ \ {b}, !.found = TRUE]
  <2>2. j \in Job /\ JobFits(j, n)
    <3>1. b \in Bases /\ "look" \in Steps
      BY <1>0 DEF Job, Steps
    <3>2. j \in Job
      BY <1>0, <3>1 DEF Job
    <3>3. /\ j.pc = "look" /\ j.base = b /\ j.op = job[w].op
          /\ j.user = job[w].user /\ j.into = job[w].into
      BY <1>0 DEF Job
    <3> HIDE DEF j
    <3> QED
      BY <1>0, <3>1, <3>2, <3>3 DEF JobFits, Rowwise, Loaded
  <2>3. job' = [job EXCEPT ![w] = j]
    BY <2>1 DEF TypeInv, TypeOK
  <2> HIDE DEF j
  <2> QED
    BY <2>2, <2>3, JobChanged
<1> QED
  BY <1>1, <1>2

-----------------------------------------------------------------------------
(* Calls.                                                                   *)

LEMMA ReceiveType ==
    ASSUME TypeInv, NEW w \in Workers, NEW j \in Job,
           JobFits(j, Len(comments)), Receive(w, j)
    PROVE  TypeInv'
<1>1. job' \in [Workers -> Job] /\ \A v \in Workers : JobFits(job'[v], Len(comments))
  BY JobChanged, Comments DEF Receive
<1> QED
  BY <1>1 DEF Receive, TypeInv, TypeOK

Plain == {"vote", "unvote", "look", "note", "handle"}

LEMMA CallType ==
    ASSUME NEW op \in AllOps, NEW pc \in Steps, NEW u \in Users, NEW b \in Bases
    PROVE  LET c == Call(op, pc, u, b)
           IN  /\ c \in Job
               /\ c.op = op /\ c.pc = pc /\ c.user = u /\ c.base = b
<1>1. "idle" \in Steps /\ "none" \notin AllOps
  BY DEF Steps, AllOps
<1> QED
  BY <1>1 DEF Call, Idle, Job

LEMMA AmendedInto ==
    ASSUME NEW c \in Job, NEW into \in Bases \cup {NULL},
           NEW j, j = [c EXCEPT !.into = into]
    PROVE  /\ j \in Job /\ j.op = c.op /\ j.pc = c.pc /\ j.user = c.user
           /\ j.base = c.base /\ j.into = into
BY DEF Job

LEMMA AmendedRest ==
    ASSUME NEW c \in Job, NEW rest \in SUBSET Bases,
           NEW j, j = [c EXCEPT !.rest = rest]
    PROVE  /\ j \in Job /\ j.op = c.op /\ j.pc = c.pc /\ j.user = c.user
           /\ j.base = c.base
BY DEF Job

LEMMA PlainFits ==
    ASSUME NEW j, NEW n, j.pc \in Plain \cup {"file", "keywords", "post"},
           j.user \in Users, j.base \in Bases, j.op \in AllOps,
           j.op = "merge" \/ j.pc = "file" => j.into \in Bases,
           j.pc \in {"vote", "unvote"} => j.op # "merge",
           j.pc = "post" => j.text \in Texts
    PROVE  JobFits(j, n)
BY DEF JobFits, Plain, Rowwise, Loaded, AllOps

LEMMA ServeType ==
    ASSUME TypeInv, NEW w \in Workers, NEW u \in Users, NEW b \in Bases,
           Serve(w, u, b)
    PROVE  TypeInv'
<1> DEFINE n == Len(comments)
<1>0. n \in Nat
  BY Comments
<1> HIDE DEF n
<1>1. CASE VotePost(w, u, b)
  <2> DEFINE j == Call("vote", "vote", u, b)
  <2>1. j \in Job /\ JobFits(j, n)
    BY CallType, PlainFits DEF AllOps, Steps, Plain
  <2>2. Receive(w, j)
    BY <1>1 DEF VotePost
  <2> HIDE DEF j
  <2> QED
    BY <2>1, <2>2, ReceiveType DEF n
<1>2. CASE UnvotePost(w, u, b)
  <2> DEFINE j == Call("unvote", "unvote", u, b)
  <2>1. j \in Job /\ JobFits(j, n)
    BY CallType, PlainFits DEF AllOps, Steps, Plain
  <2>2. Receive(w, j)
    BY <1>2 DEF UnvotePost
  <2> HIDE DEF j
  <2> QED
    BY <2>1, <2>2, ReceiveType DEF n
<1>3. CASE CommentPost(w, u, b)
  <2>1. PICK t \in Texts, f \in BOOLEAN :
           Receive(w, [Call("comment", "post", u, b) EXCEPT !.text = t, !.flag = f])
    BY <1>3 DEF CommentPost
  <2> DEFINE j == [Call("comment", "post", u, b) EXCEPT !.text = t, !.flag = f]
  <2>2. j \in Job /\ JobFits(j, n)
    <3> DEFINE c == Call("comment", "post", u, b)
    <3>1. c \in Job /\ c.op = "comment" /\ c.pc = "post" /\ c.user = u /\ c.base = b
      BY CallType DEF AllOps, Steps
    <3>2. j = [c EXCEPT !.text = t, !.flag = f]
      OBVIOUS
    <3> HIDE DEF c, j
    <3>3. /\ j \in Job /\ j.op = c.op /\ j.pc = c.pc /\ j.user = c.user
          /\ j.base = c.base /\ j.text = t
      BY <3>1, <3>2 DEF Job
    <3> QED
      BY <3>1, <3>3, PlainFits DEF AllOps, Plain
  <2> HIDE DEF j
  <2> QED
    BY <2>1, <2>2, ReceiveType DEF n, j
<1>4. CASE KeywordsPost(w, u, b)
  <2>1. PICK S \in SUBSET Keywords :
           Receive(w, [Call("keywords", "keywords", u, b) EXCEPT
                          !.words = S, !.had = keywords[b] \cap S])
    BY <1>4 DEF KeywordsPost
  <2> DEFINE had == keywords[b] \cap S
             j == [Call("keywords", "keywords", u, b) EXCEPT !.words = S, !.had = had]
  <2>2. had \in SUBSET Keywords
    OBVIOUS
  <2> HIDE DEF had
  <2>3. j \in Job /\ JobFits(j, n)
    <3> DEFINE c == Call("keywords", "keywords", u, b)
    <3>1. c \in Job /\ c.op = "keywords" /\ c.pc = "keywords" /\ c.user = u /\ c.base = b
      BY CallType DEF AllOps, Steps
    <3>2. j = [c EXCEPT !.words = S, !.had = had]
      OBVIOUS
    <3> HIDE DEF c, j
    <3>3. /\ j \in Job /\ j.op = c.op /\ j.pc = c.pc /\ j.user = c.user
          /\ j.base = c.base
      BY <2>2, <3>1, <3>2 DEF Job
    <3> QED
      BY <2>2, <3>1, <3>3, PlainFits DEF AllOps, Plain
  <2>4. Receive(w, j)
    BY <2>1 DEF had
  <2> HIDE DEF j
  <2> QED
    BY <2>3, <2>4, ReceiveType DEF n
<1>5. CASE \E into \in Bases : RequestPost(w, u, b, into)
  <2>1. PICK into \in Bases : RequestPost(w, u, b, into)
    BY <1>5
  <2> DEFINE j == [Call("request", "file", u, b) EXCEPT !.into = into]
  <2>2. j \in Job /\ JobFits(j, n)
    <3> DEFINE c == Call("request", "file", u, b)
    <3>1. c \in Job /\ c.op = "request" /\ c.pc = "file" /\ c.user = u /\ c.base = b
      BY CallType DEF AllOps, Steps
    <3>2. j = [c EXCEPT !.into = into]
      OBVIOUS
    <3> HIDE DEF c, j
    <3>3. /\ j \in Job /\ j.op = c.op /\ j.pc = c.pc /\ j.user = c.user
          /\ j.base = c.base /\ j.into = into
      BY <3>1, <3>2, AmendedInto
    <3> QED
      BY <3>1, <3>3, PlainFits DEF AllOps, Plain
  <2>3. Receive(w, j)
    BY <2>1 DEF RequestPost
  <2> HIDE DEF j
  <2> QED
    BY <2>2, <2>3, ReceiveType DEF n
<1>6. CASE \E into \in Bases : MergePost(w, u, b, into)
  <2>1. PICK into \in Bases : MergePost(w, u, b, into)
    BY <1>6
  <2>2. PICK noted \in BOOLEAN :
           Receive(w, [Call("merge", IF noted THEN "note" ELSE "handle", u, b)
                          EXCEPT !.into = into])
    BY <2>1 DEF MergePost
  <2> DEFINE pc == IF noted THEN "note" ELSE "handle"
             j == [Call("merge", pc, u, b) EXCEPT !.into = into]
  <2>3. pc \in Plain /\ pc \in Steps /\ pc \notin {"vote", "unvote"}
    BY DEF Plain, Steps
  <2>4. Receive(w, j)
    BY <2>2
  <2> HIDE DEF pc
  <2>5. j \in Job /\ JobFits(j, n)
    <3> DEFINE c == Call("merge", pc, u, b)
    <3>1. c \in Job /\ c.op = "merge" /\ c.pc = pc /\ c.user = u /\ c.base = b
      BY <2>3, CallType DEF AllOps
    <3>2. j = [c EXCEPT !.into = into]
      OBVIOUS
    <3> HIDE DEF c, j
    <3>3. /\ j \in Job /\ j.op = c.op /\ j.pc = c.pc /\ j.user = c.user
          /\ j.base = c.base /\ j.into = into
      BY <2>3, <3>1, <3>2, AmendedInto
    <3> QED
      BY <2>3, <3>1, <3>3, PlainFits DEF AllOps, Plain
  <2> HIDE DEF j
  <2> QED
    BY <2>4, <2>5, ReceiveType DEF n
<1> QED
  BY <1>1, <1>2, <1>3, <1>4, <1>5, <1>6 DEF Serve

LEMMA ServeBulkType ==
    ASSUME TypeInv, NEW w \in Workers, NEW u \in Users, NEW S \in SUBSET Bases,
           ServeBulk(w, u, S)
    PROVE  TypeInv'
<1>0. Len(comments) \in Nat
  BY Comments
<1>1. PICK op \in {"notify", "unnotify", "delete"}, pc \in {"look", "handle"}, b \in S :
         Receive(w, [Call(op, pc, u, b) EXCEPT !.rest = S \ {b}])
  <2>1. CASE NotifyPost(w, u, S)
    BY <2>1 DEF NotifyPost
  <2>2. CASE UnnotifyPost(w, u, S)
    BY <2>2 DEF UnnotifyPost
  <2>3. CASE DeletePost(w, u, S)
    BY <2>3 DEF DeletePost
  <2> QED
    BY <2>1, <2>2, <2>3 DEF ServeBulk
<1> DEFINE rest == S \ {b}
           j == [Call(op, pc, u, b) EXCEPT !.rest = rest]
<1>2. rest \in SUBSET Bases /\ b \in Bases
  OBVIOUS
<1>3. Receive(w, j)
  BY <1>1
<1> HIDE DEF rest
<1>4. j \in Job /\ JobFits(j, Len(comments))
  <2> DEFINE c == Call(op, pc, u, b)
  <2>1. c \in Job /\ c.op = op /\ c.pc = pc /\ c.user = u /\ c.base = b
    BY <1>2, CallType DEF AllOps, Steps
  <2>2. j = [c EXCEPT !.rest = rest]
    OBVIOUS
  <2> HIDE DEF c, j
  <2>3. /\ j \in Job /\ j.op = c.op /\ j.pc = c.pc /\ j.user = c.user
        /\ j.base = c.base
    BY <1>2, <2>1, <2>2, AmendedRest
  <2> QED
    BY <1>2, <2>1, <2>3, PlainFits DEF AllOps, Plain
<1> HIDE DEF j
<1> QED
  BY <1>3, <1>4, ReceiveType

LEMMA OnCommentFits ==
    ASSUME TypeInv, NEW i \in DOMAIN comments, comments[i].base # NULL,
           NEW op \in {"edit", "erase", "restore", "pin", "unpin"},
           NEW pc \in Rowwise \ {"render"}, NEW u \in Users,
           NEW t \in Texts, NEW f \in BOOLEAN
    PROVE  /\ LET j == [OnComment(op, pc, u, i) EXCEPT !.text = t, !.flag = f]
              IN  j \in Job /\ JobFits(j, Len(comments))
           /\ pc # "edit" => /\ OnComment(op, pc, u, i) \in Job
                             /\ JobFits(OnComment(op, pc, u, i), Len(comments))
<1>1. comments[i] \in Comment /\ comments[i].base \in Bases
  BY Comments DEF Comment
<1>2. i \in 1 .. Len(comments) /\ i \in Nat
  BY Comments
<1> DEFINE c == Call(op, pc, u, comments[i].base)
           d == OnComment(op, pc, u, i)
           j == [d EXCEPT !.text = t, !.flag = f]
<1>3. c \in Job /\ c.op = op /\ c.pc = pc /\ c.user = u /\ c.base = comments[i].base
  <2>1. op \in AllOps /\ pc \in Steps
    BY DEF AllOps, Steps, Rowwise
  <2> QED
    BY <1>1, <2>1, CallType
<1>4. d = [c EXCEPT !.id = i, !.row = comments[i]]
  BY DEF OnComment
<1> HIDE DEF c, d
<1>5. /\ d \in Job /\ d.op = op /\ d.pc = pc /\ d.user = u
      /\ d.base = comments[i].base /\ d.id = i /\ d.row = comments[i]
  BY <1>1, <1>2, <1>3, <1>4 DEF Job
<1>6. pc # "edit" => JobFits(d, Len(comments))
  BY <1>1, <1>2, <1>5 DEF JobFits, Rowwise, Loaded
<1>7. /\ j \in Job /\ j.op = op /\ j.pc = pc /\ j.user = u /\ j.text = t
      /\ j.base = comments[i].base /\ j.id = i /\ j.row = comments[i]
  BY <1>5 DEF Job
<1>8. JobFits(j, Len(comments))
  <2> HIDE DEF j
  <2> QED
    BY <1>1, <1>2, <1>7 DEF JobFits, Rowwise, Loaded
<1> QED
  BY <1>5, <1>6, <1>7, <1>8 DEF d

LEMMA ServeCommentType ==
    ASSUME TypeInv, NEW w \in Workers, NEW u \in Users, NEW i \in DOMAIN comments,
           ServeComment(w, u, i)
    PROVE  TypeInv'
<1>1. CASE EditPost(w, u, i)
  <2>1. PICK t \in Texts, f \in BOOLEAN :
          Receive(w, [OnComment("edit", IF t # comments[i].text THEN "edit"
                                        ELSE "save", u, i)
                      EXCEPT !.text = t, !.flag = f])
    BY <1>1 DEF EditPost
  <2> DEFINE pc == IF t # comments[i].text THEN "edit" ELSE "save"
             j == [OnComment("edit", pc, u, i) EXCEPT !.text = t, !.flag = f]
  <2>2. pc \in Rowwise \ {"render"}
    BY DEF Rowwise
  <2>3. Receive(w, j)
    BY <2>1
  <2> HIDE DEF pc
  <2>4. j \in Job /\ JobFits(j, Len(comments))
    BY <1>1, <2>2, OnCommentFits DEF EditPost
  <2> HIDE DEF j
  <2> QED
    BY <2>3, <2>4, ReceiveType
<1>2. CASE ~EditPost(w, u, i)
  <2>1. PICK op \in {"erase", "restore", "pin", "unpin"} :
           comments[i].base # NULL /\ Receive(w, OnComment(op, op, u, i))
    BY <1>2 DEF ServeComment, ErasePost, RestorePost, PinPost
  <2>2. PICK t \in Texts : TRUE
    <3>1. comments[i] \in Comment
      BY Comments
    <3> QED
      BY <3>1 DEF Comment
  <2>3. OnComment(op, op, u, i) \in Job /\ JobFits(OnComment(op, op, u, i), Len(comments))
    BY <2>1, <2>2, OnCommentFits DEF Rowwise
  <2> QED
    BY <2>1, <2>3, ReceiveType
<1> QED
  BY <1>1, <1>2

-----------------------------------------------------------------------------
(* Steps.                                                                   *)

(* A step that only goes on in its job.                                     *)
LEMMA ReadType ==
    ASSUME TypeInv, UNCHANGED tables,
           job' \in [Workers -> Job],
           \A v \in Workers : JobFits(job'[v], Len(comments))
    PROVE  TypeInv'
BY DEF TypeInv, TypeOK, tables

LEMMA ReadStepsType ==
    ASSUME TypeInv, NEW w \in Workers,
           \/ Vanished(w) \/ Crash(w) \/ Look(w) \/ Render(w)
           \/ Handle(w) \/ ReadTarget(w)
    PROVE  TypeInv'
<1> DEFINE n == Len(comments)
<1>0. n \in Nat /\ n = Len(comments)
  BY Comments
<1> HIDE DEF n
<1>1. job[w] \in Job /\ JobFits(job[w], n)
  BY <1>0 DEF TypeInv, TypeOK
<1>2. CASE Vanished(w) \/ Crash(w)
  BY <1>0, <1>2, FinishType, ReadType DEF Vanished, Crash, tables
<1>3. CASE Look(w)
  <2>1. job[w].pc = "look"
    BY <1>3 DEF Look
  <2>2. job' \in [Workers -> Job] /\ \A v \in Workers : JobFits(job'[v], n)
    <3>1. CASE Goto(w, "subscribe")
      BY <1>0, <2>1, <3>1, GotoType DEF Steps, Rowwise, Loaded
    <3>2. CASE Goto(w, "unsubscribe")
      BY <1>0, <2>1, <3>2, GotoType DEF Steps, Rowwise, Loaded
    <3>3. CASE NextBase(w, "look")
      BY <1>0, <2>1, <3>3, NextBaseType
    <3> QED
      BY <1>3, <3>1, <3>2, <3>3 DEF Look
  <2> QED
    BY <1>0, <1>3, <2>2, ReadType DEF Look, tables
<1>4. CASE Render(w)
  <2> DEFINE row == comments[job[w].id]
             j == [job[w] EXCEPT !.pc = "save", !.row = row]
  <2>1. row \in Comment
    BY <1>0, <1>1, <1>4, Comments DEF Render, JobFits, Rowwise
  <2>2. job[w].pc = "render" /\ job' = [job EXCEPT ![w] = j]
    BY <1>4 DEF Render, TypeInv, TypeOK
  <2> HIDE DEF row
  <2>3. j \in Job /\ JobFits(j, n)
    BY <1>1, <2>1, <2>2 DEF Job, JobFits, Steps, Rowwise, Loaded
  <2> QED
    BY <1>0, <1>4, <2>2, <2>3, JobChanged, ReadType DEF Render, tables
<1>5. CASE Handle(w)
  <2> DEFINE accepted == ToAccept(reqs, TypeOf(w), job[w].base, job[w].into)
             refused == ToReject(reqs, TypeOf(w), job[w].base, job[w].into)
             blank == Blank(reqs, accepted \cup refused)
             p == accepted # {}
             pc == IF accepted = {} THEN "create" ELSE "settle"
             j == [job[w] EXCEPT !.pc = pc, !.found = p, !.ids = accepted,
                                 !.rejected = refused, !.blank = blank]
  <2>1. accepted \in SUBSET Nat /\ refused \in SUBSET Nat /\ blank \in SUBSET Nat
    BY PendingIdsType DEF ToAccept, ToReject, Blank, TypeInv, TypeOK
  <2>2. job[w].pc = "handle" /\ job' = [job EXCEPT ![w] = j]
    BY <1>5 DEF Handle, At, TypeInv, TypeOK
  <2>3. p \in BOOLEAN /\ pc \in {"create", "settle"}
    OBVIOUS
  <2> HIDE DEF accepted, refused, blank, p, pc
  <2>4. j \in Job /\ JobFits(j, n)
    <3>1. pc \in Steps
      BY <2>3 DEF Steps
    <3>2. j \in Job
      BY <1>1, <2>1, <2>3, <3>1 DEF Job
    <3>3. /\ j.pc = pc /\ j.base = job[w].base /\ j.op = job[w].op
          /\ j.user = job[w].user /\ j.into = job[w].into
      BY <1>1 DEF Job
    <3> HIDE DEF j
    <3> QED
      BY <1>1, <2>2, <2>3, <3>2, <3>3 DEF JobFits, Rowwise, Loaded
  <2> QED
    BY <1>0, <1>5, <2>2, <2>4, JobChanged, ReadType DEF Handle, tables
<1>6. CASE ReadTarget(w)
  <2> DEFINE j == [job[w] EXCEPT !.pc = "move", !.voters = votes[job[w].into],
                                 !.subscribers = notified[job[w].into]]
  <2>1. job[w].pc = "target" /\ job' = [job EXCEPT ![w] = j]
    BY <1>6 DEF ReadTarget, TypeInv, TypeOK
  <2>2. job[w].into \in Bases
    BY <1>6 DEF ReadTarget, TypeInv, TypeOK
  <2>3. j \in Job /\ JobFits(j, n)
    BY <1>1, <2>1, <2>2 DEF Job, JobFits, Steps, Rowwise, Loaded, TypeInv, TypeOK
  <2> QED
    BY <1>0, <1>6, <2>1, <2>3, JobChanged, ReadType DEF ReadTarget, tables
<1> QED
  BY <1>2, <1>3, <1>4, <1>5, <1>6

LEMMA RecountedType ==
    ASSUME TypeInv, NEW S
    PROVE  Recounted(S) \in [Bases -> Nat]
<1>1. \A b \in Bases : Cardinality(votes[b]) \in Nat
  BY UsersAssumption, FS_Subset, FS_CardinalityType DEF TypeInv, TypeOK
<1> QED
  BY <1>1 DEF Recounted, TypeInv, TypeOK

(* Votes, subscriptions and keywords.                                       *)
LEMMA ColumnStepsType ==
    ASSUME TypeInv, NEW w \in Workers,
           \/ CastVote(w) \/ WithdrawVote(w) \/ Recount(w)
           \/ Subscribe(w) \/ Unsubscribe(w) \/ SetKeywords(w)
    PROVE  TypeInv'
<1> DEFINE n == Len(comments)
<1>0. n \in Nat /\ n = Len(comments)
  BY Comments
<1> HIDE DEF n
<1>1. job[w] \in Job /\ JobFits(job[w], n) /\ job[w].pc # "idle"
  BY <1>0 DEF TypeInv, TypeOK, CastVote, WithdrawVote, Recount, Subscribe,
              Unsubscribe, SetKeywords, At
<1>2. job[w].user \in Users /\ job[w].base \in Bases
  BY <1>1 DEF JobFits
<1>3. job' \in [Workers -> Job] /\ \A v \in Workers : JobFits(job'[v], n)
  <2>1. CASE Finish(w)
    BY <1>0, <2>1, FinishType
  <2>2. CASE Goto(w, "recount")
    BY <1>0, <1>1, <2>2, GotoType DEF Steps, Rowwise, Loaded
  <2>3. CASE Goto(w, "remove") /\ job[w].op = "merge"
    BY <1>0, <1>1, <2>3, GotoType DEF Steps, Rowwise, Loaded
  <2>4. CASE Committed(w)
    BY <1>0, <1>1, <2>4, CommittedType
  <2> QED
    BY <2>1, <2>2, <2>3, <2>4
    DEF CastVote, WithdrawVote, Recount, Subscribe, Unsubscribe, SetKeywords
<1>4. CASE CastVote(w)
  BY <1>0, <1>2, <1>3, <1>4 DEF CastVote, TypeInv, TypeOK
<1>5. CASE WithdrawVote(w)
  BY <1>0, <1>2, <1>3, <1>5 DEF WithdrawVote, TypeInv, TypeOK
<1>6. CASE Recount(w)
  BY <1>0, <1>3, <1>6, RecountedType DEF Recount, TypeInv, TypeOK
<1>7. CASE Subscribe(w)
  BY <1>0, <1>2, <1>3, <1>7 DEF Subscribe, TypeInv, TypeOK
<1>8. CASE Unsubscribe(w)
  BY <1>0, <1>2, <1>3, <1>8 DEF Unsubscribe, TypeInv, TypeOK
<1>9. CASE SetKeywords(w)
  <2>1. job[w].words \in SUBSET Keywords
    BY <1>1 DEF Job
  <2>2. keywords' \in [Bases -> SUBSET Keywords]
    BY <1>2, <1>9, <2>1 DEF SetKeywords, TypeInv, TypeOK
  <2> QED
    BY <1>0, <1>3, <1>9, <2>2 DEF SetKeywords, TypeInv, TypeOK
<1> QED
  BY <1>4, <1>5, <1>6, <1>7, <1>8, <1>9

LEMMA MarkedType ==
    ASSUME NEW j \in Job, NEW row \in Comment, j.row \in Comment, j.user \in Users
    PROVE  Marked(j, row) \in Comment
BY DEF Marked, Comment, Job

LEMMA RewriteComments ==
    ASSUME NEW s \in Seq(Comment), NEW t, t = [i \in DOMAIN s |-> t[i]],
           \A i \in DOMAIN s : t[i] \in Comment
    PROVE  t \in Seq(Comment) /\ Len(t) = Len(s)
BY RewriteType

LEMMA CommentStepsType ==
    ASSUME TypeInv, NEW w \in Workers,
           AddComment(w) \/ EditComment(w) \/ SaveRendered(w) \/ MarkComment(w)
    PROVE  TypeInv'
<1> DEFINE n == Len(comments)
<1>0. n \in Nat /\ n = Len(comments)
  BY Comments
<1> HIDE DEF n
<1>1. job[w] \in Job /\ JobFits(job[w], n) /\ job[w].pc # "idle"
  BY <1>0 DEF TypeInv, TypeOK, AddComment, EditComment, SaveRendered, MarkComment, At
<1>2. job[w].user \in Users /\ job[w].base \in Bases
  BY <1>1 DEF JobFits
<1>3. comments \in Seq(Comment) /\ \A i \in DOMAIN comments : comments[i] \in Comment
  BY Comments DEF TypeInv, TypeOK
<1>4. CASE AddComment(w)
  <2> DEFINE r == [base |-> job[w].base, by |-> job[w].user, text |-> job[w].text,
                   html |-> NULL, deleter |-> NULL, deleted |-> FALSE,
                   pinned |-> FALSE]
             j == [job[w] EXCEPT !.pc = "render", !.id = n + 1]
  <2>1. r \in Comment
    BY <1>1, <1>2, <1>4 DEF AddComment, At, JobFits, Comment
  <2>2. comments' = Append(comments, r)
    BY <1>4 DEF AddComment
  <2> HIDE DEF r
  <2>3. comments' \in Seq(Comment) /\ Len(comments') = n + 1
    BY <1>0, <1>3, <2>1, <2>2, AppendProperties
  <2>4. j \in Job /\ JobFits(j, n + 1)
    <3>1. n + 1 \in Nat /\ n + 1 \in 1 .. n + 1 /\ "render" \in Steps
      BY <1>0 DEF Steps
    <3>2. j \in Job
      BY <1>1, <3>1 DEF Job
    <3>3. /\ j.pc = "render" /\ j.base = job[w].base /\ j.op = job[w].op
          /\ j.user = job[w].user /\ j.into = job[w].into /\ j.id = n + 1
      BY <1>1 DEF Job
    <3> HIDE DEF j
    <3> QED
      BY <1>1, <3>1, <3>2, <3>3 DEF JobFits, Rowwise, Loaded
  <2>5. job' = [job EXCEPT ![w] = j]
    BY <1>0, <1>4 DEF AddComment, TypeInv, TypeOK
  <2>6. job' \in [Workers -> Job] /\ \A v \in Workers : JobFits(job'[v], n + 1)
    <3>1. n + 1 \in Nat /\ Len(comments) <= n + 1
      BY <1>0
    <3> QED
      BY <2>4, <2>5, <3>1, JobReplaced
  <2>7. notified' \in [Bases -> SUBSET Users]
    BY <1>2, <1>4 DEF AddComment, TypeInv, TypeOK
  <2> QED
    BY <1>4, <2>3, <2>6, <2>7 DEF AddComment, TypeInv, TypeOK
<1>5. CASE EditComment(w)
  <2>1. job[w].pc = "edit" /\ job[w].text \in Texts
    BY <1>1, <1>5 DEF EditComment, JobFits
  <2>2. comments' = [i \in DOMAIN comments |-> comments'[i]]
    BY <1>5 DEF EditComment
  <2>3. \A i \in DOMAIN comments : comments'[i] \in Comment
    BY <1>3, <1>5, <2>1 DEF EditComment, Comment
  <2>4. comments' \in Seq(Comment) /\ Len(comments') = n
    BY <1>0, <1>3, <2>2, <2>3, RewriteComments
  <2>5. job' \in [Workers -> Job] /\ \A v \in Workers : JobFits(job'[v], n)
    BY <1>0, <1>5, <2>1, GotoType DEF EditComment, Steps, Rowwise, Loaded
  <2>6. notified' \in [Bases -> SUBSET Users]
    BY <1>2, <1>5 DEF EditComment, TypeInv, TypeOK
  <2> QED
    BY <1>5, <2>4, <2>5, <2>6 DEF EditComment, TypeInv, TypeOK
<1>6. CASE SaveRendered(w)
  <2>1. job[w].row \in Comment
    BY <1>1, <1>6 DEF SaveRendered, JobFits, Loaded
  <2>2. comments' = [i \in DOMAIN comments |-> comments'[i]]
    BY <1>3, <1>6 DEF SaveRendered
  <2>3. \A i \in DOMAIN comments : comments'[i] \in Comment
    BY <1>3, <1>6, <2>1 DEF SaveRendered, Comment
  <2>4. comments' \in Seq(Comment) /\ Len(comments') = n
    BY <1>0, <1>3, <2>2, <2>3, RewriteComments
  <2>5. job' \in [Workers -> Job] /\ \A v \in Workers : JobFits(job'[v], n)
    BY <1>0, <1>6, FinishType DEF SaveRendered
  <2> QED
    BY <1>6, <2>4, <2>5 DEF SaveRendered, TypeInv, TypeOK
<1>7. CASE MarkComment(w)
  <2>1. job[w].row \in Comment
    BY <1>1, <1>7 DEF MarkComment, JobFits, Loaded
  <2>2. comments' = [i \in DOMAIN comments |-> comments'[i]]
    BY <1>3, <1>7 DEF MarkComment
  <2>3. \A i \in DOMAIN comments : comments'[i] \in Comment
    <3>1. \A i \in DOMAIN comments : Marked(job[w], comments[i]) \in Comment
      BY <1>1, <1>2, <1>3, <2>1, MarkedType
    <3>2. \A i \in DOMAIN comments :
             comments'[i] \in {comments[i], Marked(job[w], comments[i])}
      BY <1>3, <1>7 DEF MarkComment
    <3> QED
      BY <1>3, <3>1, <3>2
  <2>4. comments' \in Seq(Comment) /\ Len(comments') = n
    BY <1>0, <1>3, <2>2, <2>3, RewriteComments
  <2>5. job' \in [Workers -> Job] /\ \A v \in Workers : JobFits(job'[v], n)
    BY <1>0, <1>7, FinishType DEF MarkComment
  <2> QED
    BY <1>7, <2>4, <2>5 DEF MarkComment, TypeInv, TypeOK
<1> QED
  BY <1>4, <1>5, <1>6, <1>7

(* Requests, merges and deletions.                                          *)
LEMMA RequestStepsType ==
    ASSUME TypeInv, NEW w \in Workers, File(w) \/ Note(w) \/ Create(w) \/ Settle(w)
    PROVE  TypeInv' /\ KeepsRows(reqs, reqs')
<1> DEFINE n == Len(comments)
<1>0. n \in Nat /\ n = Len(comments)
  BY Comments
<1> HIDE DEF n
<1>1. job[w] \in Job /\ JobFits(job[w], n) /\ job[w].pc # "idle"
  BY <1>0 DEF TypeInv, TypeOK, File, Note, Create, Settle, At
<1>2. job[w].user \in Users /\ job[w].base \in Bases
  BY <1>1 DEF JobFits
<1>3. reqs \in Seq(Request)
  BY DEF TypeInv, TypeOK
<1>4. CASE File(w)
  <2>1. NewRequest("merge", job[w].base, job[w].into, job[w].user, 0) \in Request
    BY <1>1, <1>2, <1>4, NewRequestType DEF File, At, JobFits, Types
  <2>2. job' \in [Workers -> Job] /\ \A v \in Workers : JobFits(job'[v], n)
    BY <1>0, <1>4, FinishType DEF File
  <2> QED
    BY <1>0, <1>3, <1>4, <2>1, <2>2, AppendRequest, KeepsRowsAppend
    DEF File, TypeInv, TypeOK
<1>5. CASE Note(w)
  <2>1. job' \in [Workers -> Job] /\ \A v \in Workers : JobFits(job'[v], n)
    BY <1>0, <1>1, <1>5, GotoType DEF Note, Steps, Rowwise, Loaded
  <2> QED
    BY <1>0, <1>3, <1>5, <2>1, UpdateClosureCommentType, KeepsRowsUpdate
    DEF Note, TypeInv, TypeOK
<1>6. CASE Create(w)
  <2> DEFINE id == Len(reqs) + 1
             blank == job[w].blank \cup {id}
             j == [job[w] EXCEPT !.pc = "settle", !.ids = {id}, !.blank = blank]
  <2>1. NewRequest(TypeOf(w), job[w].base, job[w].into, job[w].user, 0) \in Request
    BY <1>1, <1>2, NewRequestType DEF Job, JobFits, TypeOf, Types
  <2>2. id \in Nat /\ blank \in SUBSET Nat
    BY <1>1, <1>3, LenProperties DEF Job
  <2>3. job' = [job EXCEPT ![w] = j]
    BY <1>1, <1>6 DEF Create, TypeInv, TypeOK
  <2> HIDE DEF id, blank
  <2>4. j \in Job /\ JobFits(j, n)
    BY <1>1, <2>2, <1>6 DEF Create, At, Job, JobFits, Steps, Rowwise, Loaded
  <2>5. job' \in [Workers -> Job] /\ \A v \in Workers : JobFits(job'[v], n)
    BY <1>0, <2>3, <2>4, JobChanged
  <2> QED
    BY <1>0, <1>3, <1>6, <2>1, <2>5, AppendRequest, KeepsRowsAppend
    DEF Create, TypeInv, TypeOK
<1>7. CASE Settle(w)
  <2>1. job' \in [Workers -> Job] /\ \A v \in Workers : JobFits(job'[v], n)
    <3>1. CASE job[w].op = "merge"
      BY <1>0, <1>1, <1>7, <3>1, GotoType DEF Settle, Steps, Rowwise, Loaded
    <3>2. CASE job[w].op # "merge"
      BY <1>0, <1>1, <1>7, <3>2, GotoType DEF Settle, Steps, Rowwise, Loaded
    <3> QED
      BY <3>1, <3>2
  <2> DEFINE first == ClosePkgreq(reqs, job[w].ids, job[w].blank, "Accepted")
  <2>2. first \in Seq(Request) /\ KeepsRows(reqs, first)
    BY <1>3, ClosePkgreqType, KeepsRowsClose DEF Statuses
  <2>3. reqs' = ClosePkgreq(first, job[w].rejected, job[w].blank, "Rejected")
    BY <1>7 DEF Settle
  <2> HIDE DEF first
  <2>4. reqs' \in Seq(Request) /\ KeepsRows(first, reqs')
    BY <2>2, <2>3, ClosePkgreqType, KeepsRowsClose DEF Statuses
  <2>5. KeepsRows(reqs, reqs')
    BY <2>2, <2>4, KeepsRowsTwice
  <2> QED
    BY <1>0, <1>7, <2>1, <2>4, <2>5 DEF Settle, TypeInv, TypeOK
<1> QED
  BY <1>4, <1>5, <1>6, <1>7

LEMMA MoveType ==
    ASSUME TypeInv, NEW w \in Workers, Move(w)
    PROVE  TypeInv'
<1> DEFINE n == Len(comments)
           b == job[w].base
           into == job[w].into
           voters == votes[b] \ job[w].voters
           subscribers == notified[b] \ job[w].subscribers
<1>0. n \in Nat /\ n = Len(comments)
  BY Comments
<1> HIDE DEF n
<1>1. job[w] \in Job /\ JobFits(job[w], n) /\ job[w].pc = "move"
  BY <1>0 DEF TypeInv, TypeOK, Move, At
<1>2. b \in Bases /\ into \in Bases
  BY <1>1 DEF JobFits
<1>3. CASE voters \cap votes[into] # {} \/ subscribers \cap notified[into] # {}
  <2>1. Finish(w) /\ UNCHANGED tables
    BY <1>3 DEF Move, tables
  <2> QED
    BY <1>0, <2>1, FinishType, ReadType
<1>4. CASE ~(voters \cap votes[into] # {} \/ subscribers \cap notified[into] # {})
  <2>1. /\ votes' = [votes EXCEPT ![b] = @ \ voters, ![into] = @ \cup voters]
        /\ notified' = [notified EXCEPT ![b] = @ \ subscribers,
                                        ![into] = @ \cup subscribers]
        /\ comments' = [i \in DOMAIN comments |->
                           IF comments[i].base = b
                           THEN [comments[i] EXCEPT !.base = into] ELSE comments[i]]
        /\ Goto(w, "recount")
        /\ UNCHANGED <<live, numVotes, keywords, reqs>>
    BY <1>4 DEF Move
  <2>2. comments' \in Seq(Comment) /\ Len(comments') = n
    <3>1. \A i \in DOMAIN comments : comments'[i] \in Comment
      BY <1>2, <2>1, Comments DEF Comment
    <3>2. comments' = [i \in DOMAIN comments |-> comments'[i]]
      BY <2>1
    <3> QED
      BY <1>0, <3>1, <3>2, RewriteComments DEF TypeInv, TypeOK
  <2>3. job' \in [Workers -> Job] /\ \A v \in Workers : JobFits(job'[v], n)
    BY <1>0, <1>1, <2>1, GotoType DEF Steps, Rowwise, Loaded
  <2>4. votes' \in [Bases -> SUBSET Users] /\ notified' \in [Bases -> SUBSET Users]
    BY <1>2, <2>1 DEF TypeInv, TypeOK
  <2> QED
    BY <2>1, <2>2, <2>3, <2>4 DEF TypeInv, TypeOK
<1> QED
  BY <1>3, <1>4

LEMMA RemoveBaseType ==
    ASSUME TypeInv, NEW w \in Workers, Remove(w) \/ Delete(w)
    PROVE  TypeInv' /\ KeepsRows(reqs, reqs')
<1> DEFINE n == Len(comments)
           b == job[w].base
<1>0. n \in Nat /\ n = Len(comments)
  BY Comments
<1> HIDE DEF n
<1>1. job[w] \in Job /\ JobFits(job[w], n) /\ job[w].pc # "idle"
  BY <1>0 DEF TypeInv, TypeOK, Remove, Delete, At
<1>2. RemoveBase(b)
  BY DEF Remove, Delete
<1>3. comments' \in Seq(Comment) /\ Len(comments') = n
  <2>1. \A i \in DOMAIN comments : comments'[i] \in Comment
    BY <1>2, Comments DEF RemoveBase, Comment
  <2>2. comments' = [i \in DOMAIN comments |-> comments'[i]]
    BY <1>2 DEF RemoveBase
  <2> QED
    BY <1>0, <2>1, <2>2, RewriteComments DEF TypeInv, TypeOK
<1>4. job' \in [Workers -> Job] /\ \A v \in Workers : JobFits(job'[v], n)
  <2>1. CASE Remove(w)
    BY <1>0, <2>1, FinishType DEF Remove
  <2>2. CASE Delete(w)
    BY <1>0, <1>1, <2>2, NextBaseType DEF Delete
  <2> QED
    BY <2>1, <2>2
<1>5. reqs' \in Seq(Request) /\ KeepsRows(reqs, reqs')
  BY <1>2, DetachRequestsType, KeepsRowsDetach DEF RemoveBase, TypeInv, TypeOK
<1>6. /\ live' \subseteq Bases
      /\ votes' \in [Bases -> SUBSET Users]
      /\ numVotes' \in [Bases -> Nat]
      /\ notified' \in [Bases -> SUBSET Users]
      /\ keywords' \in [Bases -> SUBSET Keywords]
  BY <1>2 DEF RemoveBase, TypeInv, TypeOK
<1> QED
  BY <1>3, <1>4, <1>5, <1>6 DEF TypeInv, TypeOK

LEMMA StepType ==
    ASSUME TypeInv, NEW w \in Workers, Step(w) \/ Crash(w)
    PROVE  TypeInv' /\ KeepsRows(reqs, reqs')
<1>1. CASE /\ ~(File(w) \/ Note(w) \/ Create(w) \/ Settle(w))
           /\ ~(Remove(w) \/ Delete(w))
  <2>1. TypeInv'
    BY <1>1, ReadStepsType, ColumnStepsType, CommentStepsType, MoveType DEF Step
  <2>2. reqs' = reqs
    BY <1>1
    DEF Step, Crash, Vanished, CastVote, WithdrawVote, Recount, Look, Subscribe,
        Unsubscribe, AddComment, EditComment, Render, SaveRendered, MarkComment,
        SetKeywords, Handle, ReadTarget, Move
  <2> QED
    BY <2>1, <2>2, KeepsRowsSame
<1> QED
  BY <1>1, RequestStepsType, RemoveBaseType

LEMMA InitType == Init => TypeInv
<1> SUFFICES ASSUME Init PROVE TypeInv
  OBVIOUS
<1>1. reqs \in Seq(Request) /\ comments \in Seq(Comment) /\ Len(comments) = 0
  BY DEF Init
<1>2. job \in [Workers -> Job] /\ \A w \in Workers : JobFits(job[w], 0)
  BY IdleFits DEF Init
<1> QED
  BY <1>1, <1>2 DEF Init, TypeInv, TypeOK

(* Every step keeps the types and what is known of the requests.            *)
LEMMA NextType ==
    ASSUME TypeInv, [Next]_vars
    PROVE  TypeInv' /\ KeepsRows(reqs, reqs')
<1>1. ASSUME NEW w \in Workers, NEW u \in Users, NEW b \in Bases, Serve(w, u, b)
      PROVE  TypeInv' /\ reqs' = reqs
  BY <1>1, ServeType
  DEF Serve, VotePost, UnvotePost, CommentPost, KeywordsPost, RequestPost,
      MergePost, Receive
<1>2. ASSUME NEW w \in Workers, NEW u \in Users, NEW S \in SUBSET Bases,
             ServeBulk(w, u, S)
      PROVE  TypeInv' /\ reqs' = reqs
  BY <1>2, ServeBulkType
  DEF ServeBulk, NotifyPost, UnnotifyPost, DeletePost, Receive
<1>3. ASSUME NEW w \in Workers, NEW u \in Users, NEW i \in DOMAIN comments,
             ServeComment(w, u, i)
      PROVE  TypeInv' /\ reqs' = reqs
  BY <1>3, ServeCommentType
  DEF ServeComment, EditPost, ErasePost, RestorePost, PinPost, Receive
<1>4. ASSUME NEW w \in Workers, Step(w) \/ Crash(w)
      PROVE  TypeInv' /\ KeepsRows(reqs, reqs')
  BY <1>4, StepType
<1>5. ASSUME PopUpdate
      PROVE  TypeInv'
  <2>1. TypeOK'
    BY <1>5, RecountedType DEF PopUpdate, TypeInv, TypeOK
  <2>2. \A w \in Workers : JobFits(job[w], Len(comments))'
    BY <1>5 DEF PopUpdate, TypeInv
  <2> QED
    BY <2>1, <2>2 DEF TypeInv
<1>6. ASSUME UNCHANGED vars
      PROVE  TypeInv'
  <2>1. UNCHANGED tables
    BY <1>6 DEF vars, tables
  <2>2. job' = job
    BY <1>6 DEF vars
  <2>3. job' \in [Workers -> Job] /\ \A w \in Workers : JobFits(job'[w], Len(comments))
    BY <2>2 DEF TypeInv, TypeOK
  <2> QED
    BY <2>1, <2>3, ReadType
<1>7. reqs' = reqs => KeepsRows(reqs, reqs')
  BY KeepsRowsSame
<1>8. PopUpdate \/ UNCHANGED vars => reqs' = reqs
  BY DEF PopUpdate, vars
<1> QED
  BY <1>1, <1>2, <1>3, <1>4, <1>5, <1>6, <1>7, <1>8 DEF Next

(* Whatever overlaps and wherever a worker dies, the tables keep their      *)
(* types: in particular a handler never writes a comment row it has not     *)
(* found, and a request is always filed about a name.                       *)
THEOREM TypeCorrect == Spec => []TypeOK
<1>1. TypeInv => TypeOK
  BY DEF TypeInv
<1>2. TypeInv /\ [Next]_vars => TypeInv'
  BY NextType
<1> QED
  BY <1>1, <1>2, InitType, PTL DEF Spec

-----------------------------------------------------------------------------
(* What is gone was asked for.                                              *)

(* The strengthening of GoneIsTraced: requests that refer to a package base *)
(* have its name, those at hand when requests are settled are of the type   *)
(* the handler settles, and one is decided before anything is moved or      *)
(* deleted.                                                                 *)
KindOf(j) == IF j.op = "merge" THEN "merge" ELSE "deletion"

Settled == {"target", "move", "remove", "delete"}

Tracked(j) ==
    /\ j.pc = "settle"
         => /\ j.ids # {}
            /\ \A i \in j.ids : /\ i \in DOMAIN reqs
                                /\ reqs[i].name = j.base
                                /\ reqs[i].type = KindOf(j)
    /\ j.pc \in Settled \/ (j.pc = "recount" /\ j.op = "merge")
         => Decided({KindOf(j)}, j.base) # {}

Named == \A i \in DOMAIN reqs : reqs[i].base \in {NULL, reqs[i].name}

TraceInv == /\ Named
            /\ GoneIsTraced
            /\ \A w \in Workers : Tracked(job[w])

LEMMA DecidedStays ==
    ASSUME KeepsRows(reqs, reqs'), NEW types, NEW b
    PROVE  Decided(types, b) \subseteq Decided(types, b)'
BY DEF KeepsRows, Decided

LEMMA TrackedStays ==
    ASSUME KeepsRows(reqs, reqs'), NEW j, Tracked(j), NEW k, k = j
    PROVE  /\ k.pc = "settle"
                => /\ k.ids # {}
                   /\ \A i \in k.ids : /\ i \in DOMAIN reqs'
                                       /\ reqs'[i].name = k.base
                                       /\ reqs'[i].type = KindOf(k)
           /\ k.pc \in Settled \/ (k.pc = "recount" /\ k.op = "merge")
                => Decided({KindOf(k)}, k.base)' # {}
<1>1. \A i \in j.ids : i \in DOMAIN reqs =>
         i \in DOMAIN reqs' /\ reqs'[i].name = reqs[i].name
                            /\ reqs'[i].type = reqs[i].type
  BY DEF KeepsRows
<1>2. Decided({KindOf(j)}, j.base) \subseteq Decided({KindOf(j)}, j.base)'
  BY DecidedStays
<1> QED
  BY <1>1, <1>2 DEF Tracked

(* Steps before and after which nothing is to be tracked.                   *)
Untracked == Steps \ (Settled \cup {"create", "settle", "recount"})

LEMMA FinishPc ==
    ASSUME TypeInv, NEW w \in Workers
    PROVE  /\ Finish(w) => job'[w] = Idle
           /\ \A pc : Goto(w, pc) => job'[w] = [job[w] EXCEPT !.pc = pc]
           /\ \A pc : NextBase(w, pc) => job'[w].pc \in {"idle", pc}
           /\ Committed(w) => job'[w].pc \in {"idle", "look"}
           /\ \A j : Receive(w, j) => job'[w] = j
<1>1. job[w] \in Job /\ \A x : [job EXCEPT ![w] = x][w] = x
  BY DEF TypeInv, TypeOK
<1>2. Finish(w) => job'[w] = Idle
  BY <1>1 DEF Finish
<1>3. \A pc : Goto(w, pc) => job'[w] = [job[w] EXCEPT !.pc = pc]
  BY <1>1 DEF Goto, TypeInv, TypeOK
<1>4. ASSUME NEW pc, NextBase(w, pc), job[w].rest # {}
      PROVE  job'[w].pc = pc
  <2>1. PICK b \in job[w].rest :
          job' = [job EXCEPT ![w].pc = pc, ![w].base = b, ![w].rest = @ \ {b}]
    BY <1>4 DEF NextBase
  <2>2. job'[w] = [job[w] EXCEPT !.pc = pc, !.base = b, !.rest = @ \ {b}]
    BY <2>1 DEF TypeInv, TypeOK
  <2> QED
    BY <1>1, <2>2 DEF Job
<1>5. ASSUME Committed(w), job[w].rest # {}
      PROVE  job'[w].pc = "look"
  <2>1. PICK b \in job[w].rest :
          job' = [job EXCEPT ![w].pc = "look", ![w].base = b,
                             ![w].rest = @ \ {b}, ![w].found = TRUE]
    BY <1>5 DEF Committed
  <2>2. job'[w] = [job[w] EXCEPT !.pc = "look", !.base = b,
                                 !.rest = @ \ {b}, !.found = TRUE]
    BY <2>1 DEF TypeInv, TypeOK
  <2> QED
    BY <1>1, <2>2 DEF Job
<1>6. \A j : Receive(w, j) => job'[w] = j
  BY <1>1 DEF Receive
<1>7. Idle.pc = "idle"
  BY DEF Idle
<1>8. \A pc : NextBase(w, pc) /\ job[w].rest = {} => Finish(w)
  BY DEF NextBase
<1>9. Committed(w) /\ job[w].rest = {} => Finish(w)
  BY DEF Committed
<1> QED
  BY <1>2, <1>3, <1>4, <1>5, <1>6, <1>7, <1>8, <1>9

(* A call puts its worker before the steps of handle_request, and one to    *)
(* merge names two package bases.                                           *)
Begins(j) ==
    /\ j.pc \in Untracked
    /\ j.op = "merge" => j.base # j.into /\ j.pc \in {"note", "handle"}

LEMMA Received ==
    ASSUME NEW w, \/ \E u, b : Serve(w, u, b)
                  \/ \E u, S : ServeBulk(w, u, S)
                  \/ \E u, i : ServeComment(w, u, i)
    PROVE  \E j : Receive(w, j) /\ Begins(j)
<1>0. {"vote", "unvote", "look", "post", "edit", "save", "erase", "restore", "pin",
       "unpin", "keywords", "file", "note", "handle"} \subseteq Untracked
  BY DEF Untracked, Steps, Settled
<1>1. ASSUME NEW u, NEW b, Serve(w, u, b)
      PROVE  \E j : Receive(w, j) /\ Begins(j)
  <2>1. CASE VotePost(w, u, b) \/ UnvotePost(w, u, b)
    <3>1. PICK op \in {"vote", "unvote"} : Receive(w, Call(op, op, u, b))
      BY <2>1 DEF VotePost, UnvotePost
    <3>2. Call(op, op, u, b).pc = op /\ Call(op, op, u, b).op = op
      BY DEF Call, Idle
    <3> QED
      BY <1>0, <3>1, <3>2 DEF Begins
  <2>2. CASE CommentPost(w, u, b)
    <3>1. PICK t, f :
            Receive(w, [Call("comment", "post", u, b) EXCEPT !.text = t, !.flag = f])
      BY <2>2 DEF CommentPost
    <3> DEFINE j == [Call("comment", "post", u, b) EXCEPT !.text = t, !.flag = f]
    <3>2. j.pc = "post" /\ j.op = "comment"
      BY DEF Call, Idle
    <3> HIDE DEF j
    <3> QED
      BY <1>0, <3>1, <3>2 DEF Begins, j
  <2>3. CASE KeywordsPost(w, u, b)
    <3>1. PICK S, had :
            Receive(w, [Call("keywords", "keywords", u, b) EXCEPT
                           !.words = S, !.had = had])
      BY <2>3 DEF KeywordsPost
    <3> DEFINE j == [Call("keywords", "keywords", u, b) EXCEPT
                        !.words = S, !.had = had]
    <3>2. j.pc = "keywords" /\ j.op = "keywords"
      BY DEF Call, Idle
    <3> HIDE DEF j
    <3> QED
      BY <1>0, <3>1, <3>2 DEF Begins, j
  <2>4. CASE \E into : RequestPost(w, u, b, into)
    <3>1. PICK into : Receive(w, [Call("request", "file", u, b) EXCEPT !.into = into])
      BY <2>4 DEF RequestPost
    <3> DEFINE j == [Call("request", "file", u, b) EXCEPT !.into = into]
    <3>2. j.pc = "file" /\ j.op = "request"
      BY DEF Call, Idle
    <3> HIDE DEF j
    <3> QED
      BY <1>0, <3>1, <3>2 DEF Begins, j
  <2>5. CASE \E into : MergePost(w, u, b, into)
    <3>1. PICK into : MergePost(w, u, b, into)
      BY <2>5
    <3>2. PICK c \in BOOLEAN :
            Receive(w, [Call("merge", IF c THEN "note" ELSE "handle", u, b)
                           EXCEPT !.into = into])
      BY <3>1 DEF MergePost
    <3> DEFINE pc == IF c THEN "note" ELSE "handle"
               j == [Call("merge", pc, u, b) EXCEPT !.into = into]
    <3>3. pc \in {"note", "handle"} /\ Receive(w, j)
      BY <3>2
    <3> HIDE DEF pc
    <3>4. j.pc = pc /\ j.base = b /\ j.into = into
      BY DEF Call, Idle
    <3>5. into # b
      BY <3>1 DEF MergePost
    <3> HIDE DEF j
    <3> QED
      BY <1>0, <3>3, <3>4, <3>5 DEF Begins
  <2> QED
    BY <1>1, <2>1, <2>2, <2>3, <2>4, <2>5 DEF Serve
<1>2. ASSUME NEW u, NEW S, ServeBulk(w, u, S)
      PROVE  \E j : Receive(w, j) /\ Begins(j)
  <2>1. \E b : \E op \in {"notify", "unnotify", "delete"}, pc \in {"look", "handle"} :
           Receive(w, [Call(op, pc, u, b) EXCEPT !.rest = S \ {b}])
    <3>1. CASE NotifyPost(w, u, S)
      BY <3>1 DEF NotifyPost
    <3>2. CASE UnnotifyPost(w, u, S)
      BY <3>2 DEF UnnotifyPost
    <3>3. CASE DeletePost(w, u, S)
      BY <3>3 DEF DeletePost
    <3> QED
      BY <1>2, <3>1, <3>2, <3>3 DEF ServeBulk
  <2>2. PICK b : \E op \in {"notify", "unnotify", "delete"}, pc \in {"look", "handle"} :
           Receive(w, [Call(op, pc, u, b) EXCEPT !.rest = S \ {b}])
    BY <2>1
  <2>3. PICK op \in {"notify", "unnotify", "delete"}, pc \in {"look", "handle"} :
           Receive(w, [Call(op, pc, u, b) EXCEPT !.rest = S \ {b}])
    BY <2>2
  <2> DEFINE j == [Call(op, pc, u, b) EXCEPT !.rest = S \ {b}]
  <2>4. j.pc = pc /\ j.op = op
    BY DEF Call, Idle
  <2> HIDE DEF j
  <2> QED
    BY <1>0, <2>3, <2>4 DEF Begins, j
<1>3. ASSUME NEW u, NEW i, ServeComment(w, u, i)
      PROVE  \E j : Receive(w, j) /\ Begins(j)
  <2>1. CASE EditPost(w, u, i)
    <3>1. PICK t, f :
            Receive(w, [OnComment("edit", IF t # comments[i].text THEN "edit"
                                          ELSE "save", u, i)
                        EXCEPT !.text = t, !.flag = f])
      BY <2>1 DEF EditPost
    <3> DEFINE pc == IF t # comments[i].text THEN "edit" ELSE "save"
               j == [OnComment("edit", pc, u, i) EXCEPT !.text = t, !.flag = f]
    <3>2. pc \in {"edit", "save"} /\ Receive(w, j)
      BY <3>1
    <3> HIDE DEF pc
    <3>3. j.pc = pc /\ j.op = "edit"
      BY DEF OnComment, Call, Idle
    <3> HIDE DEF j
    <3> QED
      BY <1>0, <3>2, <3>3 DEF Begins
  <2>2. CASE ~EditPost(w, u, i)
    <3>1. PICK op \in {"erase", "restore", "pin", "unpin"} :
            Receive(w, OnComment(op, op, u, i))
      BY <1>3, <2>2 DEF ServeComment, ErasePost, RestorePost, PinPost
    <3>2. OnComment(op, op, u, i).pc = op /\ OnComment(op, op, u, i).op = op
      BY DEF OnComment, Call, Idle
    <3> QED
      BY <1>0, <3>1, <3>2 DEF Begins
  <2> QED
    BY <2>1, <2>2
<1> QED
  BY <1>1, <1>2, <1>3

(* What a step can do to the job of a worker, as far as it is tracked.      *)
LEMMA OtherJobs ==
    ASSUME TypeInv, [Next]_vars, NEW v \in Workers
    PROVE  \/ job'[v] = job[v]
           \/ job'[v].pc \in Untracked
           \/ job'[v].pc = "recount" /\ job'[v].op # "merge"
           \/ Create(v) \/ Handle(v) \/ Settle(v) \/ ReadTarget(v) \/ Move(v)
           \/ Recount(v) /\ job[v].op = "merge"
<1>0. job[v] \in Job /\ JobFits(job[v], Len(comments)) /\ job \in [Workers -> Job]
  BY DEF TypeInv, TypeOK
<1>1. ASSUME NEW w \in Workers, \/ \E u, b : Serve(w, u, b)
                                \/ \E u, S : ServeBulk(w, u, S)
                                \/ \E u, i : ServeComment(w, u, i)
      PROVE  job'[v] = job[v] \/ job'[v].pc \in Untracked
  <2>1. PICK j : Receive(w, j) /\ j.pc \in Untracked
    BY <1>1, Received DEF Begins
  <2>2. job' = [job EXCEPT ![w] = j]
    BY <2>1 DEF Receive
  <2> QED
    BY <1>0, <2>1, <2>2
<1>2. CASE PopUpdate \/ UNCHANGED vars
  BY <1>2 DEF PopUpdate, vars
<1>3. ASSUME NEW w \in Workers, Step(w) \/ Crash(w), w # v
      PROVE  job'[v] = job[v]
  BY <1>0, <1>3
  DEF Step, Crash, Vanished, CastVote, WithdrawVote, Recount, Look, Subscribe,
      Unsubscribe, AddComment, EditComment, Render, SaveRendered, MarkComment,
      SetKeywords, File, Note, Handle, Create, Settle, ReadTarget, Move, Remove,
      Delete, Finish, Goto, NextBase, Committed
<1>4. CASE Step(v) \/ Crash(v)
  <2>1. {"idle", "subscribe", "unsubscribe", "look", "render", "save", "handle"}
            \subseteq Untracked
    BY DEF Untracked, Steps, Settled
  <2>2. /\ Finish(v) => job'[v].pc \in Untracked
        /\ NextBase(v, "look") => job'[v].pc \in Untracked
        /\ NextBase(v, "handle") => job'[v].pc \in Untracked
        /\ Committed(v) => job'[v].pc \in Untracked
    <3>1. Idle.pc = "idle"
      BY DEF Idle
    <3> QED
      BY <2>1, <3>1, FinishPc
  <2>3. \A pc : Goto(v, pc) => job'[v].pc = pc /\ job'[v].op = job[v].op
    <3>1. \A pc : Goto(v, pc) => job'[v] = [job[v] EXCEPT !.pc = pc]
      BY FinishPc
    <3>2. \A pc : /\ [job[v] EXCEPT !.pc = pc].pc = pc
                  /\ [job[v] EXCEPT !.pc = pc].op = job[v].op
      BY <1>0 DEF Job
    <3> QED
      BY <3>1, <3>2
  <2>4. CASE Vanished(v) \/ Crash(v) \/ Look(v) \/ Subscribe(v) \/ Unsubscribe(v)
             \/ EditComment(v) \/ SaveRendered(v) \/ MarkComment(v)
             \/ SetKeywords(v) \/ File(v) \/ Note(v) \/ Remove(v) \/ Delete(v)
    BY <2>1, <2>2, <2>3, <2>4
    DEF Vanished, Crash, Look, Subscribe, Unsubscribe, EditComment,
        SaveRendered, MarkComment, SetKeywords, File, Note, Remove, Delete
  <2>5. CASE AddComment(v) \/ Render(v)
    <3>1. job'[v].pc \in {"render", "save"}
      BY <1>0, <2>5 DEF AddComment, Render, Job
    <3> QED
      BY <2>1, <3>1
  <2>6. CASE CastVote(v) \/ WithdrawVote(v)
    <3>1. job[v].op # "merge"
      BY <1>0, <2>6 DEF CastVote, WithdrawVote, At, JobFits
    <3>2. Finish(v) \/ Goto(v, "recount")
      BY <2>6 DEF CastVote, WithdrawVote
    <3> QED
      BY <2>2, <2>3, <3>1, <3>2
  <2>7. CASE Recount(v) /\ job[v].op # "merge"
    BY <2>2, <2>7 DEF Recount
  <2> QED
    BY <1>4, <2>4, <2>5, <2>6, <2>7 DEF Step
<1> QED
  BY <1>1, <1>2, <1>3, <1>4 DEF Next

LEMMA OnlyFiling ==
    ASSUME TypeInv, [Next]_vars, ~\E w \in Workers : File(w) \/ Create(w)
    PROVE  DOMAIN reqs' = DOMAIN reqs
<1>0. reqs \in Seq(Request)
  BY DEF TypeInv, TypeOK
<1>1. ASSUME NEW w \in Workers, Step(w) \/ Crash(w)
      PROVE  DOMAIN reqs' = DOMAIN reqs
  <2>1. CASE Note(w)
    BY <1>0, <2>1, UpdateClosureCommentType DEF Note
  <2>2. CASE Settle(w)
    BY <1>0, <2>2, ClosePkgreqType DEF Settle, Statuses
  <2>3. CASE Remove(w) \/ Delete(w)
    BY <1>0, <2>3, DetachRequestsType DEF Remove, Delete, RemoveBase
  <2>4. CASE ~(Note(w) \/ Settle(w) \/ Remove(w) \/ Delete(w))
    BY <1>1, <2>4
    DEF Step, Crash, Vanished, CastVote, WithdrawVote, Recount, Look, Subscribe,
        Unsubscribe, AddComment, EditComment, Render, SaveRendered, MarkComment,
        SetKeywords, Handle, ReadTarget, Move
  <2> QED
    BY <2>1, <2>2, <2>3, <2>4
<1>2. ASSUME NEW w \in Workers, \/ \E u, b : Serve(w, u, b)
                                \/ \E u, S : ServeBulk(w, u, S)
                                \/ \E u, i : ServeComment(w, u, i)
      PROVE  DOMAIN reqs' = DOMAIN reqs
  BY <1>2, Received DEF Receive
<1>3. CASE PopUpdate \/ UNCHANGED vars
  BY <1>3 DEF PopUpdate, vars
<1> QED
  BY <1>1, <1>2, <1>3 DEF Next

LEMMA RowsAdded ==
    ASSUME TypeInv, [Next]_vars
    PROVE  \A i \in DOMAIN reqs' \ DOMAIN reqs : reqs'[i].base = reqs'[i].name
<1>0. reqs \in Seq(Request)
  BY DEF TypeInv, TypeOK
<1>1. CASE \E w \in Workers : File(w) \/ Create(w)
  <2>1. PICK w \in Workers : File(w) \/ Create(w)
    BY <1>1
  <2> DEFINE t == IF File(w) THEN "merge" ELSE TypeOf(w)
             r == NewRequest(t, job[w].base, job[w].into, job[w].user, 0)
  <2>2. job[w].user \in Users /\ job[w].base \in Bases /\ job[w].into \in Bases \cup {NULL}
    BY <2>1 DEF TypeInv, TypeOK, File, Create, At, JobFits, Job
  <2>3. r \in Request
    BY <2>2, NewRequestType DEF TypeOf, Types
  <2>4. reqs' = Append(reqs, r)
    BY <2>1 DEF File, Create
  <2>5. r.base = r.name
    BY DEF NewRequest
  <2> HIDE DEF r
  <2> QED
    BY <1>0, <2>3, <2>4, <2>5, AppendRequest
<1>2. CASE ~\E w \in Workers : File(w) \/ Create(w)
  BY <1>2, OnlyFiling
<1> QED
  BY <1>1, <1>2

LEMMA NamedStep ==
    ASSUME TypeInv, Named, [Next]_vars
    PROVE  Named'
BY NextType, RowsAdded DEF Named, KeepsRows

LEMMA TrackedStep ==
    ASSUME TypeInv, TraceInv, [Next]_vars, NEW v \in Workers
    PROVE  Tracked(job[v])'
<1>0. /\ job[v] \in Job /\ JobFits(job[v], Len(comments))
      /\ job \in [Workers -> Job] /\ reqs \in Seq(Request)
      /\ Tracked(job[v]) /\ Named /\ KeepsRows(reqs, reqs')
  BY NextType DEF TypeInv, TypeOK, TraceInv
<1>1. CASE job'[v] = job[v]
  BY <1>0, <1>1, TrackedStays DEF Tracked
<1>2. CASE job'[v].pc \in Untracked \/ (job'[v].pc = "recount" /\ job'[v].op # "merge")
  BY <1>2 DEF Tracked, Untracked, Settled
<1>3. CASE Create(v)
  <2> DEFINE id == Len(reqs) + 1
             blank == job[v].blank \cup {id}
             r == NewRequest(TypeOf(v), job[v].base, job[v].into, job[v].user, 0)
  <2>1. job'[v] = [job[v] EXCEPT !.pc = "settle", !.ids = {id}, !.blank = blank]
    BY <1>0, <1>3 DEF Create
  <2>2. reqs' = Append(reqs, r)
    BY <1>3 DEF Create
  <2>3. r \in Request /\ r.type = KindOf(job[v]) /\ r.name = job[v].base
    <3>1. job[v].user \in Users /\ job[v].base \in Bases
          /\ job[v].into \in Bases \cup {NULL} /\ TypeOf(v) \in Types
      BY <1>0, <1>3 DEF Create, At, JobFits, Job, TypeOf, Types
    <3> QED
      BY <3>1, NewRequestType DEF NewRequest, KindOf, TypeOf
  <2> HIDE DEF id, blank, r
  <2>4. /\ job'[v].pc = "settle" /\ job'[v].ids = {id} /\ job'[v].op = job[v].op
        /\ job'[v].base = job[v].base
    BY <1>0, <2>1 DEF Job
  <2>5. id \in DOMAIN reqs' /\ reqs'[id] = r
    BY <1>0, <2>2, <2>3, AppendRequest DEF id
  <2> QED
    BY <2>3, <2>4, <2>5 DEF Tracked, Settled, KindOf
<1>4. CASE Handle(v)
  <2> DEFINE accepted == ToAccept(reqs, TypeOf(v), job[v].base, job[v].into)
             refused == ToReject(reqs, TypeOf(v), job[v].base, job[v].into)
             blank == Blank(reqs, accepted \cup refused)
             p == accepted # {}
             pc == IF accepted = {} THEN "create" ELSE "settle"
  <2>1. job'[v] = [job[v] EXCEPT !.pc = pc, !.found = p, !.ids = accepted,
                                 !.rejected = refused, !.blank = blank]
    BY <1>0, <1>4 DEF Handle
  <2>2. (pc = "create" /\ accepted = {}) \/ (pc = "settle" /\ accepted # {})
    <3> HIDE DEF accepted
    <3> QED
      OBVIOUS
  <2>3. job[v].base \in Bases
    BY <1>0, <1>4 DEF Handle, At, JobFits
  <2>4. \A i \in accepted : /\ i \in DOMAIN reqs /\ reqs[i].name = job[v].base
                            /\ reqs[i].type = KindOf(job[v])
    BY <1>0, <2>3, NULLAssumption DEF ToAccept, PendingIds, Named, KindOf, TypeOf
  <2>5. reqs' = reqs
    BY <1>4 DEF Handle
  <2> HIDE DEF accepted, refused, blank, p, pc
  <2>6. /\ job'[v].pc = pc /\ job'[v].ids = accepted /\ job'[v].op = job[v].op
        /\ job'[v].base = job[v].base
    BY <1>0, <2>1 DEF Job
  <2> QED
    BY <2>2, <2>4, <2>5, <2>6 DEF Tracked, Settled, KindOf
<1>5. CASE Settle(v)
  <2>1. /\ job'[v].pc \in {"target", "delete"} /\ job'[v].op = job[v].op
        /\ job'[v].base = job[v].base
    <3>1. job'[v] = [job[v] EXCEPT !.pc = IF job[v].op = "merge" THEN "target" ELSE "delete"]
      BY <1>5, FinishPc DEF Settle
    <3> QED
      BY <1>0, <3>1 DEF Job
  <2>2. PICK i \in job[v].ids : /\ i \in DOMAIN reqs /\ reqs[i].name = job[v].base
                                /\ reqs[i].type = KindOf(job[v])
    BY <1>0, <1>5 DEF Settle, Tracked
  <2> DEFINE first == ClosePkgreq(reqs, job[v].ids, job[v].blank, "Accepted")
  <2>3. first \in Seq(Request) /\ DOMAIN first = DOMAIN reqs
    BY <1>0, ClosePkgreqType DEF Statuses
  <2>4. first[i].status = "Accepted"
    <3>1. reqs[i] \in Request
      BY <1>0, <2>2, LenProperties
    <3> QED
      BY <2>2, <3>1 DEF ClosePkgreq, Request
  <2>5. reqs' = ClosePkgreq(first, job[v].rejected, job[v].blank, "Rejected")
    BY <1>5 DEF Settle
  <2> HIDE DEF first
  <2>6. i \in DOMAIN reqs' /\ KeepsRows(first, reqs')
    BY <2>2, <2>3, <2>5, ClosePkgreqType, KeepsRowsClose DEF Statuses
  <2>7. reqs'[i].status # "Pending"
    BY <2>2, <2>3, <2>4, <2>6 DEF KeepsRows
  <2>8. reqs'[i].name = job[v].base /\ reqs'[i].type = KindOf(job[v])
    BY <1>0, <2>2 DEF KeepsRows
  <2>9. i \in Decided({KindOf(job[v])}, job[v].base)'
    <3>1. KindOf(job[v])' = KindOf(job[v]) /\ job'[v].base = job[v].base
      BY <2>1 DEF KindOf
    <3> QED
      BY <2>6, <2>7, <2>8, <3>1 DEF Decided
  <2> QED
    BY <2>1, <2>9 DEF Tracked, Settled
<1>6. CASE ReadTarget(v) \/ Move(v) \/ (Recount(v) /\ job[v].op = "merge")
  <2>1. \/ job'[v] = Idle
        \/ /\ job'[v].pc \in {"move", "recount", "remove"}
           /\ job'[v].op = job[v].op /\ job'[v].base = job[v].base
           /\ job[v].op = "merge"
    <3>1. CASE ReadTarget(v)
      <4>1. job'[v] = [job[v] EXCEPT !.pc = "move", !.voters = votes[job[v].into],
                                     !.subscribers = notified[job[v].into]]
        BY <1>0, <3>1 DEF ReadTarget
      <4> QED
        BY <1>0, <3>1, <4>1 DEF Job, ReadTarget, JobFits
    <3>2. CASE Goto(v, "recount") /\ Move(v)
      <4>1. job'[v] = [job[v] EXCEPT !.pc = "recount"]
        BY <3>2, FinishPc
      <4> QED
        BY <1>0, <3>2, <4>1 DEF Job, Move, At, JobFits
    <3>3. CASE Goto(v, "remove") /\ job[v].op = "merge"
      <4>1. job'[v] = [job[v] EXCEPT !.pc = "remove"]
        BY <3>3, FinishPc
      <4> QED
        BY <1>0, <3>3, <4>1 DEF Job
    <3>4. CASE Finish(v)
      BY <3>4, FinishPc
    <3> QED
      BY <1>6, <3>1, <3>2, <3>3, <3>4 DEF Move, Recount
  <2>2. job[v].pc \in Settled \/ (job[v].pc = "recount" /\ job[v].op = "merge")
    BY <1>6 DEF ReadTarget, Move, Recount, At, Settled
  <2>3. Decided({KindOf(job[v])}, job[v].base) # {} /\ reqs' = reqs
    BY <1>0, <1>6, <2>2 DEF Tracked, ReadTarget, Move, Recount
  <2>4. Idle.pc = "idle"
    BY DEF Idle
  <2> QED
    BY <2>1, <2>3, <2>4 DEF Tracked, Settled, KindOf, Decided
<1> QED
  BY <1>1, <1>2, <1>3, <1>4, <1>5, <1>6, OtherJobs

LEMMA OnlyRemoving ==
    ASSUME [Next]_vars, live' # live
    PROVE  \E w \in Workers : Remove(w) \/ Delete(w)
<1>1. ASSUME NEW w \in Workers, \/ \E u, c : Serve(w, u, c)
                                \/ \E u, S : ServeBulk(w, u, S)
                                \/ \E u, i : ServeComment(w, u, i)
      PROVE  FALSE
  BY <1>1, Received DEF Receive
<1>2. ASSUME NEW w \in Workers, Step(w) \/ Crash(w)
      PROVE  Remove(w) \/ Delete(w)
  BY <1>2
  DEF Step, Crash, Vanished, CastVote, WithdrawVote, Recount, Look, Subscribe,
      Unsubscribe, AddComment, EditComment, Render, SaveRendered, MarkComment,
      SetKeywords, File, Note, Handle, Create, Settle, ReadTarget, Move
<1> QED
  BY <1>1, <1>2 DEF Next, PopUpdate, vars

LEMMA TraceStep ==
    ASSUME TypeInv, TraceInv, [Next]_vars
    PROVE  TraceInv'
<1>1. Named'
  BY NamedStep DEF TraceInv
<1>2. ASSUME NEW b \in Bases \ live'
      PROVE  Decided({"deletion", "merge"}, b)' # {}
  <2>1. Decided({"deletion", "merge"}, b) \subseteq Decided({"deletion", "merge"}, b)'
    BY NextType, DecidedStays
  <2>2. CASE b \notin live
    BY <2>1, <2>2 DEF TraceInv, GoneIsTraced
  <2>3. CASE b \in live
    <3>1. PICK w \in Workers : Remove(w) \/ Delete(w)
      <4>1. live' # live
        BY <1>2, <2>3
      <4> QED
        BY <4>1, OnlyRemoving
    <3>2. job[w].base = b /\ job[w].pc \in Settled
      BY <1>2, <2>3, <3>1 DEF Remove, Delete, RemoveBase, At, Settled
    <3>3. Decided({KindOf(job[w])}, b) # {}
      BY <3>2 DEF TraceInv, Tracked
    <3>4. Decided({KindOf(job[w])}, b) \subseteq Decided({"deletion", "merge"}, b)
      BY DEF Decided, KindOf
    <3> QED
      BY <2>1, <3>3, <3>4
  <2> QED
    BY <2>2, <2>3
<1>3. \A w \in Workers : Tracked(job[w])'
  BY TrackedStep
<1> QED
  BY <1>1, <1>2, <1>3 DEF TraceInv, GoneIsTraced

(* Whatever merges, deletions and crashes overlap, a package base that is   *)
(* gone left a decided request with its name.                               *)
THEOREM WhatIsGoneIsTraced == Spec => []GoneIsTraced
<1>1. Init => TypeInv /\ TraceInv
  <2>1. Init => TraceInv
    BY DEF Init, TraceInv, Named, GoneIsTraced, Tracked, Idle, Settled
  <2> QED
    BY <2>1, InitType
<1>2. TypeInv /\ TraceInv /\ [Next]_vars => (TypeInv /\ TraceInv)'
  BY NextType, TraceStep
<1>3. TraceInv => GoneIsTraced
  BY DEF TraceInv
<1> QED
  BY <1>1, <1>2, <1>3, PTL DEF Spec

-----------------------------------------------------------------------------
(* The count of the votes.                                                  *)

CountOf(b) ==
    \/ numVotes[b] = Cardinality(votes[b])
    \/ \E w \in Workers : job[w].pc = "recount" /\ Counted(w) = b
    \/ Decided({"merge"}, b) # {}

(* A step that touches neither the votes and the count of b nor the job of  *)
(* a worker that is about to count them.                                    *)
LEMMA CountKept ==
    ASSUME TypeInv, [Next]_vars, NEW b, CountOf(b),
           votes'[b] = votes[b], numVotes'[b] = numVotes[b],
           \A w \in Workers : job[w].pc = "recount" /\ Counted(w) = b
                                 => job'[w] = job[w]
    PROVE  CountOf(b)'
<1>1. CASE numVotes[b] = Cardinality(votes[b])
  BY <1>1 DEF CountOf
<1>2. CASE \E w \in Workers : job[w].pc = "recount" /\ Counted(w) = b
  <2>1. PICK w \in Workers : job[w].pc = "recount" /\ Counted(w) = b
    BY <1>2
  <2>2. job'[w].pc = "recount" /\ Counted(w)' = b
    BY <2>1 DEF Counted
  <2> QED
    BY <2>2 DEF CountOf
<1>3. CASE Decided({"merge"}, b) # {}
  <2>1. Decided({"merge"}, b) \subseteq Decided({"merge"}, b)'
    BY NextType, DecidedStays
  <2> QED
    BY <1>3, <2>1 DEF CountOf
<1> QED
  BY <1>1, <1>2, <1>3 DEF CountOf

LEMMA OtherWorkers ==
    ASSUME TypeInv, NEW w \in Workers, Step(w), NEW v \in Workers, v # w
    PROVE  job'[v] = job[v]
<1>1. job \in [Workers -> Job]
  BY DEF TypeInv, TypeOK
<1> QED
  BY <1>1
  DEF Step, Vanished, CastVote, WithdrawVote, Recount, Look, Subscribe,
      Unsubscribe, AddComment, EditComment, Render, SaveRendered, MarkComment,
      SetKeywords, File, Note, Handle, Create, Settle, ReadTarget, Move, Remove,
      Delete, Finish, Goto, NextBase, Committed

LEMMA LiveShrinks ==
    ASSUME TypeInv, [Next]_vars
    PROVE  live' \subseteq live
<1>1. ASSUME NEW w \in Workers, \/ \E u, c : Serve(w, u, c)
                                \/ \E u, S : ServeBulk(w, u, S)
                                \/ \E u, i : ServeComment(w, u, i)
      PROVE  live' = live
  BY <1>1, Received DEF Receive
<1>2. ASSUME NEW w \in Workers, Step(w) \/ Crash(w), ~(Remove(w) \/ Delete(w))
      PROVE  live' = live
  BY <1>2
  DEF Step, Crash, Vanished, CastVote, WithdrawVote, Recount, Look, Subscribe,
      Unsubscribe, AddComment, EditComment, Render, SaveRendered, MarkComment,
      SetKeywords, File, Note, Handle, Create, Settle, ReadTarget, Move
<1>3. ASSUME NEW w \in Workers, Remove(w) \/ Delete(w)
      PROVE  live' \subseteq live
  BY <1>3 DEF Remove, Delete, RemoveBase
<1> QED
  BY <1>1, <1>2, <1>3 DEF Next, PopUpdate, vars

LEMMA CountStep ==
    ASSUME TypeInv, TraceInv, ~Crashes, [Next]_vars, NEW b \in live \cap live', CountOf(b)
    PROVE  CountOf(b)'
<1>0. /\ job \in [Workers -> Job] /\ votes \in [Bases -> SUBSET Users]
      /\ numVotes \in [Bases -> Nat] /\ live \subseteq Bases
      /\ \A w \in Workers : JobFits(job[w], Len(comments))
  BY DEF TypeInv, TypeOK
<1>1. ASSUME NEW w \in Workers, \/ \E u, c : Serve(w, u, c)
                                \/ \E u, S : ServeBulk(w, u, S)
                                \/ \E u, i : ServeComment(w, u, i)
      PROVE  CountOf(b)'
  <2>1. PICK j : Receive(w, j)
    BY <1>1, Received
  <2>2. job[w].pc # "recount" /\ \A v \in Workers : v # w => job'[v] = job[v]
    BY <1>0, <2>1 DEF Receive, Idle
  <2>3. votes' = votes /\ numVotes' = numVotes /\ live' = live
    BY <2>1 DEF Receive
  <2> QED
    BY <2>2, <2>3, CountKept
<1>2. CASE UNCHANGED vars
  BY <1>2, CountKept DEF vars
<1>3. CASE PopUpdate
  BY <1>0, <1>3 DEF PopUpdate, Recounted, CountOf
<1>4. ASSUME NEW w \in Workers, Step(w)
      PROVE  CountOf(b)'
  <2>0. \A v \in Workers : v # w => job'[v] = job[v]
    BY <1>4, OtherWorkers
  <2>1. CASE CastVote(w) \/ WithdrawVote(w)
    <3>1. job[w].pc # "recount" /\ job[w].op # "merge"
      BY <1>0, <2>1 DEF CastVote, WithdrawVote, At, JobFits
    <3>2. live' = live /\ numVotes' = numVotes
      BY <2>1 DEF CastVote, WithdrawVote
    <3>3. CASE votes'[b] = votes[b]
      BY <2>0, <3>1, <3>2, <3>3, CountKept
    <3>4. CASE votes'[b] # votes[b]
      <4>1. job[w].base = b /\ Goto(w, "recount")
        BY <1>0, <2>1, <3>2, <3>4 DEF CastVote, WithdrawVote
      <4>2. job'[w] = [job[w] EXCEPT !.pc = "recount"]
        BY <4>1, FinishPc
      <4>3. job'[w].pc = "recount" /\ job'[w].op # "merge" /\ job'[w].base = b
        BY <1>0, <3>1, <4>1, <4>2 DEF Job
      <4> QED
        BY <3>2, <4>3 DEF CountOf, Counted
    <3> QED
      BY <3>3, <3>4
  <2>2. CASE Recount(w)
    <3>1. CASE Counted(w) = b
      BY <1>0, <2>2, <3>1 DEF Recount, Recounted, CountOf
    <3>2. CASE Counted(w) # b
      BY <1>0, <2>0, <2>2, <3>2, CountKept DEF Recount, Recounted
    <3> QED
      BY <3>1, <3>2
  <2>3. CASE Vanished(w)
    <3>1. ~(job[w].pc = "recount" /\ Counted(w) = b)
      BY <2>3 DEF Vanished
    <3> QED
      BY <2>0, <2>3, <3>1, CountKept DEF Vanished
  <2>4. CASE Move(w)
    <3>0. /\ job[w].pc = "move" /\ job[w].op = "merge" /\ job[w].base \in Bases
          /\ job[w].into \in Bases /\ live' = live /\ numVotes' = numVotes
      BY <1>0, <2>4 DEF Move, At, JobFits
    <3>1. CASE votes'[b] = votes[b]
      BY <2>0, <3>0, <3>1, CountKept
    <3>2. CASE b = job[w].base
      <4>1. Decided({"merge"}, b) # {}
        BY <3>0, <3>2 DEF TraceInv, Tracked, KindOf, Settled
      <4>2. reqs' = reqs
        BY <2>4 DEF Move
      <4> QED
        BY <3>0, <4>1, <4>2 DEF CountOf, Decided
    <3>3. CASE votes'[b] # votes[b] /\ b # job[w].base
      <4>1. Goto(w, "recount") /\ b = job[w].into
        BY <1>0, <2>4, <3>0, <3>3 DEF Move
      <4>2. job'[w] = [job[w] EXCEPT !.pc = "recount"]
        BY <4>1, FinishPc
      <4>3. job'[w].pc = "recount" /\ job'[w].op = "merge" /\ job'[w].into = b
        BY <1>0, <3>0, <4>1, <4>2 DEF Job
      <4> QED
        BY <3>0, <4>3 DEF CountOf, Counted
    <3> QED
      BY <3>1, <3>2, <3>3
  <2>5. CASE Remove(w) \/ Delete(w)
    <3>1. job[w].pc # "recount"
      BY <2>5 DEF Remove, Delete, At
    <3>2. b \in live /\ votes'[b] = votes[b] /\ numVotes'[b] = numVotes[b]
      BY <1>0, <2>5 DEF Remove, Delete, RemoveBase
    <3> QED
      BY <2>0, <3>1, <3>2, CountKept
  <2>6. CASE ~(\/ CastVote(w) \/ WithdrawVote(w) \/ Recount(w) \/ Vanished(w)
               \/ Move(w) \/ Remove(w) \/ Delete(w))
    <3>1. job[w].pc # "recount"
      BY <1>4, <2>6
      DEF Step, Look, Subscribe, Unsubscribe, AddComment, EditComment, Render,
          SaveRendered, MarkComment, SetKeywords, File, Note, Handle, Create,
          Settle, ReadTarget, At
    <3>2. votes' = votes /\ numVotes' = numVotes /\ live' = live
      BY <1>4, <2>6
      DEF Step, Look, Subscribe, Unsubscribe, AddComment, EditComment, Render,
          SaveRendered, MarkComment, SetKeywords, File, Note, Handle, Create,
          Settle, ReadTarget
    <3> QED
      BY <2>0, <3>1, <3>2, CountKept
  <2> QED
    BY <2>1, <2>2, <2>3, <2>4, <2>5, <2>6
<1>5. ASSUME NEW w \in Workers, Crash(w)
      PROVE  FALSE
  BY <1>5 DEF Crash
<1> QED
  BY <1>1, <1>2, <1>3, <1>4, <1>5 DEF Next

(* However the workers and the cron job interleave, as long as none is      *)
(* killed in between, NumVotes is right or about to be set right, except    *)
(* for a package base whose merge has begun.                                *)
THEOREM VotesAreCounted == Spec => []VotesCounted
<1> DEFINE CountInv == TypeInv /\ TraceInv /\ VotesCounted
<1>1. Init => CountInv
  <2>1. Init => TraceInv
    BY DEF Init, TraceInv, Named, GoneIsTraced, Tracked, Idle, Settled
  <2>2. Init => VotesCounted
    BY FS_EmptySet DEF Init, VotesCounted
  <2> QED
    BY <2>1, <2>2, InitType
<1>2. CountInv /\ [Next]_vars => CountInv'
  <2> SUFFICES ASSUME CountInv, [Next]_vars PROVE CountInv'
    OBVIOUS
  <2>1. TypeInv' /\ TraceInv'
    BY NextType, TraceStep
  <2>2. VotesCounted <=> (Crashes \/ \A b \in live : CountOf(b))
    BY DEF VotesCounted, CountOf
  <2>3. VotesCounted' <=> (Crashes \/ \A b \in live' : CountOf(b)')
    BY DEF VotesCounted, CountOf
  <2>4. ASSUME ~Crashes, NEW b \in live'
        PROVE  CountOf(b)'
    <3>1. b \in live
      BY <2>4, LiveShrinks
    <3> QED
      BY <2>2, <2>4, <3>1, CountStep
  <2> QED
    BY <2>1, <2>3, <2>4
<1>3. CountInv => VotesCounted
  OBVIOUS
<1> QED
  BY <1>1, <1>2, <1>3, PTL DEF Spec

-----------------------------------------------------------------------------
(* What a merge leaves behind as long as no other worker is busy with the   *)
(* package base that is merged or with the target at the time.  (A request  *)
(* may name either of them as the target it asks for.)                      *)

Touched(j) == IF j.op = "merge" THEN {j.base, j.into} ELSE {j.base}

MergesApart == \A v, w \in Workers :
    v # w /\ job[w].op = "merge" => Touched(job[v]) \cap Touched(job[w]) = {}

MergeSteps == {"note", "handle", "create", "settle", "target", "move", "recount",
               "remove"}

(* What a worker knows of the database between the steps of a merge.        *)
Exclusive(j) ==
    LET open == PendingIds(reqs, "merge", j.base)
    IN  j.op = "merge" =>
          /\ j.pc \in MergeSteps
          /\ j.base # j.into
          /\ j.pc = "create" => open \subseteq j.rejected
          /\ j.pc = "settle" => open \subseteq j.ids \cup j.rejected
          /\ j.pc \in {"target", "move", "recount", "remove"} => open = {}
          /\ j.pc = "move" => /\ j.voters = votes[j.into]
                              /\ j.subscribers = notified[j.into]
          /\ j.pc \in {"recount", "remove"}
               => /\ votes[j.base] \subseteq votes[j.into]
                  /\ notified[j.base] \subseteq notified[j.into]
                  /\ \A i \in DOMAIN comments : comments[i].base # j.base

LEMMA OpStays ==
    ASSUME TypeInv, NEW w \in Workers, Step(w) \/ Crash(w)
    PROVE  job'[w].op \in {"none", job[w].op}
<1>0. /\ job \in [Workers -> Job] /\ job[w] \in Job
      /\ \A x : [job EXCEPT ![w] = x][w] = x
  BY DEF TypeInv, TypeOK
<1>1. CASE Finish(w)
  BY <1>1, FinishPc DEF Idle
<1>2. ASSUME NEW pc, Goto(w, pc) \/ NextBase(w, pc) \/ Committed(w)
      PROVE  job'[w].op \in {"none", job[w].op}
  <2>1. CASE Goto(w, pc)
    <3>1. job'[w] = [job[w] EXCEPT !.pc = pc]
      BY <2>1, FinishPc
    <3> QED
      BY <1>0, <3>1 DEF Job
  <2>2. CASE NextBase(w, pc) /\ job[w].rest # {}
    <3>1. PICK b \in job[w].rest :
            job' = [job EXCEPT ![w].pc = pc, ![w].base = b, ![w].rest = @ \ {b}]
      BY <2>2 DEF NextBase
    <3>2. job'[w] = [job[w] EXCEPT !.pc = pc, !.base = b, !.rest = @ \ {b}]
      BY <1>0, <3>1
    <3> QED
      BY <1>0, <3>2 DEF Job
  <2>3. CASE Committed(w) /\ job[w].rest # {}
    <3>1. PICK b \in job[w].rest :
            job' = [job EXCEPT ![w].pc = "look", ![w].base = b,
                               ![w].rest = @ \ {b}, ![w].found = TRUE]
      BY <2>3 DEF Committed
    <3>2. job'[w] = [job[w] EXCEPT !.pc = "look", !.base = b,
                                   !.rest = @ \ {b}, !.found = TRUE]
      BY <1>0, <3>1
    <3> QED
      BY <1>0, <3>2 DEF Job
  <2> QED
    BY <1>1, <1>2, <2>1, <2>2, <2>3 DEF NextBase, Committed
<1>3. CASE AddComment(w) \/ Render(w) \/ Handle(w) \/ Create(w) \/ ReadTarget(w)
  <2>1. CASE AddComment(w) \/ Render(w)
    BY <1>0, <2>1 DEF AddComment, Render, Job
  <2>2. CASE Handle(w)
    <3> DEFINE accepted == ToAccept(reqs, TypeOf(w), job[w].base, job[w].into)
               refused == ToReject(reqs, TypeOf(w), job[w].base, job[w].into)
               blank == Blank(reqs, accepted \cup refused)
               p == accepted # {}
               pc == IF accepted = {} THEN "create" ELSE "settle"
    <3>1. job'[w] = [job[w] EXCEPT !.pc = pc, !.found = p, !.ids = accepted,
                                   !.rejected = refused, !.blank = blank]
      BY <1>0, <2>2 DEF Handle
    <3> HIDE DEF accepted, refused, blank, p, pc
    <3> QED
      BY <1>0, <3>1 DEF Job
  <2>3. CASE Create(w)
    <3>1. PICK ids, blank :
            job'[w] = [job[w] EXCEPT !.pc = "settle", !.ids = ids, !.blank = blank]
      BY <1>0, <2>3 DEF Create
    <3> QED
      BY <1>0, <3>1 DEF Job
  <2>4. CASE ReadTarget(w)
    <3>1. PICK voters, subscribers :
            job'[w] = [job[w] EXCEPT !.pc = "move", !.voters = voters,
                                     !.subscribers = subscribers]
      BY <1>0, <2>4 DEF ReadTarget
    <3> QED
      BY <1>0, <3>1 DEF Job
  <2> QED
    BY <1>3, <2>1, <2>2, <2>3, <2>4
<1> QED
  BY <1>1, <1>2, <1>3
  DEF Step, Crash, Vanished, CastVote, WithdrawVote, Recount, Look, Subscribe,
      Unsubscribe, EditComment, SaveRendered, MarkComment, SetKeywords, File, Note,
      Settle, Move, Remove, Delete

(* Nothing is pending once what was pending has been closed.                *)
LEMMA ClosedAll ==
    ASSUME NEW s \in Seq(Request), NEW ids, NEW rejected, NEW blank, NEW b,
           PendingIds(s, "merge", b) \subseteq ids \cup rejected,
           NEW t, t = ClosePkgreq(ClosePkgreq(s, ids, blank, "Accepted"),
                                  rejected, blank, "Rejected")
    PROVE  PendingIds(t, "merge", b) = {}
<1> DEFINE first == ClosePkgreq(s, ids, blank, "Accepted")
<1>1. first \in Seq(Request) /\ DOMAIN first = DOMAIN s /\ KeepsRows(s, first)
  BY ClosePkgreqType, KeepsRowsClose DEF Statuses
<1>2. DOMAIN t = DOMAIN s
  BY <1>1, ClosePkgreqType DEF Statuses
<1>3. ASSUME NEW i \in DOMAIN s, t[i].base = b, t[i].type = "merge",
             t[i].status = "Pending"
      PROVE  FALSE
  <2>0. s[i] \in Request /\ first[i] \in Request
    BY <1>1, LenProperties
  <2>1. i \notin rejected
    BY <1>1, <1>3, <2>0 DEF ClosePkgreq, Request
  <2>2. t[i] = first[i]
    BY <1>1, <2>1 DEF ClosePkgreq
  <2>3. i \notin ids
    BY <1>3, <2>0, <2>2 DEF ClosePkgreq, Request
  <2>4. first[i] = s[i]
    BY <2>3 DEF ClosePkgreq
  <2> QED
    BY <1>3, <2>1, <2>2, <2>3, <2>4 DEF PendingIds
<1> QED
  BY <1>2, <1>3 DEF PendingIds

LEMMA ExclusiveStep ==
    ASSUME TypeInv, NEW w \in Workers, Exclusive(job[w]),
           \/ \E u, b : Serve(w, u, b)
           \/ \E u, S : ServeBulk(w, u, S)
           \/ \E u, i : ServeComment(w, u, i)
           \/ Step(w) \/ Crash(w)
    PROVE  Exclusive(job[w])'
<1>0. /\ job[w] \in Job /\ JobFits(job[w], Len(comments)) /\ reqs \in Seq(Request)
      /\ job \in [Workers -> Job]
      /\ votes \in [Bases -> SUBSET Users] /\ notified \in [Bases -> SUBSET Users]
  BY DEF TypeInv, TypeOK
<1>1. CASE \/ \E u, b : Serve(w, u, b)
           \/ \E u, S : ServeBulk(w, u, S)
           \/ \E u, i : ServeComment(w, u, i)
  <2>1. PICK j : Receive(w, j) /\ Begins(j)
    BY <1>1, Received
  <2>2. job'[w] = j
    BY <2>1, FinishPc
  <2> QED
    BY <2>1, <2>2 DEF Exclusive, Begins, MergeSteps
<1>3. CASE job[w].op # "merge" /\ (Step(w) \/ Crash(w))
  <2>1. job'[w].op \in {"none", job[w].op}
    BY <1>3, OpStays
  <2> QED
    BY <1>3, <2>1 DEF Exclusive
<1>4. CASE job[w].op = "merge" /\ (Step(w) \/ Crash(w))
  <2>0. /\ job[w].pc \in MergeSteps /\ job[w].base # job[w].into
        /\ job[w].base \in Bases /\ job[w].into \in Bases
    BY <1>0, <1>4 DEF Exclusive, JobFits, MergeSteps
  <2>1. CASE Finish(w)
    <3>1. job'[w].op = "none"
      BY <2>1, FinishPc DEF Idle
    <3> QED
      BY <3>1 DEF Exclusive
  <2>2. CASE Note(w)
    <3>1. job'[w] = [job[w] EXCEPT !.pc = "handle"]
      BY <2>2, FinishPc DEF Note
    <3>2. job'[w].pc = "handle" /\ job'[w].base = job[w].base
          /\ job'[w].into = job[w].into
      BY <1>0, <3>1 DEF Job
    <3> QED
      BY <2>0, <3>2 DEF Exclusive, MergeSteps
  <2>3. CASE Handle(w)
    <3> DEFINE accepted == ToAccept(reqs, "merge", job[w].base, job[w].into)
               refused == ToReject(reqs, "merge", job[w].base, job[w].into)
               blank == Blank(reqs, accepted \cup refused)
               p == accepted # {}
               pc == IF accepted = {} THEN "create" ELSE "settle"
    <3>1. job'[w] = [job[w] EXCEPT !.pc = pc, !.found = p, !.ids = accepted,
                                   !.rejected = refused, !.blank = blank]
      BY <1>0, <1>4, <2>3 DEF Handle, TypeOf
    <3>2. /\ PendingIds(reqs, "merge", job[w].base) \subseteq accepted \cup refused
          /\ accepted = {} => PendingIds(reqs, "merge", job[w].base) \subseteq refused
      BY DEF ToAccept, ToReject
    <3>3. (pc = "create" /\ accepted = {}) \/ (pc = "settle" /\ accepted # {})
      <4> HIDE DEF accepted
      <4> QED
        OBVIOUS
    <3>4. reqs' = reqs
      BY <2>3 DEF Handle
    <3> HIDE DEF accepted, refused, blank, p, pc
    <3>5. /\ job'[w].pc = pc /\ job'[w].base = job[w].base /\ job'[w].into = job[w].into
          /\ job'[w].ids = accepted /\ job'[w].rejected = refused
      BY <1>0, <3>1 DEF Job
    <3> QED
      BY <2>0, <3>2, <3>3, <3>4, <3>5 DEF Exclusive, MergeSteps, PendingIds
  <2>4. CASE Create(w)
    <3> DEFINE id == Len(reqs) + 1
               blank == job[w].blank \cup {id}
               r == NewRequest(TypeOf(w), job[w].base, job[w].into, job[w].user, 0)
    <3>1. job'[w] = [job[w] EXCEPT !.pc = "settle", !.ids = {id}, !.blank = blank]
      BY <1>0, <2>4 DEF Create
    <3>2. reqs' = Append(reqs, r)
      BY <2>4 DEF Create
    <3>3. r \in Request
      <4>1. job[w].user \in Users /\ TypeOf(w) \in Types
        BY <1>0, <2>4 DEF Create, At, JobFits, TypeOf, Types
      <4> QED
        BY <2>0, <4>1, NewRequestType
    <3> HIDE DEF id, blank, r
    <3>4. PendingIds(reqs, "merge", job[w].base) \subseteq job[w].rejected
      BY <1>4, <2>4 DEF Create, At, Exclusive
    <3>5. PendingIds(reqs', "merge", job[w].base) \subseteq {id} \cup job[w].rejected
      BY <1>0, <3>2, <3>3, <3>4, AppendRequest DEF PendingIds, id
    <3>6. /\ job'[w].pc = "settle" /\ job'[w].base = job[w].base
          /\ job'[w].into = job[w].into /\ job'[w].ids = {id}
          /\ job'[w].rejected = job[w].rejected
      BY <1>0, <3>1 DEF Job
    <3> QED
      BY <2>0, <3>5, <3>6 DEF Exclusive, MergeSteps
  <2>5. CASE Settle(w)
    <3>1. job'[w] = [job[w] EXCEPT !.pc = "target"]
      BY <1>4, <2>5, FinishPc DEF Settle
    <3>2. job'[w].pc = "target" /\ job'[w].base = job[w].base
          /\ job'[w].into = job[w].into
      BY <1>0, <3>1 DEF Job
    <3>3. PendingIds(reqs, "merge", job[w].base) \subseteq job[w].ids \cup job[w].rejected
      BY <1>4, <2>5 DEF Settle, Exclusive
    <3>4. PendingIds(reqs', "merge", job[w].base) = {}
      BY <1>0, <2>5, <3>3, ClosedAll DEF Settle
    <3> QED
      BY <2>0, <3>2, <3>4 DEF Exclusive, MergeSteps
  <2>6. CASE ReadTarget(w)
    <3>1. job'[w] = [job[w] EXCEPT !.pc = "move", !.voters = votes[job[w].into],
                                   !.subscribers = notified[job[w].into]]
      BY <1>0, <2>6 DEF ReadTarget
    <3>2. /\ job'[w].pc = "move" /\ job'[w].base = job[w].base
          /\ job'[w].into = job[w].into /\ job'[w].voters = votes[job[w].into]
          /\ job'[w].subscribers = notified[job[w].into]
      BY <1>0, <3>1 DEF Job
    <3>3. PendingIds(reqs, "merge", job[w].base) = {} /\ reqs' = reqs
          /\ votes' = votes /\ notified' = notified
      BY <1>4, <2>6 DEF ReadTarget, Exclusive
    <3> QED
      BY <2>0, <3>2, <3>3 DEF Exclusive, MergeSteps, PendingIds
  <2>7. CASE Move(w) /\ ~Finish(w)
    <3>1. job'[w] = [job[w] EXCEPT !.pc = "recount"]
      BY <2>7, FinishPc DEF Move
    <3>2. job'[w].pc = "recount" /\ job'[w].base = job[w].base
          /\ job'[w].into = job[w].into
      BY <1>0, <3>1 DEF Job
    <3>3. /\ PendingIds(reqs, "merge", job[w].base) = {} /\ reqs' = reqs
          /\ job[w].voters = votes[job[w].into]
          /\ job[w].subscribers = notified[job[w].into]
      BY <1>4, <2>7 DEF Move, At, Exclusive
    <3>4. votes'[job[w].base] \subseteq votes'[job[w].into]
      BY <1>0, <2>0, <2>7, <3>3 DEF Move
    <3>5. notified'[job[w].base] \subseteq notified'[job[w].into]
      BY <1>0, <2>0, <2>7, <3>3 DEF Move
    <3>6. \A i \in DOMAIN comments' : comments'[i].base # job[w].base
      <4>1. comments' = [i \in DOMAIN comments |->
                            IF comments[i].base = job[w].base
                            THEN [comments[i] EXCEPT !.base = job[w].into]
                            ELSE comments[i]]
        BY <2>7 DEF Move
      <4>2. \A i \in DOMAIN comments : comments[i] \in Comment
        BY Comments
      <4> QED
        BY <2>0, <4>1, <4>2 DEF Comment
    <3> QED
      BY <2>0, <3>2, <3>3, <3>4, <3>5, <3>6 DEF Exclusive, MergeSteps, PendingIds
  <2>8. CASE Recount(w)
    <3>1. job'[w] = [job[w] EXCEPT !.pc = "remove"]
      BY <1>4, <2>8, FinishPc DEF Recount
    <3>2. job'[w].pc = "remove" /\ job'[w].base = job[w].base
          /\ job'[w].into = job[w].into
      BY <1>0, <3>1 DEF Job
    <3>3. /\ PendingIds(reqs, "merge", job[w].base) = {} /\ reqs' = reqs
          /\ votes[job[w].base] \subseteq votes[job[w].into] /\ votes' = votes
          /\ notified[job[w].base] \subseteq notified[job[w].into]
          /\ notified' = notified /\ comments' = comments
          /\ \A i \in DOMAIN comments : comments[i].base # job[w].base
      BY <1>4, <2>8 DEF Recount, Exclusive
    <3> QED
      BY <2>0, <3>2, <3>3 DEF Exclusive, MergeSteps, PendingIds
  <2>9. ~(\/ CastVote(w) \/ WithdrawVote(w) \/ Look(w) \/ Subscribe(w)
          \/ Unsubscribe(w) \/ AddComment(w) \/ EditComment(w) \/ Render(w)
          \/ SaveRendered(w) \/ MarkComment(w) \/ SetKeywords(w) \/ File(w)
          \/ Delete(w))
    BY <2>0
    DEF CastVote, WithdrawVote, Look, Subscribe, Unsubscribe, AddComment,
        EditComment, Render, SaveRendered, MarkComment, SetKeywords, File, Delete,
        At, MergeSteps
  <2>10. Vanished(w) \/ Crash(w) \/ Remove(w) => Finish(w)
    BY DEF Vanished, Crash, Remove
  <2> QED
    BY <1>4, <2>1, <2>2, <2>3, <2>4, <2>5, <2>6, <2>7, <2>8, <2>9, <2>10 DEF Step
<1> QED
  BY <1>1, <1>3, <1>4

(* What a step does to a package base its worker does not touch: no vote,   *)
(* no subscription, no comment and no request is added.                     *)
Untouched(c) ==
    /\ votes'[c] = votes[c] /\ notified'[c] = notified[c]
    /\ \A i \in DOMAIN comments' :
          comments'[i].base = c => i \in DOMAIN comments /\ comments[i].base = c
    /\ \A i \in DOMAIN reqs' \ DOMAIN reqs : reqs'[i].base # c
    /\ KeepsRows(reqs, reqs')

LEMMA CommentsElsewhere ==
    ASSUME TypeInv, NEW v \in Workers, Step(v) \/ Crash(v),
           NEW c \in Bases, c \notin Touched(job[v]),
           NEW i \in DOMAIN comments', comments'[i].base = c
    PROVE  i \in DOMAIN comments /\ comments[i].base = c
<1>0. /\ DOMAIN comments = 1 .. Len(comments) /\ Len(comments) \in Nat
      /\ \A k \in DOMAIN comments : comments[k] \in Comment
      /\ comments \in Seq(Comment)
      /\ c # NULL
  BY Comments, NULLAssumption DEF TypeInv, TypeOK
<1>1. CASE comments' = comments
  BY <1>1
<1>2. CASE AddComment(v)
  <2> DEFINE row == [base |-> job[v].base, by |-> job[v].user, text |-> job[v].text,
                     html |-> NULL, deleter |-> NULL, deleted |-> FALSE,
                     pinned |-> FALSE]
  <2>1. comments' = Append(comments, row) /\ row.base # c
    BY <1>2 DEF AddComment, Touched
  <2> HIDE DEF row
  <2>2. \A k \in DOMAIN comments' \ DOMAIN comments : comments'[k] = row
    BY <1>0, <2>1, AppendProperties
  <2>3. \A k \in DOMAIN comments : comments'[k] = comments[k]
    BY <1>0, <2>1, AppendProperties
  <2> QED
    BY <2>1, <2>2, <2>3
<1>3. CASE EditComment(v) \/ SaveRendered(v)
  <2>1. PICK k, x : \/ comments' = [comments EXCEPT ![k].text = x]
                    \/ comments' = [comments EXCEPT ![k].html = x]
                    \/ comments' = comments
    BY <1>3 DEF EditComment, SaveRendered
  <2>2. /\ DOMAIN comments' = DOMAIN comments
        /\ comments'[i] \in {comments[i], [comments[i] EXCEPT !.text = x],
                             [comments[i] EXCEPT !.html = x]}
    BY <1>0, <2>1
  <2>3. comments'[i].base = comments[i].base
    BY <1>0, <2>2 DEF Comment
  <2> QED
    BY <2>2, <2>3
<1>4. CASE MarkComment(v)
  <2>1. \A row \in Comment : Marked(job[v], row).base = row.base
    BY DEF Marked, Comment
  <2> QED
    BY <1>0, <1>4, <2>1 DEF MarkComment
<1>5. CASE Move(v)
  <2>1. job[v].op = "merge"
    BY <1>5 DEF TypeInv, JobFits, Move, At
  <2> QED
    BY <1>0, <1>5, <2>1 DEF Move, Touched, Comment
<1>6. CASE Remove(v) \/ Delete(v)
  BY <1>0, <1>6 DEF Remove, Delete, RemoveBase, Comment
<1> QED
  BY <1>1, <1>2, <1>3, <1>4, <1>5, <1>6
  DEF Step, Crash, Vanished, CastVote, WithdrawVote, Recount, Look, Subscribe,
      Unsubscribe, Render, SetKeywords, File, Note, Handle, Create, Settle, ReadTarget

LEMMA LeavesUntouched ==
    ASSUME TypeInv, [Next]_vars, NEW v \in Workers, Step(v) \/ Crash(v),
           NEW c \in Bases, c \notin Touched(job[v])
    PROVE  Untouched(c)
<1>0. /\ votes \in [Bases -> SUBSET Users] /\ notified \in [Bases -> SUBSET Users]
      /\ reqs \in Seq(Request) /\ JobFits(job[v], Len(comments))
      /\ c # job[v].base
      /\ KeepsRows(reqs, reqs')
  BY NextType DEF TypeInv, TypeOK, Touched
<1>1. votes'[c] = votes[c] /\ notified'[c] = notified[c]
  <2>1. CASE Move(v)
    <3>1. c # job[v].into
      BY <1>0, <2>1 DEF JobFits, Move, At, Touched
    <3> QED
      BY <1>0, <2>1, <3>1 DEF Move
  <2>2. CASE ~Move(v)
    BY <1>0, <2>2
    DEF Step, Crash, Vanished, CastVote, WithdrawVote, Recount, Look, Subscribe,
        Unsubscribe, AddComment, EditComment, Render, SaveRendered, MarkComment,
        SetKeywords, File, Note, Handle, Create, Settle, ReadTarget, Remove,
        Delete, RemoveBase
  <2> QED
    BY <2>1, <2>2
<1>2. ASSUME NEW i \in DOMAIN reqs' \ DOMAIN reqs PROVE reqs'[i].base # c
  <2>1. File(v) \/ Create(v)
    <3>1. CASE Note(v)
      BY <1>0, <1>2, <3>1, UpdateClosureCommentType DEF Note
    <3>2. CASE Settle(v)
      BY <1>0, <1>2, <3>2, ClosePkgreqType DEF Settle, Statuses
    <3>3. CASE Remove(v) \/ Delete(v)
      BY <1>0, <1>2, <3>3, DetachRequestsType DEF Remove, Delete, RemoveBase
    <3> QED
      BY <1>2, <3>1, <3>2, <3>3
      DEF Step, Crash, Vanished, CastVote, WithdrawVote, Recount, Look, Subscribe,
          Unsubscribe, AddComment, EditComment, Render, SaveRendered, MarkComment,
          SetKeywords, Handle, ReadTarget, Move
  <2> DEFINE t == IF File(v) THEN "merge" ELSE TypeOf(v)
             r == NewRequest(t, job[v].base, job[v].into, job[v].user, 0)
  <2>2. job[v].user \in Users /\ job[v].base \in Bases /\ job[v].into \in Bases \cup {NULL}
    BY <1>0, <2>1 DEF JobFits, File, Create, At, TypeInv, TypeOK, Job
  <2>3. t \in Types /\ reqs' = Append(reqs, r)
    BY <2>1 DEF File, Create, TypeOf, Types
  <2>4. r \in Request /\ r.base = job[v].base
    BY <2>2, <2>3, NewRequestType DEF NewRequest
  <2> HIDE DEF r, t
  <2> QED
    BY <1>0, <1>2, <2>3, <2>4, AppendRequest
<1> QED
  BY <1>0, <1>1, <1>2, CommentsElsewhere DEF Untouched

LEMMA ExclusiveElsewhere ==
    ASSUME TypeInv, NEW w \in Workers, Exclusive(job[w]), job'[w] = job[w],
           job[w].op = "merge" => Untouched(job[w].base) /\ Untouched(job[w].into)
    PROVE  Exclusive(job[w])'
<1> DEFINE j == job[w]
<1> SUFFICES ASSUME j.op = "merge" PROVE Exclusive(j)'
  BY DEF Exclusive
<1>1. Untouched(j.base) /\ Untouched(j.into)
  OBVIOUS
<1>2. j.base \in Bases /\ j.base # NULL /\ reqs \in Seq(Request)
  BY NULLAssumption DEF Exclusive, MergeSteps, TypeInv, TypeOK, JobFits
<1>3. PendingIds(reqs', "merge", j.base) \subseteq PendingIds(reqs, "merge", j.base)
  BY <1>1, <1>2 DEF Untouched, KeepsRows, PendingIds
<1>4. \A i \in DOMAIN comments' :
         comments'[i].base = j.base => i \in DOMAIN comments /\ comments[i].base = j.base
  BY <1>1 DEF Untouched
<1>5. /\ votes'[j.base] = votes[j.base] /\ notified'[j.base] = notified[j.base]
      /\ votes'[j.into] = votes[j.into] /\ notified'[j.into] = notified[j.into]
  BY <1>1 DEF Untouched
<1> QED
  BY <1>3, <1>4, <1>5 DEF Exclusive

LEMMA ExclusiveNext ==
    ASSUME TypeInv, MergesApart, [Next]_vars, \A w \in Workers : Exclusive(job[w])
    PROVE  \A w \in Workers : Exclusive(job[w])'
<1> SUFFICES ASSUME NEW w \in Workers PROVE Exclusive(job[w])'
  OBVIOUS
<1>0. job \in [Workers -> Job] /\ KeepsRows(reqs, reqs')
  BY NextType DEF TypeInv, TypeOK
<1>1. ASSUME NEW v \in Workers, \/ \E u, b : Serve(v, u, b)
                                \/ \E u, S : ServeBulk(v, u, S)
                                \/ \E u, i : ServeComment(v, u, i),
             v # w
      PROVE  Exclusive(job[w])'
  <2>1. PICK j : Receive(v, j)
    BY <1>1, Received
  <2> QED
    BY <1>0, <1>1, <2>1, ExclusiveElsewhere DEF Receive, Untouched
<1>2. ASSUME NEW v \in Workers, Step(v) \/ Crash(v), v # w
      PROVE  Exclusive(job[w])'
  <2>1. job'[w] = job[w]
    BY <1>0, <1>2, OtherWorkers DEF Crash, Finish
  <2>2. ASSUME job[w].op = "merge" PROVE Untouched(job[w].base) /\ Untouched(job[w].into)
    <3>1. job[w].base \in Bases /\ job[w].into \in Bases
      BY <2>2 DEF Exclusive, MergeSteps, TypeInv, JobFits
    <3>2. job[w].base \notin Touched(job[v]) /\ job[w].into \notin Touched(job[v])
      BY <1>2, <2>2 DEF MergesApart, Touched
    <3> QED
      BY <1>2, <3>1, <3>2, LeavesUntouched
  <2> QED
    BY <2>1, <2>2, ExclusiveElsewhere
<1>3. CASE PopUpdate \/ UNCHANGED vars
  BY <1>0, <1>3, ExclusiveElsewhere DEF PopUpdate, vars, Untouched
<1> QED
  BY <1>1, <1>2, <1>3, ExclusiveStep DEF Next

LEMMA ExclusiveInvariant ==
    Spec /\ []MergesApart => [](TypeInv /\ \A w \in Workers : Exclusive(job[w]))
<1> DEFINE Inv == TypeInv /\ \A w \in Workers : Exclusive(job[w])
<1>1. Init => Inv
  BY InitType DEF Init, Exclusive, Idle
<1>2. Inv /\ MergesApart /\ [Next]_vars => Inv'
  BY NextType, ExclusiveNext
<1> QED
  BY <1>1, <1>2, PTL DEF Spec

(* While no other worker touches what is merged or its target: a merge,     *)
(* which may be killed at any point, leaves no request to merge the package *)
(* base behind, whichever target it names.                                  *)
THEOREM MergesAnswerEveryRequest == Spec /\ []MergesApart => []NoMergeLeftOpen
<1>1. (TypeInv /\ \A w \in Workers : Exclusive(job[w])) => NoMergeLeftOpen
  BY DEF Exclusive, NoMergeLeftOpen, PendingIds
<1> QED
  BY <1>1, ExclusiveInvariant, PTL

(* While no other worker touches what is merged or its target: a merge      *)
(* deletes nothing the target has not got.                                  *)
THEOREM MergesLoseNothing == Spec /\ []MergesApart => EverythingMerged
<1> DEFINE Inv == TypeInv /\ \A w \in Workers : Exclusive(job[w])
<1>1. Inv /\ [Next]_vars =>
        [\A w \in Workers :
            LET j == job[w]
            IN  j.pc = "remove" /\ j.base \in live \ live'
                   => /\ votes[j.base] \subseteq votes[j.into]
                      /\ notified[j.base] \subseteq notified[j.into]
                      /\ \A i \in DOMAIN comments : comments[i].base # j.base]_vars
  BY DEF TypeInv, JobFits, Exclusive
<1> QED
  BY <1>1, ExclusiveInvariant, PTL DEF Spec, EverythingMerged

-----------------------------------------------------------------------------
(* The handlers implement Lifecycle.                                        *)

LEMMA FiledStep ==
    ASSUME TypeInv, NEW w \in Workers, File(w) \/ Create(w)
    PROVE  Abstract!Next
<1> DEFINE t == IF File(w) THEN "merge" ELSE TypeOf(w)
           r == NewRequest(t, job[w].base, job[w].into, job[w].user, 0)
<1>1. /\ job[w].user \in Users /\ job[w].base \in live /\ live \subseteq Bases
      /\ job[w].into \in Bases \cup {NULL} /\ reqs \in Seq(Request)
      /\ t \in {"merge", "deletion"}
  BY DEF TypeInv, TypeOK, File, Create, At, JobFits, Job, TypeOf
<1>2. r \in Request /\ reqs' = Append(reqs, r) /\ live' = live
  BY <1>1, NewRequestType DEF TypeOf, Types, File, Create
<1>3. r.type = t /\ r.name = job[w].base /\ r.by = job[w].user /\ r.status = "Pending"
  BY DEF NewRequest
<1> HIDE DEF r, t
<1>4. Abstract!File(t, job[w].base, job[w].user)
  BY <1>1, <1>2, <1>3, LedgerAppended DEF Abstract!File, Abstract!Entry
<1> QED
  BY <1>1, <1>4 DEF Abstract!Next, Abstract!Removals

LEMMA RemovedStep ==
    ASSUME TypeInv, TraceInv, live' # live,
           NEW w \in Workers, Remove(w) \/ Delete(w)
    PROVE  Abstract!Next
<1> DEFINE b == job[w].base
<1>0. live' = live \ {b} /\ reqs' = DetachRequests(reqs, b)
  BY DEF Remove, Delete, RemoveBase
<1>1. /\ b \in live /\ live \subseteq Bases /\ reqs \in Seq(Request)
      /\ live' = live \ {b} /\ reqs' = DetachRequests(reqs, b)
  BY <1>0 DEF TypeInv, TypeOK
<1>2. LedgerOf(reqs)' = LedgerOf(reqs)
  <2>1. \A i \in DOMAIN reqs : reqs[i] \in Request
    BY <1>1, LenProperties
  <2> QED
    BY <1>1, <2>1 DEF DetachRequests, LedgerOf, Request
<1>3. Decided({KindOf(job[w])}, b) # {}
  BY DEF TraceInv, Tracked, Remove, Delete, At, Settled
<1>4. PICK i \in DOMAIN reqs : i \in Decided({KindOf(job[w])}, b)
  BY <1>3 DEF Decided
<1>5. i \in DOMAIN LedgerOf(reqs) /\ Abstract!Warrants(i, b)
  BY <1>4 DEF LedgerOf, Abstract!Warrants, Abstract!Removals, Decided, KindOf
<1>6. Abstract!Remove(b)
  BY <1>1, <1>2, <1>5 DEF Abstract!Remove
<1> QED
  BY <1>1, <1>6 DEF Abstract!Next

LEMMA LifecycleStep ==
    ASSUME TypeInv, TraceInv, [Next]_vars
    PROVE  Abstract!Next
<1>1. CASE live' # live
  BY <1>1, OnlyRemoving, RemovedStep
<1>2. CASE \E w \in Workers : File(w) \/ Create(w)
  BY <1>2, FiledStep
<1>3. CASE live' = live /\ ~\E w \in Workers : File(w) \/ Create(w)
  <2>1. KeepsRows(reqs, reqs') /\ DOMAIN reqs' = DOMAIN reqs
    BY <1>3, NextType, OnlyFiling
  <2>2. PICK S \in SUBSET DOMAIN LedgerOf(reqs) :
           LedgerOf(reqs') = [i \in DOMAIN LedgerOf(reqs) |->
                                IF i \in S
                                THEN [LedgerOf(reqs)[i] EXCEPT !.decided = TRUE]
                                ELSE LedgerOf(reqs)[i]]
    BY <2>1, LedgerKept
  <2>3. Abstract!Decide(S)
    BY <1>3, <2>2 DEF Abstract!Decide
  <2> QED
    BY <2>3 DEF Abstract!Next
<1> QED
  BY <1>1, <1>2, <1>3

(* Community implements Lifecycle, for any number of workers, killed or not.*)
THEOREM LifecycleImplemented == Spec => ImplementsLifecycle
<1>1. Init => TypeInv /\ TraceInv
  <2>1. Init => TraceInv
    BY DEF Init, TraceInv, Named, GoneIsTraced, Tracked, Idle, Settled
  <2> QED
    BY <2>1, InitType
<1>2. TypeInv /\ TraceInv /\ [Next]_vars => TypeInv' /\ TraceInv'
  BY NextType, TraceStep
<1>3. Init => Abstract!Init
  <2>1. ASSUME Init PROVE LedgerOf(reqs) = <<>>
    BY <2>1 DEF Init, LedgerOf
  <2> QED
    BY <2>1 DEF Init, Abstract!Init
<1>4. TypeInv /\ TraceInv /\ [Next]_vars => [Abstract!Next]_<<live, LedgerOf(reqs)>>
  BY LifecycleStep
<1> QED
  BY <1>1, <1>2, <1>3, <1>4, PTL DEF Spec, ImplementsLifecycle, Abstract!Spec
=============================================================================
