------------------------- MODULE PkgBaseTraceProofs -------------------------
(* Theorems about what happens to package bases and requests: that it is    *)
(* recorded and implements Lifecycle, that orphaning and deletion are       *)
(* warranted, and what workers that do not meet at a package base keep in   *)
(* order.  They hold for any users, package bases and number of workers.    *)
EXTENDS PkgBaseProofs

-----------------------------------------------------------------------------
(* The strengthening of DeletionTraced that is inductive: a request that    *)
(* refers to a package base has its name, handlers know which type of       *)
(* request they handle, the rows at hand when requests are settled are      *)
(* deletion requests for the package base, and one of them is decided by    *)
(* the time the package base is deleted.                                    *)

Named == \A i \in DOMAIN reqs : reqs[i].base \in {NULL, reqs[i].name}

OfBase(t, b) == {i \in DOMAIN reqs : reqs[i].name = b /\ reqs[i].type = t}

Tracked(j) ==
    /\ j.pc \in {"disownNote", "disown", "verify"} => j.type = "orphan"
    /\ j.pc = "deleteNote" => j.type = "deletion"
    /\ j.pc \in {"handle", "create", "settle"} => j.type \in {"orphan", "deletion"}
    /\ j.pc = "settle" /\ j.type = "deletion"
          => j.ids # {} /\ j.ids \subseteq OfBase("deletion", j.base)
    /\ j.pc = "delete" => Decided("deletion", j.base) # {}

TraceInv == /\ Named
            /\ DeletionTraced
            /\ \A w \in Workers : Tracked(job[w])

(* What no step does to a request: take the row, its type, its name or its  *)
(* time away, move it to another package base, take it off one that still   *)
(* exists, or open it again.                                                *)
Kept == \A i \in DOMAIN reqs :
           /\ i \in DOMAIN reqs'
           /\ reqs'[i].type = reqs[i].type
           /\ reqs'[i].name = reqs[i].name
           /\ reqs'[i].by = reqs[i].by
           /\ reqs'[i].into = reqs[i].into
           /\ reqs'[i].ts = reqs[i].ts
           /\ \/ reqs'[i].base = reqs[i].base
              \/ reqs'[i].base = NULL /\ reqs[i].base \notin live'
           /\ reqs[i].status # "Pending" => reqs'[i].status # "Pending"

(* No row of PackageRequests is removed, renamed or reopened, whatever      *)
(* overlaps: a decision on a request may be replaced, never undone.         *)
RequestsKept == [][Kept]_vars
-----------------------------------------------------------------------------
(* Requests are kept.                                                       *)

LEMMA RowsAre ==
    ASSUME TypeInv
    PROVE  /\ \A i \in DOMAIN reqs : reqs[i] \in Request
           /\ \A i \in DOMAIN reqs : i \in Nat
           /\ Len(reqs) + 1 \notin DOMAIN reqs
BY LenProperties DEF TypeInv, TypeOK

LEMMA KeptWhenSame == reqs' = reqs => Kept
BY DEF Kept

LEMMA KeptStep ==
    ASSUME TypeInv, [Next]_vars
    PROVE  Kept
<1>0. \A i \in DOMAIN reqs : reqs[i] \in Request
  BY RowsAre
<1>1. ASSUME NEW w \in Workers, NEW u \in Users, NEW b \in Bases, Serve(w, u, b)
      PROVE  Kept
  BY <1>1, KeptWhenSame
  DEF Serve, AdoptPost, ApiAdoptPost, DisownPost, ApiDisownPost, ComaintPost,
      RequestPost, DeletePost, FlagPost, UnflagPost, NotifyPost, UnnotifyPost
<1>2. ASSUME NEW w \in Workers, NEW u \in Users, NEW i \in DOMAIN reqs,
             ClosePost(w, u, i)
      PROVE  Kept
  BY <1>2, KeptWhenSame DEF ClosePost
<1>3. ASSUME NEW w \in Workers, Step(w) \/ Crash(w)
      PROVE  Kept
  <2>1. CASE reqs' = reqs
    BY <2>1, KeptWhenSame
  <2>2. CASE DisownNote(w)
    <3>1. CASE job[w].comment
      BY <1>0, <2>2, <3>1 DEF DisownNote, UpdateClosureComment, Kept, Request
    <3> QED
      BY <2>2, <3>1, KeptWhenSame DEF DisownNote
  <2>3. CASE DeleteNote(w)
    BY <1>0, <2>3 DEF DeleteNote, UpdateClosureComment, Kept, Request
  <2>4. CASE ApiClose(w)
    BY <1>0, <2>4 DEF ApiClose, Kept, Request
  <2>5. CASE Settle(w)
    BY <1>0, <2>5 DEF Settle, ClosePkgreq, Kept, Request
  <2>6. CASE Close(w)
    BY <1>0, <2>6 DEF Close, Kept, Request
  <2>7. CASE AutoOrphan(w)
    BY <1>0, <2>7 DEF AutoOrphan, Kept, Request
  <2>8. CASE File(w)
    <3>1. NewRequest(job[w].type, job[w].base, job[w].into, job[w].user, job[w].at)
             \in Request
      BY <2>8, NewRequestType
      DEF File, At, Job, JobFits, TypedSteps, TypeInv, TypeOK
    <3> QED
      BY <2>8, <3>1, AppendedType DEF File, Kept
  <2>9. CASE Create(w)
    <3>1. NewRequest(job[w].type, job[w].base, NULL, job[w].user, 0) \in Request
      BY <2>9, NewRequestType
      DEF Create, At, Job, JobFits, TypedSteps, TypeInv, TypeOK
    <3> QED
      BY <2>9, <3>1, AppendedType DEF Create, Kept
  <2>10. CASE Delete(w)
    BY <1>0, <2>10 DEF Delete, UpdateClosureComment, DetachRequests, Kept, Request
  <2> QED
    BY <1>3, <2>1, <2>2, <2>3, <2>4, <2>5, <2>6, <2>7, <2>8, <2>9, <2>10
    DEF Step, Crash, Vanished, Adopt, ApiAdopt, Remove, Rotate, AddNext,
        AddComaintainer, DisownInstance, Promote, Orphan, ApiPromote, Decide,
        Verify, Handle, Flag, Unflag, Notify, Unnotify
<1>4. CASE Tick \/ UNCHANGED vars
  BY <1>4, KeptWhenSame DEF Tick, vars
<1> QED
  BY <1>1, <1>2, <1>3, <1>4 DEF Next, Quiet

(* From the closing of a request to its being closed again, from an auto-   *)
(* orphan to a deletion of the package base: no handler reopens, renames or *)
(* removes a request, even if the row changed since the handler read it.    *)
THEOREM RequestsAreKept == Spec => RequestsKept
<1> QED
  BY InitType, NextType, KeptStep, PTL DEF Spec, RequestsKept
-----------------------------------------------------------------------------
(* What is known of a request stays known.                                  *)

LEMMA KnownStays ==
    ASSUME TypeInv, TypeInv', Kept, NEW t, NEW b
    PROVE  /\ OfBase(t, b) \subseteq OfBase(t, b)'
           /\ Decided(t, b) \subseteq Decided(t, b)'
BY DEF Kept, OfBase, Decided

LEMMA TrackedStays ==
    ASSUME TypeInv, TypeInv', Kept, NEW w \in Workers,
           Tracked(job[w]), job'[w] = job[w]
    PROVE  Tracked(job[w])'
<1>1. /\ OfBase("deletion", job[w].base) \subseteq OfBase("deletion", job[w].base)'
      /\ Decided("deletion", job[w].base) \subseteq Decided("deletion", job[w].base)'
  BY KnownStays DEF OfBase, Decided, Kept
<1> QED
  BY <1>1 DEF Tracked

(* Steps that nothing is to be tracked after.                               *)
Untracked == Steps \ {"disownNote", "disown", "verify", "deleteNote", "handle",
                      "create", "settle", "delete"}

LEMMA UntrackedFits ==
    ASSUME NEW w \in Workers, job'[w].pc \in Untracked
    PROVE  Tracked(job[w])'
BY DEF Untracked, Tracked

(* What the handlers do before and after they touch the tables.             *)
LEMMA CallsWriteNothing ==
    ASSUME [Next]_vars, ~\E w \in Workers : Step(w)
    PROVE  live' = live /\ reqs' = reqs
<1>1. ASSUME NEW w \in Workers, NEW u \in Users, NEW b \in Bases, Serve(w, u, b)
      PROVE  live' = live /\ reqs' = reqs
  BY <1>1 DEF Serve, AdoptPost, ApiAdoptPost, DisownPost, ApiDisownPost,
      ComaintPost, RequestPost, DeletePost, FlagPost, UnflagPost, NotifyPost,
      UnnotifyPost
<1>2. ASSUME NEW w \in Workers, NEW u \in Users, NEW i \in DOMAIN reqs,
             ClosePost(w, u, i)
      PROVE  live' = live /\ reqs' = reqs
  BY <1>2 DEF ClosePost
<1>3. ASSUME NEW w \in Workers, Crash(w)
      PROVE  live' = live /\ reqs' = reqs
  BY <1>3 DEF Crash
<1>4. CASE Tick \/ UNCHANGED vars
  BY <1>4 DEF Tick, vars
<1> QED
  BY <1>1, <1>2, <1>3, <1>4 DEF Next, Quiet

LEMMA OnlyDelete ==
    ASSUME [Next]_vars, live' # live
    PROVE  \E w \in Workers : Delete(w)
<1>1. PICK w \in Workers : Step(w)
  BY CallsWriteNothing
<1>2. Delete(w)
  BY <1>1
  DEF Step, Vanished, Adopt, ApiAdopt, Remove, Rotate, AddNext, AddComaintainer,
      DisownNote, DisownInstance, Promote, Orphan, ApiClose, ApiPromote, File,
      Decide, AutoOrphan, Close, Verify, Handle, Create, Settle, DeleteNote,
      Flag, Unflag, Notify, Unnotify
<1> QED
  BY <1>2

LEMMA OnlyInserts ==
    ASSUME TypeInv, [Next]_vars, DOMAIN reqs' # DOMAIN reqs
    PROVE  \E w \in Workers : File(w) \/ Create(w)
<1>1. PICK w \in Workers : Step(w)
  BY CallsWriteNothing
<1>2. reqs' # reqs
  OBVIOUS
<1>3. File(w) \/ Create(w)
  BY <1>1, <1>2, RequestStepsType, AutoOrphanType, DeleteType
  DEF Step, Vanished, Adopt, ApiAdopt, Remove, Rotate, AddNext, AddComaintainer,
      DisownInstance, Promote, Orphan, ApiPromote, Decide, Verify, Handle,
      Flag, Unflag, Notify, Unnotify
<1> QED
  BY <1>3

(* A package base leaves the table only after a decided deletion request.   *)
LEMMA GoneTraced ==
    ASSUME TypeInv, TypeInv', TraceInv, [Next]_vars
    PROVE  DeletionTraced'
<1>1. Kept
  BY KeptStep
<1>2. ASSUME NEW b \in Bases \ live'
      PROVE  Decided("deletion", b) # {}
  <2>1. CASE b \notin live
    BY <2>1 DEF TraceInv, DeletionTraced
  <2>2. CASE b \in live
    <3>1. PICK w \in Workers : Delete(w) /\ b = job[w].base
      <4>1. live' # live
        BY <1>2, <2>2
      <4>2. PICK w \in Workers : Delete(w)
        BY <4>1, OnlyDelete
      <4> QED
        BY <1>2, <2>2, <4>2 DEF Delete
    <3> QED
      BY <3>1 DEF TraceInv, Tracked, Delete, At
  <2> QED
    BY <2>1, <2>2
<1>3. \A b \in Bases \ live' : Decided("deletion", b)' # {}
  BY <1>1, <1>2, KnownStays
<1> QED
  BY <1>3 DEF DeletionTraced

LEMMA NamedStep ==
    ASSUME TypeInv, TypeInv', TraceInv, [Next]_vars
    PROVE  Named'
<1>1. Kept
  BY KeptStep
<1>2. \A i \in DOMAIN reqs : reqs'[i].base \in {NULL, reqs'[i].name}
  BY <1>1 DEF Kept, TraceInv, Named
<1>3. ASSUME NEW i \in DOMAIN reqs' \ DOMAIN reqs
      PROVE  reqs'[i].base = reqs'[i].name
  <2>1. PICK w \in Workers : File(w) \/ Create(w)
    <3>1. DOMAIN reqs' # DOMAIN reqs
      BY <1>3
    <3> QED
      BY <3>1, OnlyInserts
  <2>2. CASE File(w)
    <3> DEFINE r == NewRequest(job[w].type, job[w].base, job[w].into,
                               job[w].user, job[w].at)
    <3>1. r \in Request /\ r.base = r.name
      BY <2>2, NewRequestType
      DEF File, At, Job, JobFits, TypedSteps, TypeInv, TypeOK, NewRequest
    <3> HIDE DEF r
    <3>2. reqs' = Append(reqs, r)
      BY <2>2 DEF File, r
    <3> QED
      BY <1>3, <3>1, <3>2, AppendedType
  <2>3. CASE Create(w)
    <3> DEFINE r == NewRequest(job[w].type, job[w].base, NULL, job[w].user, 0)
    <3>1. r \in Request /\ r.base = r.name
      BY <2>3, NewRequestType
      DEF Create, At, Job, JobFits, TypedSteps, TypeInv, TypeOK, NewRequest
    <3> HIDE DEF r
    <3>2. reqs' = Append(reqs, r)
      BY <2>3 DEF Create, r
    <3> QED
      BY <1>3, <3>1, <3>2, AppendedType
  <2> QED
    BY <2>1, <2>2, <2>3
<1> QED
  BY <1>2, <1>3 DEF Named
-----------------------------------------------------------------------------
(* Handlers know what they handle.                                          *)

(* Only one worker's job changes, to what its step makes of it.             *)
LEMMA OneJob ==
    ASSUME TypeInv, NEW w \in Workers, NEW j, job' = [job EXCEPT ![w] = j]
    PROVE  job'[w] = j /\ \A v \in Workers \ {w} : job'[v] = job[v]
BY DEF TypeInv, TypeOK

LEMMA FinishTracked ==
    ASSUME TypeInv, NEW w \in Workers, Finish(w)
    PROVE  /\ Tracked(job[w])'
           /\ \A v \in Workers \ {w} : job'[v] = job[v]
<1>1. job'[w] = Idle /\ \A v \in Workers \ {w} : job'[v] = job[v]
  BY OneJob DEF Finish
<1>2. job'[w].pc \in Untracked
  BY <1>1 DEF Idle, Untracked, Steps
<1> QED
  BY <1>1, <1>2, UntrackedFits

LEMMA GotoJob ==
    ASSUME TypeInv, NEW w \in Workers, NEW pc, Goto(w, pc)
    PROVE  /\ job'[w] = [job[w] EXCEPT !.pc = pc]
           /\ job'[w].pc = pc /\ job'[w].type = job[w].type
           /\ job'[w].base = job[w].base /\ job'[w].ids = job[w].ids
           /\ \A v \in Workers \ {w} : job'[v] = job[v]
BY DEF Goto, TypeInv, TypeOK, Job

LEMMA GotoUntracked ==
    ASSUME TypeInv, NEW w \in Workers, NEW pc \in Untracked, Goto(w, pc)
    PROVE  /\ Tracked(job[w])'
           /\ \A v \in Workers \ {w} : job'[v] = job[v]
<1>1. /\ job'[w].pc = pc
      /\ \A v \in Workers \ {w} : job'[v] = job[v]
  BY GotoJob
<1> QED
  BY <1>1, UntrackedFits

LEMMA ServeTracked ==
    ASSUME TypeInv, NEW w \in Workers, NEW u \in Users, NEW b \in Bases,
           Serve(w, u, b)
    PROVE  /\ Tracked(job[w])'
           /\ \A v \in Workers \ {w} : job'[v] = job[v]
<1>1. ASSUME NEW j, Receive(w, j),
             \/ j.pc \in Untracked
             \/ j.pc = "disownNote" /\ j.type = "orphan"
             \/ j.pc \in {"deleteNote", "handle"} /\ j.type = "deletion"
      PROVE  /\ Tracked(job[w])'
             /\ \A v \in Workers \ {w} : job'[v] = job[v]
  <2>1. job'[w] = j /\ \A v \in Workers \ {w} : job'[v] = job[v]
    BY <1>1, OneJob DEF Receive
  <2>2. CASE j.pc \in Untracked
    BY <2>1, <2>2, UntrackedFits
  <2>3. CASE j.pc = "disownNote" /\ j.type = "orphan"
    BY <2>1, <2>3 DEF Tracked
  <2>4. CASE j.pc \in {"deleteNote", "handle"} /\ j.type = "deletion"
    BY <2>1, <2>4 DEF Tracked
  <2> QED
    BY <1>1, <2>1, <2>2, <2>3, <2>4
<1>2. CASE AdoptPost(w, u, b)
  BY <1>1, <1>2 DEF AdoptPost, Call, Idle, Untracked, Steps
<1>3. CASE ApiAdoptPost(w, u, b)
  BY <1>1, <1>3 DEF ApiAdoptPost, Call, Idle, Untracked, Steps
<1>4. CASE DisownPost(w, u, b)
  BY <1>1, <1>4 DEF DisownPost, Call, Idle, Untracked, Steps
<1>5. CASE ApiDisownPost(w, u, b)
  BY <1>1, <1>5 DEF ApiDisownPost, Call, Idle, Untracked, Steps
<1>6. ASSUME NEW S \in SUBSET Users, ComaintPost(w, u, b, S)
      PROVE  /\ Tracked(job[w])'
             /\ \A v \in Workers \ {w} : job'[v] = job[v]
  BY <1>1, <1>6 DEF ComaintPost, Call, Idle, Untracked, Steps
<1>7. ASSUME NEW t, NEW into, RequestPost(w, u, b, t, into)
      PROVE  /\ Tracked(job[w])'
             /\ \A v \in Workers \ {w} : job'[v] = job[v]
  BY <1>1, <1>7 DEF RequestPost, Call, Idle, Untracked, Steps
<1>8. CASE DeletePost(w, u, b)
  BY <1>1, <1>8 DEF DeletePost, Call, Idle, Untracked, Steps
<1>9. CASE FlagPost(w, u, b) \/ UnflagPost(w, u, b)
  BY <1>1, <1>9 DEF FlagPost, UnflagPost, Call, Idle, Untracked, Steps
<1>10. CASE NotifyPost(w, u, b) \/ UnnotifyPost(w, u, b)
  BY <1>1, <1>10 DEF NotifyPost, UnnotifyPost, Call, Idle, Untracked, Steps
<1> QED
  BY <1>2, <1>3, <1>4, <1>5, <1>6, <1>7, <1>8, <1>9, <1>10 DEF Serve

LEMMA ClosePostTracked ==
    ASSUME TypeInv, NEW w \in Workers, NEW u \in Users, NEW i \in DOMAIN reqs,
           ClosePost(w, u, i)
    PROVE  /\ Tracked(job[w])'
           /\ \A v \in Workers \ {w} : job'[v] = job[v]
<1>1. PICK c \in BOOLEAN :
         Receive(w, [Call("close", "close", u, NULL) EXCEPT
                        !.comment = c, !.ids = {i}, !.blank = Blank(reqs, {i}),
                        !.seen = reqs[i].status])
  BY DEF ClosePost
<1> DEFINE j == [Call("close", "close", u, NULL) EXCEPT
                    !.comment = c, !.ids = {i}, !.blank = Blank(reqs, {i}),
                    !.seen = reqs[i].status]
<1>2. j.pc \in Untracked
  BY DEF Call, Idle, Untracked, Steps
<1>3. job' = [job EXCEPT ![w] = j]
  BY <1>1 DEF Receive
<1> HIDE DEF j
<1>4. job'[w] = j /\ \A v \in Workers \ {w} : job'[v] = job[v]
  BY <1>3, OneJob
<1> QED
  BY <1>2, <1>4, UntrackedFits

(* The requests handle_request finds or creates are deletion requests of    *)
(* the package base, and closing them decides them.                         *)
LEMMA HandleTracked ==
    ASSUME TypeInv, TraceInv, NEW w \in Workers, Handle(w)
    PROVE  /\ Tracked(job[w])'
           /\ \A v \in Workers \ {w} : job'[v] = job[v]
<1> DEFINE ids == ToAccept(reqs, job[w].type, job[w].base, NULL)
           blank == Blank(reqs, ids)
           pc == IF ids = {} THEN "create" ELSE "settle"
           p == ids # {}
           j == [job[w] EXCEPT !.pc = pc, !.found = p, !.ids = ids, !.blank = blank]
<1>1. /\ job[w] \in Job /\ Tracked(job[w]) /\ job[w].pc = "handle"
      /\ job[w].base \in live /\ live \subseteq Bases /\ reqs' = reqs
  BY DEF Handle, At, TraceInv, TypeInv, TypeOK
<1>2. job[w].type \in {"orphan", "deletion"}
  BY <1>1 DEF Tracked
<1>3. ids \subseteq OfBase(job[w].type, job[w].base)
  BY <1>1, NULLAssumption DEF ToAccept, PendingIds, OfBase, TraceInv, Named
<1>4. job' = [job EXCEPT ![w] = j]
  BY DEF Handle, TypeInv, TypeOK
<1>5. pc = "create" \/ (pc = "settle" /\ ids # {})
  OBVIOUS
<1>6. j.pc = pc /\ j.type = job[w].type /\ j.base = job[w].base /\ j.ids = ids
  <2> HIDE DEF pc, p, ids, blank
  <2> QED
    BY <1>1 DEF Job
<1> HIDE DEF j, pc, ids, blank, p
<1>7. job'[w] = j /\ \A v \in Workers \ {w} : job'[v] = job[v]
  BY <1>4, OneJob
<1>9. /\ job'[w].pc = pc /\ job'[w].type = job[w].type
      /\ job'[w].base = job[w].base /\ job'[w].ids = ids
  BY <1>6, <1>7
<1>10. Tracked(job[w])'
  BY <1>1, <1>2, <1>3, <1>5, <1>9 DEF Tracked, OfBase
<1> QED
  BY <1>7, <1>10

LEMMA CreateTracked ==
    ASSUME TypeInv, TraceInv, NEW w \in Workers, Create(w)
    PROVE  /\ Tracked(job[w])'
           /\ \A v \in Workers \ {w} : job'[v] = job[v]
<1> DEFINE id == Len(reqs) + 1
           r == NewRequest(job[w].type, job[w].base, NULL, job[w].user, 0)
           j == [job[w] EXCEPT !.pc = "settle", !.ids = {id}, !.blank = {id}]
<1>1. /\ job[w] \in Job /\ Tracked(job[w]) /\ job[w].pc = "create"
      /\ JobFits(job[w]) /\ job[w].base \in Bases
  BY DEF Create, At, TraceInv, TypeInv, TypeOK
<1>2. job[w].type \in {"orphan", "deletion"}
  BY <1>1 DEF Tracked
<1>3. r \in Request /\ r.name = job[w].base /\ r.type = job[w].type
  BY <1>1, NewRequestType DEF JobFits, TypedSteps, Job, TypeInv, TypeOK, NewRequest
<1>4. job' = [job EXCEPT ![w] = j]
  BY DEF Create, TypeInv, TypeOK
<1>5. j.pc = "settle" /\ j.type = job[w].type /\ j.base = job[w].base /\ j.ids = {id}
  BY <1>1 DEF Job
<1>6. reqs' = Append(reqs, r)
  BY DEF Create
<1> HIDE DEF j, r
<1>7. job'[w] = j /\ \A v \in Workers \ {w} : job'[v] = job[v]
  BY <1>4, OneJob
<1>8. {id} \subseteq {i \in DOMAIN reqs' : /\ reqs'[i].name = job[w].base
                                          /\ reqs'[i].type = job[w].type}
  BY <1>3, <1>6, AppendedType
<1> HIDE DEF id
<1> QED
  BY <1>2, <1>5, <1>7, <1>8 DEF Tracked, OfBase
(* Whatever happened to the rows since they were found, settling decides    *)
(* them, so the package base that is deleted next has a decided request.    *)
LEMMA SettleTracked ==
    ASSUME TypeInv, TraceInv, NEW w \in Workers, Settle(w)
    PROVE  /\ Tracked(job[w])'
           /\ \A v \in Workers \ {w} : job'[v] = job[v]
<1>1. job[w] \in Job /\ Tracked(job[w]) /\ job[w].pc = "settle"
  BY DEF Settle, TraceInv, TypeInv, TypeOK
<1>2. CASE job[w].type = "orphan"
  <2>1. Goto(w, "orphan")
    BY <1>2 DEF Settle
  <2> QED
    BY <2>1, GotoUntracked DEF Untracked, Steps
<1>3. CASE job[w].type = "deletion"
  <2>1. Goto(w, "delete")
    BY <1>3 DEF Settle
  <2>2. /\ job'[w].pc = "delete" /\ job'[w].base = job[w].base
        /\ \A v \in Workers \ {w} : job'[v] = job[v]
    BY <2>1, GotoJob
  <2>3. PICK i \in job[w].ids : i \in OfBase("deletion", job[w].base)
    BY <1>1, <1>3 DEF Tracked
  <2>4. /\ i \in DOMAIN reqs'
        /\ reqs'[i].name = job[w].base /\ reqs'[i].type = "deletion"
        /\ reqs'[i].status = "Accepted"
    <3>1. i \in DOMAIN reqs /\ reqs[i] \in Request
      BY <2>3, RowsAre DEF OfBase
    <3> QED
      BY <2>3, <3>1 DEF Settle, ClosePkgreq, OfBase, Request
  <2>5. Decided("deletion", job[w].base)' # {}
    BY <2>2, <2>4 DEF Decided
  <2> QED
    BY <2>2, <2>5 DEF Tracked
<1> QED
  BY <1>1, <1>2, <1>3 DEF Tracked

LEMMA ReadingTracked ==
    ASSUME TypeInv, TraceInv, NEW w \in Workers,
           \/ DisownNote(w) \/ DisownInstance(w) \/ Verify(w) \/ DeleteNote(w)
           \/ Decide(w) \/ AddNext(w) \/ File(w)
    PROVE  /\ Tracked(job[w])'
           /\ \A v \in Workers \ {w} : job'[v] = job[v]
<1>1. job[w] \in Job /\ Tracked(job[w])
  BY DEF TraceInv, TypeInv, TypeOK
<1>2. ASSUME NEW pc, Goto(w, pc),
             \/ pc \in Untracked
             \/ pc \in {"disown", "verify"} /\ job[w].type = "orphan"
             \/ pc = "handle" /\ job[w].type \in {"orphan", "deletion"}
      PROVE  /\ Tracked(job[w])'
             /\ \A v \in Workers \ {w} : job'[v] = job[v]
  <2>1. /\ job'[w].pc = pc /\ job'[w].type = job[w].type
        /\ \A v \in Workers \ {w} : job'[v] = job[v]
    BY <1>2, GotoJob
  <2>2. CASE pc \in Untracked
    BY <2>1, <2>2, UntrackedFits
  <2>3. CASE pc \in {"disown", "verify"} /\ job[w].type = "orphan"
    BY <2>1, <2>3 DEF Tracked
  <2>4. CASE pc = "handle" /\ job[w].type \in {"orphan", "deletion"}
    BY <2>1, <2>4 DEF Tracked
  <2> QED
    BY <1>2, <2>2, <2>3, <2>4
<1>3. CASE DisownNote(w)
  BY <1>1, <1>2, <1>3 DEF DisownNote, At, Tracked
<1>4. CASE DisownInstance(w)
  BY <1>1, <1>2, <1>4, FinishTracked DEF DisownInstance, At, Tracked, Untracked, Steps
<1>5. CASE Verify(w)
  BY <1>1, <1>2, <1>5, FinishTracked DEF Verify, At, Tracked
<1>6. CASE DeleteNote(w)
  BY <1>1, <1>2, <1>6 DEF DeleteNote, At, Tracked
<1>7. CASE Decide(w)
  <2>1. CASE job' = [job EXCEPT ![w].pc = "autoOrphan",
                                ![w].seen = maintainer[job[w].base]]
    <3>1. /\ job'[w].pc = "autoOrphan"
          /\ \A v \in Workers \ {w} : job'[v] = job[v]
      BY <1>1, <2>1 DEF Job, TypeInv, TypeOK
    <3> QED
      BY <3>1, UntrackedFits DEF Untracked, Steps
  <2>2. CASE Goto(w, "handle") /\ job[w].type = "deletion"
    BY <1>2, <2>2
  <2> QED
    BY <1>7, <2>1, <2>2, FinishTracked DEF Decide
<1>8. CASE AddNext(w)
  <2>2. CASE Finish(w)
    BY <2>2, FinishTracked
  <2>3. ASSUME NEW u, NEW passed,
               job' = [job EXCEPT ![w].pc = "insert", ![w].seen = u,
                          ![w].add = @ \ (passed \cup {u}),
                          ![w].at = LatestPriority(comaint[job[w].base]) + 1]
        PROVE  /\ Tracked(job[w])'
               /\ \A v \in Workers \ {w} : job'[v] = job[v]
    <3>1. /\ job'[w].pc = "insert"
          /\ \A v \in Workers \ {w} : job'[v] = job[v]
      BY <1>1, <2>3 DEF Job, TypeInv, TypeOK
    <3> QED
      BY <3>1, UntrackedFits DEF Untracked, Steps
  <2> QED
    BY <1>8, <2>2, <2>3 DEF AddNext
<1>9. CASE File(w)
  <2>1. /\ job'[w].pc = "decide"
        /\ \A v \in Workers \ {w} : job'[v] = job[v]
    BY <1>1, <1>9 DEF File, Job, TypeInv, TypeOK
  <2> QED
    BY <2>1, UntrackedFits DEF Untracked, Steps
<1> QED
  BY <1>3, <1>4, <1>5, <1>6, <1>7, <1>8, <1>9

LEMMA StepTracked ==
    ASSUME TypeInv, TraceInv, NEW w \in Workers, Step(w) \/ Crash(w)
    PROVE  /\ Tracked(job[w])'
           /\ \A v \in Workers \ {w} : job'[v] = job[v]
<1>1. CASE Finish(w)
  BY <1>1, FinishTracked
<1>2. CASE Remove(w) \/ Rotate(w) \/ AddComaintainer(w) \/ ApiClose(w)
  <2>1. Finish(w) \/ \E pc \in {"rotate", "add", "apiPromote"} : Goto(w, pc)
    BY <1>2 DEF Remove, Rotate, AddComaintainer, ApiClose
  <2> QED
    BY <2>1, FinishTracked, GotoUntracked DEF Untracked, Steps
<1> QED
  BY <1>1, <1>2, HandleTracked, CreateTracked, SettleTracked, ReadingTracked
  DEF Step, Crash, Vanished, Adopt, ApiAdopt, Promote, Orphan, ApiPromote,
      AutoOrphan, Close, Delete, Flag, Unflag, Notify, Unnotify

LEMMA TraceStep ==
    ASSUME TypeInv, TypeInv', TraceInv, [Next]_vars
    PROVE  TraceInv'
<1>1. Named' /\ DeletionTraced' /\ Kept
  BY NamedStep, GoneTraced, KeptStep
<1>2. \A w \in Workers : Tracked(job[w]) /\ (job'[w] = job[w] => Tracked(job[w])')
  BY <1>1, TrackedStays DEF TraceInv
<1>3. ASSUME NEW w \in Workers, Tracked(job[w])',
             \A v \in Workers \ {w} : job'[v] = job[v]
      PROVE  TraceInv'
  BY <1>1, <1>2, <1>3 DEF TraceInv
<1>4. CASE Tick \/ UNCHANGED vars
  <2>1. job' = job
    BY <1>4 DEF Tick, vars
  <2> QED
    BY <1>1, <1>2, <2>1 DEF TraceInv
<1> QED
  BY <1>3, <1>4, ServeTracked, ClosePostTracked, StepTracked DEF Next, Quiet

LEMMA TraceInit == Init => TraceInv
<1> SUFFICES ASSUME Init PROVE TraceInv
  OBVIOUS
<1>1. Named /\ DeletionTraced
  BY DEF Init, Named, DeletionTraced
<1>2. \A w \in Workers : Tracked(job[w])
  BY DEF Init, Idle, Tracked
<1> QED
  BY <1>1, <1>2 DEF TraceInv

(* A package base that is gone left a decided deletion request with its     *)
(* name: handle_request settles the requests it finds, or creates one, and  *)
(* neither another worker nor a crash can undo that before the row goes.    *)
THEOREM DeletionsAreTraced == Spec => []DeletionTraced
<1>1. TypeInv /\ TraceInv /\ [Next]_vars => TypeInv' /\ TraceInv'
  BY NextType, TraceStep
<1>2. Init => TypeInv /\ TraceInv
  BY InitType, TraceInit
<1>3. TraceInv => DeletionTraced
  BY DEF TraceInv
<1> QED
  BY <1>1, <1>2, <1>3, PTL DEF Spec
-----------------------------------------------------------------------------
(* The handlers implement Lifecycle.                                        *)

LEMMA FiledStep ==
    ASSUME TypeInv, NEW w \in Workers, File(w) \/ Create(w)
    PROVE  Abstract!Next
<1>1. PICK r \in Request :
         /\ reqs' = Append(reqs, r) /\ r.status = "Pending"
         /\ r.name \in live /\ live' = live
  <2>1. CASE File(w)
    <3> DEFINE r == NewRequest(job[w].type, job[w].base, job[w].into,
                               job[w].user, job[w].at)
    <3>1. r \in Request /\ r.status = "Pending" /\ r.name = job[w].base
      BY <2>1, NewRequestType
      DEF File, At, Job, JobFits, TypedSteps, TypeInv, TypeOK, NewRequest
    <3> QED
      BY <2>1, <3>1 DEF File, At
  <2>2. CASE Create(w)
    <3> DEFINE r == NewRequest(job[w].type, job[w].base, NULL, job[w].user, 0)
    <3>1. r \in Request /\ r.status = "Pending" /\ r.name = job[w].base
      BY <2>2, NewRequestType
      DEF Create, At, Job, JobFits, TypedSteps, TypeInv, TypeOK, NewRequest
    <3> QED
      BY <2>2, <3>1 DEF Create, At
  <2> QED
    BY <2>1, <2>2
<1>2. /\ r.type \in Abstract!Removals \cup {"orphan"}
      /\ r.name \in Bases /\ r.by \in Users
  BY DEF Request, Types, Abstract!Removals
<1>3. Abstract!File(r.type, r.name, r.by)
  BY <1>1, LedgerAppended DEF Abstract!File, Abstract!Entry, TypeInv, TypeOK
<1> QED
  BY <1>2, <1>3 DEF Abstract!Next

LEMMA RemovedStep ==
    ASSUME TypeInv, TraceInv, NEW w \in Workers, Delete(w)
    PROVE  Abstract!Next
<1> DEFINE b == job[w].base
<1>1. b \in live /\ live' = live \ {b} /\ live \subseteq Bases
  BY DEF Delete, At, TypeInv, TypeOK
<1>2. LedgerOf(reqs)' = LedgerOf(reqs)
  BY RowsAre DEF Delete, UpdateClosureComment, DetachRequests, LedgerOf, Request
<1>3. PICK i \in DOMAIN reqs : i \in Decided("deletion", b)
  BY DEF TraceInv, Tracked, Delete, At, Decided
<1>4. i \in DOMAIN LedgerOf(reqs) /\ Abstract!Warrants(i, b)
  BY <1>3 DEF LedgerOf, Abstract!Warrants, Abstract!Removals, Decided
<1>5. Abstract!Remove(b)
  BY <1>1, <1>2, <1>4 DEF Abstract!Remove
<1> QED
  BY <1>1, <1>5 DEF Abstract!Next

LEMMA LifecycleStep ==
    ASSUME TypeInv, TypeInv', TraceInv, [Next]_vars
    PROVE  Abstract!Next
<1>1. CASE live' # live
  BY <1>1, OnlyDelete, RemovedStep
<1>2. CASE DOMAIN reqs' # DOMAIN reqs
  BY <1>2, OnlyInserts, FiledStep
<1>3. CASE live' = live /\ DOMAIN reqs' = DOMAIN reqs
  <2>1. KeepsRows(reqs, reqs')
    BY KeptStep DEF Kept, KeepsRows
  <2>2. PICK S \in SUBSET DOMAIN LedgerOf(reqs) :
           LedgerOf(reqs') = [i \in DOMAIN LedgerOf(reqs) |->
                                IF i \in S
                                THEN [LedgerOf(reqs)[i] EXCEPT !.decided = TRUE]
                                ELSE LedgerOf(reqs)[i]]
    BY <1>3, <2>1, LedgerKept
  <2>3. Abstract!Decide(S)
    BY <1>3, <2>2 DEF Abstract!Decide
  <2> QED
    BY <2>3 DEF Abstract!Next
<1> QED
  BY <1>1, <1>2, <1>3

LEMMA LifecycleInit == Init => Abstract!Init
<1>1. ASSUME Init PROVE LedgerOf(reqs) = <<>>
  BY <1>1 DEF Init, LedgerOf
<1> QED
  BY <1>1 DEF Init, Abstract!Init

(* PkgBase implements Lifecycle, for any number of workers, killed or not.  *)
THEOREM LifecycleImplemented == Spec => ImplementsLifecycle
<1>1. TypeInv /\ TraceInv /\ [Next]_vars => TypeInv' /\ TraceInv'
  BY NextType, TraceStep
<1>2. Init => TypeInv /\ TraceInv
  BY InitType, TraceInit
<1>3. TypeInv /\ TypeInv' /\ TraceInv /\ [Next]_vars
         => [Abstract!Next]_<<live, LedgerOf(reqs)>>
  BY LifecycleStep
<1> QED
  BY <1>1, <1>2, <1>3, LifecycleInit, PTL DEF Spec, ImplementsLifecycle, Abstract!Spec

-----------------------------------------------------------------------------
(* What a package base is orphaned or deleted for.  A handler that goes on  *)
(* because a request is due, or because the package base is old or new      *)
(* enough, is still right when it writes, however long it took: requests    *)
(* keep their time, the clock does not go back, and a package base keeps    *)
(* its age as long as it exists.                                            *)

Due(i) == reqs[i].ts # 0 /\ now - reqs[i].ts > IdleTime
Late(i, b) == reqs[i].ts # 0 /\ reqs[i].ts - submittedTS[b] >= AutoOrphanAge

(* A due request that is decided, or is about to be.                        *)
Asked(j) ==
    \E i \in OfBase("orphan", j.base) :
        /\ Due(i)
        /\ \/ reqs[i].status # "Pending"
           \/ j.pc = "handle" /\ reqs[i].base = j.base
           \/ j.pc = "settle" /\ i \in j.ids

MayDelete(j) == \/ j.user \in TrustedUsers
                \/ j.at - submittedTS[j.base] <= AutoDeleteAge

Handling == {"handle", "create", "settle"}

Warranted(j) ==
    /\ j.pc \in {"file", "flag"} => j.at > IdleTime
    /\ j.pc = "deleteNote" => j.user \in TrustedUsers
    /\ j.pc = "decide" => \E i \in OfBase(j.type, j.base) :
                             j.ids = {i} /\ reqs[i].ts = j.at /\ j.at > IdleTime
    /\ j.base \in live =>
          /\ j.pc = "autoOrphan" => \E i \in OfBase("orphan", j.base) :
                                       i \in j.ids /\ Late(i, j.base)
          /\ j.pc \in Handling /\ j.type = "orphan" => Asked(j)
          /\ j.pc = "orphan" => Asked(j)
          /\ j.pc \in Handling /\ j.type = "deletion" => MayDelete(j)
          /\ j.pc = "delete" => MayDelete(j)

(* Times are later than IdleTime, except the RequestTS that handle_request  *)
(* leaves at 0; such a request is created beside one that was due.          *)
Dated ==
    /\ now > IdleTime
    /\ \A b \in Bases : /\ submittedTS[b] <= IdleTime + 1
                        /\ oodTS[b] # 0 => oodTS[b] > IdleTime

Companions ==
    \A i \in DOMAIN reqs :
        reqs[i].type = "orphan" /\ reqs[i].ts = 0 /\ reqs[i].name \in live
            => \E k \in Decided("orphan", reqs[i].name) : Due(k)

WarrantInv == Dated /\ Companions /\ \A w \in Workers : Warranted(job[w])

-----------------------------------------------------------------------------
(* What every step respects.                                                *)
Orderly == /\ Kept
           /\ live' \subseteq live
           /\ now' >= now
           /\ \A b \in live' : submittedTS'[b] = submittedTS[b]

LEMMA SameOrderly ==
    ASSUME TypeInv, Kept, UNCHANGED <<live, submittedTS, now>>
    PROVE  Orderly
BY DEF Orderly, TypeInv, TypeOK

LEMMA OrderlyStep ==
    ASSUME TypeInv, [Next]_vars
    PROVE  Orderly
<1>0. Kept
  BY KeptStep
<1> USE DEF columns
<1>1. ASSUME NEW w \in Workers, NEW u \in Users, NEW b \in Bases, Serve(w, u, b)
      PROVE  Orderly
  BY <1>0, <1>1, SameOrderly
  DEF Serve, AdoptPost, ApiAdoptPost, DisownPost, ApiDisownPost, ComaintPost,
      RequestPost, DeletePost, FlagPost, UnflagPost, NotifyPost, UnnotifyPost
<1>2. ASSUME NEW w \in Workers, NEW u \in Users, NEW i \in DOMAIN reqs,
             ClosePost(w, u, i)
      PROVE  Orderly
  BY <1>0, <1>2, SameOrderly DEF ClosePost
<1>3. ASSUME NEW w \in Workers, Step(w) \/ Crash(w)
      PROVE  Orderly
  <2>1. CASE Delete(w)
    <3>1. now' = now /\ now \in Nat /\ live' = live \ {job[w].base}
      BY <2>1 DEF Delete, TypeInv, TypeOK
    <3>2. \A b \in live' : submittedTS'[b] = submittedTS[b]
      BY <2>1, <3>1 DEF Delete, TypeInv, TypeOK
    <3> QED
      BY <1>0, <3>1, <3>2 DEF Orderly
  <2> QED
    BY <1>0, <1>3, <2>1, SameOrderly
    DEF Step, Crash, Vanished, Adopt, ApiAdopt, Remove, Rotate, AddNext,
        AddComaintainer, DisownNote, DisownInstance, Promote, Orphan, ApiClose,
        ApiPromote, File, Decide, AutoOrphan, Close, Verify, Handle, Create,
        Settle, DeleteNote, Flag, Unflag, Notify, Unnotify
<1>4. CASE Tick
  <2>1. now' = now + 1 /\ now \in Nat /\ UNCHANGED <<live, submittedTS>>
    BY <1>4 DEF Tick, TypeInv, TypeOK
  <2> QED
    BY <1>0, <2>1 DEF Orderly
<1>5. CASE UNCHANGED vars
  BY <1>0, <1>5, SameOrderly DEF vars
<1> QED
  BY <1>1, <1>2, <1>3, <1>4, <1>5 DEF Next, Quiet

(* What is due stays due.                                                   *)
LEMMA DueStays ==
    ASSUME TypeInv, TypeInv', Orderly, NEW i \in DOMAIN reqs, Due(i)
    PROVE  Due(i)'
<1>1. reqs[i] \in Request /\ reqs'[i].ts = reqs[i].ts
  BY RowsAre DEF Orderly, Kept
<1>2. reqs[i].ts \in Nat /\ now \in Nat /\ now' \in Nat /\ now' >= now
  BY <1>1, IdleTimeAssumption DEF Request, Orderly, TypeInv, TypeOK
<1> QED
  BY <1>1, <1>2, IdleTimeAssumption DEF Due

LEMMA WarrantStays ==
    ASSUME TypeInv, TypeInv', Orderly, NEW w \in Workers,
           Warranted(job[w]), job'[w] = job[w]
    PROVE  Warranted(job[w])'
<1> DEFINE b == job[w].base
<1>0. \A i \in DOMAIN reqs : /\ i \in DOMAIN reqs'
                             /\ reqs'[i].ts = reqs[i].ts
                             /\ reqs'[i].name = reqs[i].name
                             /\ reqs'[i].type = reqs[i].type
                             /\ reqs[i].status # "Pending" => reqs'[i].status # "Pending"
                             /\ reqs[i].base \in live' => reqs'[i].base = reqs[i].base
  BY DEF Orderly, Kept
<1>1. Asked(job[w]) /\ b \in live' => Asked(job[w])'
  <2> SUFFICES ASSUME Asked(job[w]), b \in live' PROVE Asked(job[w])'
    OBVIOUS
  <2>1. PICK i \in OfBase("orphan", b) :
           /\ Due(i)
           /\ \/ reqs[i].status # "Pending"
              \/ job[w].pc = "handle" /\ reqs[i].base = b
              \/ job[w].pc = "settle" /\ i \in job[w].ids
    BY DEF Asked
  <2>2. i \in DOMAIN reqs
    BY DEF OfBase
  <2>3. Due(i)'
    BY <2>1, <2>2, DueStays
  <2>4. i \in OfBase("orphan", b)'
    BY <1>0, <2>2 DEF OfBase
  <2>5. \/ reqs'[i].status # "Pending"
        \/ job'[w].pc = "handle" /\ reqs'[i].base = job'[w].base
        \/ job'[w].pc = "settle" /\ i \in job'[w].ids
    BY <1>0, <2>1, <2>2
  <2> QED
    BY <2>3, <2>4, <2>5 DEF Asked, OfBase
<1>2. b \in live' => submittedTS'[b] = submittedTS[b] /\ b \in live
  BY DEF Orderly
<1>3. MayDelete(job[w]) /\ b \in live' => MayDelete(job[w])'
  BY <1>2 DEF MayDelete
<1>4. b \in live' /\ job[w].pc = "autoOrphan" =>
         \E i \in OfBase("orphan", b)' : i \in job[w].ids /\ Late(i, b)'
  BY <1>0, <1>2 DEF Warranted, OfBase, Late
<1>5. job[w].pc = "decide" => \E i \in OfBase(job[w].type, b)' :
         job[w].ids = {i} /\ reqs'[i].ts = job[w].at /\ job[w].at > IdleTime
  BY <1>0 DEF Warranted, OfBase
<1> QED
  BY <1>1, <1>2, <1>3, <1>4, <1>5 DEF Warranted, OfBase, Late

-----------------------------------------------------------------------------
(* The tables.                                                              *)

LEMMA DatedStep ==
    ASSUME TypeInv, WarrantInv, [Next]_vars
    PROVE  Dated'
<1> USE DEF columns
<1>0. /\ now \in Nat /\ oodTS \in [Bases -> Nat] /\ submittedTS \in [Bases -> Nat]
      /\ Dated /\ IdleTime \in Nat
  BY IdleTimeAssumption DEF WarrantInv, TypeInv, TypeOK
<1>1. CASE UNCHANGED <<oodTS, submittedTS, now>>
  BY <1>0, <1>1 DEF Dated
<1>2. ASSUME NEW w \in Workers, NEW u \in Users, NEW b \in Bases, Serve(w, u, b)
      PROVE  Dated'
  BY <1>1, <1>2
  DEF Serve, AdoptPost, ApiAdoptPost, DisownPost, ApiDisownPost, ComaintPost,
      RequestPost, DeletePost, FlagPost, UnflagPost, NotifyPost, UnnotifyPost
<1>3. ASSUME NEW w \in Workers, NEW u \in Users, NEW i \in DOMAIN reqs,
             ClosePost(w, u, i)
      PROVE  Dated'
  BY <1>1, <1>3 DEF ClosePost
<1>4. ASSUME NEW w \in Workers, Step(w) \/ Crash(w)
      PROVE  Dated'
  <2>0. job[w] \in Job /\ Warranted(job[w])
    BY DEF WarrantInv, TypeInv, TypeOK
  <2>1. CASE Delete(w)
    <3>1. /\ now' = now
          /\ oodTS' = [oodTS EXCEPT ![job[w].base] = 0]
          /\ submittedTS' = [submittedTS EXCEPT ![job[w].base] = 0]
      BY <2>1 DEF Delete
    <3> QED
      BY <1>0, <3>1 DEF Dated
  <2>2. CASE Flag(w)
    <3>1. /\ UNCHANGED <<now, submittedTS>>
          /\ oodTS' = [oodTS EXCEPT ![job[w].base] = job[w].at]
          /\ job[w].at > IdleTime
      BY <2>0, <2>2 DEF Flag, At, Warranted
    <3> QED
      BY <1>0, <3>1 DEF Dated
  <2>3. CASE Unflag(w)
    <3>1. /\ UNCHANGED <<now, submittedTS>>
          /\ oodTS' \in {oodTS, [oodTS EXCEPT ![job[w].base] = 0]}
      BY <2>3 DEF Unflag
    <3> QED
      BY <1>0, <3>1 DEF Dated
  <2> QED
    BY <1>1, <1>4, <2>1, <2>2, <2>3
    DEF Step, Crash, Vanished, Adopt, ApiAdopt, Remove, Rotate, AddNext,
        AddComaintainer, DisownNote, DisownInstance, Promote, Orphan, ApiClose,
        ApiPromote, File, Decide, AutoOrphan, Close, Verify, Handle, Create,
        Settle, DeleteNote, Notify, Unnotify
<1>5. CASE Tick
  <2>1. now' = now + 1 /\ UNCHANGED <<oodTS, submittedTS>>
    BY <1>5 DEF Tick
  <2> QED
    BY <1>0, <2>1 DEF Dated
<1>6. CASE UNCHANGED vars
  BY <1>1, <1>6 DEF vars
<1> QED
  BY <1>2, <1>3, <1>4, <1>5, <1>6 DEF Next, Quiet

(* The row that File or Create adds.                                        *)
LEMMA NewRow ==
    ASSUME TypeInv, NEW w \in Workers, File(w) \/ Create(w)
    PROVE  \E r \in Request :
              /\ reqs' = Append(reqs, r)
              /\ r.name = job[w].base /\ r.type = job[w].type
              /\ r.base = job[w].base /\ r.status = "Pending"
              /\ r.ts = IF job[w].pc = "file" THEN job[w].at ELSE 0
<1>1. CASE File(w)
  <2> DEFINE r == NewRequest(job[w].type, job[w].base, job[w].into,
                             job[w].user, job[w].at)
  <2>1. /\ r \in Request /\ r.name = job[w].base /\ r.type = job[w].type
        /\ r.base = job[w].base /\ r.status = "Pending" /\ r.ts = job[w].at
    BY <1>1, NewRequestType
    DEF File, At, Job, JobFits, TypedSteps, TypeInv, TypeOK, NewRequest
  <2> QED
    BY <1>1, <2>1 DEF File, At
<1>2. CASE Create(w)
  <2> DEFINE r == NewRequest(job[w].type, job[w].base, NULL, job[w].user, 0)
  <2>1. /\ r \in Request /\ r.name = job[w].base /\ r.type = job[w].type
        /\ r.base = job[w].base /\ r.status = "Pending" /\ r.ts = 0
    BY <1>2, NewRequestType
    DEF Create, At, Job, JobFits, TypedSteps, TypeInv, TypeOK, NewRequest
  <2> QED
    BY <1>2, <2>1 DEF Create, At
<1> QED
  BY <1>1, <1>2

LEMMA CompanionsStep ==
    ASSUME TypeInv, TypeInv', WarrantInv, [Next]_vars
    PROVE  Companions'
<1>0. Orderly
  BY OrderlyStep
<1>1. ASSUME NEW b \in live', NEW k \in Decided("orphan", b), Due(k)
      PROVE  k \in Decided("orphan", b)' /\ Due(k)'
  BY <1>0, <1>1, DueStays DEF Decided, Orderly, Kept
<1>2. ASSUME NEW i \in DOMAIN reqs, NEW b \in live', reqs'[i].name = b,
             reqs'[i].type = "orphan", reqs'[i].ts = 0
      PROVE  \E k \in Decided("orphan", b)' : Due(k)'
  <2>1. /\ reqs[i].type = "orphan" /\ reqs[i].ts = 0 /\ reqs[i].name = b
        /\ b \in live
    BY <1>0, <1>2 DEF Orderly, Kept
  <2>2. PICK k \in Decided("orphan", b) : Due(k)
    BY <2>1 DEF WarrantInv, Companions
  <2> QED
    BY <1>1, <2>2
<1>3. ASSUME NEW i \in DOMAIN reqs' \ DOMAIN reqs, NEW b \in live',
             reqs'[i].name = b, reqs'[i].type = "orphan", reqs'[i].ts = 0
      PROVE  \E k \in Decided("orphan", b)' : Due(k)'
  <2>1. PICK w \in Workers : File(w) \/ Create(w)
    <3>1. DOMAIN reqs' # DOMAIN reqs
      BY <1>3
    <3> QED
      BY <3>1, OnlyInserts
  <2>2. PICK r \in Request :
           /\ reqs' = Append(reqs, r)
           /\ r.name = job[w].base /\ r.type = job[w].type
           /\ r.ts = IF job[w].pc = "file" THEN job[w].at ELSE 0
    BY <2>1, NewRow
  <2>3. reqs'[i] = r
    BY <1>3, <2>2, AppendedType
  <2>4. Warranted(job[w]) /\ job[w] \in Job /\ job[w].base \in live
    BY <2>1 DEF WarrantInv, TypeInv, TypeOK, File, Create, At
  <2>5. job[w].pc # "file"
    BY <1>3, <2>2, <2>3, <2>4, IdleTimeAssumption DEF Warranted, Job
  <2>6. job[w].pc = "create" /\ job[w].type = "orphan" /\ job[w].base = b
    BY <1>3, <2>1, <2>2, <2>3, <2>5 DEF File, Create, At
  <2>7. PICK k \in Decided("orphan", b) : Due(k)
    BY <2>4, <2>6 DEF Warranted, Handling, Asked, OfBase, Decided
  <2> QED
    BY <1>1, <2>7
<1> QED
  BY <1>2, <1>3 DEF Companions

-----------------------------------------------------------------------------
(* The jobs.                                                                *)

Bound == {"file", "flag", "deleteNote", "decide", "autoOrphan", "orphan", "delete"}
            \cup Handling

LEMMA UnboundFits ==
    ASSUME NEW w \in Workers, job'[w].pc \notin Bound
    PROVE  Warranted(job[w])'
BY DEF Bound, Handling, Warranted

LEMMA FinishWarranted ==
    ASSUME TypeInv, NEW w \in Workers, Finish(w)
    PROVE  Warranted(job[w])'
<1>1. job'[w] = Idle
  BY OneJob DEF Finish
<1> QED
  BY <1>1, UnboundFits DEF Idle, Bound, Handling

LEMMA GotoUnbound ==
    ASSUME TypeInv, NEW w \in Workers, NEW pc, Goto(w, pc), pc \notin Bound
    PROVE  Warranted(job[w])'
<1>1. job'[w].pc = pc
  BY GotoJob
<1> QED
  BY <1>1, UnboundFits

LEMMA ServeWarranted ==
    ASSUME TypeInv, WarrantInv, NEW w \in Workers, NEW u \in Users, NEW b \in Bases,
           Serve(w, u, b)
    PROVE  Warranted(job[w])'
<1>0. now > IdleTime
  BY DEF WarrantInv, Dated
<1>1. ASSUME NEW j, Receive(w, j),
             \/ j.pc \notin Bound
             \/ j.pc \in {"file", "flag"} /\ j.at = now
             \/ /\ j.pc \in {"deleteNote", "handle"} /\ j.type = "deletion"
                /\ j.user \in TrustedUsers
      PROVE  Warranted(job[w])'
  <2>1. job'[w] = j
    BY <1>1, OneJob DEF Receive
  <2>2. CASE j.pc \notin Bound
    BY <2>1, <2>2, UnboundFits
  <2>3. CASE j.pc \in {"file", "flag"} /\ j.at = now
    BY <1>0, <2>1, <2>3 DEF Warranted, Handling
  <2>4. CASE /\ j.pc \in {"deleteNote", "handle"} /\ j.type = "deletion"
             /\ j.user \in TrustedUsers
    BY <2>1, <2>4 DEF Warranted, Handling, MayDelete
  <2> QED
    BY <1>1, <2>2, <2>3, <2>4
<1>2. CASE AdoptPost(w, u, b)
  BY <1>1, <1>2 DEF AdoptPost, Call, Idle, Bound, Handling
<1>3. CASE ApiAdoptPost(w, u, b)
  BY <1>1, <1>3 DEF ApiAdoptPost, Call, Idle, Bound, Handling
<1>4. CASE DisownPost(w, u, b)
  BY <1>1, <1>4 DEF DisownPost, Call, Idle, Bound, Handling
<1>5. CASE ApiDisownPost(w, u, b)
  BY <1>1, <1>5 DEF ApiDisownPost, Call, Idle, Bound, Handling
<1>6. ASSUME NEW S \in SUBSET Users, ComaintPost(w, u, b, S)
      PROVE  Warranted(job[w])'
  BY <1>1, <1>6 DEF ComaintPost, Call, Idle, Bound, Handling
<1>7. ASSUME NEW t, NEW into, RequestPost(w, u, b, t, into)
      PROVE  Warranted(job[w])'
  BY <1>1, <1>7 DEF RequestPost, Call, Idle
<1>8. CASE DeletePost(w, u, b)
  BY <1>1, <1>8 DEF DeletePost, Call, Idle, HasCredential
<1>9. CASE FlagPost(w, u, b)
  BY <1>1, <1>9 DEF FlagPost, Call, Idle
<1>10. CASE UnflagPost(w, u, b)
  BY <1>1, <1>10 DEF UnflagPost, Call, Idle, Bound, Handling
<1>11. CASE NotifyPost(w, u, b) \/ UnnotifyPost(w, u, b)
  BY <1>1, <1>11 DEF NotifyPost, UnnotifyPost, Call, Idle, Bound, Handling
<1> QED
  BY <1>2, <1>3, <1>4, <1>5, <1>6, <1>7, <1>8, <1>9, <1>10, <1>11 DEF Serve

LEMMA ClosePostWarranted ==
    ASSUME TypeInv, NEW w \in Workers, NEW u \in Users, NEW i \in DOMAIN reqs,
           ClosePost(w, u, i)
    PROVE  Warranted(job[w])'
<1>1. PICK c \in BOOLEAN :
         Receive(w, [Call("close", "close", u, NULL) EXCEPT
                        !.comment = c, !.ids = {i}, !.blank = Blank(reqs, {i}),
                        !.seen = reqs[i].status])
  BY DEF ClosePost
<1> DEFINE j == [Call("close", "close", u, NULL) EXCEPT
                    !.comment = c, !.ids = {i}, !.blank = Blank(reqs, {i}),
                    !.seen = reqs[i].status]
<1>2. j.pc \notin Bound
  BY DEF Call, Idle, Bound, Handling
<1>3. job' = [job EXCEPT ![w] = j]
  BY <1>1 DEF Receive
<1> HIDE DEF j
<1> QED
  BY <1>2, <1>3, OneJob, UnboundFits

(* A request is filed, and looked at.                                       *)
LEMMA FileWarranted ==
    ASSUME TypeInv, WarrantInv, NEW w \in Workers, File(w)
    PROVE  Warranted(job[w])'
<1> DEFINE id == Len(reqs) + 1
<1>1. job[w] \in Job /\ Warranted(job[w]) /\ job[w].pc = "file"
  BY DEF File, At, WarrantInv, TypeInv, TypeOK
<1>2. /\ job'[w].pc = "decide" /\ job'[w].ids = {id} /\ job'[w].at = job[w].at
      /\ job'[w].type = job[w].type /\ job'[w].base = job[w].base
  BY <1>1 DEF File, Job, TypeInv, TypeOK
<1>3. PICK r \in Request :
         /\ reqs' = Append(reqs, r) /\ r.name = job[w].base
         /\ r.type = job[w].type /\ r.ts = job[w].at
  BY <1>1, NewRow
<1>4. id \in DOMAIN reqs' /\ reqs'[id] = r
  BY <1>3, AppendedType
<1>5. job[w].at > IdleTime
  BY <1>1 DEF Warranted
<1> HIDE DEF id
<1> QED
  BY <1>2, <1>3, <1>4, <1>5 DEF Warranted, Handling, OfBase

LEMMA DecideWarranted ==
    ASSUME TypeInv, WarrantInv, NEW w \in Workers, Decide(w)
    PROVE  Warranted(job[w])'
<1> DEFINE j == job[w]
           b == job[w].base
<1>1. /\ j \in Job /\ Warranted(j) /\ j.pc = "decide" /\ b \in live /\ b \in Bases
      /\ UNCHANGED <<live, reqs, submittedTS>>
  BY DEF Decide, At, columns, WarrantInv, TypeInv, TypeOK
<1>2. PICK i \in OfBase(j.type, b) :
         j.ids = {i} /\ reqs[i].ts = j.at /\ j.at > IdleTime
  BY <1>1 DEF Warranted
<1>3. CASE Finish(w)
  BY <1>3, FinishWarranted
<1>4. CASE /\ j.type = "orphan" /\ oodTS[b] # 0 /\ j.at - oodTS[b] >= AutoOrphanAge
           /\ job' = [job EXCEPT ![w].pc = "autoOrphan", ![w].seen = maintainer[b]]
  <2>1. job'[w].pc = "autoOrphan" /\ job'[w].base = b /\ job'[w].ids = j.ids
    BY <1>1, <1>4 DEF Job, TypeInv, TypeOK
  <2>2. /\ submittedTS[b] <= IdleTime + 1 /\ oodTS[b] > IdleTime
        /\ submittedTS[b] \in Nat /\ oodTS[b] \in Nat /\ j.at \in Nat
    BY <1>1, <1>4 DEF WarrantInv, Dated, TypeInv, TypeOK, Job
  <2>3. Late(i, b)
    BY <1>2, <1>4, <2>2, IdleTimeAssumption, AgesAssumption DEF Late
  <2>4. i \in OfBase("orphan", b)' /\ Late(i, b)'
    BY <1>1, <1>4, <2>1, <2>3 DEF Late, OfBase
  <2> QED
    BY <1>2, <2>1, <2>4 DEF Warranted, Handling, OfBase, Late
<1>5. CASE /\ j.type = "deletion" /\ j.at - submittedTS[b] <= AutoDeleteAge
           /\ Goto(w, "handle")
  <2>1. /\ job'[w].pc = "handle" /\ job'[w].base = b /\ job'[w].type = j.type
        /\ job'[w].at = j.at
    BY <1>1, <1>5 DEF Goto, Job, TypeInv, TypeOK
  <2> QED
    BY <1>1, <1>5, <2>1 DEF Warranted, Handling, MayDelete
<1> QED
  BY <1>3, <1>4, <1>5 DEF Decide

(* A request that is due is still there, or decided, when it is handled.    *)
LEMMA VerifyWarranted ==
    ASSUME TypeInv, TraceInv, WarrantInv, NEW w \in Workers, Verify(w)
    PROVE  Warranted(job[w])'
<1> DEFINE b == job[w].base
<1>1. /\ job[w].pc = "verify" /\ b \in live /\ UNCHANGED <<live, reqs, now>>
      /\ Tracked(job[w])
  BY DEF Verify, At, TraceInv
<1>2. CASE Finish(w)
  BY <1>2, FinishWarranted
<1>3. CASE VerifyOrphanRequest(reqs, b, now) /\ Goto(w, "handle")
  <2>1. /\ job'[w].pc = "handle" /\ job'[w].base = b /\ job'[w].type = "orphan"
    BY <1>1, <1>3, GotoJob DEF Tracked
  <2>2. PICK i \in PendingIds(reqs, "orphan", b) : now - reqs[i].ts > IdleTime
    BY <1>3 DEF VerifyOrphanRequest
  <2>3. i \in OfBase("orphan", b) /\ reqs[i].base = b
    <3>1. i \in DOMAIN reqs /\ reqs[i].type = "orphan" /\ reqs[i].base = b
      BY <2>2 DEF PendingIds
    <3>2. b # NULL
      BY <1>1, NULLAssumption DEF TypeInv, TypeOK
    <3> QED
      BY <3>1, <3>2 DEF TraceInv, Named, OfBase
  <2>4. CASE reqs[i].ts # 0
    <3>1. Due(i)'
      BY <1>1, <2>2, <2>4 DEF Due
    <3>2. Asked(job[w])'
      BY <1>1, <2>1, <2>3, <3>1 DEF Asked, OfBase, Due
    <3> QED
      BY <2>1, <3>2 DEF Warranted, Handling
  <2>5. CASE reqs[i].ts = 0
    <3>1. PICK k \in Decided("orphan", b) : Due(k)
      BY <1>1, <2>3, <2>5 DEF WarrantInv, Companions, OfBase
    <3>2. Asked(job[w])'
      BY <1>1, <2>1, <3>1 DEF Asked, OfBase, Due, Decided
    <3> QED
      BY <2>1, <3>2 DEF Warranted, Handling
  <2> QED
    BY <2>4, <2>5
<1> QED
  BY <1>2, <1>3 DEF Verify

LEMMA HandleWarranted ==
    ASSUME TypeInv, TraceInv, WarrantInv, NEW w \in Workers, Handle(w)
    PROVE  Warranted(job[w])'
<1> DEFINE old == job[w]
           ids == ToAccept(reqs, old.type, old.base, NULL)
           blank == Blank(reqs, ids)
           pc == IF ids = {} THEN "create" ELSE "settle"
           found == ids # {}
           j == [old EXCEPT !.pc = pc, !.found = found, !.ids = ids, !.blank = blank]
<1>1. /\ old \in Job /\ Warranted(old) /\ Tracked(old) /\ old.pc = "handle"
      /\ old.base \in live /\ UNCHANGED <<live, reqs, now, submittedTS>>
  BY DEF Handle, At, columns, WarrantInv, TraceInv, TypeInv, TypeOK
<1>2. job' = [job EXCEPT ![w] = j]
  BY DEF Handle, TypeInv, TypeOK
<1>3. /\ j.pc = pc /\ j.type = old.type /\ j.base = old.base /\ j.ids = ids
      /\ j.user = old.user /\ j.at = old.at
  <2> HIDE DEF pc, found, ids, blank
  <2> QED
    BY <1>1 DEF Job
<1> HIDE DEF j
<1>4. /\ job'[w].pc = pc /\ job'[w].type = old.type /\ job'[w].base = old.base
      /\ job'[w].ids = ids /\ job'[w].user = old.user /\ job'[w].at = old.at
  BY <1>2, <1>3, OneJob
<1>5. CASE old.type = "deletion"
  <2>1. MayDelete(old)
    BY <1>1, <1>5 DEF Warranted, Handling
  <2> HIDE DEF ids
  <2> QED
    BY <1>1, <1>4, <1>5, <2>1 DEF Warranted, Handling, MayDelete
<1>6. CASE old.type = "orphan"
  <2>1. PICK i \in OfBase("orphan", old.base) :
           Due(i) /\ (reqs[i].status # "Pending" \/ reqs[i].base = old.base)
    BY <1>1, <1>6 DEF Warranted, Handling, Asked
  <2>2. reqs[i].status # "Pending" \/ (i \in ids /\ pc = "settle")
    BY <1>6, <2>1 DEF ToAccept, PendingIds, OfBase
  <2>3. Asked(job[w])'
    BY <1>1, <1>4, <2>1, <2>2 DEF Asked, OfBase, Due
  <2>4. pc \in {"create", "settle"}
    OBVIOUS
  <2> HIDE DEF pc
  <2> QED
    BY <1>4, <1>6, <2>3, <2>4 DEF Warranted, Handling
<1> QED
  BY <1>1, <1>5, <1>6 DEF Tracked

LEMMA CreateWarranted ==
    ASSUME TypeInv, TypeInv', TraceInv, WarrantInv, NEW w \in Workers, Create(w),
           Orderly
    PROVE  Warranted(job[w])'
<1> DEFINE old == job[w]
<1>1. /\ old \in Job /\ Warranted(old) /\ Tracked(old) /\ old.pc = "create"
      /\ old.base \in live /\ UNCHANGED <<live, submittedTS>>
  BY DEF Create, At, columns, WarrantInv, TraceInv, TypeInv, TypeOK
<1>2. /\ job'[w].pc = "settle" /\ job'[w].type = old.type /\ job'[w].base = old.base
      /\ job'[w].user = old.user /\ job'[w].at = old.at
  BY <1>1 DEF Create, Job, TypeInv, TypeOK
<1>3. CASE old.type = "deletion"
  <2>1. MayDelete(old)
    BY <1>1, <1>3 DEF Warranted, Handling
  <2> QED
    BY <1>1, <1>2, <1>3, <2>1 DEF Warranted, Handling, MayDelete
<1>4. CASE old.type = "orphan"
  <2>1. PICK i \in OfBase("orphan", old.base) : Due(i) /\ reqs[i].status # "Pending"
    BY <1>1, <1>4 DEF Warranted, Handling, Asked
  <2>2. /\ i \in DOMAIN reqs' /\ reqs'[i].status # "Pending"
        /\ reqs'[i].name = old.base /\ reqs'[i].type = "orphan"
    BY <2>1 DEF OfBase, Orderly, Kept
  <2>3. Due(i)'
    BY <2>1, DueStays DEF OfBase
  <2>4. Asked(job[w])'
    BY <1>2, <2>2, <2>3 DEF Asked, OfBase, Due
  <2> QED
    BY <1>2, <1>4, <2>4 DEF Warranted, Handling
<1> QED
  BY <1>1, <1>3, <1>4 DEF Tracked

LEMMA SettleWarranted ==
    ASSUME TypeInv, TypeInv', TraceInv, WarrantInv, NEW w \in Workers, Settle(w),
           Orderly
    PROVE  Warranted(job[w])'
<1> DEFINE old == job[w]
<1>1. /\ old \in Job /\ Warranted(old) /\ Tracked(old) /\ old.pc = "settle"
      /\ UNCHANGED <<live, submittedTS>>
      /\ reqs' = ClosePkgreq(reqs, old.ids, old.blank, "Accepted")
  BY DEF Settle, columns, WarrantInv, TraceInv, TypeInv, TypeOK
<1>2. CASE old.type = "orphan"
  <2>1. job'[w].pc = "orphan" /\ job'[w].base = old.base
    BY <1>2, GotoJob DEF Settle
  <2>2. ASSUME old.base \in live PROVE Asked(job[w])'
    <3>1. PICK i \in OfBase("orphan", old.base) :
             Due(i) /\ (reqs[i].status # "Pending" \/ i \in old.ids)
      BY <1>1, <1>2, <2>2 DEF Warranted, Handling, Asked
    <3>2. i \in DOMAIN reqs /\ reqs[i] \in Request
      BY <3>1, RowsAre DEF OfBase
    <3>3. /\ i \in DOMAIN reqs' /\ reqs'[i].status # "Pending"
          /\ reqs'[i].name = old.base /\ reqs'[i].type = "orphan"
      BY <1>1, <3>1, <3>2 DEF ClosePkgreq, OfBase, Request
    <3>4. Due(i)'
      BY <3>1, <3>2, DueStays
    <3> QED
      BY <2>1, <3>3, <3>4 DEF Asked, OfBase, Due
  <2> QED
    BY <1>1, <2>1, <2>2 DEF Warranted, Handling
<1>3. CASE old.type = "deletion"
  <2>1. /\ job'[w].pc = "delete" /\ job'[w].base = old.base
        /\ job'[w].user = old.user /\ job'[w].at = old.at
    BY <1>1, <1>3 DEF Settle, Goto, Job, TypeInv, TypeOK
  <2>2. old.base \in live => MayDelete(old)
    BY <1>1, <1>3 DEF Warranted, Handling
  <2> QED
    BY <1>1, <2>1, <2>2 DEF Warranted, Handling, MayDelete
<1> QED
  BY <1>1, <1>2, <1>3 DEF Tracked

LEMMA StepWarranted ==
    ASSUME TypeInv, TypeInv', TraceInv, WarrantInv, NEW w \in Workers,
           Step(w) \/ Crash(w), Orderly
    PROVE  Warranted(job[w])'
<1>0. job[w] \in Job /\ Warranted(job[w])
  BY DEF WarrantInv, TypeInv, TypeOK
<1>1. CASE Finish(w)
  BY <1>1, FinishWarranted
<1>2. CASE Remove(w) \/ Rotate(w) \/ AddComaintainer(w) \/ ApiClose(w) \/ DisownNote(w)
           \/ DisownInstance(w)
  <2>1. \/ Finish(w)
        \/ \E pc \in {"rotate", "add", "apiPromote", "disown", "verify", "promote"} :
              Goto(w, pc)
    <3>1. CASE DisownInstance(w)
      BY <3>1 DEF DisownInstance
    <3> QED
      BY <1>2, <3>1 DEF Remove, Rotate, AddComaintainer, ApiClose, DisownNote
  <2> QED
    BY <2>1, FinishWarranted, GotoUnbound DEF Bound, Handling
<1>3. CASE AddNext(w)
  <2>1. ASSUME NEW u, NEW passed,
               job' = [job EXCEPT ![w].pc = "insert", ![w].seen = u,
                          ![w].add = @ \ (passed \cup {u}),
                          ![w].at = LatestPriority(comaint[job[w].base]) + 1]
        PROVE  Warranted(job[w])'
    <3>1. job'[w].pc = "insert"
      BY <1>0, <2>1 DEF Job, TypeInv, TypeOK
    <3> QED
      BY <3>1, UnboundFits DEF Bound, Handling
  <2> QED
    BY <1>1, <1>3, <2>1 DEF AddNext
<1>4. CASE DeleteNote(w)
  <2>1. /\ job[w].pc = "deleteNote" /\ job'[w].pc = "handle"
        /\ job'[w].user = job[w].user /\ job'[w].type = job[w].type
    BY <1>0, <1>4 DEF DeleteNote, At, Goto, Job, TypeInv, TypeOK
  <2>2. job[w].user \in TrustedUsers /\ job[w].type = "deletion"
    BY <1>0, <2>1 DEF Warranted, TraceInv, Tracked
  <2> QED
    BY <2>1, <2>2 DEF Warranted, Handling, MayDelete
<1> QED
  BY <1>1, <1>2, <1>3, <1>4, FileWarranted, DecideWarranted, VerifyWarranted,
     HandleWarranted, CreateWarranted, SettleWarranted
  DEF Step, Crash, Vanished, Adopt, ApiAdopt, Promote, Orphan, ApiPromote,
      AutoOrphan, Close, Delete, Flag, Unflag, Notify, Unnotify

LEMMA WarrantStep ==
    ASSUME TypeInv, TypeInv', TraceInv, WarrantInv, [Next]_vars
    PROVE  WarrantInv'
<1>1. Dated' /\ Companions' /\ Orderly
  BY DatedStep, CompanionsStep, OrderlyStep
<1>2. \A w \in Workers : job'[w] = job[w] => Warranted(job[w])'
  BY <1>1, WarrantStays DEF WarrantInv
<1>3. ASSUME NEW w \in Workers, Warranted(job[w])',
             \A v \in Workers \ {w} : job'[v] = job[v]
      PROVE  WarrantInv'
  BY <1>1, <1>2, <1>3 DEF WarrantInv
<1>4. CASE Tick \/ UNCHANGED vars
  <2>1. job' = job
    BY <1>4 DEF Tick, vars
  <2> QED
    BY <1>1, <1>2, <2>1 DEF WarrantInv
<1>5. ASSUME NEW w \in Workers, NEW u \in Users, NEW b \in Bases, Serve(w, u, b)
      PROVE  WarrantInv'
  BY <1>3, <1>5, ServeWarranted, ServeTracked
<1>6. ASSUME NEW w \in Workers, NEW u \in Users, NEW i \in DOMAIN reqs,
             ClosePost(w, u, i)
      PROVE  WarrantInv'
  BY <1>3, <1>6, ClosePostWarranted, ClosePostTracked
<1>7. ASSUME NEW w \in Workers, Step(w) \/ Crash(w) PROVE WarrantInv'
  BY <1>1, <1>3, <1>7, StepWarranted, StepTracked
<1> QED
  BY <1>4, <1>5, <1>6, <1>7 DEF Next, Quiet

LEMMA WarrantInit == Init => WarrantInv
<1> SUFFICES ASSUME Init PROVE WarrantInv
  OBVIOUS
<1>1. Dated /\ Companions
  BY IdleTimeAssumption DEF Init, Dated, Companions
<1>2. \A w \in Workers : Warranted(job[w])
  BY DEF Init, Idle, Warranted, Handling
<1> QED
  BY <1>1, <1>2 DEF WarrantInv

(* Who may write, and for what, in one step.                                *)
LEMMA OrphaningStep ==
    ASSUME TypeInv, WarrantInv, [Next]_vars, NEW b \in live',
           maintainer[b] # NULL, maintainer'[b] = NULL
    PROVE  \/ \E w \in Workers : /\ job[w].base = b /\ job'[w] # job[w]
                                 /\ job[w].pc \in {"promote", "apiPromote"}
           \/ \E i \in Decided("orphan", b)' : Justifies(i, b)
<1>0. PICK w \in Workers : Step(w)
  <2>1. maintainer' # maintainer
    OBVIOUS
  <2>2. ASSUME NEW w \in Workers, NEW u \in Users, NEW c \in Bases, Serve(w, u, c)
        PROVE  maintainer' = maintainer
    BY <2>2 DEF Serve, AdoptPost, ApiAdoptPost, DisownPost, ApiDisownPost,
        ComaintPost, RequestPost, DeletePost, FlagPost, UnflagPost, NotifyPost,
        UnnotifyPost
  <2> QED
    BY <2>1, <2>2 DEF Next, Quiet, ClosePost, Crash, Tick, vars
<1>1. /\ job[w] \in Job /\ JobFits(job[w]) /\ Warranted(job[w])
      /\ maintainer \in [Bases -> Users \cup {NULL}] /\ NULL \notin Users
      /\ b \in Bases
  BY NULLAssumption, OrderlyStep DEF Orderly, WarrantInv, TypeInv, TypeOK
<1>2. CASE Adopt(w) \/ ApiAdopt(w)
  <2>1. /\ maintainer' \in {maintainer, [maintainer EXCEPT ![job[w].base] = job[w].user]}
        /\ job[w].user \in Users
    BY <1>1, <1>2 DEF Adopt, ApiAdopt, At, JobFits
  <2> QED
    BY <1>1, <2>1
<1>3. CASE Promote(w) \/ ApiPromote(w)
  <2>1. /\ job[w].pc \in {"promote", "apiPromote"} /\ job'[w] = Idle
    BY <1>3 DEF Promote, ApiPromote, At, Finish, TypeInv, TypeOK
  <2>2. \A c : c # job[w].base => maintainer'[c] = maintainer[c] \/ c \notin Bases
    BY <1>1, <1>3 DEF Promote, ApiPromote
  <2>3. job[w].base = b
    BY <1>1, <2>2
  <2> QED
    BY <2>1, <2>3 DEF Idle
<1>4. CASE Orphan(w)
  <2>1. job[w].pc = "orphan" /\ job[w].base \in live /\ reqs' = reqs
    BY <1>4 DEF Orphan, At
  <2>2. job[w].base = b
    BY <1>1, <1>4 DEF Orphan
  <2>3. PICK i \in OfBase("orphan", b) : Due(i) /\ reqs[i].status # "Pending"
    BY <1>1, <2>1, <2>2 DEF Warranted, Asked
  <2>4. i \in Decided("orphan", b)' /\ Justifies(i, b)
    BY <2>1, <2>3 DEF Decided, OfBase, Due, Justifies
  <2> QED
    BY <2>4
<1>5. CASE AutoOrphan(w)
  <2>1. job[w].pc = "autoOrphan" /\ live' = live
    BY <1>5 DEF AutoOrphan
  <2>2. job[w].base = b
    BY <1>1, <1>5 DEF AutoOrphan
  <2>3. PICK i \in OfBase("orphan", b) : i \in job[w].ids /\ Late(i, b)
    BY <1>1, <2>1, <2>2 DEF Warranted
  <2>4. i \in DOMAIN reqs /\ reqs[i] \in Request
    BY <2>3, RowsAre DEF OfBase
  <2>5. i \in Decided("orphan", b)'
    BY <1>5, <2>3, <2>4 DEF AutoOrphan, Decided, OfBase, Request
  <2>6. Justifies(i, b)
    BY <2>3 DEF Late, Justifies
  <2> QED
    BY <2>5, <2>6
<1>6. CASE Delete(w)
  <2>1. live' = live \ {job[w].base} /\ maintainer' = [maintainer EXCEPT ![job[w].base] = NULL]
    BY <1>6 DEF Delete
  <2> QED
    BY <1>1, <2>1
<1>7. CASE maintainer' = maintainer
  BY <1>7
<1> QED
  BY <1>0, <1>2, <1>3, <1>4, <1>5, <1>6, <1>7
  DEF Step, Vanished, Remove, Rotate, AddNext, AddComaintainer, DisownNote,
      DisownInstance, ApiClose, File, Decide, Close, Verify, Handle, Create,
      Settle, DeleteNote, Flag, Unflag, Notify, Unnotify

LEMMA DeletionStep ==
    ASSUME TypeInv, WarrantInv, [Next]_vars, NEW b \in live \ live'
    PROVE  \E w \in Workers :
              /\ job[w].base = b /\ job'[w] # job[w]
              /\ \/ job[w].user \in TrustedUsers
                 \/ job[w].at - submittedTS[b] <= AutoDeleteAge
<1>1. PICK w \in Workers : Delete(w)
  <2>1. live' # live
    OBVIOUS
  <2> QED
    BY <2>1, OnlyDelete
<1>2. /\ job[w].base = b /\ job[w].pc = "delete" /\ job'[w] = Idle /\ b \in live
  BY <1>1 DEF Delete, At, Finish, TypeInv, TypeOK
<1>3. MayDelete(job[w])
  BY <1>2 DEF WarrantInv, Warranted
<1> QED
  BY <1>2, <1>3 DEF MayDelete, Idle

LEMMA WarrantAlways == Spec => [](TypeInv /\ TraceInv /\ WarrantInv)
<1>1. TypeInv /\ TraceInv /\ WarrantInv /\ [Next]_vars
         => TypeInv' /\ TraceInv' /\ WarrantInv'
  BY NextType, TraceStep, WarrantStep
<1>2. Init => TypeInv /\ TraceInv /\ WarrantInv
  BY InitType, TraceInit, WarrantInit
<1> QED
  BY <1>1, <1>2, PTL DEF Spec

(* A package base that still exists becomes an orphan only through its own  *)
(* maintainer, or with a decided orphan request that justifies it, however  *)
(* many workers decide, file and flag meanwhile.                            *)
THEOREM OrphansAreJustified == Spec => OrphaningJustified
<1>1. TypeInv /\ WarrantInv /\ [Next]_vars =>
         \A b \in live' :
            maintainer[b] # NULL /\ maintainer'[b] = NULL
               => \/ \E w \in Workers : /\ job[w].base = b /\ job'[w] # job[w]
                                        /\ job[w].pc \in {"promote", "apiPromote"}
                  \/ \E i \in Decided("orphan", b)' : Justifies(i, b)
  BY OrphaningStep
<1> QED
  BY <1>1, WarrantAlways, PTL DEF Spec, OrphaningJustified

(* Somebody without privileges deletes only what was new when they asked.   *)
THEOREM OwnersDeleteOnlyTheNew == Spec => OwnersDeleteTheNew
<1>1. TypeInv /\ WarrantInv /\ [Next]_vars =>
         \A b \in live \ live' :
            \E w \in Workers :
               /\ job[w].base = b /\ job'[w] # job[w]
               /\ \/ job[w].user \in TrustedUsers
                  \/ job[w].at - submittedTS[b] <= AutoDeleteAge
  BY DeletionStep
<1> QED
  BY <1>1, WarrantAlways, PTL DEF Spec, OwnersDeleteTheNew

-----------------------------------------------------------------------------
(* What holds as long as no two workers handle calls about one package base *)
(* at the same time: what a handler has read is still so when it writes,    *)
(* however many workers close requests and handle other package bases.      *)

Apart == \A v, w \in Workers :
             v # w /\ job[v].base \in Bases => job[v].base # job[w].base

RankedRows(rows) == \A r, s \in rows : r # s => r.user # s.user /\ r.prio # s.prio

Detached == \A i \in DOMAIN reqs : reqs[i].base = NULL => reqs[i].name \notin live

Editing == {"remove", "rotate", "add", "insert"}

Heedful == {"adopt", "apiAdopt", "promote", "apiClose", "apiPromote",
            "settle", "create", "delete"} \cup Editing

(* The rights the handler was let in with, the requests it will have to     *)
(* close, and the co-maintainers it still has to add.                       *)
Undisturbed(j) ==
    /\ j.pc = "adopt" => j.user \in TrustedUsers \/ maintainer[j.base] = NULL
    /\ j.pc = "apiAdopt" => maintainer[j.base] = NULL
    /\ j.pc \in {"promote", "apiClose", "apiPromote"} => maintainer[j.base] = j.user
    /\ j.pc = "settle" /\ j.type = "deletion" =>
          \A i \in OfBase("deletion", j.base) : reqs[i].status = "Pending" => i \in j.ids
    /\ j.pc = "delete" \/ (j.pc = "create" /\ j.type = "deletion") =>
          \A i \in OfBase("deletion", j.base) : reqs[i].status # "Pending"
    /\ j.pc \in Heedful => j.base \in Bases
    /\ j.pc \in Editing => j.add \cap UsersOf(comaint[j.base]) = {}
    /\ j.pc = "insert" =>
          /\ j.seen \notin UsersOf(comaint[j.base]) \cup j.add
          /\ \A r \in comaint[j.base] : r.prio < j.at

AloneInv == /\ ComaintainersRanked
            /\ NoDeletionLeftOpen
            /\ Detached
            /\ \A w \in Workers : Undisturbed(job[w])

-----------------------------------------------------------------------------
(* Rows of co-maintainers.                                                  *)

LEMMA RankedSubset ==
    ASSUME NEW rows, RankedRows(rows), NEW some \in SUBSET rows
    PROVE  RankedRows(some) /\ UsersOf(some) \subseteq UsersOf(rows)
BY DEF RankedRows, UsersOf

LEMMA RankedRotated ==
    ASSUME NEW all \in SUBSET Row, RankedRows(all), NEW f \in Rotations(all),
           NEW rows \in SUBSET all
    PROVE  /\ RankedRows(Rotated(rows, f))
           /\ UsersOf(Rotated(rows, f)) \subseteq UsersOf(all)
<1> DEFINE to(r) == [r EXCEPT !.prio = f[r.user]]
<1>1. \A r \in rows : ~Duplicated(rows, r.user)
  BY DEF Duplicated, RankedRows
<1>2. Rotated(rows, f) = {to(r) : r \in rows}
  BY <1>1 DEF Rotated
<1>3. \A r \in rows : /\ to(r).user = r.user /\ to(r).prio = f[r.user]
                      /\ r.user \in UsersOf(all)
  BY DEF Row, UsersOf
<1>4. \A u, v \in UsersOf(all) : u # v => f[u] # f[v]
  BY DEF Rotations
<1>5. \A r, s \in rows : r # s => r.user # s.user
  BY DEF RankedRows
<1> HIDE DEF to
<1>6. RankedRows({to(r) : r \in rows})
  BY <1>3, <1>4, <1>5 DEF RankedRows
<1>7. UsersOf({to(r) : r \in rows}) \subseteq UsersOf(all)
  BY <1>3 DEF UsersOf
<1> QED
  BY <1>2, <1>6, <1>7

LEMMA RankedInsert ==
    ASSUME NEW rows \in SUBSET Row, RankedRows(rows), NEW new \in Row,
           new.user \notin UsersOf(rows), \A r \in rows : r.prio < new.prio
    PROVE  RankedRows(rows \cup {new})
<1>1. \A r \in rows : r.user # new.user /\ r.prio # new.prio
  BY DEF UsersOf, Row
<1> QED
  BY <1>1 DEF RankedRows

LEMMA LatestIsLatest ==
    ASSUME NEW rows \in SUBSET Row, Bounded(rows)
    PROVE  \A r \in rows : r.prio < LatestPriority(rows) + 1
<1> DEFINE P == {r.prio : r \in rows}
<1>1. CASE rows = {}
  BY <1>1
<1>2. CASE rows # {}
  <2>1. P \in SUBSET Nat /\ P # {}
    BY <1>2 DEF Row
  <2>2. PICK n \in Nat : \A p \in P : p <= n
    BY DEF Bounded
  <2>3. \E p \in P : \A q \in P : q <= p
    BY <2>1, <2>2, LargestNatural
  <2>4. \E p \in P : \A r \in rows : r.prio <= p
    BY <2>3
  <2>5. LatestPriority(rows) \in P /\ \A r \in rows : r.prio <= LatestPriority(rows)
    BY <1>2, <2>4 DEF LatestPriority
  <2>6. \A r \in rows : r.prio \in Nat
    BY DEF Row
  <2> QED
    BY <2>1, <2>5, <2>6
<1> QED
  BY <1>1, <1>2

-----------------------------------------------------------------------------
(* The tables.                                                              *)

LEMMA DetachedStep ==
    ASSUME TypeInv, TraceInv, AloneInv, [Next]_vars
    PROVE  Detached'
<1>0. Orderly
  BY OrderlyStep
<1>1. ASSUME NEW i \in DOMAIN reqs, reqs'[i].base = NULL
      PROVE  reqs'[i].name \notin live'
  <2>1. reqs'[i].name = reqs[i].name /\ live' \subseteq live
    BY <1>0 DEF Orderly, Kept
  <2>2. CASE reqs[i].base = NULL
    BY <2>1, <2>2 DEF AloneInv, Detached
  <2>3. CASE reqs[i].base # NULL
    <3>1. reqs[i].base \notin live'
      BY <1>0, <1>1, <2>3 DEF Orderly, Kept
    <3> QED
      BY <2>1, <2>3, <3>1 DEF TraceInv, Named
  <2> QED
    BY <2>2, <2>3
<1>2. ASSUME NEW i \in DOMAIN reqs' \ DOMAIN reqs
      PROVE  reqs'[i].base # NULL
  <2>1. PICK w \in Workers : File(w) \/ Create(w)
    <3>1. DOMAIN reqs' # DOMAIN reqs
      BY <1>2
    <3> QED
      BY <3>1, OnlyInserts
  <2>2. PICK r \in Request : reqs' = Append(reqs, r) /\ r.base = job[w].base
    BY <2>1, NewRow
  <2>3. job[w].base # NULL
    BY <2>1, NULLAssumption DEF File, Create, At, TypeInv, TypeOK
  <2> QED
    BY <1>2, <2>2, <2>3, AppendedType
<1> QED
  BY <1>1, <1>2 DEF Detached

LEMMA LeftOpenStep ==
    ASSUME TypeInv, AloneInv, [Next]_vars
    PROVE  NoDeletionLeftOpen'
<1>0. Orderly
  BY OrderlyStep
<1>1. ASSUME NEW i \in DOMAIN reqs, reqs'[i].type = "deletion",
             reqs'[i].name \notin live'
      PROVE  reqs'[i].status # "Pending"
  <2>1. /\ reqs'[i].name = reqs[i].name /\ reqs[i].type = "deletion"
        /\ reqs[i].status # "Pending" => reqs'[i].status # "Pending"
    BY <1>0, <1>1 DEF Orderly, Kept
  <2>2. CASE reqs[i].name \notin live
    BY <2>1, <2>2 DEF AloneInv, NoDeletionLeftOpen
  <2>3. CASE reqs[i].name \in live
    <3>1. PICK w \in Workers : Delete(w)
      <4>1. live' # live
        BY <1>1, <2>1, <2>3
      <4> QED
        BY <4>1, OnlyDelete
    <3>2. job[w].pc = "delete" /\ reqs[i].name = job[w].base
      BY <1>1, <2>1, <2>3, <3>1 DEF Delete, At
    <3> QED
      BY <2>1, <3>2 DEF AloneInv, Undisturbed, OfBase
  <2> QED
    BY <2>2, <2>3
<1>2. ASSUME NEW i \in DOMAIN reqs' \ DOMAIN reqs
      PROVE  reqs'[i].name \in live'
  <2>1. PICK w \in Workers : File(w) \/ Create(w)
    <3>1. DOMAIN reqs' # DOMAIN reqs
      BY <1>2
    <3> QED
      BY <3>1, OnlyInserts
  <2>2. PICK r \in Request : reqs' = Append(reqs, r) /\ r.name = job[w].base
    BY <2>1, NewRow
  <2>3. job[w].base \in live'
    BY <2>1 DEF File, Create, At
  <2> QED
    BY <1>2, <2>2, <2>3, AppendedType
<1> QED
  BY <1>1, <1>2 DEF NoDeletionLeftOpen

LEMMA RankedStep ==
    ASSUME TypeInv, AloneInv, [Next]_vars
    PROVE  ComaintainersRanked'
<1>0. /\ comaint \in [Bases -> SUBSET Row]
      /\ \A b \in Bases : RankedRows(comaint[b])
  BY DEF AloneInv, ComaintainersRanked, RankedRows, TypeInv, TypeOK
<1>1. CASE comaint' = comaint
  BY <1>1 DEF AloneInv, ComaintainersRanked
<1>2. ASSUME NEW b \in Bases, NEW rows, RankedRows(rows),
             comaint' = [comaint EXCEPT ![b] = rows]
      PROVE  ComaintainersRanked'
  <2>1. \A c \in Bases : RankedRows(comaint'[c])
    BY <1>0, <1>2
  <2> QED
    BY <2>1 DEF ComaintainersRanked, RankedRows
<1>3. ASSUME NEW w \in Workers, Step(w) PROVE ComaintainersRanked'
  <2> DEFINE b == job[w].base
             rows == comaint[b]
  <2>0. b \in live => b \in Bases /\ rows \in SUBSET Row /\ RankedRows(rows)
    BY <1>0 DEF TypeInv, TypeOK
  <2>1. CASE Remove(w)
    <3>1. b \in Bases /\ RankedRows(Without(rows, job[w].drop))
      BY <2>0, <2>1, RankedSubset DEF Remove, At, Without
    <3> QED
      BY <1>2, <2>1, <3>1 DEF Remove
  <2>2. CASE Rotate(w)
    <3>1. \A f \in Rotations(rows) : b \in Bases /\ RankedRows(Rotated(rows, f))
      BY <2>0, <2>2, RankedRotated DEF Rotate, At
    <3> QED
      BY <1>1, <1>2, <2>2, <3>1 DEF Rotate
  <2>3. CASE AddComaintainer(w)
    <3> DEFINE new == [user |-> job[w].seen, prio |-> job[w].at, row |-> w]
    <3>1. job[w].pc = "insert" /\ b \in live /\ job[w] \in Job /\ job[w].seen \in Users
      BY <2>3 DEF AddComaintainer, At, TypeInv, TypeOK, JobFits
    <3>2. new \in Row
      BY <3>1 DEF Row, Job
    <3>3. new.user \notin UsersOf(rows) /\ \A r \in rows : r.prio < new.prio
      BY <3>1 DEF AloneInv, Undisturbed
    <3> HIDE DEF new
    <3>4. RankedRows(rows \cup {new})
      BY <2>0, <3>1, <3>2, <3>3, RankedInsert
    <3> QED
      BY <1>2, <2>0, <2>3, <3>1, <3>4 DEF AddComaintainer, new
  <2>4. CASE Promote(w)
    <3>1. ASSUME NEW r \in rows, NEW f \in Rotations(rows), b \in live
          PROVE  RankedRows(Rotated(Without(rows, {r.user}), f))
      <4>1. Without(rows, {r.user}) \in SUBSET rows
        BY DEF Without
      <4> QED
        BY <2>0, <3>1, <4>1, RankedRotated
    <3> QED
      BY <1>1, <1>2, <2>0, <2>4, <3>1 DEF Promote, At
  <2>5. CASE ApiPromote(w)
    <3>1. \A u : b \in live => RankedRows(Without(rows, {u}))
      BY <2>0, RankedSubset DEF Without
    <3> QED
      BY <1>1, <1>2, <2>0, <2>5, <3>1 DEF ApiPromote, At
  <2>6. CASE Delete(w)
    <3>1. RankedRows({})
      BY DEF RankedRows
    <3> QED
      BY <1>2, <2>0, <2>6, <3>1 DEF Delete, At
  <2> QED
    BY <1>1, <1>3, <2>1, <2>2, <2>3, <2>4, <2>5, <2>6
    DEF Step, Vanished, Adopt, ApiAdopt, AddNext, DisownNote, DisownInstance,
        Orphan, ApiClose, File, Decide, AutoOrphan, Close, Verify, Handle,
        Create, Settle, DeleteNote, Flag, Unflag, Notify, Unnotify
<1>4. ASSUME NEW w \in Workers, NEW u \in Users, NEW b \in Bases, Serve(w, u, b)
      PROVE  comaint' = comaint
  BY <1>4 DEF Serve, AdoptPost, ApiAdoptPost, DisownPost, ApiDisownPost,
      ComaintPost, RequestPost, DeletePost, FlagPost, UnflagPost, NotifyPost,
      UnnotifyPost
<1> QED
  BY <1>1, <1>3, <1>4 DEF Next, Quiet, ClosePost, Crash, Tick, vars

-----------------------------------------------------------------------------
(* The job of the worker that takes a step.                                 *)

LEMMA HeedlessFits ==
    ASSUME NEW w \in Workers, job'[w].pc \notin Heedful
    PROVE  Undisturbed(job[w])'
BY DEF Heedful, Editing, Undisturbed

LEMMA ServeUndisturbed ==
    ASSUME TypeInv, NEW w \in Workers, NEW u \in Users, NEW b \in Bases,
           Serve(w, u, b)
    PROVE  Undisturbed(job[w])'
<1>1. ASSUME NEW j, Receive(w, j), UNCHANGED <<maintainer, comaint>>, j.base = b,
             \/ j.pc \notin Heedful
             \/ /\ j.pc = "adopt"
                /\ j.user \in TrustedUsers \/ maintainer[j.base] = NULL
             \/ j.pc = "apiAdopt" /\ maintainer[j.base] = NULL
             \/ j.pc = "apiClose" /\ maintainer[j.base] = j.user
             \/ /\ j.pc = "remove" /\ j.base \in Bases
                /\ j.add \cap UsersOf(comaint[j.base]) = {}
      PROVE  Undisturbed(job[w])'
  <2>1. job'[w] = j
    BY <1>1, OneJob DEF Receive
  <2>2. CASE j.pc \notin Heedful
    BY <2>1, <2>2, HeedlessFits
  <2>3. CASE j.pc \in Heedful
    BY <1>1, <2>1, <2>3 DEF Undisturbed, Editing, UsersOf
  <2> QED
    BY <2>2, <2>3
<1> USE DEF Call, Idle
<1>2. CASE AdoptPost(w, u, b)
  BY <1>1, <1>2 DEF AdoptPost, HasCredential
<1>3. CASE ApiAdoptPost(w, u, b)
  BY <1>1, <1>3 DEF ApiAdoptPost
<1>4. CASE DisownPost(w, u, b)
  BY <1>1, <1>4 DEF DisownPost, Heedful, Editing
<1>5. CASE ApiDisownPost(w, u, b)
  BY <1>1, <1>5 DEF ApiDisownPost
<1>6. ASSUME NEW S \in SUBSET Users, ComaintPost(w, u, b, S)
      PROVE  Undisturbed(job[w])'
  BY <1>1, <1>6 DEF ComaintPost
<1>7. ASSUME NEW t, NEW into, RequestPost(w, u, b, t, into)
      PROVE  Undisturbed(job[w])'
  BY <1>1, <1>7 DEF RequestPost, Heedful, Editing
<1>8. CASE DeletePost(w, u, b)
  BY <1>1, <1>8 DEF DeletePost, Heedful, Editing
<1>9. CASE FlagPost(w, u, b) \/ UnflagPost(w, u, b)
  BY <1>1, <1>9 DEF FlagPost, UnflagPost, Heedful, Editing
<1>10. CASE NotifyPost(w, u, b) \/ UnnotifyPost(w, u, b)
  BY <1>1, <1>10 DEF NotifyPost, UnnotifyPost, Heedful, Editing
<1> QED
  BY <1>2, <1>3, <1>4, <1>5, <1>6, <1>7, <1>8, <1>9, <1>10 DEF Serve

(* Between the steps that change the list of co-maintainers.                *)
LEMMA EditUndisturbed ==
    ASSUME TypeInv, AloneInv, NEW w \in Workers,
           Remove(w) \/ Rotate(w) \/ AddNext(w) \/ AddComaintainer(w)
    PROVE  Undisturbed(job[w])'
<1> DEFINE old == job[w]
           b == job[w].base
           rows == comaint[b]
<1>0. /\ old \in Job /\ old.pc \in Editing /\ b \in Bases
      /\ old.add \cap UsersOf(rows) = {} /\ old.add \subseteq Users
      /\ rows \in SUBSET Row /\ RankedRows(rows) /\ Bounded(rows)
      /\ comaint \in [Bases -> SUBSET Row]
  BY DEF Remove, Rotate, AddNext, AddComaintainer, At, Editing, Job, AloneInv,
         Undisturbed, ComaintainersRanked, RankedRows, TypeInv, TypeOK
<1>1. CASE Finish(w)
  <2>1. job'[w] = Idle
    BY <1>1, OneJob DEF Finish
  <2> QED
    BY <2>1, HeedlessFits DEF Idle, Heedful, Editing
<1>2. ASSUME NEW pc \in {"rotate", "add"}, Goto(w, pc),
             \A u \in UsersOf(comaint'[b]) : u \notin old.add
      PROVE  Undisturbed(job[w])'
  <2>1. /\ job'[w].pc = pc /\ job'[w].base = b /\ job'[w].add = old.add
    BY <1>0, <1>2 DEF Goto, Job, TypeInv, TypeOK
  <2> QED
    BY <1>0, <1>2, <2>1 DEF Undisturbed, Editing, UsersOf
<1>3. CASE Remove(w)
  <2>1. comaint'[b] = Without(rows, old.drop) /\ Goto(w, "rotate")
    BY <1>0, <1>3 DEF Remove
  <2>2. UsersOf(comaint'[b]) \subseteq UsersOf(rows)
    BY <2>1 DEF Without, UsersOf
  <2> QED
    BY <1>0, <1>2, <2>1, <2>2
<1>4. CASE Rotate(w) /\ ~Finish(w)
  <2>1. PICK f \in Rotations(rows) : comaint'[b] = Rotated(rows, f) /\ Goto(w, "add")
    BY <1>0, <1>4 DEF Rotate
  <2>2. UsersOf(comaint'[b]) \subseteq UsersOf(rows)
    BY <1>0, <2>1, RankedRotated
  <2> QED
    BY <1>0, <1>2, <2>1, <2>2
<1>5. CASE AddComaintainer(w)
  <2> DEFINE new == [user |-> old.seen, prio |-> old.at, row |-> w]
  <2>1. comaint'[b] = rows \cup {new} /\ Goto(w, "add")
    BY <1>0, <1>5 DEF AddComaintainer
  <2>2. old.seen \notin old.add
    BY <1>5 DEF AddComaintainer, At, AloneInv, Undisturbed
  <2>3. \A u \in UsersOf(comaint'[b]) : u \notin old.add
    BY <1>0, <2>1, <2>2 DEF UsersOf
  <2> QED
    BY <1>2, <2>1, <2>3
<1>6. CASE AddNext(w) /\ ~Finish(w)
  <2>1. PICK u \in old.add \ {maintainer[b]}, passed \in SUBSET {maintainer[b]} :
           job' = [job EXCEPT ![w].pc = "insert", ![w].seen = u,
                      ![w].add = @ \ (passed \cup {u}),
                      ![w].at = LatestPriority(rows) + 1]
    BY <1>6 DEF AddNext
  <2> DEFINE rest == old.add \ (passed \cup {u})
             at == LatestPriority(rows) + 1
             j == [old EXCEPT !.pc = "insert", !.seen = u, !.add = rest, !.at = at]
  <2>2. job'[w] = j
    BY <2>1 DEF TypeInv, TypeOK
  <2>3. /\ j.pc = "insert" /\ j.base = b /\ j.seen = u /\ j.add = rest /\ j.at = at
    <3> HIDE DEF rest, at
    <3> QED
      BY <1>0 DEF Job
  <2>4. u \notin UsersOf(rows) /\ u \notin rest /\ rest \cap UsersOf(rows) = {}
    BY <1>0, <2>1
  <2>5. \A r \in rows : r.prio < at
    BY <1>0, LatestIsLatest
  <2>6. comaint' = comaint
    BY <1>6 DEF AddNext
  <2> HIDE DEF j, rest, at
  <2> QED
    BY <1>0, <2>2, <2>3, <2>4, <2>5, <2>6 DEF Undisturbed, Editing, UsersOf
<1> QED
  BY <1>1, <1>3, <1>4, <1>5, <1>6

(* Between the steps that close the requests for a deletion.                *)
LEMMA ClosingUndisturbed ==
    ASSUME TypeInv, TypeInv', TraceInv, AloneInv, NEW w \in Workers, [Next]_vars,
           Handle(w) \/ Create(w) \/ Settle(w)
    PROVE  Undisturbed(job[w])'
<1> DEFINE old == job[w]
<1>0. /\ old \in Job /\ Tracked(old) /\ Undisturbed(old) /\ Orderly
      /\ old.pc \in {"handle", "create", "settle"}
  BY OrderlyStep DEF Handle, Create, Settle, At, AloneInv, TraceInv, TypeInv, TypeOK
<1>1. CASE Handle(w)
  <2> DEFINE ids == ToAccept(reqs, old.type, old.base, NULL)
             blank == Blank(reqs, ids)
             pc == IF ids = {} THEN "create" ELSE "settle"
             found == ids # {}
             j == [old EXCEPT !.pc = pc, !.found = found, !.ids = ids, !.blank = blank]
  <2>1. /\ job' = [job EXCEPT ![w] = j] /\ reqs' = reqs
        /\ old.base \in live /\ old.base \in Bases
    BY <1>1 DEF Handle, At, TypeInv, TypeOK
  <2>2. /\ j.pc = pc /\ j.type = old.type /\ j.base = old.base /\ j.ids = ids
    <3> HIDE DEF pc, found, ids, blank
    <3> QED
      BY <1>0 DEF Job
  <2> HIDE DEF j
  <2>3. /\ job'[w].pc = pc /\ job'[w].type = old.type /\ job'[w].base = old.base
        /\ job'[w].ids = ids
    BY <2>1, <2>2, OneJob
  <2>4. ASSUME NEW i \in OfBase(old.type, old.base), reqs[i].status = "Pending"
        PROVE  i \in ids
    <3>1. i \in DOMAIN reqs /\ reqs[i].name = old.base /\ reqs[i].type = old.type
      BY DEF OfBase
    <3>2. reqs[i].base = old.base
      BY <2>1, <3>1 DEF TraceInv, Named, AloneInv, Detached
    <3> QED
      BY <2>4, <3>1, <3>2 DEF ToAccept, PendingIds
  <2>5. pc = "settle" \/ (pc = "create" /\ ids = {})
    OBVIOUS
  <2> HIDE DEF ids, pc
  <2> QED
    BY <2>1, <2>3, <2>4, <2>5 DEF Undisturbed, Heedful, Editing, OfBase
<1>2. CASE Create(w)
  <2> DEFINE id == Len(reqs) + 1
  <2>1. /\ job'[w].pc = "settle" /\ job'[w].type = old.type
        /\ job'[w].base = old.base /\ job'[w].ids = {id} /\ old.pc = "create"
    BY <1>0, <1>2 DEF Create, At, Job, TypeInv, TypeOK
  <2>2. PICK r \in Request : reqs' = Append(reqs, r)
    BY <1>2, NewRow
  <2>3. /\ DOMAIN reqs' = DOMAIN reqs \cup {id}
        /\ \A i \in DOMAIN reqs : reqs'[i] = reqs[i]
    BY <2>2, AppendedType
  <2> HIDE DEF id
  <2> QED
    BY <1>0, <2>1, <2>3 DEF Undisturbed, Heedful, Editing, OfBase
<1>3. CASE Settle(w)
  <2>1. /\ job'[w].pc = IF old.type = "orphan" THEN "orphan" ELSE "delete"
        /\ job'[w].base = old.base /\ old.pc = "settle"
    BY <1>3, GotoJob DEF Settle
  <2>2. CASE old.type = "orphan"
    BY <2>1, <2>2, HeedlessFits DEF Heedful, Editing
  <2>3. CASE old.type = "deletion"
    <3>1. ASSUME NEW i \in DOMAIN reqs', reqs'[i].name = old.base,
                 reqs'[i].type = "deletion"
          PROVE  reqs'[i].status # "Pending"
      <4>1. /\ i \in DOMAIN reqs /\ reqs[i] \in Request
            /\ reqs'[i] = IF i \in old.ids
                          THEN [reqs[i] EXCEPT !.status = "Accepted", !.closed = TRUE,
                                   !.closure = IF i \in old.blank THEN "auto" ELSE @]
                          ELSE reqs[i]
        BY <1>3, RowsAre DEF Settle, ClosePkgreq
      <4>2. CASE i \in old.ids
        BY <4>1, <4>2 DEF Request
      <4>3. CASE i \notin old.ids
        BY <1>0, <2>1, <2>3, <3>1, <4>1, <4>3 DEF Undisturbed, OfBase
      <4> QED
        BY <4>2, <4>3
    <3>2. old.base \in Bases
      BY <1>0, <2>1 DEF Undisturbed, Heedful
    <3> QED
      BY <2>1, <2>3, <3>1, <3>2 DEF Undisturbed, Heedful, Editing, OfBase
  <2> QED
    BY <1>0, <2>1, <2>2, <2>3 DEF Tracked
<1> QED
  BY <1>1, <1>2, <1>3

LEMMA StepUndisturbed ==
    ASSUME TypeInv, TypeInv', TraceInv, AloneInv, NEW w \in Workers, [Next]_vars,
           Step(w) \/ Crash(w)
    PROVE  Undisturbed(job[w])'
<1>0. job[w] \in Job /\ Undisturbed(job[w])
  BY DEF AloneInv, TypeInv, TypeOK
<1>1. CASE Finish(w)
  <2>1. job'[w] = Idle
    BY <1>1, OneJob DEF Finish
  <2> QED
    BY <2>1, HeedlessFits DEF Idle, Heedful, Editing
<1>2. ASSUME NEW pc, Goto(w, pc), pc \notin Heedful PROVE Undisturbed(job[w])'
  <2>1. job'[w].pc = pc
    BY <1>2, GotoJob
  <2> QED
    BY <1>2, <2>1, HeedlessFits
<1>3. CASE DisownNote(w) \/ Verify(w) \/ DeleteNote(w)
  <2>1. Finish(w) \/ \E pc \in {"disown", "handle"} : Goto(w, pc)
    BY <1>3 DEF DisownNote, Verify, DeleteNote
  <2> QED
    BY <1>1, <1>2, <2>1 DEF Heedful, Editing
<1>4. CASE DisownInstance(w)
  <2>1. CASE maintainer[job[w].base] = job[w].user
    <3>1. /\ job'[w].pc = "promote" /\ job'[w].base = job[w].base
          /\ job'[w].user = job[w].user /\ maintainer' = maintainer
          /\ job[w].base \in Bases
      BY <1>0, <1>4, <2>1 DEF DisownInstance, At, Goto, Job, TypeInv, TypeOK
    <3> QED
      BY <2>1, <3>1 DEF Undisturbed, Editing
  <2>2. CASE maintainer[job[w].base] # job[w].user
    BY <1>1, <1>2, <1>4, <2>2 DEF DisownInstance, Heedful, Editing
  <2> QED
    BY <2>1, <2>2
<1>5. CASE ApiClose(w)
  <2>1. /\ job'[w].pc = "apiPromote" /\ job'[w].base = job[w].base
        /\ job'[w].user = job[w].user /\ maintainer' = maintainer
        /\ job[w].pc = "apiClose"
    BY <1>0, <1>5 DEF ApiClose, Goto, Job, TypeInv, TypeOK
  <2> QED
    BY <1>0, <2>1 DEF Undisturbed, Heedful, Editing
<1>6. CASE File(w)
  <2>1. job'[w].pc = "decide"
    BY <1>0, <1>6 DEF File, Job, TypeInv, TypeOK
  <2> QED
    BY <2>1, HeedlessFits DEF Heedful, Editing
<1>7. CASE Decide(w)
  <2>1. Finish(w) \/ Goto(w, "handle") \/ job'[w].pc = "autoOrphan"
    BY <1>0, <1>7 DEF Decide, Job, TypeInv, TypeOK
  <2> QED
    BY <1>1, <1>2, <2>1, HeedlessFits DEF Heedful, Editing
<1> QED
  BY <1>1, <1>3, <1>4, <1>5, <1>6, <1>7, EditUndisturbed, ClosingUndisturbed
  DEF Step, Crash, Vanished, Adopt, ApiAdopt, Promote, Orphan, ApiPromote,
      AutoOrphan, Close, Delete, Flag, Unflag, Notify, Unnotify

(* The jobs of the others.                                                  *)
LEMMA LeftAlone ==
    ASSUME TypeInv, AloneInv, Kept, NEW w \in Workers, job'[w] = job[w],
           job[w].base \in Bases =>
               /\ maintainer'[job[w].base] = maintainer[job[w].base]
               /\ comaint'[job[w].base] = comaint[job[w].base]
               /\ \A i \in DOMAIN reqs' \ DOMAIN reqs : reqs'[i].name # job[w].base
    PROVE  Undisturbed(job[w])'
<1> DEFINE j == job[w]
<1>1. Undisturbed(j)
  BY DEF AloneInv
<1>2. CASE j.pc \notin Heedful
  BY <1>2, HeedlessFits
<1>3. CASE j.base \in Bases
  <2>1. ASSUME NEW i \in OfBase("deletion", j.base)', reqs'[i].status = "Pending"
        PROVE  i \in OfBase("deletion", j.base) /\ reqs[i].status = "Pending"
    BY <1>3, <2>1 DEF OfBase, Kept
  <2> QED
    BY <1>1, <1>3, <2>1 DEF Undisturbed
<1> QED
  BY <1>1, <1>2, <1>3 DEF Undisturbed

LEMMA StepsInOwn ==
    ASSUME TypeInv, NEW w \in Workers, Step(w) \/ Crash(w)
    PROVE  /\ \A v \in Workers \ {w} : job'[v] = job[v]
           /\ \A b \in Bases \ {job[w].base} :
                 maintainer'[b] = maintainer[b] /\ comaint'[b] = comaint[b]
           /\ \A i \in DOMAIN reqs' \ DOMAIN reqs : reqs'[i].name = job[w].base
<1>0. /\ job \in [Workers -> Job] /\ maintainer \in [Bases -> Users \cup {NULL}]
      /\ comaint \in [Bases -> SUBSET Row]
  BY DEF TypeInv, TypeOK
<1>1. \A v \in Workers \ {w} : job'[v] = job[v]
  BY <1>0 DEF Step, Crash, Vanished, Adopt, ApiAdopt, Remove, Rotate, AddNext,
     AddComaintainer, DisownNote, DisownInstance, Promote, Orphan, ApiClose,
     ApiPromote, File, Decide, AutoOrphan, Close, Verify, Handle, Create, Settle,
     DeleteNote, Delete, Flag, Unflag, Notify, Unnotify, Goto, Finish
<1>2. \A b \in Bases \ {job[w].base} :
         maintainer'[b] = maintainer[b] /\ comaint'[b] = comaint[b]
  BY <1>0 DEF Step, Crash, Vanished, Adopt, ApiAdopt, Remove, Rotate, AddNext,
     AddComaintainer, DisownNote, DisownInstance, Promote, Orphan, ApiClose,
     ApiPromote, File, Decide, AutoOrphan, Close, Verify, Handle, Create, Settle,
     DeleteNote, Delete, Flag, Unflag, Notify, Unnotify
<1>3. ASSUME NEW i \in DOMAIN reqs' \ DOMAIN reqs
      PROVE  reqs'[i].name = job[w].base
  <2>1. CASE File(w) \/ Create(w)
    <3>1. PICK r \in Request : reqs' = Append(reqs, r) /\ r.name = job[w].base
      BY <2>1, NewRow
    <3> QED
      BY <1>3, <3>1, AppendedType
  <2>2. CASE ~File(w) /\ ~Create(w)
    <3>1. DOMAIN reqs' # DOMAIN reqs /\ reqs' # reqs
      BY <1>3
    <3> QED
      BY <2>2, <3>1, RequestStepsType, AutoOrphanType, DeleteType
      DEF Step, Crash, Vanished, Adopt, ApiAdopt, Remove, Rotate, AddNext,
          AddComaintainer, DisownInstance, Promote, Orphan, ApiPromote, Decide,
          Verify, Handle, Flag, Unflag, Notify, Unnotify
  <2> QED
    BY <2>1, <2>2
<1> QED
  BY <1>1, <1>2, <1>3

LEMMA AloneStep ==
    ASSUME TypeInv, TypeInv', TraceInv, AloneInv, Apart, [Next]_vars
    PROVE  AloneInv'
<1>0. ComaintainersRanked' /\ NoDeletionLeftOpen' /\ Detached' /\ Kept
  BY RankedStep, LeftOpenStep, DetachedStep, KeptStep
<1>1. ASSUME NEW w \in Workers, UNCHANGED <<maintainer, comaint, reqs>>,
             \A v \in Workers \ {w} : job'[v] = job[v],
             Undisturbed(job[w])'
      PROVE  AloneInv'
  BY <1>0, <1>1, LeftAlone DEF AloneInv
<1>2. ASSUME NEW w \in Workers, NEW u \in Users, NEW b \in Bases, Serve(w, u, b)
      PROVE  AloneInv'
  <2>1. /\ UNCHANGED <<maintainer, comaint, reqs>>
        /\ \A v \in Workers \ {w} : job'[v] = job[v]
    BY <1>2 DEF Serve, AdoptPost, ApiAdoptPost, DisownPost, ApiDisownPost,
        ComaintPost, RequestPost, DeletePost, FlagPost, UnflagPost, NotifyPost,
        UnnotifyPost, Receive, TypeInv, TypeOK
  <2> QED
    BY <1>1, <1>2, <2>1, ServeUndisturbed
<1>3. ASSUME NEW w \in Workers, NEW u \in Users, NEW i \in DOMAIN reqs,
             ClosePost(w, u, i)
      PROVE  AloneInv'
  <2>1. /\ job'[w].pc = "close" /\ UNCHANGED <<maintainer, comaint, reqs>>
        /\ \A v \in Workers \ {w} : job'[v] = job[v]
    BY <1>3 DEF ClosePost, Receive, Call, Idle, TypeInv, TypeOK
  <2> QED
    BY <1>1, <2>1, HeedlessFits DEF Heedful, Editing
<1>4. ASSUME NEW w \in Workers, Step(w) \/ Crash(w) PROVE AloneInv'
  <2>1. Undisturbed(job[w])'
    BY <1>4, StepUndisturbed
  <2>2. ASSUME NEW v \in Workers \ {w} PROVE Undisturbed(job[v])'
    BY <1>0, <1>4, LeftAlone, StepsInOwn DEF Apart
  <2> QED
    BY <1>0, <2>1, <2>2 DEF AloneInv
<1>5. CASE Tick \/ UNCHANGED vars
  <2>1. UNCHANGED <<job, maintainer, comaint, reqs>>
    BY <1>5 DEF Tick, vars
  <2>2. \A w \in Workers : Undisturbed(job[w])'
    BY <1>0, <2>1, LeftAlone
  <2> QED
    BY <1>0, <2>2 DEF AloneInv
<1> QED
  BY <1>2, <1>3, <1>4, <1>5 DEF Next, Quiet

LEMMA AloneInit == Init => AloneInv
BY DEF Init, AloneInv, ComaintainersRanked, NoDeletionLeftOpen, Detached, Idle,
       Undisturbed, Heedful, Editing

LEMMA AloneAlways == Spec /\ []Apart => [](TypeInv /\ TraceInv /\ AloneInv)
<1>1. TypeInv /\ TraceInv /\ AloneInv /\ Apart /\ [Next]_vars
         => TypeInv' /\ TraceInv' /\ AloneInv'
  BY NextType, TraceStep, AloneStep
<1>2. Init => TypeInv /\ TraceInv /\ AloneInv
  BY InitType, TraceInit, AloneInit
<1> QED
  BY <1>1, <1>2, PTL DEF Spec

LEMMA ReplacedStep ==
    ASSUME TypeInv, AloneInv, [Next]_vars, NEW b \in Bases,
           maintainer[b] # NULL, maintainer'[b] \notin {NULL, maintainer[b]}
    PROVE  \E w \in Workers : /\ job[w].base = b
                              /\ job'[w] # job[w]
                              /\ HasCredential(job[w].user, {maintainer[b]})
<1>0. PICK w \in Workers : Step(w)
  <2>1. maintainer' # maintainer
    OBVIOUS
  <2>2. ASSUME NEW w \in Workers, NEW u \in Users, NEW c \in Bases, Serve(w, u, c)
        PROVE  maintainer' = maintainer
    BY <2>2 DEF Serve, AdoptPost, ApiAdoptPost, DisownPost, ApiDisownPost,
        ComaintPost, RequestPost, DeletePost, FlagPost, UnflagPost, NotifyPost,
        UnnotifyPost
  <2> QED
    BY <2>1, <2>2 DEF Next, Quiet, ClosePost, Crash, Tick, vars
<1>1. /\ Undisturbed(job[w]) /\ maintainer \in [Bases -> Users \cup {NULL}]
  BY DEF AloneInv, TypeInv, TypeOK
<1>2. CASE Adopt(w) \/ ApiAdopt(w) \/ Promote(w) \/ ApiPromote(w)
  <2>1. /\ job[w].pc \in {"adopt", "apiAdopt", "promote", "apiPromote"}
        /\ job'[w] = Idle
    BY <1>2 DEF Adopt, ApiAdopt, Promote, ApiPromote, At, Finish, TypeInv, TypeOK
  <2>2. \A c \in Bases : c # job[w].base => maintainer'[c] = maintainer[c]
    <3>1. CASE Promote(w)
      BY <1>1, <3>1 DEF Promote
    <3> QED
      BY <1>1, <1>2, <3>1 DEF Adopt, ApiAdopt, ApiPromote
  <2>3. job[w].base = b
    BY <2>2
  <2>4. job[w].user \in TrustedUsers \/ job[w].user = maintainer[b]
    BY <1>1, <2>1, <2>3 DEF Undisturbed
  <2> QED
    BY <2>1, <2>3, <2>4 DEF HasCredential, Idle
<1>3. CASE Orphan(w) \/ AutoOrphan(w) \/ Delete(w)
  BY <1>1, <1>3 DEF Orphan, AutoOrphan, Delete
<1>4. CASE maintainer' = maintainer
  BY <1>4
<1> QED
  BY <1>0, <1>2, <1>3, <1>4
  DEF Step, Vanished, Remove, Rotate, AddNext, AddComaintainer, DisownNote,
      DisownInstance, ApiClose, File, Decide, Close, Verify, Handle, Create,
      Settle, DeleteNote, Flag, Unflag, Notify, Unnotify

(* While no two workers handle one package base at a time: no two           *)
(* co-maintainers of a package base share a place in the line of succession *)
(* and nobody has two, whatever edits, adoptions, promotions and crashes    *)
(* there were.                                                              *)
THEOREM CoMaintainersAreRanked == Spec /\ []Apart => []ComaintainersRanked
<1>1. AloneInv => ComaintainersRanked
  BY DEF AloneInv
<1> QED
  BY <1>1, AloneAlways, PTL

(* While no two workers handle one package base at a time: a deletion       *)
(* answers every deletion request of the package base, killed or not, and   *)
(* whoever closes requests meanwhile.                                       *)
THEOREM DeletionsAnswerEveryRequest == Spec /\ []Apart => []NoDeletionLeftOpen
<1>1. AloneInv => NoDeletionLeftOpen
  BY DEF AloneInv
<1> QED
  BY <1>1, AloneAlways, PTL

(* While no two workers handle one package base at a time: only a call of   *)
(* the maintainer or of a privileged user puts somebody else in the         *)
(* maintainer's place.                                                      *)
THEOREM MaintainersAreReplacedByRight == Spec /\ []Apart => ReplacedByRight
<1>1. TypeInv /\ AloneInv /\ [Next]_vars =>
         \A b \in Bases :
            maintainer[b] # NULL /\ maintainer'[b] \notin {NULL, maintainer[b]}
               => \E w \in Workers : /\ job[w].base = b
                                     /\ job'[w] # job[w]
                                     /\ HasCredential(job[w].user, {maintainer[b]})
  BY ReplacedStep
<1> QED
  BY <1>1, AloneAlways, PTL DEF Spec, ReplacedByRight

(* While no two workers handle one package base at a time, the comment in   *)
(* pkgbase_adopt_post is right: who adopts without privileges finds no      *)
(* maintainer to displace.                                                  *)
THEOREM AdoptersDisplaceNobody == Spec /\ []Apart => PromotedIfNoMaintainer
<1>1. AloneInv =>
        \A w \in Workers :
           job[w].pc = "adopt" /\ job[w].user \notin TrustedUsers
              => maintainer'[job[w].base] = maintainer[job[w].base]
                 \/ maintainer[job[w].base] = NULL
  BY DEF AloneInv, Undisturbed
<1> QED
  BY <1>1, AloneAlways, PTL DEF Spec, PromotedIfNoMaintainer
=============================================================================
