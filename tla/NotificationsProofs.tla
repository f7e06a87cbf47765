------------------------- MODULE NotificationsProofs -------------------------
(* Theorems about Notifications, for any processes, users, package bases    *)
(* and watchers.                                                            *)
EXTENDS Notifications, TLAPS

-----------------------------------------------------------------------------
(* The invariant.  A job that is about to tell of requests has decided      *)
(* them, and a mail about a deletion is in nobody's hands but those of the  *)
(* job that is about to delete the package base, or that has deleted it.    *)
(* Both outlast whatever other jobs do: a decided request is never pending  *)
(* again and a package base that is gone does not come back.                *)

Asking == {"file", "disown", "handle", "create"}

CloseTrue(m, rs) ==
    m.kind = "close" => m.no \in DOMAIN rs /\ rs[m.no].status # "Pending"

DeleteTrue(m, j, lv) ==
    m.kind = "delete" => \/ j.pc = "delete" /\ m.base = j.base
                         \/ j.pc = "send" /\ m.base \notin lv

JobFits(j, lv, rs) ==
    /\ j.pc # "idle" => j.user \in Users
    /\ j.pc \in Asking => j.type \in {"deletion", "orphan"}
    /\ j.pc = "added" => j.next \in Users
    /\ j.ids \subseteq DOMAIN rs
    /\ j.pc = "tell" => \A i \in j.ids : rs[i].status # "Pending"
    /\ \A m \in j.mails : CloseTrue(m, rs) /\ DeleteTrue(m, j, lv)

Inv == /\ TypeOK
       /\ AnnouncedWhenDone
       /\ \A w \in Workers : JobFits(job[w], live, reqs)

(* What no step undoes.                                                     *)
Lasting(lv, rs) ==
    /\ lv \subseteq live
    /\ rs \in Seq(Request)
    /\ DOMAIN reqs \subseteq DOMAIN rs
    /\ \A i \in DOMAIN reqs : reqs[i].status # "Pending" => rs[i].status # "Pending"

LEMMA NothingUndone == ASSUME Inv PROVE Lasting(live, reqs)
BY DEF Lasting, Inv, TypeOK

LEMMA FitsStill ==
    ASSUME NEW j, NEW lv, NEW rs, Lasting(lv, rs), JobFits(j, live, reqs)
    PROVE  JobFits(j, lv, rs)
<1>1. j.ids \subseteq DOMAIN rs
  BY DEF JobFits, Lasting
<1>2. j.pc = "tell" => \A i \in j.ids : rs[i].status # "Pending"
  BY DEF JobFits, Lasting
<1>3. ASSUME NEW m \in j.mails PROVE CloseTrue(m, rs) /\ DeleteTrue(m, j, lv)
  <2>1. CloseTrue(m, reqs) /\ DeleteTrue(m, j, live)
    BY DEF JobFits
  <2>2. CloseTrue(m, rs)
    BY <2>1 DEF CloseTrue, Lasting
  <2>3. DeleteTrue(m, j, lv)
    BY <2>1 DEF DeleteTrue, Lasting
  <2> QED
    BY <2>2, <2>3
<1> QED
  BY <1>1, <1>2, <1>3 DEF JobFits

LEMMA SentStill ==
    ASSUME Inv, NEW lv, NEW rs, Lasting(lv, rs), NEW m \in sent
    PROVE  CloseTrue(m, rs) /\ (m.kind = "delete" => m.base \notin lv)
BY DEF Inv, AnnouncedWhenDone, Lasting, CloseTrue

(* The whole of Inv' from its parts: nothing is undone, the mails that went *)
(* out are true, the job of w is replaced by one that fits.                 *)
LEMMA InvAgain ==
    ASSUME Inv, NEW w \in Workers, NEW j \in Job, job' = [job EXCEPT ![w] = j],
           Lasting(live', reqs'), JobFits(j, live', reqs'),
           UNCHANGED <<suspended, barred>>,
           keys' \in [Users -> Nat], calls' \in Nat,
           maintainer' \in [Bases -> Users \cup {NULL}],
           comaint' \in [Bases -> SUBSET Users],
           sent' \subseteq Mail,
           \A m \in sent' \ sent :
              CloseTrue(m, reqs') /\ (m.kind = "delete" => m.base \notin live')
    PROVE  Inv'
<1>1. TypeOK'
  BY DEF Inv, TypeOK, Lasting
<1>2. \A m \in sent' : CloseTrue(m, reqs') /\ (m.kind = "delete" => m.base \notin live')
  BY SentStill
<1>3. AnnouncedWhenDone'
  BY <1>2 DEF AnnouncedWhenDone, CloseTrue
<1>4. \A v \in Workers : job'[v] = IF v = w THEN j ELSE job[v]
  BY DEF Inv, TypeOK
<1>5. \A v \in Workers : JobFits(job'[v], live', reqs')
  <2> TAKE v \in Workers
  <2>1. JobFits(job[v], live', reqs')
    BY FitsStill DEF Inv
  <2> QED
    BY <1>4, <2>1
<1> QED
  BY <1>1, <1>3, <1>5 DEF Inv

LEMMA IdleFits ==
    ASSUME NEW lv, NEW rs
    PROVE  Idle \in Job /\ JobFits(Idle, lv, rs)
BY DEF Idle, Job, JobFits, Steps, Asking

-----------------------------------------------------------------------------
(* Jobs that are idle again, go on, or go on with mails.                    *)

(* What is known of a process at work.                                      *)
LEMMA AtWork ==
    ASSUME Inv, NEW w \in Workers
    PROVE  /\ job[w] \in Job /\ JobFits(job[w], live, reqs)
           /\ job[w].pc # "idle" => job[w].user \in Users
           /\ job[w].mails \subseteq Mail /\ job[w].ids \subseteq DOMAIN reqs
BY DEF Inv, TypeOK, JobFits, Job

Typed == /\ keys' \in [Users -> Nat]
         /\ calls' \in Nat
         /\ maintainer' \in [Bases -> Users \cup {NULL}]
         /\ comaint' \in [Bases -> SUBSET Users]
         /\ UNCHANGED <<suspended, barred>>

LEMMA FinishInv ==
    ASSUME Inv, NEW w \in Workers, Finish(w), Typed, UNCHANGED <<live, reqs, sent>>
    PROVE  Inv'
<1>1. Lasting(live', reqs')
  BY NothingUndone
<1> QED
  BY <1>1, IdleFits, InvAgain DEF Finish, Typed, Inv, TypeOK

(* Mails about nothing that has to be done first.                           *)
Harmless(M, rs) == \A m \in M : m \in Mail /\ CloseTrue(m, rs) /\ m.kind # "delete"

LEMMA BuildInv ==
    ASSUME Inv, NEW w \in Workers, NEW pc \in Steps, NEW M, Build(w, M, pc),
           Harmless(M, reqs'), Typed, UNCHANGED sent, Lasting(live', reqs'),
           job[w].pc \notin {"idle", "delete", "send"},
           pc \notin {"idle", "added", "delete"},
           pc \in Asking => job[w].pc \in Asking,
           pc = "tell" => \A i \in job[w].ids : reqs'[i].status # "Pending"
    PROVE  Inv'
<1> DEFINE old == job[w]
           j == [old EXCEPT !.pc = pc, !.mails = @ \cup M]
<1>1. old \in Job /\ JobFits(old, live, reqs) /\ old.user \in Users
  BY AtWork
<1>2. M \subseteq Mail
  BY DEF Harmless
<1>3. /\ j \in Job /\ j.pc = pc /\ j.user = old.user /\ j.type = old.type
      /\ j.ids = old.ids /\ j.mails = old.mails \cup M /\ j.base = old.base
  BY <1>1, <1>2 DEF Job
<1>4. job' = [job EXCEPT ![w] = j]
  BY DEF Build, Inv, TypeOK
<1>5. JobFits(old, live', reqs')
  BY <1>1, FitsStill
<1> HIDE DEF j
<1>6. ASSUME NEW m \in j.mails PROVE CloseTrue(m, reqs') /\ m.kind # "delete"
  <2>1. CASE m \in M
    BY <2>1 DEF Harmless
  <2>2. CASE m \in old.mails
    BY <1>5, <2>2 DEF JobFits, DeleteTrue
  <2> QED
    BY <1>3, <2>1, <2>2
<1>7. JobFits(j, live', reqs')
  BY <1>1, <1>3, <1>5, <1>6 DEF JobFits, DeleteTrue
<1> QED
  BY <1>3, <1>4, <1>7, InvAgain DEF Typed, Inv, TypeOK

(* A step that only changes where the job is.                               *)
LEMMA GotoInv ==
    ASSUME Inv, NEW w \in Workers, NEW pc \in Steps, Goto(w, pc),
           Typed, UNCHANGED sent, Lasting(live', reqs'),
           job[w].pc \notin {"idle", "delete", "send"},
           pc \notin {"idle", "added", "delete"},
           pc \in Asking => job[w].pc \in Asking,
           pc = "tell" => \A i \in job[w].ids : reqs'[i].status # "Pending"
    PROVE  Inv'
<1>1. Build(w, {}, pc)
  <2>1. job[w] \in Job
    BY AtWork
  <2>2. [job EXCEPT ![w].pc = pc] = [job EXCEPT ![w].pc = pc, ![w].mails = @ \cup {}]
    BY <2>1 DEF Inv, TypeOK, Job
  <2> QED
    BY <2>2 DEF Goto, Build
<1>2. Harmless({}, reqs')
  BY DEF Harmless
<1> QED
  BY <1>1, <1>2, BuildInv

-----------------------------------------------------------------------------
(* The mails.                                                               *)

LEMMA WatcherMailFits ==
    ASSUME Inv, NEW b \in Bases, NEW u \in Users, NEW rs,
           NEW kind \in {"adopt", "disown", "update"}
    PROVE  Harmless({WatcherMail(kind, b, u)}, rs)
<1>1. Watchers[b] \subseteq Users
  BY BasesAssumption
<1> QED
  BY <1>1 DEF Harmless, WatcherMail, MailOf, Mail, CloseTrue

LEMMA PersonalMailFits ==
    ASSUME NEW b \in Bases \cup {NULL}, NEW u \in Users, NEW n \in Nat, NEW rs,
           NEW kind \in {"resetkey", "add", "remove"}
    PROVE  Harmless({PersonalMail(kind, b, n, u)}, rs)
BY DEF Harmless, PersonalMail, MailOf, Mail, CloseTrue

LEMMA RequestMailFits ==
    ASSUME Inv, NEW i \in DOMAIN reqs, NEW kind \in {"open", "close"},
           kind = "close" => reqs[i].status # "Pending"
    PROVE  Harmless({RequestMail(kind, i)}, reqs)
<1>1. reqs[i] \in Request /\ i \in Nat
  BY DEF Inv, TypeOK
<1> DEFINE r == reqs[i]
           to == IF r.base = NULL THEN {}
                 ELSE ({r.by, maintainer[r.base]} \cup comaint[r.base])
                      \ (suspended \cup {NULL})
<1>2. r.base \in Bases \cup {NULL} /\ r.by \in Users
  BY <1>1 DEF Request
<1>3. to \subseteq Users
  <2>1. CASE r.base = NULL
    BY <2>1
  <2>2. CASE r.base \in Bases
    <3>1. /\ maintainer[r.base] \in Users \cup {NULL}
          /\ comaint[r.base] \subseteq Users
      BY <2>2 DEF Inv, TypeOK
    <3> QED
      BY <1>2, <3>1
  <2> QED
    BY <1>2, <2>1, <2>2
<1>4. RequestMail(kind, i) = [kind |-> kind, base |-> r.base, no |-> i, to |-> to]
  BY DEF RequestMail, MailOf
<1> HIDE DEF to
<1>5. RequestMail(kind, i) \in Mail
  BY <1>1, <1>2, <1>3, <1>4 DEF Mail
<1> QED
  BY <1>4, <1>5 DEF Harmless, CloseTrue

-----------------------------------------------------------------------------
(* Calls.                                                                   *)

LEMMA ReceiveInv ==
    ASSUME Inv, NEW w \in Workers, NEW j \in Job, Receive(w, j),
           j.pc # "idle" => j.user \in Users,
           j.pc \in Asking => j.type \in {"deletion", "orphan"},
           j.pc \notin {"added", "tell"}, j.ids \subseteq DOMAIN reqs, j.mails = {}
    PROVE  Inv'
<1>1. JobFits(j, live, reqs)
  BY DEF JobFits
<1>2. Lasting(live, reqs)
  BY NothingUndone
<1>3. /\ UNCHANGED <<accounts, bases, reqs, sent>>
      /\ job' = [job EXCEPT ![w] = j] /\ calls' = calls + 1
  BY DEF Receive
<1>4. /\ live' = live /\ reqs' = reqs /\ sent' = sent /\ calls' \in Nat
      /\ UNCHANGED <<suspended, barred>> /\ keys' \in [Users -> Nat]
      /\ maintainer' \in [Bases -> Users \cup {NULL}]
      /\ comaint' \in [Bases -> SUBSET Users] /\ sent' \subseteq Mail
  BY <1>3 DEF accounts, bases, Inv, TypeOK
<1> QED
  BY <1>1, <1>2, <1>3, <1>4, InvAgain

LEMMA CallFits ==
    ASSUME NEW op \in AllOps, NEW pc \in Steps, NEW u \in Users,
           NEW b \in Bases \cup {NULL}
    PROVE  LET j == Call(op, pc, u, b)
           IN  /\ j \in Job /\ j.pc = pc /\ j.user = u /\ j.ids = {} /\ j.mails = {}
               /\ j.type = NULL /\ j.op = op
BY DEF Call, Idle, Job, Steps

LEMMA PlainCallInv ==
    ASSUME Inv, NEW w \in Workers, NEW op \in AllOps, NEW u \in Users,
           NEW b \in Bases \cup {NULL},
           NEW pc \in {"issue", "adopt", "update"}, Receive(w, Call(op, pc, u, b))
    PROVE  Inv'
<1> DEFINE j == Call(op, pc, u, b)
<1>1. pc \in Steps
  BY DEF Steps
<1>2. /\ j \in Job /\ j.pc = pc /\ j.user = u /\ j.ids = {} /\ j.mails = {}
  BY <1>1, CallFits
<1>3. Receive(w, j)
  OBVIOUS
<1> HIDE DEF j
<1> QED
  BY <1>2, <1>3, ReceiveInv DEF Asking

LEMMA TypedCallInv ==
    ASSUME Inv, NEW w \in Workers, NEW op \in AllOps, NEW u \in Users,
           NEW b \in Bases, NEW t \in {"deletion", "orphan"},
           NEW pc \in {"disown", "file", "handle"},
           Receive(w, [Call(op, pc, u, b) EXCEPT !.type = t])
    PROVE  Inv'
<1> DEFINE c == Call(op, pc, u, b)
           j == [c EXCEPT !.type = t]
<1>1. pc \in Steps
  BY DEF Steps
<1>2. /\ c \in Job /\ c.pc = pc /\ c.user = u /\ c.ids = {} /\ c.mails = {}
  BY <1>1, CallFits
<1>3. Receive(w, j)
  OBVIOUS
<1> HIDE DEF c
<1>4. /\ j \in Job /\ j.pc = pc /\ j.user = u /\ j.ids = {} /\ j.mails = {}
      /\ j.type = t
  BY <1>2 DEF Job
<1> HIDE DEF j
<1> QED
  BY <1>3, <1>4, ReceiveInv DEF Asking

LEMMA ServeInv ==
    ASSUME Inv, NEW w \in Workers, NEW u \in Users, Serve(w, u)
    PROVE  Inv'
<1> USE DEF AllOps
<1>1. CASE PassResetPost(w, u)
  BY <1>1, PlainCallInv DEF PassResetPost
<1>2. ASSUME NEW i \in DOMAIN reqs, ClosePost(w, u, i) PROVE Inv'
  <2> DEFINE c == Call("close", "close", u, NULL)
             j == [c EXCEPT !.ids = {i}]
  <2>1. /\ c \in Job /\ c.pc = "close" /\ c.user = u /\ c.ids = {} /\ c.mails = {}
    BY CallFits DEF Steps
  <2>2. Receive(w, j)
    BY <1>2 DEF ClosePost
  <2>3. i \in Nat
    BY DEF Inv, TypeOK
  <2> HIDE DEF c
  <2>4. /\ j \in Job /\ j.pc = "close" /\ j.user = u /\ j.ids = {i} /\ j.mails = {}
    BY <2>1, <2>3 DEF Job
  <2> HIDE DEF j
  <2> QED
    BY <2>2, <2>4, ReceiveInv DEF Asking
<1>3. ASSUME NEW b \in Bases, AdoptPost(w, u, b) PROVE Inv'
  BY <1>3, PlainCallInv DEF AdoptPost
<1>4. ASSUME NEW b \in Bases, DisownPost(w, u, b) PROVE Inv'
  BY <1>4, TypedCallInv DEF DisownPost
<1>5. ASSUME NEW b \in Bases, NEW S \in SUBSET Users, ComaintPost(w, u, b, S)
      PROVE  Inv'
  <2> DEFINE c == Call("comaint", "remove", u, b)
             out == comaint[b] \ S
             in == S \ comaint[b]
             j == [c EXCEPT !.drop = out, !.add = in]
  <2>1. /\ c \in Job /\ c.pc = "remove" /\ c.user = u /\ c.ids = {} /\ c.mails = {}
    BY CallFits DEF Steps
  <2>2. Receive(w, j)
    BY <1>5 DEF ComaintPost
  <2>3. out \subseteq Users /\ in \subseteq Users
    BY DEF Inv, TypeOK
  <2> HIDE DEF c, out, in
  <2>4. /\ j \in Job /\ j.pc = "remove" /\ j.user = u /\ j.ids = {} /\ j.mails = {}
    BY <2>1, <2>3 DEF Job
  <2> HIDE DEF j
  <2> QED
    BY <2>2, <2>4, ReceiveInv DEF Asking
<1>6. ASSUME NEW b \in Bases, NEW t \in {"deletion", "orphan"},
             RequestPost(w, u, b, t)
      PROVE  Inv'
  BY <1>6, TypedCallInv DEF RequestPost
<1>7. ASSUME NEW b \in Bases, DeletePost(w, u, b) PROVE Inv'
  BY <1>7, TypedCallInv DEF DeletePost
<1>8. ASSUME NEW b \in Bases, Push(w, u, b) PROVE Inv'
  BY <1>8, PlainCallInv DEF Push
<1> QED
  BY <1>1, <1>2, <1>3, <1>4, <1>5, <1>6, <1>7, <1>8 DEF Serve

-----------------------------------------------------------------------------
(* Steps that write no request.                                             *)

LEMMA BaseAtHand ==
    ASSUME Inv, NEW w \in Workers, NEW pc, At(w, pc)
    PROVE  job[w].base \in Bases /\ job[w].base \in live /\ job[w].pc = pc
BY DEF At, Inv, TypeOK

LEMMA SameTyped ==
    ASSUME Inv, UNCHANGED <<accounts, bases, calls>>
    PROVE  Typed
BY DEF Typed, accounts, bases, Inv, TypeOK

LEMMA ReadInv ==
    ASSUME Inv, NEW w \in Workers,
           \/ MailKey(w) \/ Adopted(w) \/ Disown(w) \/ MailAdded(w)
           \/ MailOpen(w) \/ MailUpdate(w) \/ Vanished(w)
    PROVE  Inv'
<1> DEFINE u == job[w].user
           b == job[w].base
<1>0. Typed /\ UNCHANGED <<live, reqs, sent>> /\ Lasting(live', reqs') /\ reqs' = reqs
  <2>1. UNCHANGED <<accounts, bases, reqs, sent, calls>>
    BY DEF MailKey, Adopted, Disown, MailAdded, MailOpen, MailUpdate, Vanished
  <2>2. UNCHANGED <<live, reqs, sent>>
    BY <2>1 DEF bases
  <2> QED
    BY <2>1, <2>2, SameTyped, NothingUndone
<1>1. CASE Finish(w)
  BY <1>0, <1>1, FinishInv
<1>2. CASE MailKey(w) /\ ~Finish(w)
  <2>1. /\ u \in Users /\ keys[u] \in Nat
        /\ Build(w, {PersonalMail("resetkey", NULL, keys[u], u)}, "send")
    BY <1>2, AtWork DEF MailKey, Inv, TypeOK
  <2>2. Harmless({PersonalMail("resetkey", NULL, keys[u], u)}, reqs')
    BY <2>1, PersonalMailFits
  <2> QED
    BY <1>0, <1>2, <2>1, <2>2, BuildInv DEF MailKey, Steps, Asking
<1>3. CASE Adopted(w)
  <2>1. b \in Bases /\ u \in Users /\ job[w].pc = "adopted"
    BY <1>3, AtWork, BaseAtHand DEF Adopted
  <2>2. Harmless({WatcherMail("adopt", b, u)}, reqs')
    BY <2>1, WatcherMailFits
  <2> QED
    BY <1>0, <1>3, <2>1, <2>2, BuildInv DEF Adopted, Steps, Asking
<1>4. CASE Disown(w) /\ ~Finish(w)
  <2>1. b \in Bases /\ u \in Users /\ job[w].pc = "disown"
    BY <1>4, AtWork, BaseAtHand DEF Disown
  <2>2. Harmless({WatcherMail("disown", b, u)}, reqs')
    BY <2>1, WatcherMailFits
  <2>3. PICK pc \in {"promote", "handle"} : Build(w, {WatcherMail("disown", b, u)}, pc)
    BY <1>4 DEF Disown
  <2> QED
    BY <1>0, <2>1, <2>2, <2>3, BuildInv DEF Steps, Asking
<1>5. CASE MailAdded(w) /\ ~Finish(w)
  <2> DEFINE v == job[w].next
  <2>1. b \in Bases /\ job[w].pc = "added" /\ v \in Users
    BY <1>5, AtWork, BaseAtHand DEF MailAdded, JobFits
  <2>2. Harmless({PersonalMail("add", b, 0, v)}, reqs')
    BY <2>1, PersonalMailFits
  <2>3. Build(w, {PersonalMail("add", b, 0, v)}, "add")
    BY <1>5 DEF MailAdded
  <2> QED
    BY <1>0, <2>1, <2>2, <2>3, BuildInv DEF Steps, Asking
<1>6. CASE MailOpen(w)
  <2> DEFINE M == {RequestMail("open", i) : i \in job[w].ids}
  <2>1. job[w].pc = "open" /\ job[w].ids \subseteq DOMAIN reqs
    BY <1>6, AtWork DEF MailOpen, At
  <2>2. Harmless(M, reqs')
    <3>1. \A i \in job[w].ids : Harmless({RequestMail("open", i)}, reqs)
      BY <2>1, RequestMailFits
    <3> QED
      BY <1>0, <3>1 DEF Harmless
  <2>3. Build(w, M, "decide")
    BY <1>6 DEF MailOpen
  <2> HIDE DEF M
  <2> QED
    BY <1>0, <2>1, <2>2, <2>3, BuildInv DEF Steps, Asking
<1>7. CASE MailUpdate(w)
  <2>1. b \in Bases /\ u \in Users /\ job[w].pc = "update"
    BY <1>7, AtWork, BaseAtHand DEF MailUpdate
  <2>2. Harmless({WatcherMail("update", b, u)}, reqs')
    BY <2>1, WatcherMailFits
  <2> QED
    BY <1>0, <1>7, <2>1, <2>2, BuildInv DEF MailUpdate, Steps, Asking
<1> QED
  BY <1>1, <1>2, <1>3, <1>4, <1>5, <1>6, <1>7 DEF Vanished

-----------------------------------------------------------------------------
(* Steps that write who has an account, a key or a package base.            *)

LEMMA IssueKeyInv ==
    ASSUME Inv, NEW w \in Workers, IssueKey(w)
    PROVE  Inv'
<1>1. job[w].user \in Users /\ job[w].pc = "issue"
  BY AtWork DEF IssueKey
<1>2. Typed
  BY <1>1 DEF IssueKey, Typed, bases, Inv, TypeOK
<1>3. UNCHANGED <<live, reqs, sent>> /\ Goto(w, "key") /\ Lasting(live', reqs')
  BY NothingUndone DEF IssueKey, bases
<1> QED
  BY <1>1, <1>2, <1>3, GotoInv DEF Steps, Asking

LEMMA OwnerInv ==
    ASSUME Inv, NEW w \in Workers, Adopt(w) \/ Promote(w) \/ Orphan(w)
    PROVE  Inv'
<1> DEFINE b == job[w].base
<1>0. /\ b \in Bases /\ job[w].user \in Users
      /\ job[w].pc \in {"adopt", "promote", "orphan"}
  BY AtWork, BaseAtHand DEF Adopt, Promote, Orphan
<1>1. /\ UNCHANGED <<live, reqs, sent, accounts, calls>> /\ Lasting(live', reqs')
  BY NothingUndone DEF Adopt, Promote, Orphan
<1>2. comaint[b] \subseteq Users
  BY <1>0 DEF Inv, TypeOK
<1>3. /\ maintainer' \in [Bases -> Users \cup {NULL}]
      /\ comaint' \in [Bases -> SUBSET Users]
  <2>1. CASE Adopt(w) \/ Orphan(w)
    BY <1>0, <2>1 DEF Adopt, Orphan, Inv, TypeOK
  <2>2. CASE Promote(w)
    <3>1. \/ UNCHANGED <<maintainer, comaint>>
          \/ maintainer' = [maintainer EXCEPT ![b] = NULL] /\ UNCHANGED comaint
          \/ \E u \in comaint[b] : /\ maintainer' = [maintainer EXCEPT ![b] = u]
                                   /\ comaint' = [comaint EXCEPT ![b] = @ \ {u}]
      BY <2>2 DEF Promote
    <3> QED
      BY <1>2, <3>1 DEF Inv, TypeOK
  <2> QED
    BY <2>1, <2>2
<1>4. Typed
  BY <1>1, <1>3 DEF Typed, accounts, Inv, TypeOK
<1>5. CASE Goto(w, "adopted") \/ Goto(w, "send")
  BY <1>0, <1>1, <1>4, <1>5, GotoInv DEF Steps, Asking
<1>6. CASE Finish(w)
  BY <1>1, <1>4, <1>6, FinishInv
<1>7. CASE \E u \in comaint[b] : Build(w, {PersonalMail("remove", b, 0, u)}, "send")
  <2>1. PICK u \in comaint[b] : Build(w, {PersonalMail("remove", b, 0, u)}, "send")
    BY <1>7
  <2>2. Harmless({PersonalMail("remove", b, 0, u)}, reqs')
    BY <1>0, <1>2, PersonalMailFits
  <2> QED
    BY <1>0, <1>1, <1>4, <2>1, <2>2, BuildInv DEF Steps, Asking
<1> QED
  BY <1>5, <1>6, <1>7 DEF Adopt, Promote, Orphan

LEMMA RemoveComaintainersInv ==
    ASSUME Inv, NEW w \in Workers, RemoveComaintainers(w)
    PROVE  Inv'
<1> DEFINE b == job[w].base
           rows == job[w].drop \cap comaint[b]
           M == {PersonalMail("remove", b, 0, u) : u \in rows}
<1>0. b \in Bases /\ job[w].pc = "remove"
  BY BaseAtHand DEF RemoveComaintainers
<1>1. /\ UNCHANGED <<live, reqs, sent, accounts, maintainer, calls>>
      /\ Lasting(live', reqs')
  BY NothingUndone DEF RemoveComaintainers
<1>2. rows \subseteq Users
  BY <1>0 DEF Inv, TypeOK
<1>3. \/ Finish(w) /\ UNCHANGED comaint
      \/ comaint' = [comaint EXCEPT ![b] = @ \ rows] /\ Build(w, M, "removed")
  BY DEF RemoveComaintainers
<1>4. Harmless(M, reqs')
  <2>1. \A u \in rows : Harmless({PersonalMail("remove", b, 0, u)}, reqs')
    BY <1>0, <1>2, PersonalMailFits
  <2> QED
    BY <2>1 DEF Harmless
<1> HIDE DEF rows, M
<1>5. Typed
  BY <1>0, <1>1, <1>3 DEF Typed, accounts, Inv, TypeOK
<1> QED
  BY <1>0, <1>1, <1>3, <1>4, <1>5, FinishInv, BuildInv DEF Steps, Asking

LEMMA AddComaintainerInv ==
    ASSUME Inv, NEW w \in Workers, AddComaintainer(w)
    PROVE  Inv'
<1> DEFINE b == job[w].base
           old == job[w]
<1>0. b \in Bases /\ old.pc = "add" /\ old \in Job /\ JobFits(old, live, reqs)
      /\ old.user \in Users
  <2>1. At(w, "add")
    BY DEF AddComaintainer
  <2>2. b \in Bases /\ old.pc = "add"
    BY <2>1, BaseAtHand
  <2> QED
    BY <2>2, AtWork
<1>1. /\ UNCHANGED <<live, reqs, sent, accounts, maintainer, calls>>
      /\ Lasting(live', reqs')
  BY NothingUndone DEF AddComaintainer
<1>2. CASE UNCHANGED comaint /\ Goto(w, "send")
  <2>1. Typed
    BY <1>1, <1>2 DEF Typed, accounts, Inv, TypeOK
  <2> QED
    BY <1>0, <1>1, <1>2, <2>1, GotoInv DEF Steps, Asking
<1>3. CASE ~(UNCHANGED comaint /\ Goto(w, "send"))
  <2>1. PICK u \in old.add : /\ comaint' = [comaint EXCEPT ![b] = @ \cup {u}]
                             /\ job' = [job EXCEPT ![w].pc = "added", ![w].next = u,
                                                   ![w].add = @ \ {u}]
    BY <1>3 DEF AddComaintainer
  <2> DEFINE j == [old EXCEPT !.pc = "added", !.next = u, !.add = @ \ {u}]
  <2>2. u \in Users
    BY <1>0 DEF Job
  <2>3. Typed
    BY <1>0, <1>1, <2>1, <2>2 DEF Typed, accounts, Inv, TypeOK
  <2>4. job' = [job EXCEPT ![w] = j]
    BY <2>1 DEF Inv, TypeOK
  <2>5. /\ j \in Job /\ j.pc = "added" /\ j.next = u /\ j.user = old.user
        /\ j.ids = old.ids /\ j.mails = old.mails
    BY <1>0, <2>2 DEF Job, Steps
  <2> HIDE DEF j
  <2>6. JobFits(j, live, reqs)
    BY <1>0, <2>2, <2>5 DEF JobFits, DeleteTrue, Asking
  <2> QED
    BY <1>1, <2>3, <2>4, <2>5, <2>6, InvAgain DEF Typed, Inv, TypeOK
<1> QED
  BY <1>2, <1>3

-----------------------------------------------------------------------------
(* Mails go out.                                                            *)

(* Only a job that sends at last holds a mail about a deletion.             *)
LEMMA MailsTrue ==
    ASSUME Inv, NEW w \in Workers, job[w].pc # "delete", NEW m \in job[w].mails
    PROVE  CloseTrue(m, reqs) /\ (m.kind = "delete" => m.base \notin live) /\ m \in Mail
BY AtWork DEF JobFits, DeleteTrue

LEMMA SendInv ==
    ASSUME Inv, NEW w \in Workers, Send(w) \/ SendRemoved(w)
    PROVE  Inv'
<1> DEFINE old == job[w]
<1>0. /\ old \in Job /\ JobFits(old, live, reqs)
      /\ old.pc \in {"send", "removed"} /\ old.user \in Users
  BY AtWork DEF Send, SendRemoved, At
<1>1. /\ live' = live /\ reqs' = reqs /\ Typed /\ Lasting(live', reqs')
  <2>1. UNCHANGED <<accounts, bases, reqs, calls>>
    BY DEF Send, SendRemoved
  <2> QED
    BY <2>1, SameTyped, NothingUndone DEF bases
<1>2. /\ sent' \subseteq Mail
      /\ \A m \in sent' \ sent :
            CloseTrue(m, reqs') /\ (m.kind = "delete" => m.base \notin live')
  <2>1. sent' = sent \/ sent' = sent \cup old.mails
    BY DEF Send, SendRemoved
  <2> QED
    BY <1>0, <1>1, <2>1, MailsTrue DEF Inv, TypeOK
<1>3. CASE Finish(w)
  BY <1>1, <1>2, <1>3, IdleFits, InvAgain DEF Finish, Typed
<1>4. CASE job' = [job EXCEPT ![w].pc = "add", ![w].mails = {}]
  <2> DEFINE j == [old EXCEPT !.pc = "add", !.mails = {}]
  <2>1. job' = [job EXCEPT ![w] = j]
    BY <1>4 DEF Inv, TypeOK
  <2>2. j \in Job /\ j.pc = "add" /\ j.user = old.user /\ j.ids = old.ids /\ j.mails = {}
    BY <1>0 DEF Job, Steps
  <2> HIDE DEF j
  <2>3. JobFits(j, live, reqs)
    BY <1>0, <2>2 DEF JobFits, Asking
  <2> QED
    BY <1>1, <1>2, <2>1, <2>2, <2>3, InvAgain DEF Typed
<1> QED
  BY <1>3, <1>4 DEF Send, SendRemoved

-----------------------------------------------------------------------------
(* Requests.                                                                *)

(* One more row, pending.                                                   *)
LEMMA AppendLasts ==
    ASSUME Inv, NEW r \in Request
    PROVE  /\ Lasting(live, Append(reqs, r))
           /\ Len(reqs) + 1 \in Nat
           /\ Len(reqs) + 1 \in DOMAIN Append(reqs, r)
BY DEF Lasting, Inv, TypeOK

(* Rows that are decided.                                                   *)
LEMMA WithStatusLasts ==
    ASSUME Inv, NEW ids, NEW s \in {"Accepted", "Rejected"}
    PROVE  /\ Lasting(live, WithStatus(ids, s))
           /\ \A i \in ids \cap DOMAIN reqs : WithStatus(ids, s)[i].status # "Pending"
<1> DEFINE rs == WithStatus(ids, s)
<1>0. reqs \in Seq(Request) /\ DOMAIN reqs = 1 .. Len(reqs) /\ Len(reqs) \in Nat
  BY DEF Inv, TypeOK
<1>1. \A i \in DOMAIN reqs : /\ reqs[i] \in Request
                             /\ [reqs[i] EXCEPT !.status = s] \in Request
                             /\ [reqs[i] EXCEPT !.status = s].status = s
  <2>1. \A r \in Request : /\ [r EXCEPT !.status = s] \in Request
                           /\ [r EXCEPT !.status = s].status = s
    BY DEF Request
  <2>2. \A i \in DOMAIN reqs : reqs[i] \in Request
    BY <1>0
  <2> QED
    BY <2>1, <2>2
<1>2. /\ DOMAIN rs = DOMAIN reqs
      /\ \A i \in DOMAIN reqs : rs[i] = IF i \in ids
                                        THEN [reqs[i] EXCEPT !.status = s]
                                        ELSE reqs[i]
  BY DEF WithStatus
<1>3. rs \in [1 .. Len(reqs) -> Request]
  BY <1>0, <1>1 DEF WithStatus
<1>4. rs \in Seq(Request)
  BY <1>0, <1>3
<1> HIDE DEF rs
<1>5. \A i \in DOMAIN reqs : i \in ids => rs[i].status # "Pending"
  BY <1>1, <1>2
<1>6. Lasting(live, rs)
  BY <1>2, <1>4, <1>5 DEF Lasting
<1> QED
  BY <1>5, <1>6 DEF rs

LEMMA NewRequestTyped ==
    ASSUME Inv, NEW w \in Workers, At(w, "file") \/ At(w, "create")
    PROVE  NewRequest(w) \in Request
<1>1. job[w].pc \in {"file", "create"}
  BY DEF At
<1>2. /\ job[w].base \in Bases /\ job[w].user \in Users
      /\ job[w].type \in {"deletion", "orphan"}
  BY <1>1, AtWork, BaseAtHand DEF JobFits, Asking
<1> QED
  BY <1>2 DEF NewRequest, Request

LEMMA FileInv ==
    ASSUME Inv, NEW w \in Workers, File(w) \/ Create(w)
    PROVE  Inv'
<1> DEFINE old == job[w]
           n == Len(reqs) + 1
<1>0. old \in Job /\ JobFits(old, live, reqs) /\ old.pc \in {"file", "create"}
      /\ old.user \in Users
  BY AtWork DEF File, Create, At
<1>1. /\ UNCHANGED <<accounts, bases, sent, calls>>
      /\ reqs' = Append(reqs, NewRequest(w))
  BY DEF File, Create
<1>2. live' = live /\ sent' = sent /\ Typed
  BY <1>1, SameTyped DEF bases
<1>3. Lasting(live', reqs') /\ n \in Nat /\ n \in DOMAIN reqs'
  BY <1>1, <1>2, NewRequestTyped, AppendLasts DEF File, Create
<1>4. PICK pc \in {"open", "settle"} :
         job' = [job EXCEPT ![w].pc = pc, ![w].ids = {n}]
  BY DEF File, Create
<1> HIDE DEF n
<1> DEFINE j == [old EXCEPT !.pc = pc, !.ids = {n}]
<1>5. job' = [job EXCEPT ![w] = j]
  BY <1>4 DEF Inv, TypeOK
<1>6. j \in Job /\ j.pc = pc /\ j.user = old.user /\ j.ids = {n} /\ j.mails = old.mails
  BY <1>0, <1>3 DEF Job, Steps
<1>7. JobFits(old, live', reqs')
  BY <1>0, <1>3, FitsStill
<1> HIDE DEF j
<1>8. JobFits(j, live', reqs')
  BY <1>0, <1>3, <1>6, <1>7 DEF JobFits, DeleteTrue, Asking
<1> QED
  BY <1>2, <1>3, <1>5, <1>6, <1>8, InvAgain DEF Typed, Inv, TypeOK

LEMMA DecideInv ==
    ASSUME Inv, NEW w \in Workers, Decide(w)
    PROVE  Inv'
<1> DEFINE old == job[w]
<1>0. /\ old \in Job /\ JobFits(old, live, reqs) /\ old.pc = "decide"
      /\ old.user \in Users /\ old.base \in Bases
  BY AtWork, BaseAtHand DEF Decide, At
<1>1. /\ live' = live /\ reqs' = reqs /\ Typed /\ Lasting(live', reqs')
  <2>1. UNCHANGED <<accounts, bases, reqs, calls>>
    BY DEF Decide
  <2> QED
    BY <2>1, SameTyped, NothingUndone DEF bases
<1>2. /\ sent' \subseteq Mail
      /\ \A m \in sent' \ sent :
            CloseTrue(m, reqs') /\ (m.kind = "delete" => m.base \notin live')
  <2>1. sent' = sent \cup old.mails
    BY DEF Decide
  <2> QED
    BY <1>0, <1>1, <2>1, MailsTrue DEF Inv, TypeOK
<1>3. CASE Finish(w)
  BY <1>1, <1>2, <1>3, IdleFits, InvAgain DEF Finish, Typed
<1>4. CASE job' = [job EXCEPT ![w].pc = "autoOrphan", ![w].mails = {},
                              ![w].next = maintainer[old.base]]
  <2> DEFINE v == maintainer[old.base]
             j == [old EXCEPT !.pc = "autoOrphan", !.mails = {}, !.next = v]
  <2>1. job' = [job EXCEPT ![w] = j]
    BY <1>4 DEF Inv, TypeOK
  <2>2. v \in Users \cup {NULL}
    BY <1>0 DEF Inv, TypeOK
  <2> HIDE DEF v
  <2>3. /\ j \in Job /\ j.pc = "autoOrphan" /\ j.user = old.user /\ j.ids = old.ids
        /\ j.mails = {}
    BY <1>0, <2>2 DEF Job, Steps
  <2> HIDE DEF j
  <2>4. JobFits(j, live, reqs)
    BY <1>0, <2>3 DEF JobFits, Asking
  <2> QED
    BY <1>1, <1>2, <2>1, <2>3, <2>4, InvAgain DEF Typed
<1>5. CASE /\ old.type = "deletion"
           /\ job' = [job EXCEPT ![w].pc = "handle", ![w].mails = {}]
  <2> DEFINE j == [old EXCEPT !.pc = "handle", !.mails = {}]
  <2>1. job' = [job EXCEPT ![w] = j]
    BY <1>5 DEF Inv, TypeOK
  <2>2. /\ j \in Job /\ j.pc = "handle" /\ j.user = old.user /\ j.ids = old.ids
        /\ j.type = old.type /\ j.mails = {}
    BY <1>0 DEF Job, Steps
  <2> HIDE DEF j
  <2>3. JobFits(j, live, reqs)
    BY <1>0, <1>5, <2>2 DEF JobFits, Asking
  <2> QED
    BY <1>1, <1>2, <2>1, <2>2, <2>3, InvAgain DEF Typed
<1> QED
  BY <1>3, <1>4, <1>5 DEF Decide

LEMMA HandleInv ==
    ASSUME Inv, NEW w \in Workers, Handle(w)
    PROVE  Inv'
<1> DEFINE old == job[w]
           ids == PendingIds(old.type, old.base)
<1>0. /\ old \in Job /\ JobFits(old, live, reqs) /\ old.pc = "handle"
      /\ old.user \in Users
  BY AtWork DEF Handle, At
<1>1. live' = live /\ reqs' = reqs /\ sent' = sent /\ Typed /\ Lasting(live', reqs')
  <2>1. UNCHANGED <<accounts, bases, reqs, sent, calls>>
    BY DEF Handle
  <2> QED
    BY <2>1, SameTyped, NothingUndone DEF bases
<1>2. ids \subseteq DOMAIN reqs /\ ids \subseteq Nat
  BY DEF PendingIds, Inv, TypeOK
<1>3. PICK pc \in {"create", "settle"} :
         job' = [job EXCEPT ![w].pc = pc, ![w].ids = ids]
  BY DEF Handle
<1> HIDE DEF ids
<1> DEFINE j == [old EXCEPT !.pc = pc, !.ids = ids]
<1>4. job' = [job EXCEPT ![w] = j]
  BY <1>3 DEF Inv, TypeOK
<1>5. /\ j \in Job /\ j.pc = pc /\ j.user = old.user /\ j.ids = ids
      /\ j.type = old.type /\ j.mails = old.mails
  BY <1>0, <1>2 DEF Job, Steps
<1> HIDE DEF j
<1>6. JobFits(j, live, reqs)
  BY <1>0, <1>2, <1>5 DEF JobFits, DeleteTrue, Asking
<1> QED
  BY <1>1, <1>4, <1>5, <1>6, InvAgain DEF Typed, Inv, TypeOK

LEMMA SettleInv ==
    ASSUME Inv, NEW w \in Workers, AutoOrphan(w) \/ Close(w) \/ Settle(w)
    PROVE  Inv'
<1> DEFINE old == job[w]
<1>0. old.pc \in {"autoOrphan", "close", "settle"} /\ old.ids \subseteq DOMAIN reqs
  BY AtWork DEF AutoOrphan, Close, Settle
<1>1. PICK s \in {"Accepted", "Rejected"} : reqs' = WithStatus(old.ids, s)
  BY DEF AutoOrphan, Close, Settle
<1>2. live' = live /\ sent' = sent /\ Goto(w, "tell")
  BY DEF AutoOrphan, Close, Settle, bases
<1>3. Typed
  BY DEF AutoOrphan, Close, Settle, Typed, accounts, bases, Inv, TypeOK
<1>4. Lasting(live', reqs') /\ \A i \in old.ids : reqs'[i].status # "Pending"
  BY <1>0, <1>1, <1>2, WithStatusLasts
<1> QED
  BY <1>0, <1>2, <1>3, <1>4, GotoInv DEF Steps, Asking

LEMMA TellInv ==
    ASSUME Inv, NEW w \in Workers, Tell(w)
    PROVE  Inv'
<1> DEFINE old == job[w]
           note == WatcherMail("delete", old.base, old.user)
<1>0. /\ old \in Job /\ JobFits(old, live, reqs) /\ old.pc = "tell"
      /\ old.user \in Users /\ old.ids \subseteq DOMAIN reqs
  BY AtWork DEF Tell
<1>1. /\ live' = live /\ reqs' = reqs /\ sent' = sent /\ Typed /\ Lasting(live', reqs')
  <2>1. UNCHANGED <<accounts, bases, reqs, sent, calls>>
    BY DEF Tell
  <2> QED
    BY <2>1, SameTyped, NothingUndone DEF bases
<1>2. Harmless(Closures(w), reqs)
  <2>1. \A i \in old.ids : Harmless({RequestMail("close", i)}, reqs)
    BY <1>0, RequestMailFits DEF JobFits
  <2> QED
    BY <2>1 DEF Harmless, Closures
<1>3. CASE /\ old.base \in live
           /\ Build(w, Closures(w) \cup {note}, "delete")
  <2> DEFINE M == Closures(w) \cup {note}
             j == [old EXCEPT !.pc = "delete", !.mails = @ \cup M]
  <2>1. note \in Mail /\ note.kind = "delete" /\ note.base = old.base
    <3>1. old.base \in Bases
      BY <1>3 DEF Inv, TypeOK
    <3>2. Watchers[old.base] \subseteq Users
      BY <3>1, BasesAssumption
    <3> QED
      BY <3>1, <3>2 DEF WatcherMail, MailOf, Mail
  <2> HIDE DEF note
  <2>2. /\ M \subseteq Mail
        /\ \A m \in M : CloseTrue(m, reqs) /\ (m.kind = "delete" => m.base = old.base)
    BY <1>2, <2>1 DEF Harmless, CloseTrue
  <2>3. job' = [job EXCEPT ![w] = j]
    BY <1>3 DEF Build, Inv, TypeOK
  <2> HIDE DEF M
  <2>4. /\ j \in Job /\ j.pc = "delete" /\ j.user = old.user /\ j.ids = old.ids
        /\ j.mails = old.mails \cup M /\ j.base = old.base
    BY <1>0, <2>2 DEF Job, Steps
  <2> HIDE DEF j
  <2>5. JobFits(j, live, reqs)
    <3>1. \A m \in old.mails : CloseTrue(m, reqs) /\ m.kind # "delete"
      BY <1>0 DEF JobFits, DeleteTrue
    <3>2. \A m \in j.mails : CloseTrue(m, reqs) /\ DeleteTrue(m, j, live)
      BY <2>2, <2>4, <3>1 DEF DeleteTrue
    <3> QED
      BY <1>0, <2>4, <3>2 DEF JobFits, Asking
  <2> QED
    BY <1>1, <2>3, <2>4, <2>5, InvAgain DEF Typed, Inv, TypeOK
<1>4. CASE \E pc \in {"orphan", "send"} : Build(w, Closures(w), pc)
  BY <1>0, <1>1, <1>2, <1>4, BuildInv DEF Steps, Asking
<1> QED
  BY <1>3, <1>4 DEF Tell

LEMMA DeleteInv ==
    ASSUME Inv, NEW w \in Workers, Delete(w)
    PROVE  Inv'
<1> DEFINE old == job[w]
           b == old.base
           j == [old EXCEPT !.pc = "send"]
<1>0. /\ old \in Job /\ JobFits(old, live, reqs) /\ old.pc = "delete"
      /\ old.user \in Users /\ b \in Bases
  BY AtWork, BaseAtHand DEF Delete, At
<1>1. /\ live' = live \ {b} /\ sent' = sent
      /\ reqs' = [i \in DOMAIN reqs |-> IF reqs[i].base = b
                                        THEN [reqs[i] EXCEPT !.base = NULL]
                                        ELSE reqs[i]]
  BY DEF Delete
<1>2. Typed
  BY <1>0 DEF Delete, Typed, accounts, Inv, TypeOK
<1>3. Lasting(live', reqs')
  <2>1. reqs \in Seq(Request) /\ DOMAIN reqs = 1 .. Len(reqs) /\ Len(reqs) \in Nat
    BY DEF Inv, TypeOK
  <2>2. \A i \in DOMAIN reqs : /\ reqs[i] \in Request
                               /\ [reqs[i] EXCEPT !.base = NULL] \in Request
                               /\ [reqs[i] EXCEPT !.base = NULL].status = reqs[i].status
    <3>1. \A r \in Request : /\ [r EXCEPT !.base = NULL] \in Request
                             /\ [r EXCEPT !.base = NULL].status = r.status
      BY DEF Request
    <3>2. \A i \in DOMAIN reqs : reqs[i] \in Request
      BY <2>1
    <3> QED
      BY <3>1, <3>2
  <2>3. reqs' \in [1 .. Len(reqs) -> Request]
    BY <1>1, <2>1, <2>2
  <2>4. reqs' \in Seq(Request) /\ DOMAIN reqs' = DOMAIN reqs
    BY <2>1, <2>3
  <2>5. \A i \in DOMAIN reqs : reqs'[i].status = reqs[i].status
    BY <1>1, <2>2
  <2> QED
    BY <1>1, <2>4, <2>5 DEF Lasting
<1>4. job' = [job EXCEPT ![w] = j]
  BY DEF Delete, Goto, Inv, TypeOK
<1>5. /\ j \in Job /\ j.pc = "send" /\ j.user = old.user /\ j.ids = old.ids
      /\ j.mails = old.mails
  BY <1>0 DEF Job, Steps
<1>6. JobFits(old, live', reqs')
  BY <1>0, <1>3, FitsStill
<1>7. \A m \in old.mails : m.kind = "delete" => m.base \notin live'
  BY <1>0, <1>1 DEF JobFits, DeleteTrue
<1> HIDE DEF j
<1>8. JobFits(j, live', reqs')
  BY <1>0, <1>5, <1>6, <1>7 DEF JobFits, DeleteTrue, Asking
<1> QED
  BY <1>1, <1>2, <1>3, <1>4, <1>5, <1>8, InvAgain DEF Typed, Inv, TypeOK

-----------------------------------------------------------------------------
(* The theorems.                                                            *)

LEMMA SuspensionInv ==
    ASSUME Inv, NEW u \in Users, Suspend(u) \/ Unsuspend(u)
    PROVE  Inv'
<1>1. UNCHANGED <<keys, bases, reqs, sent, calls, job>>
  BY DEF Suspend, Unsuspend
<1>2. suspended' \subseteq barred' /\ barred' \subseteq Users
  BY DEF Suspend, Unsuspend, Inv, TypeOK
<1>3. TypeOK'
  BY <1>1, <1>2 DEF bases, Inv, TypeOK
<1> QED
  BY <1>1, <1>3 DEF bases, Inv, AnnouncedWhenDone

LEMMA InitInv == Init => Inv
<1> SUFFICES ASSUME Init PROVE Inv
  OBVIOUS
<1>1. TypeOK
  BY IdleFits, BasesAssumption DEF Init, TypeOK
<1> QED
  BY <1>1, IdleFits DEF Init, Inv, AnnouncedWhenDone

LEMMA NextInv == Inv /\ [Next]_vars => Inv'
<1> SUFFICES ASSUME Inv, [Next]_vars PROVE Inv'
  OBVIOUS
<1>1. CASE UNCHANGED vars
  BY <1>1 DEF vars, accounts, bases, Inv, TypeOK, AnnouncedWhenDone
<1>2. ASSUME NEW u \in Users, Suspend(u) \/ Unsuspend(u) PROVE Inv'
  BY <1>2, SuspensionInv
<1>3. ASSUME NEW w \in Workers, NEW u \in Users, Serve(w, u) PROVE Inv'
  BY <1>3, ServeInv
<1>4. ASSUME NEW w \in Workers, Step(w) PROVE Inv'
  BY <1>4, ReadInv, IssueKeyInv, OwnerInv, RemoveComaintainersInv,
     AddComaintainerInv, SendInv, FileInv, DecideInv, HandleInv, SettleInv,
     TellInv, DeleteInv
  DEF Step
<1> QED
  BY <1>1, <1>2, <1>3, <1>4 DEF Next

LEMMA Invariant == Spec => []Inv
BY InitInv, NextInv, PTL DEF Spec

(* The tables and the jobs keep their types.                                *)
THEOREM TypeCorrect == Spec => []TypeOK
<1>1. Inv => TypeOK
  BY DEF Inv
<1> QED
  BY <1>1, Invariant, PTL

(* No mail ever says of a request that it is closed while it is pending, or *)
(* of a package base that it is deleted while it is there.                  *)
THEOREM MailsTellTheTruth == Spec => []AnnouncedWhenDone
<1>1. Inv => AnnouncedWhenDone
  BY DEF Inv
<1> QED
  BY <1>1, Invariant, PTL

(* Whoever leaves the list of co-maintainers of a package base that stays   *)
(* has a mail about it on the way.                                          *)
THEOREM RemovalsAreTold == Spec => RemovedAreTold
<1> DEFINE A == \A b \in live' : \A u \in comaint[b] \ comaint'[b] :
                   \E w \in Workers :
                      PersonalMail("remove", b, 0, u) \in job'[w].mails
<1>1. Inv /\ [Next]_vars => [A]_vars
  <2> SUFFICES ASSUME Inv, [Next]_vars,
                      NEW b \in live', NEW u \in comaint[b] \ comaint'[b]
               PROVE  \E w \in Workers :
                         PersonalMail("remove", b, 0, u) \in job'[w].mails
    OBVIOUS
  <2>1. b \in Bases /\ comaint \in [Bases -> SUBSET Users] /\ b \in live'
    BY NextInv DEF Inv, TypeOK
  <2>2. \E w \in Workers : \/ Promote(w) \/ RemoveComaintainers(w)
                           \/ AddComaintainer(w) \/ Delete(w)
    <3>1. comaint' # comaint
      OBVIOUS
    <3>2. ~UNCHANGED vars
      BY <3>1 DEF vars, bases
    <3>3. ASSUME NEW v \in Users PROVE ~Suspend(v) /\ ~Unsuspend(v)
      BY <3>1 DEF Suspend, Unsuspend, bases
    <3>4. ASSUME NEW w \in Workers, NEW v \in Users PROVE ~Serve(w, v)
      BY <3>1 DEF Serve, PassResetPost, ClosePost, AdoptPost, DisownPost,
                  ComaintPost, RequestPost, DeletePost, Push, Receive, bases
    <3>5. PICK w \in Workers : Step(w)
      BY <3>2, <3>3, <3>4 DEF Next
    <3>6. ~(IssueKey(w) \/ MailKey(w) \/ Adopt(w) \/ Adopted(w) \/ Disown(w)
            \/ Orphan(w) \/ SendRemoved(w) \/ MailAdded(w))
      BY <3>1 DEF IssueKey, MailKey, Adopt, Adopted, Disown, Orphan, SendRemoved,
                  MailAdded, bases
    <3>7. ~(File(w) \/ MailOpen(w) \/ Decide(w) \/ AutoOrphan(w) \/ Close(w)
            \/ Handle(w) \/ Create(w) \/ Settle(w) \/ Tell(w) \/ MailUpdate(w)
            \/ Send(w) \/ Vanished(w))
      BY <3>1 DEF File, MailOpen, Decide, AutoOrphan, Close, Handle, Create, Settle,
                  Tell, MailUpdate, Send, Vanished, bases
    <3> QED
      BY <3>5, <3>6, <3>7 DEF Step
  <2>3. PICK w \in Workers : \/ Promote(w) \/ RemoveComaintainers(w)
                             \/ AddComaintainer(w) \/ Delete(w)
    BY <2>2
  <2>4. ASSUME NEW M, NEW pc, Build(w, M, pc), PersonalMail("remove", b, 0, u) \in M
        PROVE  PersonalMail("remove", b, 0, u) \in job'[w].mails
    BY <2>4, AtWork DEF Build, Inv, TypeOK, Job
  <2>5. CASE Promote(w)
    <3>1. PICK v \in comaint[job[w].base] :
             /\ comaint' = [comaint EXCEPT ![job[w].base] = @ \ {v}]
             /\ Build(w, {PersonalMail("remove", job[w].base, 0, v)}, "send")
      BY <2>5 DEF Promote
    <3>2. b = job[w].base /\ u = v
      BY <2>1, <3>1
    <3> QED
      BY <2>4, <3>1, <3>2
  <2>6. CASE RemoveComaintainers(w)
    <3> DEFINE rows == job[w].drop \cap comaint[job[w].base]
               M == {PersonalMail("remove", job[w].base, 0, v) : v \in rows}
    <3>1. comaint' = [comaint EXCEPT ![job[w].base] = @ \ rows] /\ Build(w, M, "removed")
      BY <2>6 DEF RemoveComaintainers
    <3>2. b = job[w].base /\ u \in rows
      BY <2>1, <3>1
    <3> QED
      BY <2>4, <3>1, <3>2
  <2>7. CASE AddComaintainer(w)
    BY <2>1, <2>7 DEF AddComaintainer
  <2>8. CASE Delete(w)
    BY <2>1, <2>8 DEF Delete
  <2> QED
    BY <2>3, <2>5, <2>6, <2>7, <2>8
<1>2. Spec => [][A]_vars
  BY <1>1, Invariant, PTL DEF Spec
<1> QED
  BY <1>2 DEF RemovedAreTold

(* A step is a step of one process; mails that were sent stay sent.         *)
LEMMA StepLocal ==
    ASSUME Inv, NEW w \in Workers, Step(w)
    PROVE  /\ \A v \in Workers \ {w} : job'[v] = job[v]
           /\ sent \subseteq sent'
           /\ UNCHANGED <<suspended, barred, calls>>
<1> USE DEF Finish, Goto, Build, accounts, bases
<1>0. job \in [Workers -> Job]
  BY DEF Inv, TypeOK
<1>1. CASE IssueKey(w) \/ MailKey(w) \/ Adopt(w) \/ Adopted(w) \/ Orphan(w)
  BY <1>0, <1>1 DEF IssueKey, MailKey, Adopt, Adopted, Orphan
<1>2. CASE Disown(w)
  BY <1>0, <1>2 DEF Disown
<1>3. CASE Promote(w)
  BY <1>0, <1>3 DEF Promote
<1>4. CASE RemoveComaintainers(w)
  BY <1>0, <1>4 DEF RemoveComaintainers
<1>5. CASE SendRemoved(w) \/ AddComaintainer(w) \/ MailAdded(w)
  BY <1>0, <1>5 DEF SendRemoved, AddComaintainer, MailAdded
<1>6. CASE File(w) \/ MailOpen(w) \/ Decide(w)
  BY <1>0, <1>6 DEF File, MailOpen, Decide
<1>7. CASE AutoOrphan(w) \/ Close(w) \/ Handle(w) \/ Create(w) \/ Settle(w)
  BY <1>0, <1>7 DEF AutoOrphan, Close, Handle, Create, Settle
<1>8. CASE Tell(w) \/ Delete(w) \/ MailUpdate(w) \/ Send(w) \/ Vanished(w)
  BY <1>0, <1>8 DEF Tell, Delete, MailUpdate, Send, Vanished
<1> QED
  BY <1>1, <1>2, <1>3, <1>4, <1>5, <1>6, <1>7, <1>8 DEF Step

(* A newcomer is added, or there is none left.                              *)
LEMMA AddSteps ==
    ASSUME Inv, NEW w \in Workers, AddComaintainer(w)
    PROVE  /\ job[w].pc = "add" /\ job[w].base \in live
           /\ UNCHANGED <<live, keys, reqs, sent>>
           /\ job'[w].mails = job[w].mails /\ job'[w].base = job[w].base
           /\ job'[w].ids = job[w].ids /\ job'[w].op = job[w].op
           /\ \/ job'[w].pc = "send" /\ UNCHANGED comaint
              \/ \E u \in Users :
                    /\ job'[w].pc = "added" /\ job'[w].next = u
                    /\ comaint' = [comaint EXCEPT ![job[w].base] = @ \cup {u}]
<1> DEFINE old == job[w]
<1>0. job \in [Workers -> Job] /\ old \in Job
  BY AtWork DEF Inv, TypeOK
<1>1. /\ old.pc = "add" /\ old.base \in live
      /\ UNCHANGED <<live, keys, reqs, sent>>
  BY DEF AddComaintainer, At, accounts
<1>2. CASE UNCHANGED comaint /\ Goto(w, "send")
  BY <1>0, <1>1, <1>2 DEF Goto, Job
<1>3. CASE ~(UNCHANGED comaint /\ Goto(w, "send"))
  <2>1. PICK u \in old.add :
           /\ comaint' = [comaint EXCEPT ![old.base] = @ \cup {u}]
           /\ job' = [job EXCEPT ![w].pc = "added", ![w].next = u, ![w].add = @ \ {u}]
    BY <1>3 DEF AddComaintainer
  <2> DEFINE j == [old EXCEPT !.pc = "added", !.next = u, !.add = @ \ {u}]
  <2>2. job'[w] = j
    BY <1>0, <2>1
  <2>3. /\ j.pc = "added" /\ j.next = u /\ j.mails = old.mails /\ j.base = old.base
        /\ j.ids = old.ids /\ j.op = old.op
    BY <1>0 DEF Job
  <2>4. u \in Users
    BY <1>0 DEF Job
  <2> HIDE DEF j
  <2> QED
    BY <1>1, <2>1, <2>2, <2>3, <2>4
<1> QED
  BY <1>2, <1>3

-----------------------------------------------------------------------------
(* Reset keys.  Until the mail about the key on record is sent, some        *)
(* process is about to write it or to send it.                              *)

KeyMail(u) == PersonalMail("resetkey", NULL, keys[u], u)

KeyInHand(j, u) == \/ j.pc = "key" /\ j.user = u
                   \/ j.pc = "send" /\ KeyMail(u) \in j.mails

KeysInv ==
    /\ \A w \in Workers : job[w].pc \in {"issue", "key"} => job[w].base = NULL
    /\ \A u \in Users \ barred : \/ keys[u] = 0
                                 \/ KeyMail(u) \in sent
                                 \/ \E w \in Workers : KeyInHand(job[w], u)

(* What a process does that has no key in its hands.                        *)
LEMMA KeysKept ==
    ASSUME Inv, KeysInv, NEW w \in Workers,
           \A v \in Workers \ {w} : job'[v] = job[v],
           job'[w].pc \in {"issue", "key"} => job'[w].base = NULL,
           UNCHANGED keys, sent \subseteq sent', barred \subseteq barred',
           \A u \in Users \ barred' :
              KeyInHand(job[w], u) => KeyInHand(job[w], u)' \/ KeyMail(u)' \in sent'
    PROVE  KeysInv'
<1>1. \A v \in Workers : job'[v].pc \in {"issue", "key"} => job'[v].base = NULL
  BY DEF KeysInv
<1>2. ASSUME NEW u \in Users \ barred'
      PROVE  \/ keys'[u] = 0
             \/ KeyMail(u)' \in sent'
             \/ \E v \in Workers : KeyInHand(job[v], u)'
  <2>1. KeyMail(u)' = KeyMail(u)
    BY DEF KeyMail
  <2>2. CASE \E v \in Workers : KeyInHand(job[v], u)
    <3>1. PICK v \in Workers : KeyInHand(job[v], u)
      BY <2>2
    <3>2. CASE v = w
      BY <3>1, <3>2
    <3>3. CASE v # w
      BY <2>1, <3>1, <3>3 DEF KeyInHand
    <3> QED
      BY <3>2, <3>3
  <2> QED
    BY <2>1, <2>2 DEF KeysInv
<1> QED
  BY <1>1, <1>2 DEF KeysInv

LEMMA KeysStep == Inv /\ KeysInv /\ [Next]_vars => KeysInv'
<1> SUFFICES ASSUME Inv, KeysInv, [Next]_vars PROVE KeysInv'
  OBVIOUS
<1> USE DEF accounts, bases
<1>0. job \in [Workers -> Job]
  BY DEF Inv, TypeOK
<1>1. CASE UNCHANGED vars
  BY <1>1 DEF vars, KeysInv, KeyMail, KeyInHand
<1>2. ASSUME NEW u \in Users, Suspend(u) \/ Unsuspend(u) PROVE KeysInv'
  BY <1>2 DEF Suspend, Unsuspend, KeysInv, KeyMail, KeyInHand
<1>3. ASSUME NEW w \in Workers, NEW u \in Users, Serve(w, u) PROVE KeysInv'
  <2>1. ASSUME NEW j, Receive(w, j), j.pc \in {"issue", "key"} => j.base = NULL
        PROVE  KeysInv'
    <3>1. job[w].pc = "idle" /\ job'[w] = j /\ \A v \in Workers \ {w} : job'[v] = job[v]
      BY <1>0, <2>1 DEF Receive, Idle
    <3>2. UNCHANGED <<keys, sent, barred>>
      BY <2>1 DEF Receive
    <3> QED
      BY <2>1, <3>1, <3>2, KeysKept DEF KeyInHand
  <2>2. CASE PassResetPost(w, u) \/ \E i \in DOMAIN reqs : ClosePost(w, u, i)
    BY <2>1, <2>2 DEF PassResetPost, ClosePost, Call, Idle
  <2>3. ASSUME NEW b \in Bases, \/ AdoptPost(w, u, b) \/ DisownPost(w, u, b)
                               \/ DeletePost(w, u, b) \/ Push(w, u, b)
        PROVE  KeysInv'
    BY <2>1, <2>3 DEF AdoptPost, DisownPost, DeletePost, Push, Call, Idle
  <2>4. ASSUME NEW b \in Bases,
               \/ \E S \in SUBSET Users : ComaintPost(w, u, b, S)
               \/ \E t \in {"deletion", "orphan"} : RequestPost(w, u, b, t)
        PROVE  KeysInv'
    BY <2>1, <2>4 DEF ComaintPost, RequestPost, Call, Idle
  <2> QED
    BY <1>3, <2>2, <2>3, <2>4 DEF Serve
<1>4. ASSUME NEW w \in Workers, Step(w) PROVE KeysInv'
  <2>0. /\ \A v \in Workers \ {w} : job'[v] = job[v]
        /\ sent \subseteq sent'
        /\ UNCHANGED <<suspended, barred>>
    BY <1>4, StepLocal
  <2>00. job[w] \in Job /\ job[w].mails \subseteq Mail
    BY AtWork
  <2>1. CASE IssueKey(w)
    <3>1. /\ keys' = [keys EXCEPT ![job[w].user] = @ + 1] /\ job[w].pc = "issue"
          /\ job'[w].pc = "key" /\ job'[w].user = job[w].user /\ job'[w].base = job[w].base
      BY <1>0, <2>1, <2>00 DEF IssueKey, Goto, Job
    <3>2. job[w].base = NULL
      BY <3>1 DEF KeysInv
    <3>3. ASSUME NEW u \in Users \ barred', u # job[w].user
          PROVE  \/ keys'[u] = 0
                 \/ KeyMail(u)' \in sent'
                 \/ \E v \in Workers : KeyInHand(job[v], u)'
      <4>1. keys'[u] = keys[u] /\ KeyMail(u)' = KeyMail(u)
        BY <3>1, <3>3 DEF KeyMail, Inv, TypeOK
      <4>2. ~KeyInHand(job[w], u)
        BY <3>1 DEF KeyInHand
      <4>3. \A v \in Workers \ {w} : KeyInHand(job[v], u) => KeyInHand(job[v], u)'
        BY <2>0, <4>1 DEF KeyInHand
      <4> QED
        BY <2>0, <4>1, <4>2, <4>3 DEF KeysInv
    <3>4. KeyInHand(job[w], job[w].user)' \/ job[w].user \notin Users
      BY <3>1 DEF KeyInHand
    <3>5. \A u \in Users : u = job[w].user => \E v \in Workers : KeyInHand(job[v], u)'
      BY <3>1 DEF KeyInHand
    <3>6. \A v \in Workers : job'[v].pc \in {"issue", "key"} => job'[v].base = NULL
      BY <2>0, <3>1, <3>2 DEF KeysInv
    <3> QED
      BY <3>3, <3>5, <3>6 DEF KeysInv
  <2>2. CASE MailKey(w)
    <3>1. /\ UNCHANGED <<keys, sent>> /\ job[w].pc = "key"
          /\ job'[w].pc \notin {"issue", "key"}
          /\ Raises(job[w].user) \/ (job'[w].pc = "send" /\ KeyMail(job[w].user) \in job'[w].mails)
      BY <1>0, <2>2, <2>00 DEF MailKey, Finish, Build, Job, Idle, KeyMail
    <3>2. \A u \in Users \ barred' : ~Raises(u)
      BY <2>0 DEF Raises, Inv, TypeOK
    <3> QED
      BY <2>0, <3>1, <3>2, KeysKept DEF KeyInHand, KeyMail
  <2>3. CASE Send(w)
    <3>1. /\ UNCHANGED keys /\ job[w].pc = "send" /\ job'[w].pc = "idle"
          /\ job[w].mails \subseteq sent'
      BY <1>0, <2>3 DEF Send, Finish, Idle
    <3> QED
      BY <2>0, <3>1, KeysKept DEF KeyInHand, KeyMail
  <2>4. ASSUME job[w].pc \notin {"issue", "key", "send"}, UNCHANGED keys,
               job'[w].pc \notin {"issue", "key"}
        PROVE  KeysInv'
    BY <2>0, <2>4, KeysKept DEF KeyInHand
  <2> USE <1>0, <2>00, <2>4 DEF Finish, Goto, Build, At, Idle, Job
  <2>5. CASE Adopt(w) \/ Adopted(w) \/ Orphan(w)
    BY <2>5 DEF Adopt, Adopted, Orphan
  <2>6. CASE Disown(w) \/ Promote(w)
    <3>1. CASE Disown(w)
      BY <3>1 DEF Disown
    <3>2. CASE Promote(w)
      BY <3>2 DEF Promote
    <3> QED
      BY <2>6, <3>1, <3>2
  <2>7. CASE RemoveComaintainers(w)
    BY <2>7 DEF RemoveComaintainers
  <2>8. CASE SendRemoved(w) \/ AddComaintainer(w) \/ MailAdded(w)
    <3>1. CASE SendRemoved(w)
      BY <3>1 DEF SendRemoved
    <3>2. CASE AddComaintainer(w)
      BY <3>2, AddSteps
    <3>3. CASE MailAdded(w)
      BY <3>3 DEF MailAdded
    <3> QED
      BY <2>8, <3>1, <3>2, <3>3
  <2>9. CASE File(w) \/ MailOpen(w) \/ Decide(w)
    BY <2>9 DEF File, MailOpen, Decide
  <2>10. CASE AutoOrphan(w) \/ Close(w) \/ Handle(w) \/ Create(w) \/ Settle(w)
    BY <2>10 DEF AutoOrphan, Close, Handle, Create, Settle
  <2>11. CASE Tell(w) \/ Delete(w) \/ MailUpdate(w)
    BY <2>11 DEF Tell, Delete, MailUpdate
  <2>12. CASE Vanished(w)
    <3>1. job[w].base \in Bases /\ job[w].pc # "send" /\ UNCHANGED keys /\ job'[w].pc = "idle"
      BY <2>12 DEF Vanished
    <3>2. job[w].pc \notin {"issue", "key"}
      BY <3>1, NullAssumption DEF KeysInv
    <3> QED
      BY <3>1, <3>2
  <2> QED
    BY <1>4, <2>1, <2>2, <2>3, <2>5, <2>6, <2>7, <2>8, <2>9, <2>10, <2>11, <2>12 DEF Step
<1> QED
  BY <1>1, <1>2, <1>3, <1>4 DEF Next

(* However many ask for a reset key of one account at once: the account     *)
(* gets a mail with the key that is on record, unless it was suspended.     *)
THEOREM ResetKeysAlwaysArrive == Spec => []ResetKeysArrive
<1>1. Init => KeysInv
  BY DEF Init, KeysInv, Idle
<1>2. KeysInv => ResetKeysArrive
  BY DEF KeysInv, ResetKeysArrive, Quiet, KeyInHand, KeyMail, Idle
<1> QED
  BY <1>1, <1>2, KeysStep, Invariant, PTL DEF Spec

-----------------------------------------------------------------------------
(* Newcomers.  Until the mail to somebody who was added is sent, it is in   *)
(* the hands of the process that added them, or about to be written by it.  *)

AddMail(b, u) == PersonalMail("add", b, 0, u)

AddInHand(j, b, u) ==
    /\ j.base = b
    /\ \/ j.pc = "added" /\ j.next = u
       \/ j.pc \in {"add", "added", "send"} /\ AddMail(b, u) \in j.mails

NewcomersInv ==
    barred = {} =>
        \A b \in live : \A u \in comaint[b] :
            \/ AddMail(b, u) \in sent
            \/ \E w \in Workers : AddInHand(job[w], b, u)

(* What a process does that adds nobody.                                    *)
LEMMA NewcomersKept ==
    ASSUME Inv, NewcomersInv, NEW w \in Workers,
           \A v \in Workers \ {w} : job'[v] = job[v],
           sent \subseteq sent', barred \subseteq barred', live' \subseteq live,
           \A b \in live' : comaint'[b] \subseteq comaint[b],
           barred' = {} => \A b \in live', u \in Users :
              AddInHand(job[w], b, u) => AddInHand(job'[w], b, u) \/ AddMail(b, u) \in sent'
    PROVE  NewcomersInv'
<1> SUFFICES ASSUME barred' = {}, NEW b \in live', NEW u \in comaint'[b]
             PROVE  \/ AddMail(b, u) \in sent'
                    \/ \E v \in Workers : AddInHand(job'[v], b, u)
  BY DEF NewcomersInv, AddInHand, AddMail
<1>1. b \in live /\ u \in comaint[b] /\ barred = {} /\ u \in Users
  BY DEF Inv, TypeOK
<1>2. CASE AddMail(b, u) \in sent
  BY <1>2
<1>3. CASE \E v \in Workers : AddInHand(job[v], b, u)
  <2>1. PICK v \in Workers : AddInHand(job[v], b, u)
    BY <1>3
  <2>2. CASE v = w
    BY <1>1, <2>1, <2>2
  <2>3. CASE v # w
    BY <2>1, <2>3
  <2> QED
    BY <2>2, <2>3
<1> QED
  BY <1>1, <1>2, <1>3 DEF NewcomersInv

LEMMA NewcomersStep == Inv /\ NewcomersInv /\ [Next]_vars => NewcomersInv'
<1> SUFFICES ASSUME Inv, NewcomersInv, [Next]_vars PROVE NewcomersInv'
  OBVIOUS
<1> USE DEF accounts, bases
<1>0. job \in [Workers -> Job] /\ live \subseteq Bases /\ comaint \in [Bases -> SUBSET Users]
  BY DEF Inv, TypeOK
<1>1. CASE UNCHANGED vars
  BY <1>1 DEF vars, NewcomersInv, AddInHand, AddMail
<1>2. ASSUME NEW u \in Users, Suspend(u) \/ Unsuspend(u) PROVE NewcomersInv'
  BY <1>2 DEF Suspend, Unsuspend, NewcomersInv, AddInHand, AddMail
<1>3. ASSUME NEW w \in Workers, NEW u \in Users, Serve(w, u) PROVE NewcomersInv'
  <2>1. ASSUME NEW j, Receive(w, j) PROVE NewcomersInv'
    <3>1. job[w].pc = "idle" /\ \A v \in Workers \ {w} : job'[v] = job[v]
      BY <1>0, <2>1 DEF Receive, Idle
    <3>2. UNCHANGED <<sent, barred, live, comaint>>
      BY <2>1 DEF Receive
    <3> QED
      BY <3>1, <3>2, NewcomersKept DEF AddInHand
  <2> QED
    BY <1>3, <2>1 DEF Serve, PassResetPost, ClosePost, AdoptPost, DisownPost,
                      ComaintPost, RequestPost, DeletePost, Push
<1>4. ASSUME NEW w \in Workers, Step(w) PROVE NewcomersInv'
  <2>0. /\ \A v \in Workers \ {w} : job'[v] = job[v]
        /\ sent \subseteq sent'
        /\ UNCHANGED <<suspended, barred>>
    BY <1>4, StepLocal
  <2>00. job[w] \in Job /\ job[w].mails \subseteq Mail
    BY AtWork
  <2>1. ASSUME job[w].pc \notin {"add", "added", "send"}, live' \subseteq live,
               \A b \in live' : comaint'[b] \subseteq comaint[b]
        PROVE  NewcomersInv'
    BY <2>0, <2>1, NewcomersKept DEF AddInHand
  <2>2. CASE AddComaintainer(w)
    <3>1. /\ job[w].pc = "add" /\ job[w].base \in live
          /\ UNCHANGED <<live, sent>>
          /\ job'[w].mails = job[w].mails /\ job'[w].base = job[w].base
      BY <2>2, AddSteps
    <3>2. CASE job'[w].pc = "send" /\ UNCHANGED comaint
      BY <2>0, <3>1, <3>2, NewcomersKept DEF AddInHand
    <3>3. CASE ~(job'[w].pc = "send" /\ UNCHANGED comaint)
      <4>1. PICK x \in Users :
               /\ job'[w].pc = "added" /\ job'[w].next = x
               /\ comaint' = [comaint EXCEPT ![job[w].base] = @ \cup {x}]
        BY <2>2, <3>3, AddSteps
      <4>2. \A b, u : AddInHand(job[w], b, u) => AddInHand(job'[w], b, u)
        BY <3>1, <4>1 DEF AddInHand
      <4>3. AddInHand(job'[w], job[w].base, x)
        BY <3>1, <4>1 DEF AddInHand
      <4> SUFFICES ASSUME barred' = {}, NEW b \in live', NEW u \in comaint'[b]
                   PROVE  \/ AddMail(b, u) \in sent'
                          \/ \E v \in Workers : AddInHand(job'[v], b, u)
        BY DEF NewcomersInv, AddInHand, AddMail
      <4>4. CASE b = job[w].base /\ u = x
        BY <4>3, <4>4
      <4>5. CASE ~(b = job[w].base /\ u = x)
        <5>1. b \in live /\ u \in comaint[b]
          BY <1>0, <3>1, <4>1, <4>5
        <5>2. \A v \in Workers : AddInHand(job[v], b, u) => AddInHand(job'[v], b, u)
          BY <2>0, <4>2
        <5> QED
          BY <2>0, <5>1, <5>2 DEF NewcomersInv
      <4> QED
        BY <4>4, <4>5
    <3> QED
      BY <3>2, <3>3
  <2>3. CASE MailAdded(w)
    <3>1. UNCHANGED <<live, comaint, sent>> /\ job[w].pc = "added" /\ job[w].base \in Bases
      BY <1>0, <2>3 DEF MailAdded, At
    <3>2. JobFits(job[w], live, reqs)
      BY AtWork
    <3>3. CASE Raises(job[w].next)
      <4>1. job[w].next \in suspended
        BY <3>3 DEF Raises
      <4>2. barred' # {}
        BY <2>0, <4>1 DEF Inv, TypeOK
      <4> QED
        BY <4>2 DEF NewcomersInv
    <3>4. CASE ~Raises(job[w].next)
      <4>1. /\ job'[w].pc = "add" /\ job'[w].base = job[w].base
            /\ job'[w].mails = job[w].mails \cup {AddMail(job[w].base, job[w].next)}
        BY <1>0, <2>00, <2>3, <3>4 DEF MailAdded, Build, Job, AddMail
      <4> QED
        BY <2>0, <3>1, <4>1, NewcomersKept DEF AddInHand
    <3> QED
      BY <3>3, <3>4
  <2>4. CASE Send(w)
    <3>1. /\ UNCHANGED <<live, comaint>> /\ job[w].pc = "send"
          /\ job[w].mails \subseteq sent'
      BY <2>4 DEF Send
    <3> QED
      BY <2>0, <3>1, NewcomersKept DEF AddInHand
  <2>5. CASE Vanished(w)
    <3>1. job[w].base \in Bases \ live /\ UNCHANGED <<live, comaint>>
      BY <2>5 DEF Vanished
    <3> QED
      BY <2>0, <3>1, NewcomersKept DEF AddInHand
  <2>6. CASE Promote(w)
    <3>1. job[w].pc = "promote" /\ UNCHANGED live
      BY <2>6 DEF Promote, At
    <3>2. \A b \in Bases : comaint'[b] \subseteq comaint[b]
      BY <1>0, <2>6 DEF Promote
    <3> QED
      BY <1>0, <2>1, <3>1, <3>2
  <2>7. CASE RemoveComaintainers(w)
    <3>1. job[w].pc = "remove" /\ UNCHANGED live
      BY <2>7 DEF RemoveComaintainers, At
    <3>2. \A b \in Bases : comaint'[b] \subseteq comaint[b]
      BY <1>0, <2>7 DEF RemoveComaintainers
    <3> QED
      BY <1>0, <2>1, <3>1, <3>2
  <2>8. CASE Delete(w)
    <3>1. job[w].pc = "delete" /\ live' \subseteq live
      BY <2>8 DEF Delete, At
    <3>2. \A b \in Bases : comaint'[b] \subseteq comaint[b]
      BY <1>0, <2>8 DEF Delete
    <3> QED
      BY <1>0, <2>1, <3>1, <3>2
  <2> USE <2>1 DEF At
  <2>9. CASE IssueKey(w) \/ MailKey(w) \/ Adopt(w) \/ Adopted(w) \/ Disown(w) \/ Orphan(w)
    BY <2>9 DEF IssueKey, MailKey, Adopt, Adopted, Disown, Orphan
  <2>10. CASE SendRemoved(w) \/ File(w) \/ MailOpen(w) \/ Decide(w) \/ AutoOrphan(w)
    BY <2>10 DEF SendRemoved, File, MailOpen, Decide, AutoOrphan
  <2>11. CASE Close(w) \/ Handle(w) \/ Create(w) \/ Settle(w) \/ Tell(w) \/ MailUpdate(w)
    BY <2>11 DEF Close, Handle, Create, Settle, Tell, MailUpdate
  <2> QED
    BY <1>4, <2>2, <2>3, <2>4, <2>5, <2>6, <2>7, <2>8, <2>9, <2>10, <2>11 DEF Step
<1> QED
  BY <1>1, <1>2, <1>3, <1>4 DEF Next

(* As long as nobody has been suspended, every co-maintainer of a package   *)
(* base was told, whatever was added, removed and deleted at the same time. *)
THEOREM NewcomersAreTold == Spec => []NewcomersTold
<1>1. Init => NewcomersInv
  BY DEF Init, NewcomersInv
<1>2. NewcomersInv => NewcomersTold
  BY DEF NewcomersInv, NewcomersTold, Quiet, AddInHand, AddMail, Idle
<1> QED
  BY <1>1, <1>2, NewcomersStep, Invariant, PTL DEF Spec

-----------------------------------------------------------------------------
(* Requesters.  From the transaction that decides a request to the mail     *)
(* that tells its author, the author is in the hands of the process that    *)
(* decided it.                                                              *)

(* The mail m tells who filed the request i that it was decided.            *)
Tells(m, i) == m.kind = "close" /\ m.no = i /\ reqs[i].by \in m.to
Told(i) == \E m \in sent : Tells(m, i)

TellInHand(j, i) ==
    /\ i \in j.ids
    /\ \/ j.pc = "tell"
       \/ j.pc \in {"send", "delete", "orphan"} /\ \E m \in j.mails : Tells(m, i)

(* The requests at hand are about the package base at hand.                 *)
SameBase(j) == j.base # NULL => \A i \in j.ids : reqs[i].base \in {NULL, j.base}

ReqInv ==
    /\ \A w \in Workers : SameBase(job[w])
    /\ \A i \in DOMAIN reqs :
          /\ reqs[i].base \in live \cup {NULL}
          /\ \/ reqs[i].status = "Pending"
             \/ reqs[i].base = NULL
             \/ reqs[i].by \in barred
             \/ Told(i)
             \/ \E w \in Workers : TellInHand(job[w], i)

(* The step of w keeps the rows, and loses no author it had in its hands.   *)
LEMMA ReqKept ==
    ASSUME Inv, ReqInv, NEW w \in Workers,
           \A v \in Workers \ {w} : job'[v] = job[v],
           sent \subseteq sent', barred \subseteq barred',
           DOMAIN reqs \subseteq DOMAIN reqs',
           \A i \in DOMAIN reqs : /\ reqs'[i].by = reqs[i].by
                                  /\ reqs'[i].base \in {reqs[i].base, NULL},
           \A i \in DOMAIN reqs' : reqs'[i].base \in live' \cup {NULL},
           SameBase(job[w])',
           \A i \in DOMAIN reqs' :
              i \notin DOMAIN reqs \/ reqs[i].status = "Pending" =>
                 reqs'[i].status = "Pending" \/ TellInHand(job[w], i)',
           \A i \in DOMAIN reqs :
              TellInHand(job[w], i) => \/ reqs'[i].base = NULL
                                       \/ reqs'[i].by \in barred'
                                       \/ Told(i)'
                                       \/ TellInHand(job[w], i)'
    PROVE  ReqInv'
<1>1. ASSUME NEW v \in Workers PROVE SameBase(job[v])'
  <2>1. CASE v = w
    BY <2>1
  <2>2. CASE v # w
    <3>1. job[v].ids \subseteq DOMAIN reqs /\ SameBase(job[v]) /\ job'[v] = job[v]
      BY <2>2, AtWork DEF ReqInv
    <3> QED
      BY <3>1 DEF SameBase
  <2> QED
    BY <2>1, <2>2
<1>2. ASSUME NEW i \in DOMAIN reqs'
      PROVE  \/ reqs'[i].status = "Pending"
             \/ reqs'[i].base = NULL
             \/ reqs'[i].by \in barred'
             \/ Told(i)'
             \/ \E v \in Workers : TellInHand(job[v], i)'
  <2>1. CASE i \notin DOMAIN reqs \/ reqs[i].status = "Pending"
    BY <2>1
  <2>2. CASE i \in DOMAIN reqs /\ reqs[i].status # "Pending"
    <3>0. reqs'[i].by = reqs[i].by /\ reqs'[i].base \in {reqs[i].base, NULL}
      BY <2>2
    <3>1. CASE reqs[i].base = NULL \/ reqs[i].by \in barred
      BY <3>0, <3>1
    <3>2. CASE Told(i)
      BY <3>0, <3>2 DEF Told, Tells
    <3>3. CASE \E v \in Workers : TellInHand(job[v], i)
      <4>1. PICK v \in Workers : TellInHand(job[v], i)
        BY <3>3
      <4>2. CASE v = w
        BY <2>2, <4>1, <4>2
      <4>3. CASE v # w
        BY <3>0, <4>1, <4>3 DEF TellInHand, Tells
      <4> QED
        BY <4>2, <4>3
    <3> QED
      BY <2>2, <3>1, <3>2, <3>3 DEF ReqInv
  <2> QED
    BY <2>1, <2>2
<1> QED
  BY <1>1, <1>2 DEF ReqInv

(* A step that writes neither requests nor package bases, of a process that *)
(* has nobody to tell.                                                      *)
LEMMA ReqElsewhere ==
    ASSUME Inv, ReqInv, NEW w \in Workers,
           \A v \in Workers \ {w} : job'[v] = job[v],
           sent \subseteq sent', UNCHANGED <<reqs, live, barred>>,
           job[w].pc \notin {"tell", "send", "delete", "orphan"},
           SameBase(job'[w])
    PROVE  ReqInv'
<1>1. SameBase(job[w])'
  BY DEF SameBase
<1>2. \A i \in DOMAIN reqs : /\ reqs'[i] = reqs[i] /\ ~TellInHand(job[w], i)
                             /\ reqs[i].base \in live \cup {NULL}
  BY DEF TellInHand, ReqInv
<1> QED
  BY <1>1, <1>2, ReqKept

LEMMA ReqServe ==
    ASSUME Inv, ReqInv, NEW w \in Workers, NEW u \in Users, Serve(w, u)
    PROVE  ReqInv'
<1>1. ASSUME NEW j, Receive(w, j), j.base = NULL \/ j.ids = {} PROVE ReqInv'
  <2>1. job[w].pc = "idle" /\ job'[w] = j /\ \A v \in Workers \ {w} : job'[v] = job[v]
    BY <1>1 DEF Receive, Idle, Inv, TypeOK
  <2>2. UNCHANGED <<sent, barred, reqs, live>>
    BY <1>1 DEF Receive, accounts, bases
  <2> QED
    BY <1>1, <2>1, <2>2, ReqElsewhere DEF SameBase
<1>2. CASE PassResetPost(w, u) \/ \E i \in DOMAIN reqs : ClosePost(w, u, i)
  BY <1>1, <1>2 DEF PassResetPost, ClosePost, Call, Idle
<1>3. ASSUME NEW b \in Bases, \/ AdoptPost(w, u, b) \/ DisownPost(w, u, b)
                              \/ DeletePost(w, u, b) \/ Push(w, u, b)
      PROVE  ReqInv'
  BY <1>1, <1>3 DEF AdoptPost, DisownPost, DeletePost, Push, Call, Idle
<1>4. ASSUME NEW b \in Bases,
             \/ \E S \in SUBSET Users : ComaintPost(w, u, b, S)
             \/ \E t \in {"deletion", "orphan"} : RequestPost(w, u, b, t)
      PROVE  ReqInv'
  BY <1>1, <1>4 DEF ComaintPost, RequestPost, Call, Idle
<1> QED
  BY <1>2, <1>3, <1>4 DEF Serve

(* The steps that decide what the process has at hand.                      *)
LEMMA ReqSettle ==
    ASSUME Inv, ReqInv, NEW w \in Workers, AutoOrphan(w) \/ Close(w) \/ Settle(w)
    PROVE  ReqInv'
<1> USE DEF accounts, bases
<1>0. /\ job[w] \in Job /\ job[w].ids \subseteq DOMAIN reqs
      /\ job[w].pc \in {"autoOrphan", "close", "settle"}
      /\ reqs \in Seq(Request)
  BY AtWork DEF AutoOrphan, Close, Settle, Inv, TypeOK
<1>1. PICK s \in {"Accepted", "Rejected"} : reqs' = WithStatus(job[w].ids, s)
  BY DEF AutoOrphan, Close, Settle
<1>2. Goto(w, "tell") /\ UNCHANGED <<live, sent, barred>>
  BY DEF AutoOrphan, Close, Settle
<1>3. /\ job'[w].pc = "tell" /\ job'[w].ids = job[w].ids /\ job'[w].base = job[w].base
      /\ \A v \in Workers \ {w} : job'[v] = job[v]
  BY <1>0, <1>2 DEF Goto, Job, Inv, TypeOK
<1>4. /\ DOMAIN reqs' = DOMAIN reqs
      /\ \A i \in DOMAIN reqs :
            /\ reqs[i].base \in live' \cup {NULL}
            /\ reqs'[i].by = reqs[i].by /\ reqs'[i].base = reqs[i].base
            /\ i \notin job[w].ids => reqs'[i].status = reqs[i].status
  <2>1. \A i \in DOMAIN reqs : reqs[i] \in Request
    BY <1>0
  <2>2. /\ DOMAIN reqs' = DOMAIN reqs
        /\ \A i \in DOMAIN reqs : reqs'[i] = IF i \in job[w].ids
                                             THEN [reqs[i] EXCEPT !.status = s]
                                             ELSE reqs[i]
    BY <1>1 DEF WithStatus
  <2>3. \A i \in DOMAIN reqs : reqs[i].base \in live' \cup {NULL}
    BY <1>2 DEF ReqInv
  <2> QED
    BY <2>1, <2>2, <2>3 DEF Request
<1>5. SameBase(job[w])'
  BY <1>0, <1>3, <1>4 DEF ReqInv, SameBase
<1>6. \A i \in DOMAIN reqs : ~TellInHand(job[w], i)
  BY <1>0 DEF TellInHand
<1>7. \A i \in job[w].ids : TellInHand(job[w], i)'
  BY <1>3 DEF TellInHand
<1> HIDE DEF TellInHand
<1> QED
  BY <1>0, <1>2, <1>3, <1>4, <1>5, <1>6, <1>7, ReqKept

(* A new request is pending.                                                *)
LEMMA ReqFile ==
    ASSUME Inv, ReqInv, NEW w \in Workers, File(w) \/ Create(w)
    PROVE  ReqInv'
<1> USE DEF accounts, bases
<1> DEFINE r == NewRequest(w)
           n == Len(reqs) + 1
<1>0. /\ job[w] \in Job /\ job[w].pc \in {"file", "create"} /\ job[w].base \in live
      /\ reqs \in Seq(Request) /\ r \in Request
  BY AtWork, NewRequestTyped DEF File, Create, At, Inv, TypeOK
<1>1. /\ reqs' = Append(reqs, r) /\ UNCHANGED <<live, sent, barred>>
      /\ job'[w].ids = {n} /\ job'[w].base = job[w].base
      /\ \A v \in Workers \ {w} : job'[v] = job[v]
  BY <1>0 DEF File, Create, Job, Inv, TypeOK
<1>2. r.status = "Pending" /\ r.base = job[w].base
  BY DEF NewRequest
<1> HIDE DEF r
<1>3. /\ DOMAIN reqs' = DOMAIN reqs \cup {n} /\ n \notin DOMAIN reqs
      /\ reqs'[n] = r /\ \A i \in DOMAIN reqs : reqs'[i] = reqs[i]
  BY <1>0, <1>1
<1>4. \A i \in DOMAIN reqs : /\ ~TellInHand(job[w], i)
                             /\ reqs[i].base \in live \cup {NULL}
  BY <1>0 DEF TellInHand, ReqInv
<1>5. SameBase(job[w])'
  BY <1>1, <1>2, <1>3 DEF SameBase
<1> HIDE DEF n
<1> QED
  BY <1>0, <1>1, <1>2, <1>3, <1>4, <1>5, ReqKept

LEMMA ReqTell ==
    ASSUME Inv, ReqInv, NEW w \in Workers, Tell(w)
    PROVE  ReqInv'
<1> USE DEF accounts, bases
<1>0. /\ job[w] \in Job /\ job[w].pc = "tell" /\ job[w].ids \subseteq DOMAIN reqs
      /\ UNCHANGED <<reqs, live, sent, barred>> /\ reqs \in Seq(Request)
      /\ suspended \subseteq barred
  BY AtWork DEF Tell, Inv, TypeOK
<1>1. \E pc \in {"send", "orphan", "delete"} :
         \E more : Build(w, Closures(w) \cup more, pc)
  <2>1. Build(w, Closures(w), "send") => Build(w, Closures(w) \cup {}, "send")
    OBVIOUS
  <2>2. Build(w, Closures(w), "orphan") => Build(w, Closures(w) \cup {}, "orphan")
    OBVIOUS
  <2> HIDE DEF accounts, bases
  <2> QED
    BY <2>1, <2>2 DEF Tell
<1>2. /\ job'[w].pc \in {"send", "orphan", "delete"}
      /\ job'[w].ids = job[w].ids /\ job'[w].base = job[w].base
      /\ Closures(w) \subseteq job'[w].mails
      /\ \A v \in Workers \ {w} : job'[v] = job[v]
  BY <1>0, <1>1 DEF Build, Job, Inv, TypeOK
<1>3. SameBase(job[w])'
  BY <1>0, <1>2 DEF ReqInv, SameBase
<1>4. ASSUME NEW i \in job[w].ids, reqs[i].base # NULL, reqs[i].by \notin barred
      PROVE  TellInHand(job[w], i)'
  <2>0. reqs[i] \in Request
    BY <1>0
  <2>1. reqs[i].by \in Users /\ reqs[i].by # NULL
    BY <2>0, NullAssumption DEF Request
  <2>2. Tells(RequestMail("close", i), i)
    BY <1>0, <1>4, <2>1 DEF Tells, RequestMail, MailOf
  <2>3. RequestMail("close", i) \in job'[w].mails
    BY <1>2 DEF Closures
  <2> QED
    BY <1>0, <1>2, <2>2, <2>3 DEF TellInHand, Tells
<1>5. \A i \in DOMAIN reqs : reqs[i].base \in live \cup {NULL}
  BY DEF ReqInv
<1>6. \A i \in DOMAIN reqs : TellInHand(job[w], i) => i \in job[w].ids
  BY DEF TellInHand
<1> QED
  BY <1>0, <1>2, <1>3, <1>4, <1>5, <1>6, ReqKept

(* The mails in the hands of a process stay there until they are sent.      *)
LEMMA ReqCarry ==
    ASSUME Inv, ReqInv, NEW w \in Workers, Orphan(w) \/ Send(w)
    PROVE  ReqInv'
<1> USE DEF accounts, bases
<1>0. /\ job[w] \in Job /\ job[w].ids \subseteq DOMAIN reqs
      /\ job[w].pc \in {"orphan", "send"}
      /\ UNCHANGED <<reqs, live, barred>> /\ sent \subseteq sent'
      /\ \A v \in Workers \ {w} : job'[v] = job[v]
  BY AtWork DEF Orphan, Send, At, Goto, Finish, Inv, TypeOK
<1>1. \A i \in DOMAIN reqs : reqs[i].base \in live \cup {NULL}
  BY DEF ReqInv
<1>2. CASE Orphan(w)
  <2>1. /\ job[w].pc = "orphan" /\ job'[w].pc = "send" /\ job'[w].ids = job[w].ids
        /\ job'[w].base = job[w].base /\ job'[w].mails = job[w].mails
    BY <1>0, <1>2 DEF Orphan, At, Goto, Job, Inv, TypeOK
  <2>2. SameBase(job[w])'
    BY <1>0, <2>1 DEF ReqInv, SameBase
  <2>3. \A i \in DOMAIN reqs : TellInHand(job[w], i) => TellInHand(job[w], i)'
    BY <1>0, <2>1 DEF TellInHand, Tells
  <2> QED
    BY <1>0, <1>1, <2>2, <2>3, ReqKept
<1>3. CASE Send(w)
  <2>1. /\ job[w].pc = "send" /\ job'[w].ids = {} /\ job[w].mails \subseteq sent'
    BY <1>3 DEF Send, Finish, Idle, Inv, TypeOK
  <2>2. SameBase(job[w])'
    BY <2>1 DEF SameBase
  <2>3. \A i \in DOMAIN reqs : TellInHand(job[w], i) => Told(i)'
    BY <1>0, <2>1 DEF TellInHand, Told, Tells
  <2> QED
    BY <1>0, <1>1, <2>2, <2>3, ReqKept
<1> QED
  BY <1>2, <1>3

(* The requests of a package base outlive it without it.                    *)
LEMMA ReqDelete ==
    ASSUME Inv, ReqInv, NEW w \in Workers, Delete(w)
    PROVE  ReqInv'
<1> USE DEF accounts, bases
<1> DEFINE b == job[w].base
<1>0. /\ job[w] \in Job /\ job[w].pc = "delete" /\ job[w].ids \subseteq DOMAIN reqs
      /\ live' = live \ {b} /\ UNCHANGED <<sent, barred>> /\ reqs \in Seq(Request)
  BY AtWork DEF Delete, At, Inv, TypeOK
<1>1. /\ job'[w].pc = "send" /\ job'[w].ids = job[w].ids /\ job'[w].base = b
      /\ job'[w].mails = job[w].mails
      /\ \A v \in Workers \ {w} : job'[v] = job[v]
  BY <1>0 DEF Delete, Goto, Job, Inv, TypeOK
<1>2. /\ DOMAIN reqs' = DOMAIN reqs
      /\ \A i \in DOMAIN reqs : reqs'[i] = IF reqs[i].base = b
                                           THEN [reqs[i] EXCEPT !.base = NULL]
                                           ELSE reqs[i]
  BY DEF Delete
<1>3. \A i \in DOMAIN reqs :
         /\ reqs'[i].by = reqs[i].by /\ reqs'[i].status = reqs[i].status
         /\ reqs'[i].base = IF reqs[i].base = b THEN NULL ELSE reqs[i].base
  <2>1. \A i \in DOMAIN reqs : reqs[i] \in Request
    BY <1>0
  <2> QED
    BY <1>2, <2>1 DEF Request
<1>4. \A i \in DOMAIN reqs' : reqs'[i].base \in live' \cup {NULL}
  BY <1>0, <1>2, <1>3 DEF ReqInv
<1>5. SameBase(job[w])'
  BY <1>0, <1>1, <1>3 DEF ReqInv, SameBase
<1>6. \A i \in DOMAIN reqs : TellInHand(job[w], i) => TellInHand(job[w], i)'
  BY <1>0, <1>1, <1>3 DEF TellInHand, Tells
<1> HIDE DEF b
<1>7. \A i \in DOMAIN reqs : reqs'[i].base \in {reqs[i].base, NULL}
  BY <1>3
<1> QED
  BY <1>0, <1>1, <1>2, <1>3, <1>4, <1>5, <1>6, <1>7, ReqKept

(* The job of a package base that is gone had nobody left to tell.          *)
LEMMA ReqVanished ==
    ASSUME Inv, ReqInv, NEW w \in Workers, Vanished(w)
    PROVE  ReqInv'
<1>0. /\ job[w] \in Job /\ job[w].base \in Bases \ live
      /\ job[w].ids \subseteq DOMAIN reqs
      /\ UNCHANGED <<reqs, live, sent, barred>>
      /\ job'[w].ids = {} /\ \A v \in Workers \ {w} : job'[v] = job[v]
  BY AtWork DEF Vanished, Finish, Idle, accounts, bases, Inv, TypeOK
<1>1. \A i \in DOMAIN reqs : reqs[i].base \in live \cup {NULL}
  BY DEF ReqInv
<1>2. job[w].base # NULL
  BY <1>0, NullAssumption
<1>3. \A i \in job[w].ids : reqs[i].base = NULL
  BY <1>0, <1>1, <1>2 DEF ReqInv, SameBase
<1>4. SameBase(job[w])'
  BY <1>0 DEF SameBase
<1>5. \A i \in DOMAIN reqs : TellInHand(job[w], i) => reqs'[i].base = NULL
  BY <1>0, <1>3 DEF TellInHand
<1> QED
  BY <1>0, <1>1, <1>4, <1>5, ReqKept

LEMMA ReqHandle ==
    ASSUME Inv, ReqInv, NEW w \in Workers, Handle(w)
    PROVE  ReqInv'
<1>0. /\ job[w] \in Job /\ job[w].pc = "handle"
      /\ UNCHANGED <<reqs, live, sent, barred>>
      /\ job'[w].ids = PendingIds(job[w].type, job[w].base)
      /\ job'[w].base = job[w].base
      /\ \A v \in Workers \ {w} : job'[v] = job[v]
  BY AtWork DEF Handle, At, accounts, bases, Job, Inv, TypeOK
<1>1. SameBase(job'[w])
  BY <1>0 DEF SameBase, PendingIds
<1> QED
  BY <1>0, <1>1, ReqElsewhere

LEMMA ReqStep == Inv /\ ReqInv /\ [Next]_vars => ReqInv'
<1> SUFFICES ASSUME Inv, ReqInv, [Next]_vars PROVE ReqInv'
  OBVIOUS
<1>0. job \in [Workers -> Job]
  BY DEF Inv, TypeOK
<1>1. CASE UNCHANGED vars
  BY <1>1 DEF vars, accounts, bases, ReqInv, SameBase, TellInHand, Told, Tells
<1>2. ASSUME NEW u \in Users, Suspend(u) \/ Unsuspend(u) PROVE ReqInv'
  BY <1>2 DEF Suspend, Unsuspend, bases, ReqInv, SameBase, TellInHand, Told, Tells
<1>3. ASSUME NEW w \in Workers, NEW u \in Users, Serve(w, u) PROVE ReqInv'
  BY <1>3, ReqServe
<1>4. ASSUME NEW w \in Workers, Step(w) PROVE ReqInv'
  <2>0. /\ \A v \in Workers \ {w} : job'[v] = job[v]
        /\ sent \subseteq sent'
        /\ UNCHANGED <<suspended, barred>>
    BY <1>4, StepLocal
  <2>00. job[w] \in Job
    BY AtWork
  <2>1. ASSUME job[w].pc \notin {"tell", "send", "delete", "orphan"},
               UNCHANGED <<reqs, live>>,
               job'[w] = Idle \/ (job'[w].ids = job[w].ids /\ job'[w].base = job[w].base)
        PROVE  ReqInv'
    <3>1. SameBase(job'[w])
      BY <2>1 DEF ReqInv, SameBase, Idle
    <3> QED
      BY <2>0, <2>1, <3>1, ReqElsewhere
  <2>2. CASE AutoOrphan(w) \/ Close(w) \/ Settle(w)
    BY <2>2, ReqSettle
  <2>3. CASE File(w) \/ Create(w)
    BY <2>3, ReqFile
  <2>4. CASE Tell(w) \/ Orphan(w) \/ Send(w) \/ Delete(w) \/ Vanished(w) \/ Handle(w)
    BY <2>4, ReqTell, ReqCarry, ReqDelete, ReqVanished, ReqHandle
  <2>5. CASE AddComaintainer(w)
    BY <2>1, <2>5, AddSteps
  <2> USE <1>0, <2>00, <2>1 DEF Finish, Goto, Build, At, Job, accounts, bases
  <2>6. CASE IssueKey(w) \/ MailKey(w)
    BY <2>6 DEF IssueKey, MailKey
  <2>7. CASE Adopt(w) \/ Adopted(w) \/ MailUpdate(w)
    BY <2>7 DEF Adopt, Adopted, MailUpdate
  <2>8. CASE Disown(w)
    BY <2>8 DEF Disown
  <2>9. CASE Promote(w)
    BY <2>9 DEF Promote
  <2>10. CASE RemoveComaintainers(w)
    BY <2>10 DEF RemoveComaintainers
  <2>11. CASE SendRemoved(w)
    BY <2>11 DEF SendRemoved
  <2>12. CASE MailAdded(w)
    BY <2>12 DEF MailAdded
  <2>13. CASE MailOpen(w)
    BY <2>13 DEF MailOpen
  <2>14. CASE Decide(w)
    BY <2>14 DEF Decide
  <2> QED
    BY <1>4, <2>2, <2>3, <2>4, <2>5, <2>6, <2>7, <2>8, <2>9, <2>10, <2>11, <2>12,
       <2>13, <2>14 DEF Step
<1> QED
  BY <1>1, <1>2, <1>3, <1>4 DEF Next

(* Who asked something of a package base that still exists hears of the     *)
(* decision, whoever takes it and whatever others do meanwhile, unless the  *)
(* account was suspended.                                                   *)
THEOREM RequestersAreTold == Spec => []RequestersTold
<1>1. Init => ReqInv
  BY DEF Init, ReqInv, SameBase, Idle
<1>2. ReqInv => RequestersTold
  BY DEF ReqInv, RequestersTold, Quiet, TellInHand, Told, Tells, Idle
<1> QED
  BY <1>1, <1>2, ReqStep, Invariant, PTL DEF Spec

-----------------------------------------------------------------------------
(* Notifications implements Lifecycle.                                      *)

(* What no step does to a request: take it, its type, its name or its       *)
(* author away, move it to another package base, or open it again.          *)
Kept ==
    \A i \in DOMAIN reqs :
        /\ i \in DOMAIN reqs'
        /\ reqs'[i].type = reqs[i].type /\ reqs'[i].name = reqs[i].name
        /\ reqs'[i].by = reqs[i].by
        /\ reqs'[i].base \in {reqs[i].base, NULL}
        /\ reqs[i].status # "Pending" => reqs'[i].status # "Pending"

Named == \A i \in DOMAIN reqs : reqs[i].base \in {reqs[i].name, NULL}

(* A request that lets the job delete its package base once it is decided.  *)
Warrant(j, i) == /\ i \in DOMAIN reqs
                 /\ reqs[i].name = j.base
                 /\ reqs[i].type = "deletion"

(* A job that is about to delete has such a request, which is decided       *)
(* before the row goes; other jobs decide requests, too, but do not delete. *)
Recorded(j) ==
    /\ j.pc = "autoOrphan" => j.type = "orphan"
    /\ j.pc = "close" => j.base = NULL
    /\ j.pc \in {"settle", "tell"} /\ j.base # NULL /\ j.type = "deletion"
          => \E i \in j.ids : Warrant(j, i)
    /\ j.pc = "delete" => \E i \in j.ids : Warrant(j, i) /\ reqs[i].status # "Pending"

RecordInv == Named /\ \A w \in Workers : Recorded(job[w])

LEMMA RecordKept ==
    ASSUME RecordInv, NEW w \in Workers, \A v \in Workers \ {w} : job'[v] = job[v],
           Kept, Named', Recorded(job[w])'
    PROVE  RecordInv'
<1>1. ASSUME NEW v \in Workers, v # w PROVE Recorded(job[v])'
  <2>1. Recorded(job[v]) /\ job'[v] = job[v]
    BY <1>1 DEF RecordInv
  <2>2. \A i : Warrant(job[v], i) => Warrant(job[v], i)'
    BY <2>1 DEF Warrant, Kept
  <2>3. \A i : Warrant(job[v], i) => i \in DOMAIN reqs
    BY DEF Warrant
  <2> QED
    BY <2>1, <2>2, <2>3 DEF Recorded, Kept
<1> QED
  BY <1>1 DEF RecordInv

-----------------------------------------------------------------------------
(* What the steps do to the rows.                                           *)

LEMMA RowsAre == ASSUME Inv PROVE \A i \in DOMAIN reqs : reqs[i] \in Request
<1>1. reqs \in Seq(Request)
  BY DEF Inv, TypeOK
<1> QED
  BY <1>1

LEMMA RowsUntouched ==
    ASSUME RecordInv, UNCHANGED reqs
    PROVE  Kept /\ Named' /\ DOMAIN reqs' = DOMAIN reqs
BY DEF Kept, RecordInv, Named

LEMMA RowsDecided ==
    ASSUME Inv, RecordInv, NEW w \in Workers, AutoOrphan(w) \/ Close(w) \/ Settle(w)
    PROVE  Kept /\ Named' /\ DOMAIN reqs' = DOMAIN reqs
<1>1. PICK s \in {"Accepted", "Rejected"} : reqs' = WithStatus(job[w].ids, s)
  BY DEF AutoOrphan, Close, Settle
<1>2. /\ DOMAIN reqs' = DOMAIN reqs
      /\ \A i \in DOMAIN reqs :
            /\ reqs'[i].type = reqs[i].type /\ reqs'[i].name = reqs[i].name
            /\ reqs'[i].by = reqs[i].by /\ reqs'[i].base = reqs[i].base
            /\ reqs'[i].status \in {reqs[i].status, s}
  BY <1>1, RowsAre DEF WithStatus, Request
<1> QED
  BY <1>2 DEF Kept, RecordInv, Named

LEMMA RowsDetached ==
    ASSUME Inv, RecordInv, NEW w \in Workers, Delete(w)
    PROVE  /\ Kept /\ Named' /\ DOMAIN reqs' = DOMAIN reqs
           /\ \A i \in DOMAIN reqs : reqs'[i].status = reqs[i].status
<1>1. /\ DOMAIN reqs' = DOMAIN reqs
      /\ \A i \in DOMAIN reqs :
            /\ reqs'[i].type = reqs[i].type /\ reqs'[i].name = reqs[i].name
            /\ reqs'[i].by = reqs[i].by /\ reqs'[i].base \in {reqs[i].base, NULL}
            /\ reqs'[i].status = reqs[i].status
  BY RowsAre DEF Delete, Request
<1> QED
  BY <1>1 DEF Kept, RecordInv, Named

LEMMA RowsFiled ==
    ASSUME Inv, RecordInv, NEW w \in Workers, File(w) \/ Create(w)
    PROVE  /\ Kept /\ Named' /\ NewRequest(w) \in Request
           /\ reqs' = Append(reqs, NewRequest(w))
           /\ Len(reqs) + 1 \in DOMAIN reqs'
           /\ reqs'[Len(reqs) + 1] = NewRequest(w)
<1> DEFINE r == NewRequest(w)
<1>1. reqs \in Seq(Request) /\ r \in Request /\ reqs' = Append(reqs, r)
  BY NewRequestTyped DEF File, Create, Inv, TypeOK
<1>2. r.base = r.name
  BY DEF NewRequest
<1> HIDE DEF r
<1>3. /\ DOMAIN reqs' = DOMAIN reqs \cup {Len(reqs) + 1}
      /\ reqs'[Len(reqs) + 1] = r
      /\ \A i \in DOMAIN reqs : reqs'[i] = reqs[i]
  BY <1>1
<1> QED
  BY <1>1, <1>2, <1>3 DEF Kept, RecordInv, Named, r

(* Every other step leaves the requests and the package bases alone.        *)
Recording(w) == \/ File(w) \/ Create(w) \/ Delete(w)
                \/ AutoOrphan(w) \/ Close(w) \/ Settle(w)

LEMMA NothingRecorded ==
    ASSUME [Next]_vars, \A w \in Workers : ~Recording(w)
    PROVE  UNCHANGED <<live, reqs>>
<1> USE DEF accounts, bases
<1>1. CASE UNCHANGED vars
  BY <1>1 DEF vars
<1>2. ASSUME NEW u \in Users, Suspend(u) \/ Unsuspend(u)
      PROVE  UNCHANGED <<live, reqs>>
  BY <1>2 DEF Suspend, Unsuspend
<1>3. ASSUME NEW w \in Workers, NEW u \in Users, Serve(w, u)
      PROVE  UNCHANGED <<live, reqs>>
  BY <1>3 DEF Serve, Receive, PassResetPost, ClosePost, AdoptPost, DisownPost,
              ComaintPost, RequestPost, DeletePost, Push
<1>4. ASSUME NEW w \in Workers, Step(w)
      PROVE  UNCHANGED <<live, reqs>>
  <2>1. CASE IssueKey(w) \/ MailKey(w) \/ Adopt(w) \/ Adopted(w) \/ Disown(w)
             \/ Promote(w) \/ Orphan(w)
    BY <2>1 DEF IssueKey, MailKey, Adopt, Adopted, Disown, Promote, Orphan
  <2>2. CASE RemoveComaintainers(w) \/ SendRemoved(w) \/ AddComaintainer(w)
             \/ MailAdded(w) \/ MailOpen(w) \/ Decide(w)
    BY <2>2 DEF RemoveComaintainers, SendRemoved, AddComaintainer, MailAdded,
                MailOpen, Decide
  <2>3. CASE Handle(w) \/ Tell(w) \/ MailUpdate(w) \/ Send(w) \/ Vanished(w)
    BY <2>3 DEF Handle, Tell, MailUpdate, Send, Vanished
  <2> QED
    BY <1>4, <2>1, <2>2, <2>3 DEF Step, Recording
<1> QED
  BY <1>1, <1>2, <1>3, <1>4 DEF Next

-----------------------------------------------------------------------------
(* What a job has on record.                                                *)

(* The steps after which a job needs nothing on record.                     *)
Unrecorded == Steps \ {"autoOrphan", "close", "settle", "tell", "delete"}

LEMMA ServeRecorded ==
    ASSUME Inv, RecordInv, NEW w \in Workers, NEW u \in Users, Serve(w, u)
    PROVE  RecordInv'
<1>1. ASSUME NEW j, Receive(w, j), j.pc = "close" => j.base = NULL,
             j.pc \notin {"autoOrphan", "settle", "tell", "delete"}
      PROVE  RecordInv'
  <2>1. job'[w] = j /\ \A v \in Workers \ {w} : job'[v] = job[v]
    BY <1>1 DEF Receive, Inv, TypeOK
  <2>2. UNCHANGED reqs
    BY <1>1 DEF Receive
  <2>3. Recorded(job[w])'
    BY <1>1, <2>1 DEF Recorded
  <2> QED
    BY <2>1, <2>2, <2>3, RowsUntouched, RecordKept
<1> USE DEF Call, Idle
<1>2. CASE PassResetPost(w, u) \/ \E i \in DOMAIN reqs : ClosePost(w, u, i)
  BY <1>1, <1>2 DEF PassResetPost, ClosePost
<1>3. ASSUME NEW b \in Bases, \/ AdoptPost(w, u, b) \/ DisownPost(w, u, b)
                              \/ DeletePost(w, u, b) \/ Push(w, u, b)
      PROVE  RecordInv'
  BY <1>1, <1>3 DEF AdoptPost, DisownPost, DeletePost, Push
<1>4. ASSUME NEW b \in Bases,
             \/ \E S \in SUBSET Users : ComaintPost(w, u, b, S)
             \/ \E t \in {"deletion", "orphan"} : RequestPost(w, u, b, t)
      PROVE  RecordInv'
  BY <1>1, <1>4 DEF ComaintPost, RequestPost
<1> QED
  BY <1>2, <1>3, <1>4 DEF Serve

(* The steps of a job that deletes, or might.                               *)
LEMMA HandleRecorded ==
    ASSUME Inv, RecordInv, NEW w \in Workers, Handle(w)
    PROVE  Recorded(job[w])'
<1> DEFINE old == job[w]
           ids == PendingIds(old.type, old.base)
<1>0. old \in Job /\ UNCHANGED reqs /\ old.base \in Bases
  BY AtWork, BaseAtHand DEF Handle
<1>1. /\ job'[w].pc = IF ids = {} THEN "create" ELSE "settle"
      /\ job'[w].ids = ids /\ job'[w].base = old.base /\ job'[w].type = old.type
  BY <1>0 DEF Handle, Job, Inv, TypeOK
<1>2. \A i \in ids : /\ i \in DOMAIN reqs /\ reqs[i].name = old.base
                     /\ reqs[i].type = old.type
  BY <1>0, NullAssumption DEF PendingIds, RecordInv, Named
<1> HIDE DEF ids
<1> QED
  BY <1>0, <1>1, <1>2 DEF Recorded, Warrant

LEMMA CreateRecorded ==
    ASSUME Inv, RecordInv, NEW w \in Workers, Create(w)
    PROVE  Recorded(job[w])'
<1> DEFINE n == Len(reqs) + 1
<1>1. /\ job'[w].pc = "settle" /\ job'[w].ids = {n}
      /\ job'[w].base = job[w].base /\ job'[w].type = job[w].type
  BY AtWork DEF Create, Job, Inv, TypeOK
<1>2. n \in DOMAIN reqs' /\ reqs'[n] = NewRequest(w)
  BY RowsFiled
<1>3. NewRequest(w).name = job[w].base /\ NewRequest(w).type = job[w].type
  BY DEF NewRequest
<1> HIDE DEF n
<1> QED
  BY <1>1, <1>2, <1>3 DEF Recorded, Warrant

LEMMA DecidedRecorded ==
    ASSUME Inv, RecordInv, NEW w \in Workers, AutoOrphan(w) \/ Close(w) \/ Settle(w)
    PROVE  Recorded(job[w])'
<1>1. /\ job'[w].pc = "tell" /\ job'[w].ids = job[w].ids
      /\ job'[w].base = job[w].base /\ job'[w].type = job[w].type
  BY AtWork DEF AutoOrphan, Close, Settle, Goto, Job, Inv, TypeOK
<1>2. Recorded(job[w])
  BY DEF RecordInv
<1>3. \A i : Warrant(job[w], i) => Warrant(job[w], i)'
  BY <1>1, RowsDecided DEF Kept, Warrant
<1> QED
  BY <1>1, <1>2, <1>3 DEF Recorded, AutoOrphan, Close, Settle

LEMMA TellRecorded ==
    ASSUME Inv, RecordInv, NEW w \in Workers, Tell(w)
    PROVE  Recorded(job[w])'
<1>0. /\ job[w] \in Job /\ UNCHANGED reqs /\ job[w].pc = "tell"
      /\ Recorded(job[w]) /\ JobFits(job[w], live, reqs)
  BY AtWork DEF Tell, RecordInv
<1>1. CASE /\ job[w].type = "deletion" /\ job[w].base \in live
           /\ \E M : Build(w, M, "delete")
  <2>1. /\ job'[w].pc = "delete" /\ job'[w].ids = job[w].ids
        /\ job'[w].base = job[w].base
    BY <1>0, <1>1 DEF Build, Job, Inv, TypeOK
  <2>2. job[w].base # NULL
    BY <1>1, NullAssumption DEF Inv, TypeOK
  <2>3. PICK i \in job[w].ids : Warrant(job[w], i)
    BY <1>0, <1>1, <2>2 DEF Recorded
  <2>4. Warrant(job[w], i)' /\ reqs'[i].status # "Pending"
    BY <1>0, <2>1, <2>3 DEF Warrant, JobFits
  <2> QED
    BY <2>1, <2>3, <2>4 DEF Recorded
<1>2. CASE \E pc \in {"orphan", "send"} : \E M : Build(w, M, pc)
  <2>1. job'[w].pc \in {"orphan", "send"}
    BY <1>0, <1>2 DEF Build, Job, Inv, TypeOK
  <2> QED
    BY <2>1 DEF Recorded
<1> QED
  BY <1>1, <1>2 DEF Tell

LEMMA StepRecorded ==
    ASSUME Inv, RecordInv, NEW w \in Workers, Step(w)
    PROVE  Recorded(job[w])'
<1>0. job \in [Workers -> Job] /\ job[w] \in Job
  BY AtWork DEF Inv, TypeOK
<1>1. ASSUME job'[w].pc \in Unrecorded PROVE Recorded(job[w])'
  BY <1>1 DEF Unrecorded, Recorded
<1>2. CASE Handle(w) \/ Create(w) \/ Tell(w) \/ AutoOrphan(w) \/ Close(w) \/ Settle(w)
  BY <1>2, HandleRecorded, CreateRecorded, TellRecorded, DecidedRecorded
<1>3. CASE Decide(w)
  <2>1. \/ job'[w].pc = "autoOrphan" /\ job'[w].type = "orphan"
        \/ job'[w].pc \in {"handle", "idle"}
    BY <1>0, <1>3 DEF Decide, Finish, Idle, Job
  <2> QED
    BY <1>1, <2>1 DEF Recorded, Unrecorded, Steps
<1>4. CASE AddComaintainer(w)
  <2>1. job'[w].pc \in {"send", "added"}
    BY <1>4, AddSteps
  <2> QED
    BY <1>1, <2>1 DEF Unrecorded, Steps
<1> USE <1>0, <1>1 DEF Finish, Goto, Build, Job, Idle, Unrecorded, Steps
<1>5. CASE IssueKey(w) \/ MailKey(w) \/ Adopt(w) \/ Adopted(w) \/ Orphan(w)
  BY <1>5 DEF IssueKey, MailKey, Adopt, Adopted, Orphan
<1>6. CASE Disown(w)
  BY <1>6 DEF Disown
<1>7. CASE Promote(w)
  BY <1>7 DEF Promote
<1>8. CASE RemoveComaintainers(w) \/ SendRemoved(w) \/ MailAdded(w)
  BY <1>8 DEF RemoveComaintainers, SendRemoved, MailAdded
<1>9. CASE File(w) \/ MailOpen(w) \/ Delete(w) \/ MailUpdate(w) \/ Send(w) \/ Vanished(w)
  BY <1>9 DEF File, MailOpen, Delete, MailUpdate, Send, Vanished
<1> QED
  BY <1>2, <1>3, <1>4, <1>5, <1>6, <1>7, <1>8, <1>9 DEF Step

LEMMA RowsStep ==
    ASSUME Inv, RecordInv, [Next]_vars
    PROVE  Kept /\ Named'
<1>1. ASSUME NEW w \in Workers, Recording(w) PROVE Kept /\ Named'
  BY <1>1, RowsFiled, RowsDecided, RowsDetached DEF Recording
<1> QED
  BY <1>1, NothingRecorded, RowsUntouched

LEMMA RecordStep ==
    ASSUME Inv, RecordInv, [Next]_vars
    PROVE  RecordInv'
<1>1. ASSUME UNCHANGED job PROVE RecordInv'
  <2>1. ASSUME NEW w \in Workers PROVE ~Recording(w) \/ RecordInv'
    <3>1. Recording(w) => Step(w)
      BY DEF Recording, Step
    <3> QED
      BY <1>1, <3>1, StepRecorded, RowsStep, RecordKept
  <2>2. CASE UNCHANGED reqs
    BY <1>1, <2>2 DEF RecordInv, Named, Recorded, Warrant
  <2> QED
    BY <2>1, <2>2, NothingRecorded
<1>2. CASE UNCHANGED vars \/ \E u \in Users : Suspend(u) \/ Unsuspend(u)
  BY <1>1, <1>2 DEF vars, Suspend, Unsuspend
<1>3. ASSUME NEW w \in Workers, NEW u \in Users, Serve(w, u) PROVE RecordInv'
  BY <1>3, ServeRecorded
<1>4. ASSUME NEW w \in Workers, Step(w) PROVE RecordInv'
  BY <1>4, StepLocal, StepRecorded, RowsStep, RecordKept
<1> QED
  BY <1>2, <1>3, <1>4 DEF Next

-----------------------------------------------------------------------------
(* The steps of Lifecycle.                                                  *)

Entry(r) == [type |-> r.type, name |-> r.name, by |-> r.by,
             decided |-> r.status # "Pending"]

LEMMA FiledStep ==
    ASSUME Inv, RecordInv, NEW w \in Workers, File(w) \/ Create(w)
    PROVE  Abstract!Next
<1> DEFINE r == NewRequest(w)
           rows == [i \in 1 .. Len(reqs) |-> Entry(reqs[i])]
<1>1. /\ reqs \in Seq(Request) /\ reqs' = Append(reqs, r) /\ r \in Request
      /\ live' = live
  BY RowsFiled DEF File, Create, bases, Inv, TypeOK
<1>2. /\ r.status = "Pending" /\ r.name \in live /\ r.name \in Bases /\ r.by \in Users
      /\ r.type \in Abstract!Removals \cup {"orphan"}
  BY <1>1 DEF File, Create, At, NewRequest, Request, Abstract!Removals
<1> HIDE DEF r
<1>3. DOMAIN reqs = 1 .. Len(reqs) /\ Len(reqs) \in Nat
  BY <1>1
<1>4. Ledger = rows
  BY <1>3 DEF Ledger, Entry
<1>5. Ledger' = [i \in 1 .. Len(reqs) + 1 |->
                    IF i = Len(reqs) + 1 THEN Entry(r) ELSE Entry(reqs[i])]
  BY <1>1, <1>3 DEF Ledger, Entry
<1>6. rows \in Seq({Entry(reqs[i]) : i \in 1 .. Len(reqs)}) /\ Len(rows) = Len(reqs)
  BY <1>3
<1>7. Append(rows, Entry(r)) =
         [i \in 1 .. Len(reqs) + 1 |-> IF i = Len(reqs) + 1 THEN Entry(r) ELSE rows[i]]
  BY <1>3, <1>6
<1>8. Ledger' = Append(Ledger, Entry(r))
  BY <1>3, <1>4, <1>5, <1>7
<1>9. Entry(r) = Abstract!Entry(r.type, r.name, r.by)
  BY <1>2 DEF Entry, Abstract!Entry
<1>10. Abstract!File(r.type, r.name, r.by)
  BY <1>1, <1>2, <1>8, <1>9 DEF Abstract!File
<1> QED
  BY <1>2, <1>10 DEF Abstract!Next

LEMMA RemovedStep ==
    ASSUME Inv, RecordInv, NEW w \in Workers, Delete(w)
    PROVE  Abstract!Next
<1> DEFINE b == job[w].base
<1>1. b \in live /\ live' = live \ {b} /\ b \in Bases
  BY BaseAtHand DEF Delete, At
<1>2. Ledger' = Ledger
  BY RowsDetached DEF Ledger, Kept
<1>3. PICK i \in DOMAIN reqs : Warrant(job[w], i) /\ reqs[i].status # "Pending"
  BY DEF RecordInv, Recorded, Delete, At, Warrant
<1>4. i \in DOMAIN Ledger /\ Abstract!Warrants(i, b)
  BY <1>3 DEF Ledger, Warrant, Abstract!Warrants, Abstract!Removals
<1>5. Abstract!Remove(b)
  BY <1>1, <1>2, <1>4 DEF Abstract!Remove
<1> QED
  BY <1>1, <1>5 DEF Abstract!Next

LEMMA DecidedStep ==
    ASSUME Kept, DOMAIN reqs' = DOMAIN reqs, live' = live
    PROVE  Abstract!Next
<1> DEFINE S == {i \in DOMAIN reqs : reqs'[i].status # "Pending"}
<1>1. \A i \in DOMAIN reqs :
         Ledger'[i] = IF i \in S THEN [Ledger[i] EXCEPT !.decided = TRUE]
                      ELSE Ledger[i]
  BY DEF Ledger, Kept
<1>2. /\ DOMAIN Ledger = DOMAIN reqs
      /\ Ledger' = [i \in DOMAIN reqs |-> Ledger'[i]]
  BY DEF Ledger
<1>3. S \in SUBSET DOMAIN Ledger
  BY <1>2
<1> HIDE DEF S
<1>4. Abstract!Decide(S)
  BY <1>1, <1>2, <1>3 DEF Abstract!Decide
<1> QED
  BY <1>3, <1>4 DEF Abstract!Next

LEMMA LifecycleStep ==
    ASSUME Inv, RecordInv, [Next]_vars
    PROVE  Abstract!Next
<1>1. ASSUME NEW w \in Workers, File(w) \/ Create(w) PROVE Abstract!Next
  BY <1>1, FiledStep
<1>2. ASSUME NEW w \in Workers, Delete(w) PROVE Abstract!Next
  BY <1>2, RemovedStep
<1>3. ASSUME NEW w \in Workers, AutoOrphan(w) \/ Close(w) \/ Settle(w)
      PROVE  Abstract!Next
  BY <1>3, RowsDecided, DecidedStep DEF AutoOrphan, Close, Settle, bases
<1>4. CASE \A w \in Workers : ~Recording(w)
  BY <1>4, NothingRecorded, RowsUntouched, DecidedStep
<1> QED
  BY <1>1, <1>2, <1>3, <1>4 DEF Recording

(* Notifications implements Lifecycle, for any processes, whoever is        *)
(* suspended, and whichever reads raise between two transactions.           *)
THEOREM LifecycleImplemented == Spec => ImplementsLifecycle
<1>1. Init => RecordInv /\ Abstract!Init
  BY DEF Init, RecordInv, Named, Recorded, Idle, Ledger, Abstract!Init
<1>2. Inv /\ RecordInv /\ [Next]_vars => RecordInv'
  BY RecordStep
<1>3. Inv /\ RecordInv /\ [Next]_vars => [Abstract!Next]_<<live, Ledger>>
  BY LifecycleStep
<1> QED
  BY <1>1, <1>2, <1>3, Invariant, PTL DEF Spec, ImplementsLifecycle, Abstract!Spec
=============================================================================
