------------------------------- MODULE PkgBase -------------------------------
(***************************************************************************)
(* Who maintains a package base, who co-maintains it, what is requested of *)
(* it and how it disappears: the handlers of aurweb/routers/pkgbase.py,    *)
(* routers/requests.py and routers/api.py over one package base, with the  *)
(* functions they call in aurweb/pkgbase and aurweb/packages/requests.py.  *)
(*                                                                         *)
(* Worker processes share nothing but the database.  A handler is a job of *)
(* one worker.  One step of a job is either one database transaction       *)
(* (`with db.begin()'), taken as atomic, or the group of reads between two *)
(* transactions.  What a handler remembers of its reads is in its job.     *)
(* SQLAlchemy writes no column whose assigned value equals the loaded one; *)
(* where that shows, the step keeps the value of the database.             *)
(***************************************************************************)
EXTENDS RequestRules, FiniteSets

CONSTANTS Workers,        \* the processes of the web server
          TrustedUsers,   \* Trusted Users and Developers
          AutoDeleteAge,  \* options.auto_delete_age
          AutoOrphanAge,  \* options.auto_orphan_age
          Ops,            \* bound: the handlers that are called
          MaxRequests,    \* bound: with so many rows nobody starts to file (and
                          \* with more, nobody starts to delete or to disown)
          MaxTime,        \* bound of the clock
          Crashes         \* whether a worker may be killed between two steps

AllOps == {"adopt", "apiAdopt", "disown", "apiDisown", "comaint", "request",
           "close", "delete", "flag", "unflag", "notify", "unnotify"}

ASSUME UsersAssumption == TrustedUsers \subseteq Users /\ IsFiniteSet(Users)
ASSUME AgesAssumption == AutoDeleteAge \in Nat /\ AutoOrphanAge \in Nat
ASSUME BoundsAssumption == /\ Ops \subseteq AllOps
                           /\ MaxRequests \in Nat /\ MaxTime \in Nat
                           /\ Crashes \in BOOLEAN

VARIABLES live,         \* the package bases with a row in PackageBases
          maintainer,   \* PackageBases.MaintainerUID
          flagger,      \* PackageBases.FlaggerUID
          oodTS,        \* PackageBases.OutOfDateTS
          submittedTS,  \* PackageBases.SubmittedTS
          comaint,      \* rows of PackageComaintainers, per package base
          notified,     \* rows of PackageNotifications, per package base
          reqs,         \* PackageRequests, see RequestRules
          now,          \* time.utcnow()
          job           \* what each worker is doing

columns == <<flagger, oodTS, submittedTS>>
vars == <<live, maintainer, columns, comaint, notified, reqs, now, job>>

(***************************************************************************)
(* Jobs.  `ids' are the request rows at hand and `blank' those of them     *)
(* loaded without a closure comment; `found' is the outcome of a look-up;  *)
(* `seen' a column as it was loaded; `drop' and `add' are the co-          *)
(* maintainers still to be removed and added; `at' is the handler's clock  *)
(* reading or, while a row is inserted, the new priority.                  *)
(***************************************************************************)
Steps == {"idle", "adopt", "apiAdopt", "disownNote", "disown", "verify",
          "promote", "orphan", "apiClose", "apiPromote", "remove", "rotate",
          "add", "insert", "file", "decide", "autoOrphan", "close",
          "deleteNote", "handle", "create", "settle", "delete",
          "flag", "unflag", "notify", "unnotify"}

Job == [op : AllOps \cup {"none"}, pc : Steps, user : Users \cup {NULL},
        base : Bases \cup {NULL}, type : Types \cup {"none"},
        into : Bases \cup {NULL}, comment : BOOLEAN, found : BOOLEAN,
        seen : Users \cup Statuses \cup {NULL}, ids : SUBSET Nat,
        blank : SUBSET Nat, drop : SUBSET Users, add : SUBSET Users, at : Nat]

Idle == [op |-> "none", pc |-> "idle", user |-> NULL, base |-> NULL,
         type |-> "none", into |-> NULL, comment |-> FALSE, found |-> FALSE,
         seen |-> NULL, ids |-> {}, blank |-> {}, drop |-> {}, add |-> {},
         at |-> 0]

(* A row of PackageComaintainers.  The table has no unique index; `row'     *)
(* tells apart the rows of one user that different workers inserted.        *)
Row == [user : Users, prio : Nat, row : Workers]

TypeOK == /\ live \subseteq Bases
          /\ maintainer \in [Bases -> Users \cup {NULL}]
          /\ flagger \in [Bases -> Users \cup {NULL}]
          /\ oodTS \in [Bases -> Nat]
          /\ submittedTS \in [Bases -> Nat]
          /\ comaint \in [Bases -> SUBSET Row]
          /\ notified \in [Bases -> SUBSET Users]
          /\ reqs \in Seq(Request)
          /\ now \in Nat
          /\ job \in [Workers -> Job]

(* Package bases as a first push leaves them: maintained by the pusher.  An *)
(* OutOfDateTS of 0 stands for NULL (`pkgbase.OutOfDateTS or 0').  The clock *)
(* counts from a time long past: a RequestTS of 0 is due at any time.       *)
Init == /\ live = Bases
        /\ maintainer \in [Bases -> Users]
        /\ flagger = [b \in Bases |-> NULL]
        /\ oodTS = [b \in Bases |-> 0]
        /\ submittedTS = [b \in Bases |-> IdleTime + 1]
        /\ comaint = [b \in Bases |-> {}]
        /\ notified = [b \in Bases |-> {}]
        /\ reqs = <<>>
        /\ now = IdleTime + 1
        /\ job = [w \in Workers |-> Idle]

-----------------------------------------------------------------------------
(* Credentials: auth/creds.py has_credential, for the credentials that      *)
(* cred_filters gives to Trusted Users and Developers.                      *)
HasCredential(u, approved) == u \in approved \/ u \in TrustedUsers

(* An idle worker takes a call of handler op; j names what it remembers.    *)
Receive(w, j) == /\ job[w] = Idle
                 /\ j.op \in Ops
                 /\ job' = [job EXCEPT ![w] = j]

Call(op, pc, u, b) ==
    [Idle EXCEPT !.op = op, !.pc = pc, !.user = u, !.base = b]

Finish(w) == job' = [job EXCEPT ![w] = Idle]
Goto(w, pc) == job' = [job EXCEPT ![w].pc = pc]

(* Worker w is at step pc of a job on a package base that still exists.     *)
At(w, pc) == job[w].pc = pc /\ job[w].base \in live

(* A step that refreshes or updates the row of a package base another       *)
(* worker has deleted raises: the transaction is rolled back and the        *)
(* request answered with an error.  The steps left out touch other rows.    *)
Vanished(w) ==
    /\ job[w].base \in Bases \ live
    /\ ~ \/ job[w].pc = "apiClose"
         \/ job[w].pc = "settle" /\ job[w].found
         \/ job[w].pc = "autoOrphan" /\ job[w].seen = NULL
         \/ job[w].pc = "unflag" /\ job[w].seen = NULL
         \/ job[w].pc = "unnotify"
    /\ Finish(w)
    /\ UNCHANGED <<live, maintainer, columns, comaint, notified, reqs, now>>

(* The process of worker w dies; whatever it had not committed is lost.     *)
Crash(w) == /\ Crashes
            /\ job[w] # Idle
            /\ Finish(w)
            /\ UNCHANGED <<live, maintainer, columns, comaint, notified, reqs, now>>

Tick == /\ now < MaxTime
        /\ now' = now + 1
        /\ UNCHANGED <<live, maintainer, columns, comaint, notified, reqs, job>>

-----------------------------------------------------------------------------
(* Adoption: pkgbase_adopt_post and adopt_pkgbase of the API.               *)

(* Mutant: anybody adopts anything. *)
AdoptAnything(w, u, b) ==
    /\ b \in live
    /\ Receive(w, Call("adopt", "adopt", u, b))
    /\ UNCHANGED <<live, maintainer, columns, comaint, notified, reqs, now>>

AdoptPost(w, u, b) ==
    /\ b \in live
    /\ HasCredential(u, {}) \/ maintainer[b] = NULL
    /\ Receive(w, Call("adopt", "adopt", u, b))
    /\ UNCHANGED <<live, maintainer, columns, comaint, notified, reqs, now>>

Adopt(w) ==
    /\ At(w, "adopt")
    /\ maintainer' = [maintainer EXCEPT ![job[w].base] = job[w].user]
    /\ Finish(w)
    /\ UNCHANGED <<live, columns, comaint, notified, reqs, now>>

ApiAdoptPost(w, u, b) ==
    /\ b \in live
    /\ maintainer[b] = NULL
    /\ Receive(w, [Call("apiAdopt", "apiAdopt", u, b) EXCEPT
                      !.found = u \in notified[b]])
    /\ UNCHANGED <<live, maintainer, columns, comaint, notified, reqs, now>>

(* The unique index of PackageNotifications fails the transaction when the  *)
(* row looked for in vain has been inserted meanwhile.                      *)
ApiAdopt(w) ==
    LET b == job[w].base
        u == job[w].user
    IN  /\ At(w, "apiAdopt")
        /\ IF ~job[w].found /\ u \in notified[b]
           THEN UNCHANGED <<maintainer, notified>>
           ELSE /\ maintainer' = [maintainer EXCEPT ![b] = u]
                /\ notified' = IF job[w].found THEN notified
                               ELSE [notified EXCEPT ![b] = @ \cup {u}]
        /\ Finish(w)
        /\ UNCHANGED <<live, columns, comaint, reqs, now>>

-----------------------------------------------------------------------------
(* Co-maintainers: pkgbase/util.py.                                         *)

UsersOf(rows) == {r.user : r \in rows}

(* The Priority a user's object is loaded with: the first of its rows.      *)
PriorityOf(rows, u) ==
    CHOOSE p \in {r.prio : r \in {x \in rows : x.user = u}} :
        \A r \in rows : r.user = u => p <= r.prio

(* rotate_comaintainers: the positions of the loaded objects in an order by *)
(* Priority; the database breaks ties as it likes.                          *)
Rotations(rows) ==
    {f \in [UsersOf(rows) -> 1 .. Cardinality(UsersOf(rows))] :
        \A u, v \in UsersOf(rows) :
            /\ u # v => f[u] # f[v]
            /\ PriorityOf(rows, u) < PriorityOf(rows, v) => f[u] < f[v]}

Duplicated(rows, u) == \E r, s \in rows : r # s /\ r.user = u /\ s.user = u

(* An UPDATE by (UsersID, PackageBaseID) that matches two rows raises.      *)
RotationFails(rows, f) ==
    \E u \in UsersOf(rows) : Duplicated(rows, u) /\ f[u] # PriorityOf(rows, u)

Rotated(rows, f) ==
    {IF Duplicated(rows, r.user) THEN r ELSE [r EXCEPT !.prio = f[r.user]] :
        r \in rows}

LatestPriority(rows) ==
    IF rows = {} THEN 0
    ELSE CHOOSE p \in {r.prio : r \in rows} : \A r \in rows : r.prio <= p

Without(rows, users) == {r \in rows : r.user \notin users}

(* Mutant: the users to add are not freed of those already on record.       *)
ComaintPostAddsAll(w, u, b, S) ==
    /\ b \in live
    /\ HasCredential(u, {maintainer[b]})
    /\ Receive(w, [Call("comaint", "remove", u, b) EXCEPT
                      !.drop = UsersOf(comaint[b]) \ S, !.add = S])
    /\ UNCHANGED <<live, maintainer, columns, comaint, notified, reqs, now>>

(* pkgbase_comaintainers_post: S is the set of names in the form.           *)
ComaintPost(w, u, b, S) ==
    LET records == UsersOf(comaint[b])
    IN  /\ b \in live
        /\ HasCredential(u, {maintainer[b]})
        /\ Receive(w, [Call("comaint", "remove", u, b) EXCEPT
                          !.drop = records \ S, !.add = S \ records])
        /\ UNCHANGED <<live, maintainer, columns, comaint, notified, reqs, now>>

(* remove_comaintainers, its two transactions.                              *)
Remove(w) ==
    /\ At(w, "remove")
    /\ comaint' = [comaint EXCEPT ![job[w].base] = Without(@, job[w].drop)]
    /\ Goto(w, "rotate")
    /\ UNCHANGED <<live, maintainer, columns, notified, reqs, now>>

Rotate(w) ==
    LET rows == comaint[job[w].base]
    IN  /\ At(w, "rotate")
        /\ \E f \in Rotations(rows) :
              IF RotationFails(rows, f)
              THEN Finish(w) /\ UNCHANGED comaint
              ELSE /\ comaint' = [comaint EXCEPT ![job[w].base] = Rotated(rows, f)]
                   /\ Goto(w, "add")
        /\ UNCHANGED <<live, maintainer, columns, notified, reqs, now>>

(* add_comaintainers takes the users of a Python set in any order and passes *)
(* over the one who is the maintainer, sooner or later.                      *)
AddNext(w) ==
    LET b == job[w].base
        candidates == job[w].add \ {maintainer[b]}
    IN  /\ At(w, "add")
        /\ IF candidates = {}
           THEN Finish(w)
           ELSE \E u \in candidates, passed \in SUBSET {maintainer[b]} :
                   job' = [job EXCEPT ![w].pc = "insert", ![w].seen = u,
                              ![w].add = @ \ (passed \cup {u}),
                              ![w].at = LatestPriority(comaint[b]) + 1]
        /\ UNCHANGED <<live, maintainer, columns, comaint, notified, reqs, now>>

AddComaintainer(w) ==
    /\ At(w, "insert")
    /\ comaint' = [comaint EXCEPT ![job[w].base] = @ \cup
                      {[user |-> job[w].seen, prio |-> job[w].at, row |-> w]}]
    /\ Goto(w, "add")
    /\ UNCHANGED <<live, maintainer, columns, notified, reqs, now>>

-----------------------------------------------------------------------------
(* Disowning: pkgbase_disown_post with pkgbase_disown_instance.             *)

DisownPost(w, u, b) ==
    /\ b \in live
    /\ HasCredential(u, {maintainer[b]})
    /\ Len(reqs) <= MaxRequests
    /\ \E c \in BOOLEAN :
          Receive(w, [Call("disown", "disownNote", u, b) EXCEPT
                         !.type = "orphan", !.comment = c])
    /\ UNCHANGED <<live, maintainer, columns, comaint, notified, reqs, now>>

DisownNote(w) ==
    LET j == job[w]
    IN  /\ At(w, "disownNote")
        /\ reqs' = IF j.comment
                   THEN UpdateClosureComment(reqs, j.type, j.base, NULL)
                   ELSE reqs
        /\ Goto(w, "disown")
        /\ UNCHANGED <<live, maintainer, columns, comaint, notified, now>>

(* Mutant: a privileged user disowns without a due request.                 *)
DisownUnverified(w) ==
    LET j == job[w]
    IN  /\ At(w, "disown")
        /\ IF maintainer[j.base] = j.user THEN Goto(w, "promote")
           ELSE IF HasCredential(j.user, {}) THEN Goto(w, "handle")
           ELSE Finish(w)
        /\ UNCHANGED <<live, maintainer, columns, comaint, notified, reqs, now>>

(* is_maint, read after the first transaction expired what was loaded.      *)
DisownInstance(w) ==
    LET j == job[w]
    IN  /\ At(w, "disown")
        /\ IF maintainer[j.base] = j.user THEN Goto(w, "promote")
           ELSE IF HasCredential(j.user, {}) THEN Goto(w, "verify")
           ELSE Finish(w)
        /\ UNCHANGED <<live, maintainer, columns, comaint, notified, reqs, now>>

(* The maintainer leaves: the next in line is promoted and removed from the *)
(* co-maintainers.  remove_comaintainer rotates before its deletion is      *)
(* flushed, so the row that goes still takes its place in the rotation.     *)
Promote(w) ==
    LET b == job[w].base
        rows == comaint[b]
    IN  /\ At(w, "promote")
        /\ IF rows = {}
           THEN /\ maintainer' = [maintainer EXCEPT ![b] = NULL]
                /\ UNCHANGED comaint
           ELSE \E f \in Rotations(rows), r \in rows :
                   /\ \A s \in rows : r.prio <= s.prio
                   /\ LET rest == Without(rows, {r.user})
                      IN  IF RotationFails(rest, f)
                          THEN UNCHANGED <<maintainer, comaint>>
                          ELSE /\ maintainer' = [maintainer EXCEPT ![b] = r.user]
                               /\ comaint' = [comaint EXCEPT ![b] = Rotated(rest, f)]
        /\ Finish(w)
        /\ UNCHANGED <<live, columns, notified, reqs, now>>

(* A privileged user disowns for somebody: handle_request, then no one      *)
(* maintains the package base.  The co-maintainers stay.                    *)
Orphan(w) ==
    /\ At(w, "orphan")
    /\ maintainer' = [maintainer EXCEPT ![job[w].base] = NULL]
    /\ Finish(w)
    /\ UNCHANGED <<live, columns, comaint, notified, reqs, now>>

(* disown_pkgbase of the API.                                               *)
ApiDisownPost(w, u, b) ==
    /\ b \in live
    /\ maintainer[b] = u
    /\ Receive(w, [Call("apiDisown", "apiClose", u, b) EXCEPT
                      !.ids = PendingIds(reqs, "orphan", b)])
    /\ UNCHANGED <<live, maintainer, columns, comaint, notified, reqs, now>>

(* Only Status is written: neither Closer nor ClosedTS.                     *)
ApiClose(w) ==
    /\ job[w].pc = "apiClose"
    /\ reqs' = [i \in DOMAIN reqs |->
                   IF i \in job[w].ids THEN [reqs[i] EXCEPT !.status = "Closed"]
                   ELSE reqs[i]]
    /\ Goto(w, "apiPromote")
    /\ UNCHANGED <<live, maintainer, columns, comaint, notified, now>>

(* comaintainers[0] of a query without an order.                            *)
ApiPromote(w) ==
    LET b == job[w].base
    IN  /\ At(w, "apiPromote")
        /\ IF comaint[b] = {}
           THEN /\ maintainer' = [maintainer EXCEPT ![b] = NULL]
                /\ UNCHANGED comaint
           ELSE \E u \in UsersOf(comaint[b]) :
                   /\ maintainer' = [maintainer EXCEPT ![b] = u]
                   /\ comaint' = [comaint EXCEPT ![b] = Without(@, {u})]
        /\ Finish(w)
        /\ UNCHANGED <<live, columns, notified, reqs, now>>

-----------------------------------------------------------------------------
(* Requests: pkgbase_request_post and request_close_post.                   *)

RequestPost(w, u, b, t, into) ==
    /\ b \in live
    /\ IF t = "merge" THEN into \in live \ {b} ELSE into = NULL
    /\ Len(reqs) < MaxRequests
    /\ Receive(w, [Call("request", "file", u, b) EXCEPT
                      !.type = t, !.into = into, !.comment = TRUE, !.at = now])
    /\ UNCHANGED <<live, maintainer, columns, comaint, notified, reqs, now>>

File(w) ==
    LET j == job[w]
    IN  /\ At(w, "file")
        /\ reqs' = Append(reqs, NewRequest(j.type, j.base, j.into, j.user, j.at))
        /\ job' = [job EXCEPT ![w].pc = "decide", ![w].ids = {Len(reqs) + 1}]
        /\ UNCHANGED <<live, maintainer, columns, comaint, notified, now>>

(* Mutant: the age of the package base is not looked at.                    *)
DecideWithoutAge(w) ==
    /\ At(w, "decide")
    /\ IF job[w].type = "deletion" /\ maintainer[job[w].base] = job[w].user
       THEN Goto(w, "handle")
       ELSE Finish(w)
    /\ UNCHANGED <<live, maintainer, columns, comaint, notified, reqs, now>>

(* Requests that need nobody's decision.                                    *)
Decide(w) ==
    LET j == job[w]
        b == j.base
        flagged == oodTS[b] # 0 /\ j.at - oodTS[b] >= AutoOrphanAge
        outdated == j.at - submittedTS[b] <= AutoDeleteAge
    IN  /\ At(w, "decide")
        /\ CASE j.type = "orphan" /\ flagged ->
                  job' = [job EXCEPT ![w].pc = "autoOrphan",
                                     ![w].seen = maintainer[b]]
             [] j.type = "deletion" /\ maintainer[b] = j.user /\ outdated ->
                  Goto(w, "handle")
             [] OTHER -> Finish(w)
        /\ UNCHANGED <<live, maintainer, columns, comaint, notified, reqs, now>>

AutoOrphan(w) ==
    LET j == job[w]
    IN  /\ j.pc = "autoOrphan"
        /\ j.seen # NULL => j.base \in live
        /\ maintainer' = IF j.seen = NULL THEN maintainer
                         ELSE [maintainer EXCEPT ![j.base] = NULL]
        /\ reqs' = [i \in DOMAIN reqs |->
                       IF i \in j.ids THEN [reqs[i] EXCEPT !.status = "Accepted"]
                       ELSE reqs[i]]
        /\ Finish(w)
        /\ UNCHANGED <<live, columns, comaint, notified, now>>

ClosePost(w, u, i) ==
    /\ i \in DOMAIN reqs
    /\ HasCredential(u, {reqs[i].by})
    /\ \E c \in BOOLEAN :
          Receive(w, [Call("close", "close", u, NULL) EXCEPT
                         !.comment = c, !.ids = {i}, !.blank = Blank(reqs, {i}),
                         !.seen = reqs[i].status])
    /\ UNCHANGED <<live, maintainer, columns, comaint, notified, reqs, now>>

(* Whatever the status was, the row ends up rejected.                       *)
Close(w) ==
    LET j == job[w]
    IN  /\ j.pc = "close"
        /\ reqs' = [i \in DOMAIN reqs |->
              IF i \notin j.ids THEN reqs[i]
              ELSE [reqs[i] EXCEPT
                       !.status = IF j.seen = "Rejected" THEN @ ELSE "Rejected",
                       !.closure = CASE j.comment -> "user"
                                     [] ~j.comment /\ i \in j.blank -> @
                                     [] OTHER -> "none",
                       !.closed = TRUE]]
        /\ Finish(w)
        /\ UNCHANGED <<live, maintainer, columns, comaint, notified, now>>

-----------------------------------------------------------------------------
(* handle_request, for the types without a merge target.                    *)

(* Mutant: a request that is not due yet is waited for.                     *)
VerifyWaits(w) ==
    /\ At(w, "verify")
    /\ VerifyOrphanRequest(reqs, job[w].base, now)
    /\ Goto(w, "handle")
    /\ UNCHANGED <<live, maintainer, columns, comaint, notified, reqs, now>>

(* For orphan requests: without one that is due the disowner is refused.    *)
Verify(w) ==
    LET j == job[w]
    IN  /\ At(w, "verify")
        /\ IF VerifyOrphanRequest(reqs, j.base, now) THEN Goto(w, "handle")
           ELSE Finish(w)
        /\ UNCHANGED <<live, maintainer, columns, comaint, notified, reqs, now>>

(* Mutant: where nobody asked, no request is created.                       *)
HandleUntracked(w) ==
    LET ids == ToAccept(reqs, job[w].type, job[w].base, NULL)
    IN  /\ At(w, "handle")
        /\ job' = [job EXCEPT ![w].pc = "settle", ![w].found = TRUE,
                              ![w].ids = ids, ![w].blank = Blank(reqs, ids)]
        /\ UNCHANGED <<live, maintainer, columns, comaint, notified, reqs, now>>

(* Mutant: a request is created without a look at those pending.            *)
HandleBlindly(w) ==
    /\ At(w, "handle")
    /\ job' = [job EXCEPT ![w].pc = "create", ![w].found = FALSE]
    /\ UNCHANGED <<live, maintainer, columns, comaint, notified, reqs, now>>

Handle(w) ==
    LET j == job[w]
        ids == ToAccept(reqs, j.type, j.base, NULL)
    IN  /\ At(w, "handle")
        /\ job' = [job EXCEPT ![w].pc = IF ids = {} THEN "create" ELSE "settle",
                              ![w].found = ids # {},
                              ![w].ids = ids,
                              ![w].blank = Blank(reqs, ids)]
        /\ UNCHANGED <<live, maintainer, columns, comaint, notified, reqs, now>>

(* The request a handler creates itself has the default RequestTS of 0.     *)
Create(w) ==
    LET j == job[w]
        id == Len(reqs) + 1
    IN  /\ At(w, "create")
        /\ reqs' = Append(reqs, NewRequest(j.type, j.base, NULL, j.user, 0))
        /\ job' = [job EXCEPT ![w].pc = "settle",
                              ![w].ids = {id}, ![w].blank = {id}]
        /\ UNCHANGED <<live, maintainer, columns, comaint, notified, now>>

(* The closing transaction.  The text of ClosureFactory names the package   *)
(* base, which has to be loaded again after a row was created.              *)
Settle(w) ==
    LET j == job[w]
    IN  /\ j.pc = "settle"
        /\ j.found \/ j.base \in live
        /\ reqs' = ClosePkgreq(reqs, j.ids, j.blank, "Accepted")
        /\ Goto(w, IF j.type = "orphan" THEN "orphan" ELSE "delete")
        /\ UNCHANGED <<live, maintainer, columns, comaint, notified, now>>

-----------------------------------------------------------------------------
(* Deletion: pkgbase_delete_post with pkgbase_delete_instance.              *)

DeletePost(w, u, b) ==
    /\ b \in live
    /\ HasCredential(u, {})
    /\ Len(reqs) <= MaxRequests
    /\ \E c \in BOOLEAN :
          Receive(w, [Call("delete", IF c THEN "deleteNote" ELSE "handle", u, b)
                         EXCEPT !.type = "deletion", !.comment = c])
    /\ UNCHANGED <<live, maintainer, columns, comaint, notified, reqs, now>>

DeleteNote(w) ==
    LET j == job[w]
    IN  /\ At(w, "deleteNote")
        /\ reqs' = UpdateClosureComment(reqs, "deletion", j.base, NULL)
        /\ Goto(w, "handle")
        /\ UNCHANGED <<live, maintainer, columns, comaint, notified, now>>

(* The rows that refer to the package base go with it; its requests stay.   *)
Delete(w) ==
    LET j == job[w]
        b == j.base
        noted == IF j.comment THEN UpdateClosureComment(reqs, "deletion", b, NULL)
                 ELSE reqs
    IN  /\ At(w, "delete")
        /\ live' = live \ {b}
        /\ maintainer' = [maintainer EXCEPT ![b] = NULL]
        /\ flagger' = [flagger EXCEPT ![b] = NULL]
        /\ oodTS' = [oodTS EXCEPT ![b] = 0]
        /\ submittedTS' = [submittedTS EXCEPT ![b] = 0]
        /\ comaint' = [comaint EXCEPT ![b] = {}]
        /\ notified' = [notified EXCEPT ![b] = {}]
        /\ reqs' = DetachRequests(noted, b)
        /\ Finish(w)
        /\ UNCHANGED now

-----------------------------------------------------------------------------
(* Out-of-date flags and notifications.                                     *)

FlagPost(w, u, b) ==
    /\ b \in live
    /\ flagger[b] = NULL
    /\ Receive(w, [Call("flag", "flag", u, b) EXCEPT !.at = now])
    /\ UNCHANGED <<live, maintainer, columns, comaint, notified, reqs, now>>

Flag(w) ==
    LET b == job[w].base
    IN  /\ At(w, "flag")
        /\ oodTS' = [oodTS EXCEPT ![b] = job[w].at]
        /\ flagger' = [flagger EXCEPT ![b] = job[w].user]
        /\ Finish(w)
        /\ UNCHANGED <<live, maintainer, submittedTS, comaint, notified, reqs, now>>

UnflagPost(w, u, b) ==
    /\ b \in live
    /\ HasCredential(u, {flagger[b], maintainer[b]})
    /\ Receive(w, [Call("unflag", "unflag", u, b) EXCEPT !.seen = flagger[b]])
    /\ UNCHANGED <<live, maintainer, columns, comaint, notified, reqs, now>>

(* A flag set after the row was loaded without one survives.                *)
Unflag(w) ==
    LET j == job[w]
    IN  /\ j.pc = "unflag"
        /\ j.seen # NULL => j.base \in live
        /\ IF j.seen = NULL THEN UNCHANGED <<oodTS, flagger>>
           ELSE /\ oodTS' = [oodTS EXCEPT ![j.base] = 0]
                /\ flagger' = [flagger EXCEPT ![j.base] = NULL]
        /\ Finish(w)
        /\ UNCHANGED <<live, maintainer, submittedTS, comaint, notified, reqs, now>>

NotifyPost(w, u, b) ==
    /\ b \in live
    /\ u \notin notified[b]
    /\ Receive(w, Call("notify", "notify", u, b))
    /\ UNCHANGED <<live, maintainer, columns, comaint, notified, reqs, now>>

Notify(w) ==
    /\ At(w, "notify")
    /\ notified' = [notified EXCEPT ![job[w].base] = @ \cup {job[w].user}]
    /\ Finish(w)
    /\ UNCHANGED <<live, maintainer, columns, comaint, reqs, now>>

UnnotifyPost(w, u, b) ==
    /\ b \in live
    /\ u \in notified[b]
    /\ Receive(w, Call("unnotify", "unnotify", u, b))
    /\ UNCHANGED <<live, maintainer, columns, comaint, notified, reqs, now>>

Unnotify(w) ==
    /\ job[w].pc = "unnotify"
    /\ notified' = [notified EXCEPT ![job[w].base] = @ \ {job[w].user}]
    /\ Finish(w)
    /\ UNCHANGED <<live, maintainer, columns, comaint, reqs, now>>

-----------------------------------------------------------------------------
(* A request of user u about package base b arrives at an idle worker.      *)
Serve(w, u, b) ==
    \/ AdoptPost(w, u, b)
    \/ ApiAdoptPost(w, u, b)
    \/ DisownPost(w, u, b)
    \/ ApiDisownPost(w, u, b)
    \/ \E S \in SUBSET Users : ComaintPost(w, u, b, S)
    \/ \E t \in Types, into \in Bases \cup {NULL} : RequestPost(w, u, b, t, into)
    \/ DeletePost(w, u, b)
    \/ FlagPost(w, u, b)
    \/ UnflagPost(w, u, b)
    \/ NotifyPost(w, u, b)
    \/ UnnotifyPost(w, u, b)

(* The next step of the job worker w has.                                   *)
Step(w) ==
    \/ Adopt(w)
    \/ ApiAdopt(w)
    \/ Remove(w)
    \/ Rotate(w)
    \/ AddNext(w)
    \/ AddComaintainer(w)
    \/ DisownNote(w)
    \/ DisownInstance(w)
    \/ Promote(w)
    \/ Orphan(w)
    \/ ApiClose(w)
    \/ ApiPromote(w)
    \/ File(w)
    \/ Decide(w)
    \/ AutoOrphan(w)
    \/ Close(w)
    \/ Verify(w)
    \/ Handle(w)
    \/ Create(w)
    \/ Settle(w)
    \/ DeleteNote(w)
    \/ Delete(w)
    \/ Flag(w)
    \/ Unflag(w)
    \/ Notify(w)
    \/ Unnotify(w)
    \/ Vanished(w)

(* All workers wait for a call: the only way for the server to rest.        *)
Quiet == /\ \A w \in Workers : job[w] = Idle
         /\ UNCHANGED vars

Next ==
    \/ \E w \in Workers, u \in Users, b \in Bases : Serve(w, u, b)
    \/ \E w \in Workers, u \in Users, i \in DOMAIN reqs : ClosePost(w, u, i)
    \/ \E w \in Workers : Step(w) \/ Crash(w)
    \/ Tick
    \/ Quiet

Spec == Init /\ [][Next]_vars

(* The server finishes the requests it has taken.  Nobody has to call.      *)
FairSpec == Spec /\ \A w \in Workers : WF_vars(Step(w))

-----------------------------------------------------------------------------
(* Properties.                                                              *)

(* Requests about package base b, also those that outlived it.              *)
Decided(t, b) == {i \in DOMAIN reqs : /\ reqs[i].name = b
                                      /\ reqs[i].type = t
                                      /\ reqs[i].status # "Pending"}

(* Nobody is co-maintainer twice and no two share a place in the line of    *)
(* succession, whatever sequence of edits (remove, rotate, add one by one), *)
(* adoptions and promotions the package base went through.  With one worker:*)
(* the table has no index that would enforce it.                            *)
ComaintainersRanked ==
    \A b \in Bases : \A r, s \in comaint[b] :
        r # s => r.user # s.user /\ r.prio # s.prio

(* A deletion leaves no deletion request of that package base open: those   *)
(* pending are decided by handle_request before the row goes.  With one     *)
(* worker: a request may be filed between the two.                          *)
NoDeletionLeftOpen ==
    \A i \in DOMAIN reqs :
        reqs[i].type = "deletion" /\ reqs[i].name \notin live
            => reqs[i].status # "Pending"

(* A maintainer is replaced by somebody else only through a call of the     *)
(* maintainer or of a privileged user; an ordinary user adopts orphans.     *)
ReplacedByRight ==
    [][\A b \in Bases :
          maintainer[b] # NULL /\ maintainer'[b] \notin {NULL, maintainer[b]}
             => \E w \in Workers : /\ job[w].base = b
                                   /\ job'[w] # job[w]
                                   /\ HasCredential(job[w].user, {maintainer[b]})]_vars

(* Somebody without privileges deletes only what was submitted at most      *)
(* AutoDeleteAge before the deletion request was filed, however long the    *)
(* handlers in between take.                                                *)
OwnersDeleteTheNew ==
    [][\A b \in live \ live' :
          \E w \in Workers :
             /\ job[w].base = b /\ job'[w] # job[w]
             /\ \/ job[w].user \in TrustedUsers
                \/ job[w].at - submittedTS[b] <= AutoDeleteAge]_vars

(* Every package base that is gone left a decided deletion request with its *)
(* name: handle_request creates one where nobody had asked.  It holds for   *)
(* workers that close, file and delete at the same time and for crashes.    *)
DeletionTraced == \A b \in Bases \ live : Decided("deletion", b) # {}

(* A package base that still exists becomes an orphan only through its      *)
(* maintainer's own call, or with a decided orphan request that somebody    *)
(* filed (handle_request leaves RequestTS at 0 in those it creates) and that *)
(* is due or was filed when the package base was older than AutoOrphanAge.  *)
Justifies(i, b) == /\ reqs[i].ts # 0
                   /\ \/ now - reqs[i].ts > IdleTime
                      \/ reqs[i].ts - submittedTS[b] >= AutoOrphanAge

OrphaningJustified ==
    [][\A b \in live' :
          maintainer[b] # NULL /\ maintainer'[b] = NULL
             => \/ \E w \in Workers : /\ job[w].base = b /\ job'[w] # job[w]
                                      /\ job[w].pc \in {"promote", "apiPromote"}
                \/ \E i \in Decided("orphan", b)' : Justifies(i, b)]_vars

(* The comment in pkgbase_adopt_post: without credentials `we'll promote    *)
(* the user to maintainer if no maintainer currently exists'.               *)
PromotedIfNoMaintainer ==
    [][\A w \in Workers :
          job[w].pc = "adopt" /\ job[w].user \notin TrustedUsers
             => maintainer'[job[w].base] = maintainer[job[w].base]
                \/ maintainer[job[w].base] = NULL]_vars

(* Every request that was taken is answered, and a deletion confirmed by a  *)
(* privileged user takes place: no step of a handler waits for something.   *)
HandlersFinish ==
    /\ \A w \in Workers : job[w] # Idle ~> job[w] = Idle
    /\ \A w \in Workers, b \in Bases :
          job[w].op = "delete" /\ job[w].base = b ~> b \notin live

(* What the handlers do to package bases and requests, however they overlap *)
(* and wherever they are killed, is what Lifecycle promises: no request is  *)
(* taken back, reopened or given to somebody else, and a package base goes  *)
(* only on a decision that was recorded before.                             *)
Abstract == INSTANCE Lifecycle WITH ledger <- LedgerOf(reqs)

ImplementsLifecycle == Abstract!Spec
=============================================================================
