---------------------------- MODULE Notifications ----------------------------
(***************************************************************************)
(* Who is told of what: the mails of aurweb/scripts/notify.py and the      *)
(* handlers that write them.  A mail is built by reads of its own, before  *)
(* or after the transaction it tells of, and sent after the handler's last *)
(* transaction; where the reads find nobody, or no package base, they      *)
(* raise and the handler ends.                                             *)
(*                                                                         *)
(* One step of a job is a transaction with the reads in it, or the reads   *)
(* between two.  What PkgBase and Accounts are about (places in the line   *)
(* of succession, ages, credentials in full, passwords) is abstracted.     *)
(***************************************************************************)
EXTENDS Naturals, Sequences

CONSTANTS Workers,       \* the processes of the web server
          Users,
          TrustedUsers,
          Bases,
          MaintainerOf,  \* who maintains each package base at first
          Watchers,      \* who has subscribed to each package base and wants mail
          MaxRequests,   \* bound: rows of PackageRequests when a call starts
          MaxCalls,      \* bound: calls of a behaviour
          Suspects,      \* bound: the users who may be suspended, each once
          Ops,           \* bound: the handlers that are called
          NULL

AllOps == {"passreset", "adopt", "disown", "comaint", "request", "close",
           "delete", "update"}

ASSUME NullAssumption == NULL \notin Users \cup Bases
ASSUME UsersAssumption == TrustedUsers \subseteq Users
ASSUME BasesAssumption == /\ MaintainerOf \in [Bases -> Users]
                          /\ Watchers \in [Bases -> SUBSET Users]
ASSUME BoundsAssumption == /\ MaxRequests \in Nat /\ MaxCalls \in Nat
                           /\ Ops \subseteq AllOps /\ Suspects \subseteq Users

VARIABLES suspended,   \* the users whose account is suspended
          barred,      \* history: those whose account ever was
          live,        \* the package bases there are
          maintainer,  \* PackageBases.MaintainerUID
          comaint,     \* the co-maintainers of each package base
          reqs,        \* PackageRequests, as far as the mails look at them
          keys,        \* how many reset keys each user got; the last is on record
          sent,        \* the mails that were sent
          calls,       \* how many calls there were
          job          \* what each process is doing

accounts == <<suspended, barred, keys>>
bases == <<live, maintainer, comaint>>
vars == <<accounts, bases, reqs, sent, calls, job>>

(* `name' is PackageBaseName, which outlives the package base.              *)
Request == [type : {"deletion", "orphan"}, base : Bases \cup {NULL}, name : Bases,
            by : Users, status : {"Pending", "Accepted", "Rejected"}]

(* `no' is the request or the reset key a mail is about.                    *)
Mail == [kind : {"resetkey", "adopt", "disown", "add", "remove", "delete",
                 "open", "close", "update"},
         base : Bases \cup {NULL}, no : Nat, to : SUBSET Users]

Steps == {"idle", "issue", "key", "adopt", "adopted", "disown", "promote",
          "orphan", "file", "open", "decide", "autoOrphan", "close", "handle",
          "create", "settle", "tell", "delete", "remove", "removed", "add",
          "added", "update", "send"}

(* `mails' were built and are still to be sent; `next' is the user at hand. *)
Job == [pc : Steps, op : AllOps \cup {NULL}, user : Users \cup {NULL},
        base : Bases \cup {NULL}, type : {"deletion", "orphan", NULL},
        ids : SUBSET Nat, next : Users \cup {NULL}, drop : SUBSET Users,
        add : SUBSET Users, mails : SUBSET Mail]

Idle == [pc |-> "idle", op |-> NULL, user |-> NULL, base |-> NULL,
         type |-> NULL, ids |-> {}, next |-> NULL, drop |-> {}, add |-> {},
         mails |-> {}]

TypeOK == /\ suspended \subseteq barred
          /\ barred \subseteq Users
          /\ live \subseteq Bases
          /\ maintainer \in [Bases -> Users \cup {NULL}]
          /\ comaint \in [Bases -> SUBSET Users]
          /\ reqs \in Seq(Request)
          /\ keys \in [Users -> Nat]
          /\ sent \subseteq Mail
          /\ calls \in Nat
          /\ job \in [Workers -> Job]

Init == /\ suspended = {}
        /\ barred = {}
        /\ live = Bases
        /\ maintainer = MaintainerOf
        /\ comaint = [b \in Bases |-> {}]
        /\ reqs = <<>>
        /\ keys = [u \in Users |-> 0]
        /\ sent = {}
        /\ calls = 0
        /\ job = [w \in Workers |-> Idle]

-----------------------------------------------------------------------------
(* Jobs, and the mails they build.                                          *)

Call(op, pc, u, b) == [Idle EXCEPT !.op = op, !.pc = pc, !.user = u, !.base = b]

(* An idle process takes a call.                                            *)
Receive(w, j) ==
    /\ job[w] = Idle
    /\ j.op \in Ops
    /\ calls < MaxCalls
    /\ calls' = calls + 1
    /\ job' = [job EXCEPT ![w] = j]
    /\ UNCHANGED <<accounts, bases, reqs, sent>>

Finish(w) == job' = [job EXCEPT ![w] = Idle]
Goto(w, pc) == job' = [job EXCEPT ![w].pc = pc]
At(w, pc) == job[w].pc = pc /\ job[w].base \in live

(* The mails M are built and the job goes on at pc.                         *)
Build(w, M, pc) == job' = [job EXCEPT ![w].pc = pc, ![w].mails = @ \cup M]

(* The row of the package base is gone and the step has to load it.         *)
Vanished(w) ==
    LET j == job[w]
    IN  /\ j.base \in Bases \ live
        /\ j.pc \notin {"settle", "send"}
        /\ j.pc = "tell" => j.type = "deletion"
        /\ j.pc = "autoOrphan" => j.next # NULL
        /\ Finish(w)
        /\ UNCHANGED <<accounts, bases, reqs, sent, calls>>

MailOf(kind, b, no, to) == [kind |-> kind, base |-> b, no |-> no, to |-> to]

(* OwnershipEvent-, Update- and DeleteNotification go to those who watch    *)
(* the package base, except to the one who acted.                           *)
WatcherMail(kind, b, u) ==
    MailOf(kind, b, 0, Watchers[b] \ ({u} \cup suspended))

(* RequestOpen- and RequestCloseNotification join the request with its      *)
(* package base: without one, nobody gets a copy.                           *)
RequestMail(kind, i) ==
    LET r == reqs[i]
    IN  MailOf(kind, r.base, i,
               IF r.base = NULL THEN {}
               ELSE ({r.by, maintainer[r.base]} \cup comaint[r.base])
                    \ (suspended \cup {NULL}))

(* ResetKey- and ComaintainershipEventNotification look their one addressee *)
(* up among the accounts that are not suspended, and raise otherwise.       *)
PersonalMail(kind, b, no, u) == MailOf(kind, b, no, {u})
Raises(u) == u \in suspended

Send(w) ==
    /\ job[w].pc = "send"
    /\ sent' = sent \cup job[w].mails
    /\ Finish(w)
    /\ UNCHANGED <<accounts, bases, reqs, calls>>

-----------------------------------------------------------------------------
(* Accounts: a key to set a new password with, and suspension.              *)

Suspend(u) ==
    /\ u \in Suspects \ barred
    /\ suspended' = suspended \cup {u}
    /\ barred' = barred \cup {u}
    /\ UNCHANGED <<keys, bases, reqs, sent, job, calls>>

Unsuspend(u) ==
    /\ u \in suspended
    /\ suspended' = suspended \ {u}
    /\ UNCHANGED <<barred, keys, bases, reqs, sent, job, calls>>

PassResetPost(w, u) ==
    Receive(w, Call("passreset", "issue", u, NULL))

IssueKey(w) ==
    /\ job[w].pc = "issue"
    /\ keys' = [keys EXCEPT ![job[w].user] = @ + 1]
    /\ Goto(w, "key")
    /\ UNCHANGED <<suspended, barred, bases, reqs, sent, calls>>

(* Mutant: the mail is built before the key is written.                     *)
MailKeyOnRecord(w) ==
    LET u == job[w].user
    IN  /\ job[w].pc = "key"
        /\ IF Raises(u) THEN Finish(w)
           ELSE Build(w, {PersonalMail("resetkey", NULL, keys[u] - 1, u)}, "send")
        /\ UNCHANGED <<accounts, bases, reqs, sent, calls>>

(* The key is read from the table again.                                    *)
MailKey(w) ==
    LET u == job[w].user
    IN  /\ job[w].pc = "key"
        /\ IF Raises(u) THEN Finish(w)
           ELSE Build(w, {PersonalMail("resetkey", NULL, keys[u], u)}, "send")
        /\ UNCHANGED <<accounts, bases, reqs, sent, calls>>

-----------------------------------------------------------------------------
(* Who maintains a package base.                                            *)

AdoptPost(w, u, b) ==
    /\ b \in live
    /\ maintainer[b] = NULL \/ u \in TrustedUsers
    /\ Receive(w, Call("adopt", "adopt", u, b))

Adopt(w) ==
    /\ At(w, "adopt")
    /\ maintainer' = [maintainer EXCEPT ![job[w].base] = job[w].user]
    /\ Goto(w, "adopted")
    /\ UNCHANGED <<accounts, live, comaint, reqs, sent, calls>>

Adopted(w) ==
    /\ At(w, "adopted")
    /\ Build(w, {WatcherMail("adopt", job[w].base, job[w].user)}, "send")
    /\ UNCHANGED <<accounts, bases, reqs, sent, calls>>

MayManage(u, b) == u = maintainer[b] \/ u \in TrustedUsers

DisownPost(w, u, b) ==
    /\ b \in live
    /\ MayManage(u, b)
    /\ Receive(w, [Call("disown", "disown", u, b) EXCEPT !.type = "orphan"])

PendingIds(t, b) == {i \in DOMAIN reqs : /\ reqs[i].base = b
                                         /\ reqs[i].type = t
                                         /\ reqs[i].status = "Pending"}

(* The mail is built first.  A Trusted User who does not maintain the       *)
(* package base needs a request for it that is old enough.                  *)
Disown(w) ==
    LET u == job[w].user
        b == job[w].base
        told == {WatcherMail("disown", b, u)}
    IN  /\ At(w, "disown")
        /\ \/ maintainer[b] = u /\ Build(w, told, "promote")
           \/ /\ maintainer[b] # u /\ u \in TrustedUsers
              /\ PendingIds("orphan", b) # {}
              /\ Build(w, told, "handle")
           \/ maintainer[b] # u /\ Finish(w)
        /\ UNCHANGED <<accounts, bases, reqs, sent, calls>>

(* Mutant: the one who is promoted is taken off the list in silence.        *)
PromoteSilently(w) ==
    LET b == job[w].base
    IN  /\ At(w, "promote")
        /\ IF comaint[b] = {}
           THEN maintainer' = [maintainer EXCEPT ![b] = NULL] /\ UNCHANGED comaint
           ELSE \E u \in comaint[b] :
                   /\ maintainer' = [maintainer EXCEPT ![b] = u]
                   /\ comaint' = [comaint EXCEPT ![b] = @ \ {u}]
        /\ Goto(w, "send")
        /\ UNCHANGED <<accounts, live, reqs, sent, calls>>

(* The mail to the co-maintainer who is promoted is built inside of the     *)
(* transaction: where that raises, nothing is written.                      *)
Promote(w) ==
    LET b == job[w].base
    IN  /\ At(w, "promote")
        /\ \/ /\ comaint[b] = {}
              /\ maintainer' = [maintainer EXCEPT ![b] = NULL]
              /\ Goto(w, "send")
              /\ UNCHANGED comaint
           \/ \E u \in comaint[b] :
                 IF Raises(u)
                 THEN Finish(w) /\ UNCHANGED <<maintainer, comaint>>
                 ELSE /\ maintainer' = [maintainer EXCEPT ![b] = u]
                      /\ comaint' = [comaint EXCEPT ![b] = @ \ {u}]
                      /\ Build(w, {PersonalMail("remove", b, 0, u)}, "send")
        /\ UNCHANGED <<accounts, live, reqs, sent, calls>>

Orphan(w) ==
    /\ At(w, "orphan")
    /\ maintainer' = [maintainer EXCEPT ![job[w].base] = NULL]
    /\ Goto(w, "send")
    /\ UNCHANGED <<accounts, live, comaint, reqs, sent, calls>>

-----------------------------------------------------------------------------
(* pkgbase_comaintainers_post with the list S.                              *)

ComaintPost(w, u, b, S) ==
    /\ b \in live
    /\ MayManage(u, b)
    /\ Receive(w, [Call("comaint", "remove", u, b) EXCEPT
                      !.drop = comaint[b] \ S, !.add = S \ comaint[b]])

(* One transaction and the mails in it, all or nothing.                     *)
RemoveComaintainers(w) ==
    LET b == job[w].base
        rows == job[w].drop \cap comaint[b]
    IN  /\ At(w, "remove")
        /\ IF \E u \in rows : Raises(u)
           THEN Finish(w) /\ UNCHANGED comaint
           ELSE /\ comaint' = [comaint EXCEPT ![b] = @ \ rows]
                /\ Build(w, {PersonalMail("remove", b, 0, u) : u \in rows}, "removed")
        /\ UNCHANGED <<accounts, live, maintainer, reqs, sent, calls>>

(* The rotation that comes first fails where a co-maintainer is listed      *)
(* twice (PkgBase); then the mails are lost.                                *)
SendRemoved(w) ==
    /\ At(w, "removed")
    /\ \/ /\ sent' = sent \cup job[w].mails
          /\ job' = [job EXCEPT ![w].pc = "add", ![w].mails = {}]
       \/ Finish(w) /\ UNCHANGED sent
    /\ UNCHANGED <<accounts, bases, reqs, calls>>

(* The maintainer is passed over.                                           *)
AddComaintainer(w) ==
    LET b == job[w].base
        candidates == job[w].add \ {maintainer[b]}
    IN  /\ At(w, "add")
        /\ \/ /\ candidates = {}
              /\ Goto(w, "send")
              /\ UNCHANGED comaint
           \/ \E u \in candidates :
                 /\ comaint' = [comaint EXCEPT ![b] = @ \cup {u}]
                 /\ job' = [job EXCEPT ![w].pc = "added", ![w].next = u,
                                       ![w].add = @ \ {u}]
        /\ UNCHANGED <<accounts, live, maintainer, reqs, sent, calls>>

(* Mutant: the mail about the last one takes the place of the others.       *)
MailLastAdded(w) ==
    LET u == job[w].next
    IN  /\ At(w, "added")
        /\ IF Raises(u) THEN Finish(w)
           ELSE job' = [job EXCEPT ![w].pc = "add", ![w].mails =
                           {PersonalMail("add", job[w].base, 0, u)}]
        /\ UNCHANGED <<accounts, bases, reqs, sent, calls>>

(* A newcomer who is suspended ends the handler: those before are listed,   *)
(* and no mail goes out.                                                    *)
MailAdded(w) ==
    LET u == job[w].next
    IN  /\ At(w, "added")
        /\ IF Raises(u) THEN Finish(w)
           ELSE Build(w, {PersonalMail("add", job[w].base, 0, u)}, "add")
        /\ UNCHANGED <<accounts, bases, reqs, sent, calls>>

-----------------------------------------------------------------------------
(* Requests.                                                                *)

RequestPost(w, u, b, t) ==
    /\ b \in live
    /\ Len(reqs) < MaxRequests
    /\ Receive(w, [Call("request", "file", u, b) EXCEPT !.type = t])

(* Mutant: the request is filed without its author.                         *)
NewAuthorless(w) == [type |-> job[w].type, base |-> job[w].base,
                     name |-> job[w].base, by |-> NULL, status |-> "Pending"]

NewRequest(w) == [type |-> job[w].type, base |-> job[w].base,
                  name |-> job[w].base, by |-> job[w].user, status |-> "Pending"]

File(w) ==
    /\ At(w, "file")
    /\ reqs' = Append(reqs, NewRequest(w))
    /\ job' = [job EXCEPT ![w].pc = "open", ![w].ids = {Len(reqs) + 1}]
    /\ UNCHANGED <<accounts, bases, sent, calls>>

MailOpen(w) ==
    /\ At(w, "open")
    /\ Build(w, {RequestMail("open", i) : i \in job[w].ids}, "decide")
    /\ UNCHANGED <<accounts, bases, reqs, sent, calls>>

(* The mail goes out, and the handler looks whether somebody has to decide; *)
(* the ages it looks at are abstracted.                                     *)
Decide(w) ==
    LET j == job[w]
    IN  /\ At(w, "decide")
        /\ sent' = sent \cup j.mails
        /\ \/ /\ j.type = "orphan"
              /\ job' = [job EXCEPT ![w].pc = "autoOrphan", ![w].mails = {},
                                    ![w].next = maintainer[j.base]]
           \/ /\ j.type = "deletion" /\ maintainer[j.base] = j.user
              /\ job' = [job EXCEPT ![w].pc = "handle", ![w].mails = {}]
           \/ Finish(w)
        /\ UNCHANGED <<accounts, bases, reqs, calls>>

WithStatus(ids, s) == [i \in DOMAIN reqs |->
                          IF i \in ids THEN [reqs[i] EXCEPT !.status = s]
                          ELSE reqs[i]]

(* Mutant: the request that nobody had to decide is closed in silence.      *)
AutoOrphanSilently(w) ==
    LET j == job[w]
    IN  /\ At(w, "autoOrphan")
        /\ maintainer' = [maintainer EXCEPT ![j.base] = NULL]
        /\ reqs' = WithStatus(j.ids, "Accepted")
        /\ Finish(w)
        /\ UNCHANGED <<accounts, live, comaint, sent, calls>>

(* A maintainer that was NULL when it was loaded is not written.            *)
AutoOrphan(w) ==
    LET j == job[w]
    IN  /\ j.pc = "autoOrphan"
        /\ j.next # NULL => j.base \in live
        /\ maintainer' = IF j.next = NULL THEN maintainer
                         ELSE [maintainer EXCEPT ![j.base] = NULL]
        /\ reqs' = WithStatus(j.ids, "Accepted")
        /\ Goto(w, "tell")
        /\ UNCHANGED <<accounts, live, comaint, sent, calls>>

ClosePost(w, u, i) ==
    /\ i \in DOMAIN reqs
    /\ u = reqs[i].by \/ u \in TrustedUsers
    /\ Receive(w, [Call("close", "close", u, NULL) EXCEPT !.ids = {i}])

Close(w) ==
    /\ job[w].pc = "close"
    /\ reqs' = WithStatus(job[w].ids, "Rejected")
    /\ Goto(w, "tell")
    /\ UNCHANGED <<accounts, bases, sent, calls>>

-----------------------------------------------------------------------------
(* handle_request and the deletion of a package base.                       *)

DeletePost(w, u, b) ==
    /\ b \in live
    /\ u \in TrustedUsers
    /\ Len(reqs) <= MaxRequests
    /\ Receive(w, [Call("delete", "handle", u, b) EXCEPT !.type = "deletion"])

(* Mutant: where nobody asked for it, nothing is put on record.             *)
HandleUnrecorded(w) ==
    LET ids == PendingIds(job[w].type, job[w].base)
    IN  /\ At(w, "handle")
        /\ job' = [job EXCEPT ![w].pc = "settle", ![w].ids = ids]
        /\ UNCHANGED <<accounts, bases, reqs, sent, calls>>

Handle(w) ==
    LET ids == PendingIds(job[w].type, job[w].base)
    IN  /\ At(w, "handle")
        /\ job' = [job EXCEPT ![w].pc = IF ids = {} THEN "create" ELSE "settle",
                              ![w].ids = ids]
        /\ UNCHANGED <<accounts, bases, reqs, sent, calls>>

Create(w) ==
    /\ At(w, "create")
    /\ reqs' = Append(reqs, NewRequest(w))
    /\ job' = [job EXCEPT ![w].pc = "settle", ![w].ids = {Len(reqs) + 1}]
    /\ UNCHANGED <<accounts, bases, sent, calls>>

Settle(w) ==
    /\ job[w].pc = "settle"
    /\ reqs' = WithStatus(job[w].ids, "Accepted")
    /\ Goto(w, "tell")
    /\ UNCHANGED <<accounts, bases, sent, calls>>

Closures(w) == {RequestMail("close", i) : i \in job[w].ids}

(* Mutant: the mails of a deletion go out before the package base does.     *)
TellAtOnce(w) ==
    LET j == job[w]
    IN  /\ j.pc = "tell"
        /\ \/ /\ j.type = "deletion" /\ j.base \in live
              /\ sent' = sent \cup Closures(w) \cup {WatcherMail("delete", j.base, j.user)}
              /\ Goto(w, "delete")
           \/ /\ j.type # "deletion"
              /\ Build(w, Closures(w), IF j.op = "disown" THEN "orphan" ELSE "send")
              /\ UNCHANGED sent
        /\ UNCHANGED <<accounts, bases, reqs, calls>>

(* The mails about the requests that were decided; a deletion adds one of   *)
(* its own, which needs the package base.                                   *)
Tell(w) ==
    LET j == job[w]
    IN  /\ j.pc = "tell"
        /\ \/ /\ j.type = "deletion" /\ j.base \in live
              /\ Build(w, Closures(w) \cup {WatcherMail("delete", j.base, j.user)},
                       "delete")
           \/ /\ j.type # "deletion"
              /\ Build(w, Closures(w), IF j.op = "disown" THEN "orphan" ELSE "send")
        /\ UNCHANGED <<accounts, bases, reqs, sent, calls>>

Delete(w) ==
    LET b == job[w].base
    IN  /\ At(w, "delete")
        /\ live' = live \ {b}
        /\ maintainer' = [maintainer EXCEPT ![b] = NULL]
        /\ comaint' = [comaint EXCEPT ![b] = {}]
        /\ reqs' = [i \in DOMAIN reqs |-> IF reqs[i].base = b
                                          THEN [reqs[i] EXCEPT !.base = NULL]
                                          ELSE reqs[i]]
        /\ Goto(w, "send")
        /\ UNCHANGED <<accounts, sent, calls>>

-----------------------------------------------------------------------------
(* The update hook of git starts notify.py when a push went through.        *)

Push(w, u, b) ==
    /\ b \in live
    /\ MayManage(u, b) \/ u \in comaint[b]
    /\ Receive(w, Call("update", "update", u, b))

MailUpdate(w) ==
    /\ At(w, "update")
    /\ Build(w, {WatcherMail("update", job[w].base, job[w].user)}, "send")
    /\ UNCHANGED <<accounts, bases, reqs, sent, calls>>

-----------------------------------------------------------------------------
Serve(w, u) ==
    \/ PassResetPost(w, u)
    \/ \E i \in DOMAIN reqs : ClosePost(w, u, i)
    \/ \E b \in Bases : \/ AdoptPost(w, u, b)
                        \/ DisownPost(w, u, b)
                        \/ \E S \in SUBSET Users : ComaintPost(w, u, b, S)
                        \/ \E t \in {"deletion", "orphan"} : RequestPost(w, u, b, t)
                        \/ DeletePost(w, u, b)
                        \/ Push(w, u, b)

Step(w) ==
    \/ IssueKey(w) \/ MailKey(w)
    \/ Adopt(w) \/ Adopted(w) \/ Disown(w) \/ Promote(w) \/ Orphan(w)
    \/ RemoveComaintainers(w) \/ SendRemoved(w)
    \/ AddComaintainer(w) \/ MailAdded(w)
    \/ File(w) \/ MailOpen(w) \/ Decide(w) \/ AutoOrphan(w) \/ Close(w)
    \/ Handle(w) \/ Create(w) \/ Settle(w) \/ Tell(w) \/ Delete(w)
    \/ MailUpdate(w)
    \/ Send(w) \/ Vanished(w)

Next == \/ \E u \in Users : Suspend(u) \/ Unsuspend(u)
        \/ \E w \in Workers : Step(w) \/ \E u \in Users : Serve(w, u)

Spec == Init /\ [][Next]_vars

-----------------------------------------------------------------------------
Quiet == \A w \in Workers : job[w] = Idle

(* A mail that tells of a decision or of a deletion goes out when that is   *)
(* done, whatever the handlers around it do: a request that was closed is   *)
(* no longer pending, a package base that was deleted is gone.              *)
AnnouncedWhenDone ==
    \A m \in sent :
        /\ m.kind = "close" => m.no \in DOMAIN reqs /\ reqs[m.no].status # "Pending"
        /\ m.kind = "delete" => m.base \notin live

(* Who asked something of a package base that still exists hears of the     *)
(* decision, whoever takes it: handle_request, request_close_post or the    *)
(* automatic orphaning.                                                     *)
RequestersTold ==
    Quiet => \A i \in DOMAIN reqs :
                 \/ reqs[i].status = "Pending"
                 \/ reqs[i].base = NULL
                 \/ reqs[i].by \in barred
                 \/ \E m \in sent : /\ m.kind = "close"
                                    /\ m.no = i
                                    /\ reqs[i].by \in m.to

(* However many asked for a reset key at once, the user gets the one that   *)
(* is on record; only the suspended are left with a key nobody has.         *)
ResetKeysArrive ==
    Quiet => \A u \in Users \ barred :
                 keys[u] = 0 \/ PersonalMail("resetkey", NULL, keys[u], u) \in sent

(* As long as nobody has been suspended, every co-maintainer was told.      *)
NewcomersTold ==
    Quiet /\ barred = {} =>
        \A b \in live : \A u \in comaint[b] : PersonalMail("add", b, 0, u) \in sent

(* Nobody leaves the list of a package base, removed or promoted, without   *)
(* a mail that is ready to be sent; so nobody who is suspended leaves it.   *)
RemovedAreTold ==
    [][\A b \in live' : \A u \in comaint[b] \ comaint'[b] :
          \E w \in Workers : PersonalMail("remove", b, 0, u) \in job'[w].mails]_vars

(* Whatever the handlers do to requests and package bases between their     *)
(* mails, and however they fail, is what Lifecycle promises: rows are kept, *)
(* decided ones stay decided, and a package base goes on a recorded         *)
(* decision to delete it.                                                   *)
Ledger == [i \in DOMAIN reqs |->
              [type |-> reqs[i].type, name |-> reqs[i].name, by |-> reqs[i].by,
               decided |-> reqs[i].status # "Pending"]]

Abstract == INSTANCE Lifecycle WITH ledger <- Ledger

ImplementsLifecycle == Abstract!Spec
=============================================================================
