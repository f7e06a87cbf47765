------------------------------ MODULE Community ------------------------------
(***************************************************************************)
(* What users leave on package bases and what becomes of it when a package *)
(* base is merged into another or deleted: votes and their count,          *)
(* subscriptions to notifications, comments and keywords.  The handlers of *)
(* aurweb/routers/pkgbase.py and the bulk actions of routers/packages.py,  *)
(* with pkgbase/actions.py, scripts/popupdate.py, scripts/rendercomment.py *)
(* and, for the requests a merge or a deletion decides, RequestRules.      *)
(*                                                                         *)
(* Worker processes share the database only.  One step of a job is one     *)
(* transaction or the reads between two; what the handler remembers of its *)
(* reads is in the job.  Who maintains a package base is PkgBase's matter  *)
(* and constant here.                                                      *)
(***************************************************************************)
EXTENDS RequestRules, FiniteSets

CONSTANTS Workers,        \* the processes of the web server
          TrustedUsers,   \* Trusted Users and Developers
          MaintainerOf,   \* the maintainer of each package base
          Texts,          \* texts of comments
          Keywords,       \* words used as keywords
          Ops,            \* bound: the handlers that are called
          MaxRequests,    \* bound: rows of PackageRequests when a call starts
          MaxComments,    \* bound: rows of PackageComments when a call starts
          Crashes         \* whether a worker may be killed between two steps

AllOps == {"vote", "unvote", "notify", "unnotify", "comment", "edit", "erase",
           "restore", "pin", "unpin", "keywords", "request", "merge", "delete"}

ASSUME UsersAssumption == TrustedUsers \subseteq Users /\ IsFiniteSet(Users)
ASSUME MaintainersAssumption == MaintainerOf \in [Bases -> Users \cup {NULL}]
ASSUME TextsAssumption == NULL \notin Texts
ASSUME BoundsAssumption == /\ Ops \subseteq AllOps
                           /\ MaxRequests \in Nat /\ MaxComments \in Nat
                           /\ Crashes \in BOOLEAN

VARIABLES live,       \* the package bases with a row in PackageBases
          votes,      \* rows of PackageVotes: the voters of each package base
          numVotes,   \* PackageBases.NumVotes (with Popularity)
          notified,   \* rows of PackageNotifications, per package base
          comments,   \* PackageComments, by ID
          keywords,   \* rows of PackageKeywords, per package base
          reqs,       \* PackageRequests, see RequestRules
          job         \* what each worker is doing

vars == <<live, votes, numVotes, notified, comments, keywords, reqs, job>>

(* A row of PackageComments; `base' is NULL once the row is gone, `html' the *)
(* text RenderedComment was rendered from and NULL as long as it is empty,  *)
(* `deleted' and `pinned' whether DelTS and PinnedTS are set.               *)
Comment == [base : Bases \cup {NULL}, by : Users, text : Texts,
            html : Texts \cup {NULL}, deleter : Users \cup {NULL},
            deleted : BOOLEAN, pinned : BOOLEAN]

Steps == {"idle", "vote", "unvote", "recount", "look", "subscribe",
          "unsubscribe", "post", "edit", "render", "save", "erase", "restore",
          "pin", "unpin", "keywords", "file", "note", "handle", "create",
          "settle", "target", "move", "remove", "delete"}

(* `rest' are the package bases a bulk action has still to visit; `id' and  *)
(* `row' a comment and its row as loaded, `text' the text that was sent;    *)
(* `flag' an option of the form; `found' the outcome of a look-up; `ids',   *)
(* `rejected' and `blank' the request rows at hand (see PkgBase); `voters'  *)
(* and `subscribers' rows as they were read, `words' and `had' keywords as  *)
(* they were sent and read.                                                 *)
Job == [op : AllOps \cup {"none"}, pc : Steps, user : Users \cup {NULL},
        base : Bases \cup {NULL}, into : Bases \cup {NULL},
        rest : SUBSET Bases, id : Nat, row : Comment \cup {NULL},
        text : Texts \cup {NULL}, flag : BOOLEAN, found : BOOLEAN,
        ids : SUBSET Nat, rejected : SUBSET Nat, blank : SUBSET Nat,
        voters : SUBSET Users, subscribers : SUBSET Users,
        words : SUBSET Keywords, had : SUBSET Keywords]

Idle == [op |-> "none", pc |-> "idle", user |-> NULL, base |-> NULL,
         into |-> NULL, rest |-> {}, id |-> 0, row |-> NULL, text |-> NULL,
         flag |-> FALSE, found |-> FALSE, ids |-> {}, rejected |-> {},
         blank |-> {}, voters |-> {}, subscribers |-> {}, words |-> {},
         had |-> {}]

TypeOK == /\ live \subseteq Bases
          /\ votes \in [Bases -> SUBSET Users]
          /\ numVotes \in [Bases -> Nat]
          /\ notified \in [Bases -> SUBSET Users]
          /\ comments \in Seq(Comment)
          /\ keywords \in [Bases -> SUBSET Keywords]
          /\ reqs \in Seq(Request)
          /\ job \in [Workers -> Job]

Init == /\ live = Bases
        /\ votes = [b \in Bases |-> {}]
        /\ numVotes = [b \in Bases |-> 0]
        /\ notified = [b \in Bases |-> {}]
        /\ comments = <<>>
        /\ keywords = [b \in Bases |-> {}]
        /\ reqs = <<>>
        /\ job = [w \in Workers |-> Idle]

-----------------------------------------------------------------------------
HasCredential(u, approved) == u \in approved \/ u \in TrustedUsers

(* An idle worker takes a call; only its job changes.                       *)
Receive(w, j) ==
    /\ job[w] = Idle
    /\ j.op \in Ops
    /\ job' = [job EXCEPT ![w] = j]
    /\ UNCHANGED <<live, votes, numVotes, notified, comments, keywords, reqs>>

Call(op, pc, u, b) ==
    [Idle EXCEPT !.op = op, !.pc = pc, !.user = u, !.base = b]

Finish(w) == job' = [job EXCEPT ![w] = Idle]
Goto(w, pc) == job' = [job EXCEPT ![w].pc = pc]

(* A bulk action goes on with one of the package bases it has left.         *)
NextBase(w, pc) ==
    IF job[w].rest = {} THEN Finish(w)
    ELSE \E b \in job[w].rest :
            job' = [job EXCEPT ![w].pc = pc, ![w].base = b,
                               ![w].rest = @ \ {b}]

At(w, pc) == job[w].pc = pc /\ job[w].base \in live

(* Mutant: after a merge the votes of the package base that goes are        *)
(* counted instead of those of the target.                                  *)
CountedSource(w) == job[w].base

(* The package base whose votes a worker counts.                            *)
Counted(w) == IF job[w].op = "merge" THEN job[w].into ELSE job[w].base

(* The row of the comment at hand still exists.                             *)
Stored(w) == comments[job[w].id].base # NULL

(* What the next step of worker w loads or refers to is gone: it raises,    *)
(* the transaction is rolled back and the request answered with an error.   *)
(* A text of ClosureFactory needs the package bases after a row was created *)
(* only, and a bulk action loads its first package base before it commits.  *)
Vanished(w) ==
    LET j == job[w]
        gone == j.base \notin live
        intoGone == j.op = "merge" /\ j.into \notin live
    IN  /\ \/ j.pc \in {"vote", "subscribe", "post", "keywords", "file", "create",
                        "remove", "delete"} /\ gone
           \/ j.pc = "look" /\ j.found /\ gone
           \/ j.pc \in {"note", "handle", "move"} /\ (gone \/ intoGone)
           \/ j.pc = "settle" /\ ~j.found /\ (gone \/ intoGone)
           \/ j.pc = "target" /\ intoGone
           \/ j.pc = "recount" /\ Counted(w) \notin live
           \/ j.pc \in {"edit", "render"} /\ ~Stored(w)
           \/ j.pc = "edit" /\ j.flag /\ gone
        /\ Finish(w)
        /\ UNCHANGED <<live, votes, numVotes, notified, comments, keywords, reqs>>

(* The process of worker w dies; whatever it had not committed is lost.     *)
Crash(w) ==
    /\ Crashes
    /\ job[w] # Idle
    /\ Finish(w)
    /\ UNCHANGED <<live, votes, numVotes, notified, comments, keywords, reqs>>

-----------------------------------------------------------------------------
(* Votes: pkgbase_vote, pkgbase_unvote and popupdate.                       *)

VotePost(w, u, b) ==
    /\ b \in live
    /\ u \notin votes[b]
    /\ Receive(w, Call("vote", "vote", u, b))

(* The unique index on the table fails a second vote of the same user.      *)
CastVote(w) ==
    LET b == job[w].base
        u == job[w].user
    IN  /\ At(w, "vote")
        /\ votes' = [votes EXCEPT ![b] = @ \cup {u}]
        /\ IF u \in votes[b] THEN Finish(w) ELSE Goto(w, "recount")
        /\ UNCHANGED <<live, numVotes, notified, comments, keywords, reqs>>

UnvotePost(w, u, b) ==
    /\ b \in live
    /\ u \in votes[b]
    /\ Receive(w, Call("unvote", "unvote", u, b))

WithdrawVote(w) ==
    /\ job[w].pc = "unvote"
    /\ votes' = [votes EXCEPT ![job[w].base] = @ \ {job[w].user}]
    /\ Goto(w, "recount")
    /\ UNCHANGED <<live, numVotes, notified, comments, keywords, reqs>>

(* run_variable: one UPDATE that counts the rows of the package bases S.    *)
Recounted(S) ==
    [b \in Bases |-> IF b \in S \cap live THEN Cardinality(votes[b])
                     ELSE numVotes[b]]

(* run_single, after a vote or for the target of a merge.                   *)
Recount(w) ==
    /\ job[w].pc = "recount"
    /\ Counted(w) \in live
    /\ numVotes' = Recounted({Counted(w)})
    /\ IF job[w].op = "merge" THEN Goto(w, "remove") ELSE Finish(w)
    /\ UNCHANGED <<live, votes, notified, comments, keywords, reqs>>

(* The cron job counts every package base.                                  *)
PopUpdate ==
    /\ numVotes' = Recounted(Bases)
    /\ UNCHANGED <<live, votes, notified, comments, keywords, reqs, job>>

-----------------------------------------------------------------------------
(* Subscriptions: packages_notify and packages_unnotify, of which the       *)
(* handlers of a single package base are the case S = {b}.                  *)

NotifyPost(w, u, S) ==
    /\ S # {} /\ S \subseteq live
    /\ \A b \in S : u \notin notified[b]
    /\ \E b \in S :
          Receive(w, [Call("notify", "look", u, b) EXCEPT !.rest = S \ {b}])

UnnotifyPost(w, u, S) ==
    /\ S # {} /\ S \subseteq live
    /\ \A b \in S : u \in notified[b]
    /\ \E b \in S :
          Receive(w, [Call("unnotify", "look", u, b) EXCEPT !.rest = S \ {b}])

(* Each package base is looked at once more before it is changed.           *)
Look(w) ==
    LET j == job[w]
        subscribed == j.user \in notified[j.base]
    IN  /\ j.pc = "look"
        /\ j.found => j.base \in live
        /\ CASE j.op = "notify" /\ ~subscribed -> Goto(w, "subscribe")
             [] j.op = "unnotify" /\ subscribed -> Goto(w, "unsubscribe")
             [] OTHER -> NextBase(w, "look")
        /\ UNCHANGED <<live, votes, numVotes, notified, comments, keywords, reqs>>

(* NextBase with the objects of the session expired by a commit.            *)
Committed(w) ==
    IF job[w].rest = {} THEN Finish(w)
    ELSE \E b \in job[w].rest :
            job' = [job EXCEPT ![w].pc = "look", ![w].base = b,
                               ![w].rest = @ \ {b}, ![w].found = TRUE]

(* A subscription inserted meanwhile fails the rest of the bulk action.     *)
Subscribe(w) ==
    LET b == job[w].base
        u == job[w].user
    IN  /\ At(w, "subscribe")
        /\ notified' = [notified EXCEPT ![b] = @ \cup {u}]
        /\ IF u \in notified[b] THEN Finish(w) ELSE Committed(w)
        /\ UNCHANGED <<live, votes, numVotes, comments, keywords, reqs>>

Unsubscribe(w) ==
    /\ job[w].pc = "unsubscribe"
    /\ notified' = [notified EXCEPT ![job[w].base] = @ \ {job[w].user}]
    /\ Committed(w)
    /\ UNCHANGED <<live, votes, numVotes, comments, keywords, reqs>>

-----------------------------------------------------------------------------
(* Comments.                                                                *)

CommentPost(w, u, b) ==
    /\ b \in live
    /\ Len(comments) < MaxComments
    /\ \E t \in Texts, f \in BOOLEAN :
          Receive(w, [Call("comment", "post", u, b) EXCEPT !.text = t, !.flag = f])

AddComment(w) ==
    LET j == job[w]
    IN  /\ At(w, "post")
        /\ comments' = Append(comments,
              [base |-> j.base, by |-> j.user, text |-> j.text, html |-> NULL,
               deleter |-> NULL, deleted |-> FALSE, pinned |-> FALSE])
        /\ notified' = IF j.flag THEN [notified EXCEPT ![j.base] = @ \cup {j.user}]
                       ELSE notified
        /\ job' = [job EXCEPT ![w].pc = "render", ![w].id = Len(comments) + 1]
        /\ UNCHANGED <<live, votes, numVotes, keywords, reqs>>

(* get_pkgbase_comment: comment i is looked up under its package base and   *)
(* loaded.                                                                  *)
OnComment(op, pc, u, i) ==
    [Call(op, pc, u, comments[i].base) EXCEPT !.id = i, !.row = comments[i]]

(* Any user who is logged in may edit.  A text that differs from the loaded *)
(* one is saved; the comment is rendered in either case.                    *)
EditPost(w, u, i) ==
    /\ comments[i].base # NULL
    /\ \E t \in Texts, f \in BOOLEAN :
          Receive(w, [OnComment("edit", IF t # comments[i].text THEN "edit"
                                        ELSE "save", u, i)
                      EXCEPT !.text = t, !.flag = f])

EditComment(w) ==
    LET j == job[w]
    IN  /\ j.pc = "edit"
        /\ Stored(w)
        /\ j.flag => j.base \in live
        /\ comments' = [comments EXCEPT ![j.id].text = j.text]
        /\ notified' = IF j.flag THEN [notified EXCEPT ![j.base] = @ \cup {j.user}]
                       ELSE notified
        /\ Goto(w, "render")
        /\ UNCHANGED <<live, votes, numVotes, keywords, reqs>>

(* update_comment_render reads the row and saves what it rendered, unless   *)
(* it was loaded with it, in a transaction of its own.                      *)
Render(w) ==
    /\ job[w].pc = "render"
    /\ Stored(w)
    /\ job' = [job EXCEPT ![w].pc = "save", ![w].row = comments[job[w].id]]
    /\ UNCHANGED <<live, votes, numVotes, notified, comments, keywords, reqs>>

SaveRendered(w) ==
    LET j == job[w]
    IN  /\ j.pc = "save"
        /\ comments' = IF Stored(w) /\ j.row.html # j.row.text
                       THEN [comments EXCEPT ![j.id].html = j.row.text]
                       ELSE comments
        /\ Finish(w)
        /\ UNCHANGED <<live, votes, numVotes, notified, keywords, reqs>>

ErasePost(w, u, i) ==
    /\ comments[i].base # NULL
    /\ HasCredential(u, {comments[i].by})
    /\ Receive(w, OnComment("erase", "erase", u, i))

RestorePost(w, u, i) ==
    /\ comments[i].base # NULL
    /\ HasCredential(u, {comments[i].by})
    /\ Receive(w, OnComment("restore", "restore", u, i))

PinPost(w, u, i, op) ==
    /\ comments[i].base # NULL
    /\ HasCredential(u, {MaintainerOf[comments[i].base]})
    /\ Receive(w, OnComment(op, op, u, i))

(* A column is written where the new value differs from the loaded one.     *)
Marked(j, row) ==
    CASE j.pc = "erase" ->
           [row EXCEPT !.deleted = TRUE,
                       !.deleter = IF j.row.deleter = j.user THEN @ ELSE j.user]
      [] j.pc = "restore" ->
           [row EXCEPT !.deleted = IF j.row.deleted THEN FALSE ELSE @,
                       !.deleter = IF j.row.deleter # NULL THEN NULL ELSE @]
      [] j.pc = "pin" -> [row EXCEPT !.pinned = TRUE]
      [] OTHER -> [row EXCEPT !.pinned = IF j.row.pinned THEN FALSE ELSE @]

MarkComment(w) ==
    LET j == job[w]
    IN  /\ j.pc \in {"erase", "restore", "pin", "unpin"}
        /\ comments' = IF Stored(w)
                       THEN [comments EXCEPT ![j.id] = Marked(j, @)]
                       ELSE comments
        /\ Finish(w)
        /\ UNCHANGED <<live, votes, numVotes, notified, keywords, reqs>>

-----------------------------------------------------------------------------
(* Keywords: anybody replaces the keywords of a package base by S.          *)

KeywordsPost(w, u, b) ==
    /\ b \in live
    /\ \E S \in SUBSET Keywords :
          Receive(w, [Call("keywords", "keywords", u, b) EXCEPT
                         !.words = S, !.had = keywords[b] \cap S])

(* Those not in S are deleted as the transaction finds them, those not read *)
(* before are inserted, which fails where one was inserted meanwhile.       *)
SetKeywords(w) ==
    LET j == job[w]
        b == j.base
        new == j.words \ j.had
    IN  /\ At(w, "keywords")
        /\ keywords' = IF new \cap keywords[b] # {} THEN keywords
                       ELSE [keywords EXCEPT ![b] = (@ \cap j.words) \cup new]
        /\ Finish(w)
        /\ UNCHANGED <<live, votes, numVotes, notified, comments, reqs>>

-----------------------------------------------------------------------------
(* Requests to merge, merges and deletions.                                 *)

(* validate.request for a merge: the target exists and is another one.      *)
RequestPost(w, u, b, into) ==
    /\ b \in live
    /\ into \in live \ {b}
    /\ Len(reqs) < MaxRequests
    /\ Receive(w, [Call("request", "file", u, b) EXCEPT !.into = into])

File(w) ==
    LET j == job[w]
    IN  /\ At(w, "file")
        /\ reqs' = Append(reqs, NewRequest("merge", j.base, j.into, j.user, 0))
        /\ Finish(w)
        /\ UNCHANGED <<live, votes, numVotes, notified, comments, keywords>>

MergePost(w, u, b, into) ==
    /\ b \in live
    /\ HasCredential(u, {})
    /\ into \in live \ {b}
    /\ Len(reqs) <= MaxRequests
    /\ \E c \in BOOLEAN :
          Receive(w, [Call("merge", IF c THEN "note" ELSE "handle", u, b)
                         EXCEPT !.into = into])

(* packages_delete: no closure comment can be given to a bulk deletion.     *)
DeletePost(w, u, S) ==
    /\ S # {} /\ S \subseteq live
    /\ HasCredential(u, {})
    /\ Len(reqs) <= MaxRequests
    /\ \E b \in S :
          Receive(w, [Call("delete", "handle", u, b) EXCEPT !.rest = S \ {b}])

TypeOf(w) == IF job[w].op = "merge" THEN "merge" ELSE "deletion"
Reachable(w) == job[w].op = "merge" => job[w].into \in live

Note(w) ==
    LET j == job[w]
    IN  /\ At(w, "note") /\ Reachable(w)
        /\ reqs' = UpdateClosureComment(reqs, "merge", j.base, j.into)
        /\ Goto(w, "handle")
        /\ UNCHANGED <<live, votes, numVotes, notified, comments, keywords>>

(* Mutant: requests that name another target are left alone.                *)
HandleAcceptedOnly(w) ==
    LET j == job[w]
        accepted == ToAccept(reqs, TypeOf(w), j.base, j.into)
    IN  /\ At(w, "handle") /\ Reachable(w)
        /\ job' = [job EXCEPT ![w].pc = IF accepted = {} THEN "create" ELSE "settle",
                              ![w].found = accepted # {},
                              ![w].ids = accepted,
                              ![w].blank = Blank(reqs, accepted)]
        /\ UNCHANGED <<live, votes, numVotes, notified, comments, keywords, reqs>>

(* Mutant: no request is created where none can be accepted.                *)
HandleUntracked(w) ==
    LET j == job[w]
        accepted == ToAccept(reqs, TypeOf(w), j.base, j.into)
        refused == ToReject(reqs, TypeOf(w), j.base, j.into)
    IN  /\ At(w, "handle") /\ Reachable(w)
        /\ job' = [job EXCEPT ![w].pc = "settle",
                              ![w].found = accepted # {},
                              ![w].ids = accepted,
                              ![w].rejected = refused,
                              ![w].blank = Blank(reqs, accepted \cup refused)]
        /\ UNCHANGED <<live, votes, numVotes, notified, comments, keywords, reqs>>

(* handle_request: the requests to accept and, for a merge, those that name *)
(* another target, to reject.                                               *)
Handle(w) ==
    LET j == job[w]
        accepted == ToAccept(reqs, TypeOf(w), j.base, j.into)
        refused == ToReject(reqs, TypeOf(w), j.base, j.into)
    IN  /\ At(w, "handle") /\ Reachable(w)
        /\ job' = [job EXCEPT ![w].pc = IF accepted = {} THEN "create" ELSE "settle",
                              ![w].found = accepted # {},
                              ![w].ids = accepted,
                              ![w].rejected = refused,
                              ![w].blank = Blank(reqs, accepted \cup refused)]
        /\ UNCHANGED <<live, votes, numVotes, notified, comments, keywords, reqs>>

Create(w) ==
    LET j == job[w]
        id == Len(reqs) + 1
    IN  /\ At(w, "create")
        /\ reqs' = Append(reqs, NewRequest(TypeOf(w), j.base, j.into, j.user, 0))
        /\ job' = [job EXCEPT ![w].pc = "settle", ![w].ids = {id},
                              ![w].blank = @ \cup {id}]
        /\ UNCHANGED <<live, votes, numVotes, notified, comments, keywords>>

Settle(w) ==
    LET j == job[w]
    IN  /\ j.pc = "settle"
        /\ j.found \/ (j.base \in live /\ Reachable(w))
        /\ reqs' = ClosePkgreq(ClosePkgreq(reqs, j.ids, j.blank, "Accepted"),
                               j.rejected, j.blank, "Rejected")
        /\ Goto(w, IF j.op = "merge" THEN "target" ELSE "delete")
        /\ UNCHANGED <<live, votes, numVotes, notified, comments, keywords>>

(* target_votes and target_notifs are read before the transaction.          *)
ReadTarget(w) ==
    LET into == job[w].into
    IN  /\ job[w].pc = "target"
        /\ into \in live
        /\ job' = [job EXCEPT ![w].pc = "move",
                              ![w].voters = votes[into],
                              ![w].subscribers = notified[into]]
        /\ UNCHANGED <<live, votes, numVotes, notified, comments, keywords, reqs>>

(* Mutant: the subscribers are compared with the voters of the target.      *)
MoveMixedUp(w) ==
    LET j == job[w]
        b == j.base
        voters == votes[b] \ j.voters
        subscribers == notified[b] \ j.voters
    IN  /\ At(w, "move") /\ Reachable(w)
        /\ IF subscribers \cap notified[j.into] # {}
           THEN /\ Finish(w)
                /\ UNCHANGED <<votes, notified, comments>>
           ELSE /\ votes' = [votes EXCEPT ![b] = @ \ voters,
                                          ![j.into] = @ \cup voters]
                /\ notified' = [notified EXCEPT ![b] = @ \ subscribers,
                                                ![j.into] = @ \cup subscribers]
                /\ comments' = [i \in DOMAIN comments |->
                                   IF comments[i].base = b
                                   THEN [comments[i] EXCEPT !.base = j.into]
                                   ELSE comments[i]]
                /\ Goto(w, "recount")
        /\ UNCHANGED <<live, numVotes, keywords, reqs>>

(* All comments and the votes and subscriptions the target was read without *)
(* move.  Where the target has got one of them meanwhile the unique index   *)
(* fails the transaction.                                                   *)
Move(w) ==
    LET j == job[w]
        b == j.base
        voters == votes[b] \ j.voters
        subscribers == notified[b] \ j.subscribers
    IN  /\ At(w, "move") /\ Reachable(w)
        /\ IF voters \cap votes[j.into] # {}
              \/ subscribers \cap notified[j.into] # {}
           THEN /\ Finish(w)
                /\ UNCHANGED <<votes, notified, comments>>
           ELSE /\ votes' = [votes EXCEPT ![b] = @ \ voters,
                                          ![j.into] = @ \cup voters]
                /\ notified' = [notified EXCEPT ![b] = @ \ subscribers,
                                                ![j.into] = @ \cup subscribers]
                /\ comments' = [i \in DOMAIN comments |->
                                   IF comments[i].base = b
                                   THEN [comments[i] EXCEPT !.base = j.into]
                                   ELSE comments[i]]
                /\ Goto(w, "recount")
        /\ UNCHANGED <<live, numVotes, keywords, reqs>>

(* What refers to the row of package base b goes with it, except requests.  *)
RemoveBase(b) ==
    /\ live' = live \ {b}
    /\ votes' = [votes EXCEPT ![b] = {}]
    /\ numVotes' = [numVotes EXCEPT ![b] = 0]
    /\ notified' = [notified EXCEPT ![b] = {}]
    /\ comments' = [i \in DOMAIN comments |->
                       IF comments[i].base = b
                       THEN [comments[i] EXCEPT !.base = NULL] ELSE comments[i]]
    /\ keywords' = [keywords EXCEPT ![b] = {}]
    /\ reqs' = DetachRequests(reqs, b)

(* "Delete pkgbase and its packages now that everything's merged."          *)
Remove(w) ==
    /\ At(w, "remove")
    /\ RemoveBase(job[w].base)
    /\ Finish(w)

(* pkgbase_delete_instance of one package base of a bulk deletion.  One     *)
(* deleted after it was loaded is no error here.                            *)
Delete(w) ==
    /\ job[w].pc = "delete"
    /\ RemoveBase(job[w].base)
    /\ NextBase(w, "handle")

-----------------------------------------------------------------------------
Serve(w, u, b) ==
    \/ VotePost(w, u, b)
    \/ UnvotePost(w, u, b)
    \/ CommentPost(w, u, b)
    \/ KeywordsPost(w, u, b)
    \/ \E into \in Bases : RequestPost(w, u, b, into) \/ MergePost(w, u, b, into)

ServeBulk(w, u, S) ==
    \/ NotifyPost(w, u, S)
    \/ UnnotifyPost(w, u, S)
    \/ DeletePost(w, u, S)

ServeComment(w, u, i) ==
    \/ EditPost(w, u, i)
    \/ ErasePost(w, u, i)
    \/ RestorePost(w, u, i)
    \/ PinPost(w, u, i, "pin")
    \/ PinPost(w, u, i, "unpin")

Step(w) ==
    \/ CastVote(w)
    \/ WithdrawVote(w)
    \/ Recount(w)
    \/ Look(w)
    \/ Subscribe(w)
    \/ Unsubscribe(w)
    \/ AddComment(w)
    \/ EditComment(w)
    \/ Render(w)
    \/ SaveRendered(w)
    \/ MarkComment(w)
    \/ SetKeywords(w)
    \/ File(w)
    \/ Note(w)
    \/ Handle(w)
    \/ Create(w)
    \/ Settle(w)
    \/ ReadTarget(w)
    \/ Move(w)
    \/ Remove(w)
    \/ Delete(w)
    \/ Vanished(w)

(* The cron job runs forever, so the system never stops.                    *)
Next ==
    \/ \E w \in Workers, u \in Users, b \in Bases : Serve(w, u, b)
    \/ \E w \in Workers, u \in Users, S \in SUBSET Bases : ServeBulk(w, u, S)
    \/ \E w \in Workers, u \in Users, i \in DOMAIN comments : ServeComment(w, u, i)
    \/ \E w \in Workers : Step(w) \/ Crash(w)
    \/ PopUpdate

Spec == Init /\ [][Next]_vars

-----------------------------------------------------------------------------
(* Properties.                                                              *)

Decided(types, b) == {i \in DOMAIN reqs : /\ reqs[i].name = b
                                          /\ reqs[i].type \in types
                                          /\ reqs[i].status # "Pending"}

(* A package base that a merge deletes takes nothing with it the target     *)
(* does not have: no comment, no vote, no subscription, whatever was merged *)
(* into it before.  With one worker: what users add between the transaction *)
(* that moves the rows and the one that deletes the package base is lost.   *)
EverythingMerged ==
    [][\A w \in Workers :
          LET j == job[w]
          IN  j.pc = "remove" /\ j.base \in live \ live'
                 => /\ votes[j.base] \subseteq votes[j.into]
                    /\ notified[j.base] \subseteq notified[j.into]
                    /\ \A i \in DOMAIN comments : comments[i].base # j.base]_vars

(* A merge leaves no request to merge the package base open, into whichever *)
(* target: handle_request accepts those into the target and rejects the     *)
(* others.  With one worker: a request may be filed between the two.        *)
NoMergeLeftOpen ==
    \A w \in Workers :
        job[w].pc \in {"target", "move", "recount", "remove"} /\ job[w].op = "merge"
            => \A i \in DOMAIN reqs : ~ /\ reqs[i].base = job[w].base
                                        /\ reqs[i].type = "merge"
                                        /\ reqs[i].status = "Pending"

(* Every package base that is gone left a decided request to delete or      *)
(* merge it, with its name: also when bulk deletions and merges of several  *)
(* workers overlap.                                                         *)
GoneIsTraced == \A b \in Bases \ live : Decided({"deletion", "merge"}, b) # {}

(* NumVotes of a package base is the number of its votes, or a worker is    *)
(* about to count them, or a merge out of the package base has begun (whose *)
(* target may vanish before the package base is deleted).  In particular    *)
(* several workers that vote and count in any order leave the right count.  *)
VotesCounted ==
    Crashes \/ \A b \in live :
        \/ numVotes[b] = Cardinality(votes[b])
        \/ \E w \in Workers : job[w].pc = "recount" /\ Counted(w) = b
        \/ Decided({"merge"}, b) # {}

(* What the handlers do to package bases and requests, however they overlap *)
(* and wherever they are killed, is what Lifecycle promises: no request is  *)
(* taken back, reopened or given to somebody else, and a package base goes  *)
(* only on a decision that was recorded before.                             *)
Abstract == INSTANCE Lifecycle WITH ledger <- LedgerOf(reqs)

ImplementsLifecycle == Abstract!Spec
=============================================================================
