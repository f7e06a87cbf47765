------------------------------- MODULE GitPush -------------------------------
(***************************************************************************)
(* Pushing over SSH: aurweb/git/serve.py opens the repository of a package *)
(* base, git receives commits and runs the update hook aurweb/git/update.py*)
(* which checks them, describes them in the database in a chain of         *)
(* transactions, and lets git move refs/heads/master only if it succeeds.  *)
(* The web server changes the same tables, and so does the cron job        *)
(* aurweb/scripts/pkgmaint.py.                                             *)
(*                                                                         *)
(* A history is the sequence of what its commits hold, oldest first: the   *)
(* commit is the whole sequence up to it.  A step of a session is one      *)
(* transaction, one change of the file system or of a ref, or the reads    *)
(* between two of them.                                                    *)
(***************************************************************************)
EXTENDS Naturals, FiniteSets, SequencesExt

CONSTANTS Users, Privileged,   \* AUR_PRIVILEGED: Trusted Users and Developers
          Bases, Names,        \* names of package bases and of packages
          Revisions,           \* what a commit may hold, with its .SRCINFO:
          Version,             \* get_version(pkgver, pkgrel, epoch)
          NamesOf,             \* pkgname
          BaseOf,              \* pkgbase
          Broken,              \* the revisions the hook refuses to parse or lint
          Blacklist,           \* PackageBlacklist
          Established,         \* package bases whose repository is set up
          Sessions,            \* SSH sessions that are served at a time
          NULL,
          Ops,                 \* bound: what is done besides pushing
          Managed,             \* bound: the package bases the web server changes
          Histories,           \* bound: the histories that are pushed
          MaxRows,             \* bound: with so many rows created none is deleted
          Crashes              \* whether a session may be killed

AllOps == {"clone", "own", "comaintain", "delete", "age", "pkgmaint"}

ASSUME RevisionsAssumption ==
    /\ DOMAIN Version = Revisions
    /\ NamesOf \in [Revisions -> (SUBSET Names) \ {{}}]
    /\ BaseOf \in [Revisions -> Bases]
ASSUME BoundsAssumption == /\ Ops \subseteq AllOps
                           /\ Managed \subseteq Bases
                           /\ Histories \subseteq Seq(Revisions) \ {<<>>}
                           /\ MaxRows \in Nat
                           /\ Crashes \in BOOLEAN
ASSUME NullAssumption == NULL \notin Users \cup Names \cup Sessions

VARIABLES id,          \* PackageBases.ID, 0 without a row
          maintainer,  \* PackageBases.MaintainerUID
          packager,    \* PackageBases.PackagerUID
          aged,        \* PackageBases.SubmittedTS is more than a day ago
          comaint,     \* users in PackageComaintainers
          notified,    \* users in PackageNotifications
          packages,    \* Packages with the tables that refer to it
          nextId,      \* AUTO_INCREMENT of PackageBases
          repo,        \* how far the repository is set up
          head,        \* refs/heads/master
          tags,        \* refs/tags/ver/*, without what they point at
          job          \* what each session is doing

table == <<id, maintainer, packager, aged, comaint, notified>>
database == <<table, packages, nextId>>
files == <<repo, head, tags>>
vars == <<database, files, job>>

(* A row of Packages: `base' is PackageBaseID, `rev' what it was read from,  *)
(* `writer' the session that has not yet committed its sources, dependencies,*)
(* relations and licenses (NULL when all are there).                         *)
Package == [name : Names, base : Nat, rev : Revisions, writer : Sessions \cup {NULL}]

(* What a session knows: the ref as git advertised it and the one pushed;    *)
(* whether the hook ran and writes metadata; the package base as the hook    *)
(* found it (`row') and as save_metadata did (`into'); `todo' the packages   *)
(* to insert and `name' the one being described.                             *)
Steps == {"idle", "repository", "init", "link", "shell", "check", "create",
          "notify", "save", "add", "describe", "announce", "update"}

Job == [pc : Steps, user : Users \cup {NULL}, base : Bases \cup {NULL},
        push : BOOLEAN, overwrite : BOOLEAN, old : Seq(Revisions),
        new : Seq(Revisions), checked : BOOLEAN, saves : BOOLEAN,
        orphan : BOOLEAN, row : Nat, into : Nat, todo : SUBSET Names,
        name : Names \cup {NULL}]

Idle == [pc |-> "idle", user |-> NULL, base |-> NULL, push |-> FALSE,
         overwrite |-> FALSE, old |-> <<>>, new |-> <<>>, checked |-> FALSE,
         saves |-> FALSE, orphan |-> FALSE, row |-> 0, into |-> 0, todo |-> {},
         name |-> NULL]

TypeOK == /\ id \in [Bases -> Nat]
          /\ maintainer \in [Bases -> Users \cup {NULL}]
          /\ packager \in [Bases -> Users \cup {NULL}]
          /\ aged \in [Bases -> BOOLEAN]
          /\ comaint \in [Bases -> SUBSET Users]
          /\ notified \in [Bases -> SUBSET Users]
          /\ packages \subseteq Package
          /\ nextId \in Nat
          /\ repo \in [Bases -> {"none", "directory", "bare", "hooked"}]
          /\ head \in [Bases -> Seq(Revisions)]
          /\ tags \in [Bases -> SUBSET Range(Version)]
          /\ job \in [Sessions -> Job]

Init == /\ id = [b \in Bases |-> 0]
        /\ maintainer = [b \in Bases |-> NULL]
        /\ packager = [b \in Bases |-> NULL]
        /\ aged = [b \in Bases |-> FALSE]
        /\ comaint = [b \in Bases |-> {}]
        /\ notified = [b \in Bases |-> {}]
        /\ packages = {}
        /\ nextId = 1
        /\ repo = [b \in Bases |-> IF b \in Established THEN "hooked" ELSE "none"]
        /\ head = [b \in Bases |-> <<>>]
        /\ tags = [b \in Bases |-> {}]
        /\ job = [s \in Sessions |-> Idle]

PackagesOf(i) == {p \in packages : p.base = i}
RowExists(i) == \E b \in Bases : id[b] = i

At(s, pc) == job[s].pc = pc
Goto(s, pc) == job' = [job EXCEPT ![s].pc = pc]
Finish(s) == job' = [job EXCEPT ![s] = Idle]

-----------------------------------------------------------------------------
(* git-serve: write access is looked at once, before the commits arrive (and *)
(* a clone raises NumGitPulls, which nothing reads).                        *)
(* For an orphan `pkgbase.Maintainer.Username' raises, whoever pushes.      *)
MayWrite(u, b) == \/ id[b] = 0
                  \/ /\ maintainer[b] # NULL
                     /\ u \in Privileged \cup comaint[b] \cup {maintainer[b]}

Serve(s, u, b, push) ==
    /\ job[s] = Idle
    /\ IF push THEN MayWrite(u, b) ELSE "clone" \in Ops
    /\ job' = [job EXCEPT ![s] = [Idle EXCEPT !.pc = "repository", !.user = u,
                                              !.base = b, !.push = push]]
    /\ UNCHANGED <<database, files>>

(* A repository is made in three steps by the first session that finds no   *)
(* directory, be it a push or a clone; the others go ahead.                 *)
MakeDirectory(s) ==
    /\ At(s, "repository")
    /\ IF repo[job[s].base] = "none"
       THEN repo' = [repo EXCEPT ![job[s].base] = "directory"] /\ Goto(s, "init")
       ELSE repo' = repo /\ Goto(s, "shell")
    /\ UNCHANGED <<database, head, tags>>

InitRepository(s) == /\ At(s, "init")
                     /\ repo' = [repo EXCEPT ![job[s].base] = "bare"]
                     /\ Goto(s, "link")
                     /\ UNCHANGED <<database, head, tags>>

LinkHook(s) == /\ At(s, "link")
               /\ repo' = [repo EXCEPT ![job[s].base] = "hooked"]
               /\ Goto(s, "shell")
               /\ UNCHANGED <<database, head, tags>>

(* git-shell: nothing can be done in a mere directory, and a clone ends the *)
(* session.  A push is advertised the ref and sends another one.            *)
Leave(s) == /\ At(s, "shell")
            /\ ~job[s].push \/ repo[job[s].base] = "directory"
            /\ Finish(s)
            /\ UNCHANGED <<database, files>>

Receive(s, new, overwrite) ==
    /\ At(s, "shell")
    /\ job[s].push
    /\ repo[job[s].base] \in {"bare", "hooked"}
    /\ new # head[job[s].base]
    /\ job' = [job EXCEPT ![s].pc = "check", ![s].old = head[job[s].base],
                          ![s].new = new, ![s].overwrite = overwrite]
    /\ UNCHANGED <<database, files>>

(* Without the link git finds no hook and moves the ref.                    *)
SkipHook(s) == /\ At(s, "check")
               /\ repo[job[s].base] = "bare"
               /\ Goto(s, "update")
               /\ UNCHANGED <<database, files>>

-----------------------------------------------------------------------------
(* update.py main().                                                        *)

(* Mutant: the environment is believed.                                     *)
AnyoneOverwrites(j) == j.overwrite

(* allow_overwrite                                                          *)
MayOverwrite(j) == j.overwrite /\ j.user \in Privileged

(* The commits the walker visits, as positions in the pushed history: those *)
(* it does not share with the old one.                                      *)
Fresh(j) == {i \in 1..Len(j.new) : ~IsPrefix(SubSeq(j.new, 1, i), j.old)}

(* The variables the loop leaves behind are those of the last commit it     *)
(* visits, which is the oldest; with no commit they are not bound.          *)
PushedVersion(j) == Version[j.new[CHOOSE i \in Fresh(j) : \A k \in Fresh(j) : i <= k]]

(* Mutant: whose the names are is not looked at.                            *)
NothingTaken(j) == {}

(* Names that another package base owns.                                    *)
Taken(j) == {p.name : p \in {q \in packages : q.base # id[j.base]}}

Acceptable(j) ==
    LET tip == Last(j.new)
    IN /\ IsPrefix(j.old, j.new) \/ MayOverwrite(j)
       /\ Fresh(j) # {}
       /\ \A i \in Fresh(j) : j.new[i] \notin Broken
       /\ BaseOf[tip] = j.base
       /\ NamesOf[tip] \cap Blacklist = {} \/ j.user \in Privileged
       /\ NamesOf[tip] \cap Taken(j) = {}

(* Mutant: anybody is only warned of a version that was not updated.        *)
CheckWarnsAll(s) ==
    LET j == job[s]
        Found(pc, saves) ==
            job' = [job EXCEPT ![s].pc = pc, ![s].saves = saves, ![s].row = id[j.base],
                               ![s].checked = TRUE, ![s].overwrite = FALSE]
    IN /\ At(s, "check")
       /\ repo[j.base] = "hooked"
       /\ Acceptable(j)
       /\ \/ id[j.base] = 0 /\ Found("create", TRUE)
          \/ /\ id[j.base] # 0
             /\ \E p \in PackagesOf(id[j.base]) :
                   \/ Version[p.rev] # PushedVersion(j) /\ Found("save", TRUE)
                   \/ Version[p.rev] = PushedVersion(j) /\ Found("announce", FALSE)
       /\ UNCHANGED <<database, files>>

(* The version on record is that of packages[0], one of the packages.       *)
Check(s) ==
    LET j == job[s]
        Found(pc, saves) ==
            job' = [job EXCEPT ![s].pc = pc, ![s].saves = saves, ![s].row = id[j.base],
                               ![s].checked = TRUE, ![s].overwrite = FALSE]
    IN /\ At(s, "check")
       /\ repo[j.base] = "hooked"
       /\ Acceptable(j)
       /\ \/ id[j.base] = 0 /\ Found("create", TRUE)
          \/ /\ id[j.base] # 0
             /\ \E p \in PackagesOf(id[j.base]) :
                   \/ Version[p.rev] # PushedVersion(j) /\ Found("save", TRUE)
                   \/ /\ Version[p.rev] = PushedVersion(j)
                      /\ j.user \in Privileged
                      /\ Found("announce", FALSE)
       /\ UNCHANGED <<database, files>>

(* The hook dies: the old tip, pushed without a hook, may have no .SRCINFO, *)
(* the push is not acceptable, packages[0] of a package base without        *)
(* packages raises, or the version was not updated.                         *)
Refuse(s) ==
    LET j == job[s]
    IN /\ At(s, "check")
       /\ repo[j.base] = "hooked"
       /\ \/ j.old # <<>> /\ Last(j.old) \in Broken
          \/ Acceptable(j) =>
                /\ id[j.base] # 0
                /\ \/ PackagesOf(id[j.base]) = {}
                   \/ /\ j.user \notin Privileged
                      /\ \E p \in PackagesOf(id[j.base]) :
                            Version[p.rev] = PushedVersion(j)
       /\ Finish(s)
       /\ UNCHANGED <<database, files>>

(* Mutant: the ID is read before the row is flushed, and is NULL.           *)
CreateWithoutId(s) ==
    LET b == job[s].base
    IN /\ At(s, "create")
       /\ id[b] = 0
       /\ id' = [id EXCEPT ![b] = nextId]
       /\ maintainer' = [maintainer EXCEPT ![b] = job[s].user]
       /\ nextId' = nextId + 1
       /\ job' = [job EXCEPT ![s].pc = "notify", ![s].row = NULL]
       /\ UNCHANGED <<packager, aged, comaint, notified, packages, files>>

(* create_pkgbase, two transactions.                                        *)
CreateBase(s) ==
    LET b == job[s].base
    IN /\ At(s, "create")
       /\ id[b] = 0
       /\ id' = [id EXCEPT ![b] = nextId]
       /\ maintainer' = [maintainer EXCEPT ![b] = job[s].user]
       /\ nextId' = nextId + 1
       /\ job' = [job EXCEPT ![s].pc = "notify", ![s].row = nextId]
       /\ UNCHANGED <<packager, aged, comaint, notified, packages, files>>

NotifyCreator(s) ==
    LET b == job[s].base
    IN /\ At(s, "notify")
       /\ id[b] = job[s].row
       /\ notified' = [notified EXCEPT ![b] = @ \cup {job[s].user}]
       /\ Goto(s, "save")
       /\ UNCHANGED <<id, maintainer, packager, aged, comaint, packages, nextId, files>>

(* Mutant: the packager is not recorded.                                    *)
SaveNobody(s) ==
    LET b == job[s].base
        u == job[s].user
    IN /\ At(s, "save")
       /\ id[b] # 0
       /\ maintainer' = [maintainer EXCEPT ![b] = IF @ = NULL THEN u ELSE @]
       /\ packages' = packages \ PackagesOf(id[b])
       /\ job' = [job EXCEPT ![s].pc = "add", ![s].into = id[b],
                             ![s].orphan = maintainer[b] = NULL,
                             ![s].todo = NamesOf[Last(job[s].new)]]
       /\ UNCHANGED <<id, packager, aged, comaint, notified, nextId, files>>

(* save_metadata: one transaction for the package base, which is looked up  *)
(* again and loses all its packages (and its flag, see PkgBase); then       *)
(* several for each package.                                                *)
SaveBase(s) ==
    LET b == job[s].base
        u == job[s].user
    IN /\ At(s, "save")
       /\ id[b] # 0
       /\ packager' = [packager EXCEPT ![b] = u]
       /\ maintainer' = [maintainer EXCEPT ![b] = IF @ = NULL THEN u ELSE @]
       /\ packages' = packages \ PackagesOf(id[b])
       /\ job' = [job EXCEPT ![s].pc = "add", ![s].into = id[b],
                             ![s].orphan = maintainer[b] = NULL,
                             ![s].todo = NamesOf[Last(job[s].new)]]
       /\ UNCHANGED <<id, aged, comaint, notified, nextId, files>>

AddPackage(s, n) ==
    /\ At(s, "add")
    /\ n \in job[s].todo
    /\ RowExists(job[s].into)
    /\ \A p \in packages : p.name # n
    /\ packages' = packages \cup {[name |-> n, base |-> job[s].into,
                                   rev |-> Last(job[s].new), writer |-> s]}
    /\ job' = [job EXCEPT ![s].pc = "describe", ![s].name = n]
    /\ UNCHANGED <<table, nextId, files>>

Own(s) == {p \in packages : p.name = job[s].name /\ p.writer = s}

(* Sources, dependencies, relations and licenses refer to the package; it   *)
(* is described when the last of their transactions commits.                *)
Describe(s) ==
    LET rest == job[s].todo \ {job[s].name}
    IN /\ At(s, "describe")
       /\ Own(s) # {}
       /\ packages' = (packages \ Own(s))
                          \cup {[p EXCEPT !.writer = NULL] : p \in Own(s)}
       /\ job' = [job EXCEPT ![s].todo = rest, ![s].name = NULL,
                             ![s].pc = IF rest = {} THEN "announce" ELSE "add"]
       /\ UNCHANGED <<table, nextId, files>>

(* The version is tagged, once; then the notification is sent, which loads  *)
(* the package base.  (After the adoption of an orphan save_metadata reads  *)
(* `user.id', which does not exist, and the hook gets no further.)          *)
Announce(s) ==
    LET j == job[s]
        b == j.base
    IN /\ At(s, "announce")
       /\ ~j.orphan
       /\ tags' = IF j.saves THEN [tags EXCEPT ![b] = @ \cup {PushedVersion(j)}]
                             ELSE tags
       /\ IF RowExists(j.row) THEN Goto(s, "update") ELSE Finish(s)
       /\ UNCHANGED <<database, repo, head>>

(* git moves the ref if it still is what it advertised.                     *)
UpdateRef(s) == /\ At(s, "update")
                /\ head[job[s].base] = job[s].old
                /\ head' = [head EXCEPT ![job[s].base] = job[s].new]
                /\ Finish(s)
                /\ UNCHANGED <<database, repo, tags>>

(* Mutant: the hook waits for the package base it wants to save.            *)
FailButForBase(s) ==
    LET j == job[s]
    IN /\ \/ At(s, "create") /\ id[j.base] # 0
          \/ At(s, "notify") /\ id[j.base] # j.row
          \/ At(s, "add") /\ ~RowExists(j.into)
          \/ At(s, "announce") /\ j.orphan
          \/ At(s, "update") /\ head[j.base] # j.old
       /\ Finish(s)
       /\ UNCHANGED <<database, files>>

(* A transaction that fails is rolled back and ends the hook, and the ref   *)
(* stays: the package base exists already or no longer, the name of the     *)
(* package is taken, the package was deleted, two pushes recorded the same  *)
(* new license, or the ref has moved.                                       *)
Fail(s) ==
    LET j == job[s]
    IN /\ \/ At(s, "create") /\ id[j.base] # 0
          \/ At(s, "notify") /\ id[j.base] # j.row
          \/ At(s, "save") /\ id[j.base] = 0
          \/ At(s, "add") /\ \/ ~RowExists(j.into)
                             \/ \E p \in packages : p.name \in j.todo
          \/ At(s, "describe") /\ \/ Own(s) = {}
                                  \/ \E t \in Sessions \ {s} : At(t, "describe")
          \/ At(s, "announce") /\ j.orphan
          \/ At(s, "update") /\ head[j.base] # j.old
       /\ Finish(s)
       /\ UNCHANGED <<database, files>>

(* The connection is cut and the processes of the session are killed.       *)
Crash(s) == /\ Crashes
            /\ job[s] # Idle
            /\ Finish(s)
            /\ UNCHANGED <<database, files>>

-----------------------------------------------------------------------------
(* The web server on the same tables (see PkgBase) and cron.                *)

(* Adoption and disowning.                                                  *)
ChangeOwner(b, m) == /\ "own" \in Ops
                     /\ id[b] # 0
                     /\ maintainer' = [maintainer EXCEPT ![b] = m]
                     /\ UNCHANGED <<id, packager, aged, comaint, notified,
                                    packages, nextId, files, job>>

ChangeComaintainers(b, us) == /\ "comaintain" \in Ops
                              /\ id[b] # 0
                              /\ comaint' = [comaint EXCEPT ![b] = us]
                              /\ UNCHANGED <<id, maintainer, packager, aged, notified,
                                             packages, nextId, files, job>>

(* The rows that go take all that refers to them along; the repository of a *)
(* deleted package base stays.                                              *)
RemoveRows(B) ==
    LET Cleared(column, none) == [b \in Bases |-> IF b \in B THEN none ELSE column[b]]
    IN /\ id' = Cleared(id, 0)
       /\ maintainer' = Cleared(maintainer, NULL)
       /\ packager' = Cleared(packager, NULL)
       /\ aged' = Cleared(aged, FALSE)
       /\ comaint' = Cleared(comaint, {})
       /\ notified' = Cleared(notified, {})
       /\ packages' = {p \in packages : \A b \in B : p.base # id[b]}
       /\ UNCHANGED <<nextId, files, job>>

DeleteBase(b) == /\ "delete" \in Ops
                 /\ nextId <= MaxRows
                 /\ id[b] # 0
                 /\ RemoveRows({b})

Age(b) == /\ "age" \in Ops
          /\ id[b] # 0
          /\ aged' = [aged EXCEPT ![b] = TRUE]
          /\ UNCHANGED <<id, maintainer, packager, comaint, notified, packages,
                         nextId, files, job>>

(* pkgmaint: what is older than a day and was never packaged.               *)
Unpackaged == {b \in Bases : id[b] # 0 /\ aged[b] /\ packager[b] = NULL}

PkgMaint == /\ "pkgmaint" \in Ops
            /\ nextId <= MaxRows
            /\ Unpackaged # {}
            /\ RemoveRows(Unpackaged)

-----------------------------------------------------------------------------
Hook(s) == \/ Check(s) \/ Refuse(s) \/ CreateBase(s) \/ NotifyCreator(s)
           \/ SaveBase(s) \/ \E n \in Names : AddPackage(s, n)
           \/ Describe(s) \/ Announce(s)

Step(s) ==
    \/ MakeDirectory(s) \/ InitRepository(s) \/ LinkHook(s) \/ Leave(s)
    \/ \E new \in Histories, o \in BOOLEAN : Receive(s, new, o)
    \/ SkipHook(s) \/ Hook(s) \/ UpdateRef(s) \/ Fail(s)

(* That privileged users are co-maintainers makes no difference to a push.   *)
Others == \/ \E b \in Managed : \/ \E m \in Users \cup {NULL} : ChangeOwner(b, m)
                                \/ \E us \in SUBSET (Users \ Privileged) : ChangeComaintainers(b, us)
                                \/ DeleteBase(b)
                                \/ Age(b)
          \/ PkgMaint

Next == \/ \E s \in Sessions : Step(s) \/ Crash(s)
        \/ \E s \in Sessions, u \in Users, b \in Bases, push \in BOOLEAN :
              Serve(s, u, b, push)
        \/ Others

Spec == Init /\ [][Next]_vars

(* A session goes on by itself; nobody has to open one.                     *)
FairSpec == Spec /\ \A s \in Sessions : WF_vars(Step(s))

-----------------------------------------------------------------------------
(* Properties.                                                              *)

(* No package of b is older or newer than its master branch, none is        *)
(* missing, and none lacks its sources, dependencies, relations, licenses.  *)
Described(b) == PackagesOf(id[b]) =
    {[name |-> n, base |-> id[b], rev |-> Last(head[b]), writer |-> NULL] :
        n \in NamesOf[Last(head[b])]}

(* The hook "updates package base information and package information in    *)
(* the database" before git moves the ref: with one session at a time, who  *)
(* is not privileged never moves the master branch of a package base        *)
(* without leaving a complete description of the new tip, whatever the web  *)
(* server did between the transactions of the hook.                         *)
MetadataFirst == [][\A s \in Sessions, b \in Bases :
    /\ UpdateRef(s)
    /\ job[s].checked
    /\ job[s].base = b /\ id[b] # 0
    /\ job[s].saves \/ job[s].user \notin Privileged
    => Described(b)']_vars

(* A package base at rest can be pushed to again: it has a packages[0].     *)
(* Without kills and with one session at a time, no failure of the hook     *)
(* stops between the removal of the packages and their insertion.           *)
Pushable == (\A s \in Sessions : job[s] = Idle) =>
                \A b \in Bases : id[b] # 0 => PackagesOf(id[b]) # {}

(* Every session that was opened ends: the hook never waits for a row that  *)
(* is gone.                                                                 *)
SessionsEnd == \A s \in Sessions : job[s] # Idle ~> job[s] = Idle

(* "Deny non-fast-forwards, except for Trusted Users and Developers": of    *)
(* two pushes checked against the same old tip only one can win.            *)
OnlyForward == [][\A s \in Sessions :
    UpdateRef(s) /\ job[s].checked /\ job[s].user \notin Privileged
        => IsPrefix(head[job[s].base], head'[job[s].base])]_vars

(* "Likewise, we should block this push of 'b' since it tries to edit data  *)
(* of the 'terraform' pkgname from the 'a' package" (update.py): no push    *)
(* inserts a package that the master branch of another package base has.    *)
NamesProtected == [][\A s \in Sessions, n \in Names, b \in Bases :
    AddPackage(s, n) /\ b # job[s].base /\ id[b] # 0 /\ head[b] # <<>>
        => n \notin NamesOf[Last(head[b])]]_vars

(* What pkgmaint removes holds no packages: in whatever state kills leave   *)
(* the hook, PackagerUID is set before the first package is there.          *)
UnpackagedIsEmpty == \A b \in Bases :
    id[b] # 0 /\ packager[b] = NULL => PackagesOf(id[b]) = {}

=============================================================================
