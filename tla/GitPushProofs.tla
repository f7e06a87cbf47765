---------------------------- MODULE GitPushProofs ----------------------------
(* Theorems about GitPush, for any number of sessions, users, package bases *)
(* and revisions, killed or not, and whatever the web server does: types,   *)
(* fast-forwards, what pkgmaint removes, and what hooks that do not meet    *)
(* leave in the database.                                                   *)
EXTENDS GitPush, TLAPS, WellFoundedInduction

-----------------------------------------------------------------------------
(* What a session knows at each of its steps.                               *)

Unchecked == {"idle", "repository", "init", "link", "shell", "check"}
Pushed == Steps \ {"idle", "repository", "init", "link", "shell"}
Accepted == {"create", "notify", "save", "add", "describe", "announce"}

JobFits(j) ==
    /\ j.pc # "idle" => j.user \in Users /\ j.base \in Bases
    /\ j.pc \in Pushed => j.new # <<>>
    /\ j.pc \in Accepted => Fresh(j) # {}
    /\ j.pc = "describe" => j.name \in Names
    /\ j.pc \in Unchecked => ~j.checked
    /\ j.checked /\ j.user \notin Privileged => IsPrefix(j.old, j.new)

TypeInv == TypeOK /\ \A s \in Sessions : JobFits(job[s])

LEMMA JobReplaced ==
    ASSUME TypeInv, NEW s \in Sessions, NEW j \in Job, JobFits(j),
           job' = [job EXCEPT ![s] = j]
    PROVE  job' \in [Sessions -> Job] /\ \A t \in Sessions : JobFits(job'[t])
BY DEF TypeInv, TypeOK

LEMMA IdleFits == Idle \in Job /\ JobFits(Idle)
BY DEF Idle, Job, JobFits, Steps, Pushed, Accepted, Unchecked

LEMMA FinishType ==
    ASSUME TypeInv, NEW s \in Sessions, Finish(s)
    PROVE  job' \in [Sessions -> Job] /\ \A t \in Sessions : JobFits(job'[t])
BY IdleFits, JobReplaced DEF Finish

(* A session that goes on without learning anything new.                    *)
LEMMA GotoType ==
    ASSUME TypeInv, NEW s \in Sessions, NEW pc \in Steps, Goto(s, pc),
           job[s].pc # "idle",
           pc \in Pushed => job[s].pc \in Pushed,
           pc \in Accepted => job[s].pc \in Accepted,
           pc # "describe",
           pc \in Unchecked => job[s].pc \in Unchecked
    PROVE  job' \in [Sessions -> Job] /\ \A t \in Sessions : JobFits(job'[t])
<1> DEFINE j == [job[s] EXCEPT !.pc = pc]
<1>1. job[s] \in Job /\ JobFits(job[s])
  BY DEF TypeInv, TypeOK
<1>2. j \in Job
  BY <1>1 DEF Job
<1>3. Fresh(j) = Fresh(job[s])
  BY <1>1 DEF Fresh, Job
<1>4. JobFits(j)
  BY <1>1, <1>3 DEF JobFits, Job, Steps, Pushed, Accepted, Unchecked
<1>5. job' = [job EXCEPT ![s] = j]
  BY DEF Goto, TypeInv, TypeOK
<1> QED
  BY <1>2, <1>4, <1>5, JobReplaced

-----------------------------------------------------------------------------
(* Histories.                                                               *)

LEMMA TipType ==
    ASSUME NEW h \in Seq(Revisions), h # <<>>
    PROVE  Last(h) \in Revisions /\ NamesOf[Last(h)] \in SUBSET Names
<1>1. Len(h) \in 1 .. Len(h)
  OBVIOUS
<1> QED
  BY <1>1, RevisionsAssumption DEF Last

LEMMA PushType ==
    ASSUME NEW h \in Histories
    PROVE  h \in Seq(Revisions) /\ h # <<>>
BY BoundsAssumption

LEMMA LeastNatural ==
    ASSUME NEW P \in SUBSET Nat, P # {}
    PROVE  \E p \in P : \A q \in P : p <= q
<1>1. PICK m \in P : \A q \in P : ~(<<q, m>> \in OpToRel(<, Nat))
  BY NatLessThanWellFounded, WFMin
<1>2. m \in Nat /\ \A q \in P : q \in Nat /\ ~(q < m)
  BY <1>1 DEF OpToRel
<1> QED
  BY <1>2

LEMMA VersionType ==
    ASSUME NEW j \in Job, Fresh(j) # {}
    PROVE  PushedVersion(j) \in Range(Version)
<1>1. Fresh(j) \in SUBSET (1 .. Len(j.new)) /\ Len(j.new) \in Nat
  BY DEF Fresh, Job
<1>2. Fresh(j) \in SUBSET Nat
  BY <1>1
<1>3. \E x \in Fresh(j) : \A k \in Fresh(j) : x <= k
  BY <1>2, LeastNatural
<1> DEFINE i == CHOOSE x \in Fresh(j) : \A k \in Fresh(j) : x <= k
<1>4. i \in 1 .. Len(j.new)
  BY <1>1, <1>3
<1>5. j.new[i] \in Revisions
  BY <1>4 DEF Job
<1> QED
  BY <1>5, RevisionsAssumption DEF PushedVersion, Range

-----------------------------------------------------------------------------
(* Type correctness.                                                        *)

LEMMA InitType == Init => TypeInv
<1>1. ASSUME Init PROVE TypeOK
  BY <1>1, IdleFits DEF Init, TypeOK
<1>2. ASSUME Init PROVE \A s \in Sessions : JobFits(job[s])
  BY <1>2, IdleFits DEF Init
<1> QED
  BY <1>1, <1>2 DEF TypeInv

(* Serving a session and setting up the repository.                         *)
LEMMA ShellType ==
    ASSUME TypeInv, NEW s \in Sessions,
           \/ \E u \in Users, b \in Bases, push \in BOOLEAN : Serve(s, u, b, push)
           \/ MakeDirectory(s) \/ InitRepository(s) \/ LinkHook(s) \/ Leave(s)
           \/ SkipHook(s)
    PROVE  TypeInv'
<1> USE DEF At
<1>1. CASE \E u \in Users, b \in Bases, push \in BOOLEAN : Serve(s, u, b, push)
  <2>1. PICK u \in Users, b \in Bases, push \in BOOLEAN : Serve(s, u, b, push)
    BY <1>1
  <2> DEFINE j == [Idle EXCEPT !.pc = "repository", !.user = u, !.base = b, !.push = push]
  <2>2. j \in Job /\ JobFits(j)
    BY IdleFits DEF Idle, Job, JobFits, Steps, Pushed, Accepted, Unchecked
  <2>3. job' \in [Sessions -> Job] /\ \A t \in Sessions : JobFits(job'[t])
    BY <2>1, <2>2, JobReplaced DEF Serve
  <2> QED
    BY <2>1, <2>3 DEF Serve, TypeInv, TypeOK, database, table, files
<1>2. CASE MakeDirectory(s)
  <2>1. job' \in [Sessions -> Job] /\ \A t \in Sessions : JobFits(job'[t])
    BY <1>2, GotoType DEF MakeDirectory, Steps, Pushed, Accepted, Unchecked
  <2> QED
    BY <1>2, <2>1 DEF MakeDirectory, TypeInv, TypeOK, database, table
<1>3. CASE InitRepository(s)
  <2>1. job' \in [Sessions -> Job] /\ \A t \in Sessions : JobFits(job'[t])
    BY <1>3, GotoType DEF InitRepository, Steps, Pushed, Accepted, Unchecked
  <2> QED
    BY <1>3, <2>1 DEF InitRepository, TypeInv, TypeOK, database, table
<1>4. CASE LinkHook(s)
  <2>1. job' \in [Sessions -> Job] /\ \A t \in Sessions : JobFits(job'[t])
    BY <1>4, GotoType DEF LinkHook, Steps, Pushed, Accepted, Unchecked
  <2> QED
    BY <1>4, <2>1 DEF LinkHook, TypeInv, TypeOK, database, table
<1>5. CASE Leave(s)
  BY <1>5, FinishType DEF Leave, TypeInv, TypeOK, database, table, files
<1>6. CASE SkipHook(s)
  <2>1. job' \in [Sessions -> Job] /\ \A t \in Sessions : JobFits(job'[t])
    BY <1>6, GotoType DEF SkipHook, Steps, Pushed, Accepted, Unchecked
  <2> QED
    BY <1>6, <2>1 DEF SkipHook, TypeInv, TypeOK, database, table, files
<1> QED
  BY <1>1, <1>2, <1>3, <1>4, <1>5, <1>6

LEMMA ReceiveType ==
    ASSUME TypeInv, NEW s \in Sessions, NEW o \in BOOLEAN,
           NEW new \in Histories, Receive(s, new, o)
    PROVE  TypeInv'
<1>1. job[s] \in Job /\ JobFits(job[s]) /\ job[s].pc = "shell"
  BY DEF TypeInv, TypeOK, Receive, At
<1>2. head[job[s].base] \in Seq(Revisions)
  BY <1>1 DEF TypeInv, TypeOK, JobFits
<1> DEFINE j == [job[s] EXCEPT !.pc = "check", !.old = head[job[s].base],
                               !.new = new, !.overwrite = o]
<1>3. j \in Job
  BY <1>1, <1>2, PushType DEF Job, Steps
<1>4. new # <<>> /\ j.new = new /\ j.pc = "check"
  BY <1>1, PushType DEF Job
<1>5. JobFits(j)
  BY <1>1, <1>4 DEF JobFits, Job, Pushed, Accepted, Unchecked
<1>6. job' = [job EXCEPT ![s] = j]
  BY DEF Receive, TypeInv, TypeOK
<1> HIDE DEF j
<1>7. job' \in [Sessions -> Job] /\ \A t \in Sessions : JobFits(job'[t])
  BY <1>3, <1>5, <1>6, JobReplaced
<1> QED
  BY <1>7 DEF Receive, TypeInv, TypeOK, database, table, files

LEMMA CheckType ==
    ASSUME TypeInv, NEW s \in Sessions, Check(s)
    PROVE  TypeInv'
<1>1. job[s] \in Job /\ JobFits(job[s]) /\ job[s].pc = "check" /\ Acceptable(job[s])
  BY DEF TypeInv, TypeOK, Check, At
<1>2. id[job[s].base] \in Nat
  BY <1>1 DEF TypeInv, TypeOK, JobFits
<1> DEFINE j(pc, saves) == [job[s] EXCEPT !.pc = pc, !.saves = saves,
                                !.row = id[job[s].base], !.checked = TRUE,
                                !.overwrite = FALSE]
<1>3. ASSUME NEW pc \in Accepted \ {"describe"}, NEW saves \in BOOLEAN
      PROVE  j(pc, saves) \in Job /\ JobFits(j(pc, saves))
  <2>1. j(pc, saves) \in Job
    BY <1>1, <1>2 DEF Job, Steps, Accepted
  <2>2. Fresh(j(pc, saves)) = Fresh(job[s])
    BY <1>1 DEF Fresh, Job
  <2>3. job[s].user \notin Privileged => IsPrefix(job[s].old, job[s].new)
    BY <1>1 DEF Acceptable, MayOverwrite
  <2> QED
    BY <1>1, <2>1, <2>2, <2>3 DEF JobFits, Job, Acceptable, Pushed, Accepted, Unchecked
<1>4. \/ job' = [job EXCEPT ![s] = j("create", TRUE)]
      \/ job' = [job EXCEPT ![s] = j("save", TRUE)]
      \/ job' = [job EXCEPT ![s] = j("announce", FALSE)]
  BY DEF Check, TypeInv, TypeOK
<1> HIDE DEF j
<1>5. job' \in [Sessions -> Job] /\ \A t \in Sessions : JobFits(job'[t])
  BY <1>3, <1>4, JobReplaced DEF Accepted
<1> QED
  BY <1>5 DEF Check, TypeInv, TypeOK, database, table, files

(* The transactions of the hook.                                            *)
LEMMA CreateType ==
    ASSUME TypeInv, NEW s \in Sessions, CreateBase(s)
    PROVE  TypeInv'
<1>1. job[s] \in Job /\ JobFits(job[s]) /\ job[s].pc = "create"
  BY DEF TypeInv, TypeOK, CreateBase, At
<1> DEFINE j == [job[s] EXCEPT !.pc = "notify", !.row = nextId]
<1>2. j \in Job /\ nextId \in Nat
  BY <1>1 DEF Job, Steps, TypeInv, TypeOK
<1>3. Fresh(j) = Fresh(job[s])
  BY <1>1 DEF Fresh, Job
<1>4. JobFits(j)
  BY <1>1, <1>3 DEF JobFits, Job, Steps, Pushed, Accepted, Unchecked
<1>5. job' = [job EXCEPT ![s] = j]
  BY DEF CreateBase, TypeInv, TypeOK
<1> HIDE DEF j
<1>6. job' \in [Sessions -> Job] /\ \A t \in Sessions : JobFits(job'[t])
  BY <1>2, <1>4, <1>5, JobReplaced
<1>7. job[s].user \in Users
  BY <1>1 DEF JobFits
<1>8. nextId' \in Nat
  BY <1>2 DEF CreateBase
<1>9. id' \in [Bases -> Nat]
  <2>1. id' = [id EXCEPT ![job[s].base] = nextId] /\ id \in [Bases -> Nat]
    BY DEF CreateBase, TypeInv, TypeOK
  <2> QED
    BY <1>2, <2>1
<1>10. maintainer' \in [Bases -> Users \cup {NULL}]
  BY <1>7 DEF CreateBase, TypeInv, TypeOK
<1> QED
  BY <1>6, <1>8, <1>9, <1>10 DEF CreateBase, TypeInv, TypeOK, files

LEMMA NotifyType ==
    ASSUME TypeInv, NEW s \in Sessions, NotifyCreator(s)
    PROVE  TypeInv'
<1>1. job[s] \in Job /\ JobFits(job[s]) /\ job[s].pc = "notify"
  BY DEF TypeInv, TypeOK, NotifyCreator, At
<1>2. job' \in [Sessions -> Job] /\ \A t \in Sessions : JobFits(job'[t])
  BY <1>1, GotoType DEF NotifyCreator, Steps, Pushed, Accepted, Unchecked
<1>3. job[s].user \in Users
  BY <1>1 DEF JobFits
<1> QED
  BY <1>2, <1>3 DEF NotifyCreator, TypeInv, TypeOK, files

LEMMA SaveType ==
    ASSUME TypeInv, NEW s \in Sessions, SaveBase(s)
    PROVE  TypeInv'
<1>1. job[s] \in Job /\ JobFits(job[s]) /\ job[s].pc = "save"
  BY DEF TypeInv, TypeOK, SaveBase, At
<1>2. /\ job[s].user \in Users /\ job[s].base \in Bases
      /\ NamesOf[Last(job[s].new)] \in SUBSET Names
  BY <1>1, TipType DEF JobFits, Job, Steps, Pushed
<1>3. id[job[s].base] \in Nat
  BY <1>2 DEF TypeInv, TypeOK
<1> DEFINE j == [job[s] EXCEPT !.pc = "add", !.into = id[job[s].base],
                               !.orphan = maintainer[job[s].base] = NULL,
                               !.todo = NamesOf[Last(job[s].new)]]
<1>4. j \in Job
  BY <1>1, <1>2, <1>3 DEF Job, Steps
<1>5. Fresh(j) = Fresh(job[s])
  BY <1>1 DEF Fresh, Job
<1>6. JobFits(j)
  BY <1>1, <1>5 DEF JobFits, Job, Steps, Pushed, Accepted, Unchecked
<1>7. job' = [job EXCEPT ![s] = j]
  BY DEF SaveBase, TypeInv, TypeOK
<1> HIDE DEF j
<1>8. job' \in [Sessions -> Job] /\ \A t \in Sessions : JobFits(job'[t])
  BY <1>4, <1>6, <1>7, JobReplaced
<1> QED
  BY <1>2, <1>8 DEF SaveBase, TypeInv, TypeOK, files

LEMMA AddType ==
    ASSUME TypeInv, NEW s \in Sessions, NEW n \in Names, AddPackage(s, n)
    PROVE  TypeInv'
<1>1. job[s] \in Job /\ JobFits(job[s]) /\ job[s].pc = "add"
  BY DEF TypeInv, TypeOK, AddPackage, At
<1>2. Last(job[s].new) \in Revisions
  BY <1>1, TipType DEF JobFits, Job, Steps, Pushed
<1> DEFINE j == [job[s] EXCEPT !.pc = "describe", !.name = n]
<1>3. j \in Job
  BY <1>1 DEF Job, Steps
<1>4. Fresh(j) = Fresh(job[s])
  BY <1>1 DEF Fresh, Job
<1>5. JobFits(j)
  BY <1>1, <1>4 DEF JobFits, Job, Steps, Pushed, Accepted, Unchecked
<1>6. job' = [job EXCEPT ![s] = j]
  BY DEF AddPackage, TypeInv, TypeOK
<1> HIDE DEF j
<1>7. job' \in [Sessions -> Job] /\ \A t \in Sessions : JobFits(job'[t])
  BY <1>3, <1>5, <1>6, JobReplaced
<1>8. [name |-> n, base |-> job[s].into, rev |-> Last(job[s].new), writer |-> s] \in Package
  BY <1>1, <1>2 DEF Job, Package
<1>9. packages' \subseteq Package
  BY <1>8 DEF AddPackage, TypeInv, TypeOK
<1> QED
  BY <1>7, <1>9 DEF AddPackage, TypeInv, TypeOK, table, files

LEMMA DescribeType ==
    ASSUME TypeInv, NEW s \in Sessions, Describe(s)
    PROVE  TypeInv'
<1>1. job[s] \in Job /\ JobFits(job[s]) /\ job[s].pc = "describe"
  BY DEF TypeInv, TypeOK, Describe, At
<1> DEFINE rest == job[s].todo \ {job[s].name}
           j == [job[s] EXCEPT !.todo = rest, !.name = NULL,
                               !.pc = IF rest = {} THEN "announce" ELSE "add"]
<1>2. j \in Job
  BY <1>1 DEF Job, Steps
<1>3. Fresh(j) = Fresh(job[s])
  BY <1>1 DEF Fresh, Job
<1>4. JobFits(j)
  BY <1>1, <1>3 DEF JobFits, Job, Steps, Pushed, Accepted, Unchecked
<1>5. job' = [job EXCEPT ![s] = j]
  BY DEF Describe, TypeInv, TypeOK
<1> HIDE DEF j
<1>6. job' \in [Sessions -> Job] /\ \A t \in Sessions : JobFits(job'[t])
  BY <1>2, <1>4, <1>5, JobReplaced
<1>7. \A p \in Own(s) : p \in Package /\ [p EXCEPT !.writer = NULL] \in Package
  BY DEF Own, Package, TypeInv, TypeOK
<1>8. packages' \subseteq Package
  BY <1>7 DEF Describe, TypeInv, TypeOK
<1> QED
  BY <1>6, <1>8 DEF Describe, TypeInv, TypeOK, table, files

LEMMA AnnounceType ==
    ASSUME TypeInv, NEW s \in Sessions, Announce(s)
    PROVE  TypeInv'
<1>1. job[s] \in Job /\ JobFits(job[s]) /\ job[s].pc = "announce"
  BY DEF TypeInv, TypeOK, Announce, At
<1>2. job' \in [Sessions -> Job] /\ \A t \in Sessions : JobFits(job'[t])
  BY <1>1, GotoType, FinishType DEF Announce, Steps, Pushed, Accepted, Unchecked
<1>3. PushedVersion(job[s]) \in Range(Version)
  BY <1>1, VersionType DEF JobFits, Accepted
<1>4. tags' \in [Bases -> SUBSET Range(Version)]
  BY <1>3 DEF Announce, TypeInv, TypeOK
<1> QED
  BY <1>2, <1>4 DEF Announce, TypeInv, TypeOK, database, table

(* The ends of a session.                                                   *)
LEMMA EndType ==
    ASSUME TypeInv, NEW s \in Sessions,
           Refuse(s) \/ UpdateRef(s) \/ Fail(s) \/ Crash(s)
    PROVE  TypeInv'
<1>1. job' \in [Sessions -> Job] /\ \A t \in Sessions : JobFits(job'[t])
  BY FinishType DEF Refuse, UpdateRef, Fail, Crash
<1>2. CASE UpdateRef(s)
  <2>1. job[s].new \in Seq(Revisions)
    BY DEF TypeInv, TypeOK, Job
  <2> QED
    BY <1>1, <1>2, <2>1 DEF UpdateRef, TypeInv, TypeOK, database, table
<1>3. CASE Refuse(s)
  BY <1>1, <1>3 DEF Refuse, TypeInv, TypeOK, database, table, files
<1>4. CASE Fail(s)
  BY <1>1, <1>4 DEF Fail, TypeInv, TypeOK, database, table, files
<1>5. CASE Crash(s)
  BY <1>1, <1>5 DEF Crash, TypeInv, TypeOK, database, table, files
<1> QED
  BY <1>2, <1>3, <1>4, <1>5

(* The web server and cron.                                                 *)
LEMMA RemoveType ==
    ASSUME TypeInv, NEW B, RemoveRows(B)
    PROVE  TypeInv'
BY DEF RemoveRows, TypeInv, TypeOK, files

LEMMA OthersType ==
    ASSUME TypeInv, Others
    PROVE  TypeInv'
<1>1. ASSUME NEW b, NEW m \in Users \cup {NULL}, ChangeOwner(b, m)
      PROVE  TypeInv'
  BY <1>1 DEF ChangeOwner, TypeInv, TypeOK, files
<1>2. ASSUME NEW b, NEW us \in SUBSET (Users \ Privileged), ChangeComaintainers(b, us)
      PROVE  TypeInv'
  BY <1>2 DEF ChangeComaintainers, TypeInv, TypeOK, files
<1>3. ASSUME NEW b, Age(b)
      PROVE  TypeInv'
  BY <1>3 DEF Age, TypeInv, TypeOK, files
<1>4. ASSUME NEW b, DeleteBase(b)
      PROVE  TypeInv'
  BY <1>4, RemoveType DEF DeleteBase
<1>5. CASE PkgMaint
  BY <1>5, RemoveType DEF PkgMaint
<1> QED
  BY <1>1, <1>2, <1>3, <1>4, <1>5 DEF Others

LEMMA NextType == TypeInv /\ [Next]_vars => TypeInv'
<1> SUFFICES ASSUME TypeInv, [Next]_vars PROVE TypeInv'
  OBVIOUS
<1>1. ASSUME NEW s \in Sessions, Step(s) PROVE TypeInv'
  BY <1>1, ShellType, ReceiveType, CheckType, CreateType, NotifyType, SaveType,
     AddType, DescribeType, AnnounceType, EndType DEF Step, Hook
<1>2. ASSUME NEW s \in Sessions, Crash(s) PROVE TypeInv'
  BY <1>2, EndType
<1>3. ASSUME NEW s \in Sessions, NEW u \in Users, NEW b \in Bases,
             NEW push \in BOOLEAN, Serve(s, u, b, push)
      PROVE  TypeInv'
  BY <1>3, ShellType
<1>4. CASE UNCHANGED vars
  BY <1>4 DEF vars, database, table, files, TypeInv, TypeOK
<1> QED
  BY <1>1, <1>2, <1>3, <1>4, OthersType DEF Next

(* The tables, the repositories and the jobs keep their types.  What the    *)
(* hook does with a history needs that it is not empty, and the tag of its  *)
(* version that the walker has visited a commit.                            *)
THEOREM TypeCorrect == Spec => []TypeOK
<1>1. TypeInv => TypeOK
  BY DEF TypeInv
<1> QED
  BY <1>1, InitType, NextType, PTL DEF Spec

-----------------------------------------------------------------------------
(* Fast-forwards.                                                           *)

(* A user who is not privileged never rewinds a master branch: git compares *)
(* the ref with the tip it advertised, which is the tip the hook compared.  *)
THEOREM NoRewinding == Spec => OnlyForward
<1>1. ASSUME TypeInv, NEW s \in Sessions, UpdateRef(s), job[s].checked,
             job[s].user \notin Privileged
      PROVE  IsPrefix(head[job[s].base], head'[job[s].base])
  <2>1. JobFits(job[s]) /\ job[s].pc = "update" /\ head[job[s].base] = job[s].old
    BY <1>1 DEF TypeInv, UpdateRef, At
  <2>2. job[s].base \in Bases
    BY <2>1 DEF JobFits
  <2>3. head'[job[s].base] = job[s].new
    BY <1>1, <2>2 DEF UpdateRef, TypeInv, TypeOK
  <2> QED
    BY <1>1, <2>1, <2>3 DEF JobFits
<1>2. TypeInv => \A s \in Sessions :
          UpdateRef(s) /\ job[s].checked /\ job[s].user \notin Privileged
              => IsPrefix(head[job[s].base], head'[job[s].base])
  BY <1>1
<1> QED
  BY <1>2, InitType, NextType, PTL DEF Spec, OnlyForward

-----------------------------------------------------------------------------
(* What pkgmaint removes.  IDs are not used twice, so that a session which  *)
(* has saved its package base can only insert into that one, whatever was   *)
(* removed and created since.                                               *)

Saving == {"add", "describe"}

IdsUnique == /\ \A b \in Bases : id[b] < nextId
             /\ \A b, c \in Bases : id[b] = id[c] /\ id[b] # 0 => b = c
             /\ \A p \in packages : p.base # 0 /\ p.base < nextId

SavedIsPackaged ==
    \A s \in Sessions : job[s].pc \in Saving =>
        /\ job[s].into # 0 /\ job[s].into < nextId
        /\ \A b \in Bases : id[b] = job[s].into => packager[b] # NULL

MaintInv == TypeInv /\ IdsUnique /\ SavedIsPackaged /\ UnpackagedIsEmpty

LEMMA MaintInit == Init => MaintInv
BY InitType DEF Init, MaintInv, IdsUnique, SavedIsPackaged, UnpackagedIsEmpty,
   Saving, Idle, PackagesOf

(* Steps that leave the rows alone and bring no session to the insertions.  *)
LEMMA MaintQuiet ==
    ASSUME MaintInv, TypeInv', UNCHANGED <<id, packager, packages, nextId>>,
           \A t \in Sessions : job'[t].pc \in Saving =>
               job[t].pc \in Saving /\ job'[t].into = job[t].into
    PROVE  MaintInv'
BY DEF MaintInv, IdsUnique, SavedIsPackaged, UnpackagedIsEmpty, PackagesOf

(* So are the steps of a session that is not, then, at the insertions.      *)
LEMMA MaintElsewhere ==
    ASSUME MaintInv, TypeInv', UNCHANGED <<id, packager, packages, nextId>>,
           NEW s \in Sessions, \A t \in Sessions \ {s} : job'[t] = job[t],
           job'[s].pc \notin Saving
    PROVE  MaintInv'
BY MaintQuiet

LEMMA MaintCreate ==
    ASSUME MaintInv, TypeInv', NEW s \in Sessions, CreateBase(s)
    PROVE  MaintInv'
<1> DEFINE b == job[s].base
<1>1. /\ id \in [Bases -> Nat] /\ nextId \in Nat /\ packages \subseteq Package
      /\ b \in Bases /\ job \in [Sessions -> Job]
  BY DEF MaintInv, TypeInv, TypeOK, JobFits, CreateBase, At
<1>2. /\ id' = [id EXCEPT ![b] = nextId] /\ nextId' = nextId + 1
      /\ UNCHANGED <<packager, packages>>
  BY DEF CreateBase
<1>3. \A p \in packages : p.base \in Nat
  BY <1>1 DEF Package
<1>4. IdsUnique'
  BY <1>1, <1>2, <1>3 DEF MaintInv, IdsUnique
<1>5. \A t \in Sessions : job'[t].pc \in Saving =>
          job[t].pc \in Saving /\ job'[t].into = job[t].into /\ job[t].into \in Nat
  BY <1>1 DEF CreateBase, Saving, Job
<1>6. SavedIsPackaged'
  BY <1>1, <1>2, <1>5 DEF MaintInv, SavedIsPackaged
<1>7. UnpackagedIsEmpty'
  BY <1>1, <1>2, <1>3 DEF MaintInv, IdsUnique, UnpackagedIsEmpty, PackagesOf
<1> QED
  BY <1>4, <1>6, <1>7 DEF MaintInv

LEMMA MaintSave ==
    ASSUME MaintInv, TypeInv', NEW s \in Sessions, SaveBase(s)
    PROVE  MaintInv'
<1> DEFINE b == job[s].base
<1>1. /\ id \in [Bases -> Nat] /\ packager \in [Bases -> Users \cup {NULL}]
      /\ b \in Bases /\ job[s].user \in Users /\ job \in [Sessions -> Job]
  BY DEF MaintInv, TypeInv, TypeOK, JobFits, SaveBase, At
<1>2. /\ id[b] # 0 /\ UNCHANGED <<id, nextId>> /\ packages' \subseteq packages
      /\ packager' = [packager EXCEPT ![b] = job[s].user]
  BY DEF SaveBase
<1>3. \A c \in Bases : packager'[c] = NULL => packager[c] = NULL /\ c # b
  BY <1>1, <1>2, NullAssumption
<1>4. IdsUnique'
  BY <1>2 DEF MaintInv, IdsUnique
<1>5. \A t \in Sessions : job'[t].pc \in Saving =>
          \/ job[t].pc \in Saving /\ job'[t].into = job[t].into
          \/ job'[t].into = id[b]
  BY <1>1 DEF SaveBase, Saving, Job
<1>6. SavedIsPackaged'
  BY <1>1, <1>2, <1>3, <1>5 DEF MaintInv, IdsUnique, SavedIsPackaged
<1>7. UnpackagedIsEmpty'
  BY <1>2, <1>3 DEF MaintInv, UnpackagedIsEmpty, PackagesOf
<1> QED
  BY <1>4, <1>6, <1>7 DEF MaintInv

LEMMA MaintAdd ==
    ASSUME MaintInv, TypeInv', NEW s \in Sessions, NEW n \in Names, AddPackage(s, n)
    PROVE  MaintInv'
<1>1. job \in [Sessions -> Job] /\ job[s].pc \in Saving
  BY DEF MaintInv, TypeInv, TypeOK, AddPackage, At, Saving
<1>2. /\ UNCHANGED <<id, packager, nextId>>
      /\ \A p \in packages' : p \in packages \/ p.base = job[s].into
  BY DEF AddPackage, table
<1>3. \A t \in Sessions : job'[t].pc \in Saving =>
          job[t].pc \in Saving /\ job'[t].into = job[t].into
  BY <1>1 DEF AddPackage, Job
<1>4. IdsUnique' /\ SavedIsPackaged'
  BY <1>1, <1>2, <1>3 DEF MaintInv, IdsUnique, SavedIsPackaged
<1>5. UnpackagedIsEmpty'
  BY <1>1, <1>2 DEF MaintInv, SavedIsPackaged, UnpackagedIsEmpty, PackagesOf
<1> QED
  BY <1>4, <1>5 DEF MaintInv

LEMMA MaintDescribe ==
    ASSUME MaintInv, TypeInv', NEW s \in Sessions, Describe(s)
    PROVE  MaintInv'
<1>1. job \in [Sessions -> Job] /\ job[s].pc \in Saving
  BY DEF MaintInv, TypeInv, TypeOK, Describe, At, Saving
<1>2. packages \subseteq Package
  BY DEF MaintInv, TypeInv, TypeOK
<1>3. /\ UNCHANGED <<id, packager, nextId>>
      /\ \A p \in packages' : \E q \in packages : p.base = q.base
  BY <1>2 DEF Describe, table, Own, Package
<1>4. \A t \in Sessions : job'[t].pc \in Saving =>
          job[t].pc \in Saving /\ job'[t].into = job[t].into
  BY <1>1 DEF Describe, Job
<1>5. IdsUnique' /\ SavedIsPackaged'
  BY <1>3, <1>4 DEF MaintInv, IdsUnique, SavedIsPackaged
<1>6. UnpackagedIsEmpty'
  BY <1>3 DEF MaintInv, UnpackagedIsEmpty, PackagesOf
<1> QED
  BY <1>5, <1>6 DEF MaintInv

LEMMA MaintRemove ==
    ASSUME MaintInv, TypeInv', NEW B, RemoveRows(B)
    PROVE  MaintInv'
<1>1. id \in [Bases -> Nat] /\ nextId \in Nat
  BY DEF MaintInv, TypeInv, TypeOK
<1>2. /\ UNCHANGED <<nextId, job>> /\ packages' \subseteq packages
      /\ \A b \in Bases : \/ b \in B /\ id'[b] = 0
                          \/ b \notin B /\ id'[b] = id[b] /\ packager'[b] = packager[b]
  BY DEF RemoveRows
<1>3. IdsUnique'
  BY <1>1, <1>2 DEF MaintInv, IdsUnique
<1>4. SavedIsPackaged'
  BY <1>2 DEF MaintInv, SavedIsPackaged
<1>5. UnpackagedIsEmpty'
  BY <1>2 DEF MaintInv, UnpackagedIsEmpty, PackagesOf
<1> QED
  BY <1>3, <1>4, <1>5 DEF MaintInv

LEMMA MaintNext == MaintInv /\ [Next]_vars => MaintInv'
<1> SUFFICES ASSUME MaintInv, [Next]_vars PROVE MaintInv'
  OBVIOUS
<1>1. TypeInv' /\ job \in [Sessions -> Job]
  BY NextType DEF MaintInv, TypeInv, TypeOK
<1>2. ASSUME NEW s \in Sessions, Step(s) PROVE MaintInv'
  <2>1. CASE \/ MakeDirectory(s) \/ InitRepository(s) \/ LinkHook(s) \/ Leave(s)
             \/ SkipHook(s)
    <3>1. /\ UNCHANGED <<id, packager, packages, nextId>>
          /\ \A t \in Sessions \ {s} : job'[t] = job[t]
          /\ job'[s].pc \notin Saving
      BY <1>1, <2>1 DEF MakeDirectory, InitRepository, LinkHook, Leave, SkipHook,
         Goto, Finish, Idle, Saving, database, table, Job
    <3> QED
      BY <1>1, <3>1, MaintElsewhere
  <2>2. CASE \E new \in Histories, o \in BOOLEAN :
                Receive(s, new, o)
    BY <1>1, <2>2, MaintQuiet DEF Receive, Saving, database, table, Job
  <2>3. CASE Check(s)
    <3>1. /\ UNCHANGED <<id, packager, packages, nextId>>
          /\ \A t \in Sessions \ {s} : job'[t] = job[t]
          /\ job'[s].pc \notin Saving
      BY <1>1, <2>3 DEF Check, Saving, database, table, Job
    <3> QED
      BY <1>1, <3>1, MaintElsewhere
  <2>4. CASE Refuse(s) \/ UpdateRef(s) \/ Fail(s)
    BY <1>1, <2>4, MaintQuiet DEF Refuse, UpdateRef, Fail, Finish, Idle, Saving,
       database, table
  <2>5. CASE NotifyCreator(s)
    BY <1>1, <2>5, MaintQuiet DEF NotifyCreator, Goto, Saving, Job
  <2>6. CASE Announce(s)
    <3>1. /\ UNCHANGED <<id, packager, packages, nextId>>
          /\ \A t \in Sessions \ {s} : job'[t] = job[t]
          /\ job'[s].pc \notin Saving
      BY <1>1, <2>6 DEF Announce, Goto, Finish, Idle, Saving, database, table, Job
    <3> QED
      BY <1>1, <3>1, MaintElsewhere
  <2> QED
    BY <1>1, <1>2, <2>1, <2>2, <2>3, <2>4, <2>5, <2>6, MaintCreate, MaintSave,
       MaintAdd, MaintDescribe DEF Step, Hook
<1>3. ASSUME NEW s \in Sessions, Crash(s) PROVE MaintInv'
  BY <1>1, <1>3, MaintQuiet DEF Crash, Finish, Idle, Saving, database, table
<1>4. ASSUME NEW s \in Sessions, NEW u \in Users, NEW b \in Bases,
             NEW push \in BOOLEAN, Serve(s, u, b, push)
      PROVE  MaintInv'
  BY <1>1, <1>4, MaintQuiet DEF Serve, Idle, Saving, database, table
<1>5. ASSUME Others PROVE MaintInv'
  <2>1. ASSUME NEW b, \/ \E m \in Users \cup {NULL} : ChangeOwner(b, m)
                      \/ \E us \in SUBSET (Users \ Privileged) : ChangeComaintainers(b, us)
                      \/ Age(b)
        PROVE  MaintInv'
    BY <1>1, <2>1, MaintQuiet DEF ChangeOwner, ChangeComaintainers, Age
  <2> QED
    BY <1>1, <1>5, <2>1, MaintRemove DEF Others, DeleteBase, PkgMaint
<1>6. CASE UNCHANGED vars
  BY <1>1, <1>6, MaintQuiet DEF vars, database, table, files
<1> QED
  BY <1>2, <1>3, <1>4, <1>5, <1>6 DEF Next

(* A package base without a packager, which pkgmaint removes when it is a   *)
(* day old, has no packages.                                                *)
THEOREM MaintRemovesTheEmpty == Spec => []UnpackagedIsEmpty
<1>1. MaintInv => UnpackagedIsEmpty
  BY DEF MaintInv
<1> QED
  BY <1>1, MaintInit, MaintNext, PTL DEF Spec

-----------------------------------------------------------------------------
(* Hooks that do not meet: between the acceptance of a push and its end no  *)
(* other push is accepted for the package base or for one of its names.     *)

Tip(j) == Last(j.new)
Wants(j) == NamesOf[Tip(j)]

Apart == \A s, t \in Sessions : job[s].checked /\ job[t].checked /\ s # t =>
             /\ job[s].base # job[t].base
             /\ Wants(job[s]) \cap Wants(job[t]) = {}

Row(j, n, w) == [name |-> n, base |-> j.into, rev |-> Tip(j), writer |-> w]
Rows(j, N) == {Row(j, n, NULL) : n \in N}
Added(s) == Row(job[s], job[s].name, s)
UnderWay(s) == IF job[s].pc = "describe" THEN {Added(s)} ELSE {}

Hooked == Accepted \cup {"update"}
Unsaved == {"create", "notify", "save"}

HookKnows(s) ==
    LET j == job[s] IN
    /\ j.pc \in Hooked
    /\ \/ j.saves
       \/ j.pc \in {"announce", "update"} /\ j.user \in Privileged
    /\ j.pc \in Unsaved =>
          \A p \in packages : p.name \in Wants(j) => p.base = id[j.base]
    /\ j.pc = "notify" => id[j.base] \in {0, j.row}
    /\ j.pc = "add" => j.todo # {}
    /\ j.pc = "describe" => j.name \in j.todo
    /\ j.pc \in {"announce", "update"} /\ j.saves => j.todo = {}

Filling(s) ==
    LET j == job[s] IN
    /\ j.into # 0 /\ j.into < nextId /\ id[j.base] \in {0, j.into}
    /\ \A c \in Bases : id[c] = j.into => c = j.base
    /\ j.todo \subseteq Wants(j)
    /\ \A p \in packages : p.name \in j.todo =>
          j.pc = "describe" /\ p.name = j.name /\ p.base = j.into
    /\ id[j.base] # 0 =>
          /\ Rows(j, Wants(j) \ j.todo) \cup UnderWay(s) \subseteq packages
          /\ \A p \in packages : p.base = j.into =>
                p \in Rows(j, Wants(j) \ j.todo) \cup UnderWay(s)

Intact(s) == HookKnows(s) /\ (job[s].pc \notin Unsaved /\ job[s].saves => Filling(s))

HookInv ==
    /\ \A s \in Sessions : job[s].pc \in Accepted => job[s].checked
    /\ \A s \in Sessions : job[s].checked => Intact(s)

LEMMA PackageRow ==
    ASSUME MaintInv, NEW p \in packages
    PROVE  /\ p \in Package /\ p.base \in Nat /\ p.base # 0 /\ p.base < nextId
           /\ p.name \in Names
BY DEF MaintInv, IdsUnique, TypeInv, TypeOK, Package

LEMMA HookType ==
    ASSUME MaintInv, NEW s \in Sessions, job[s].pc # "idle"
    PROVE  /\ job[s] \in Job /\ job[s].base \in Bases
           /\ id \in [Bases -> Nat] /\ id[job[s].base] \in Nat
           /\ job \in [Sessions -> Job] /\ nextId \in Nat
           /\ job[s].into \in Nat /\ job[s].row \in Nat
           /\ id[job[s].base] < nextId
           /\ \A c \in Bases : id[c] = id[job[s].base] /\ id[c] # 0 => c = job[s].base
BY DEF MaintInv, IdsUnique, TypeInv, TypeOK, JobFits, Job

(* What a step of somebody else leaves of a hook's concerns: no name it     *)
(* wants is taken, and its package base is left alone with the packages     *)
(* that were inserted, or is removed with all of them.                      *)
Spared(s) ==
    LET j == job[s] IN
    /\ \A p \in packages' : p.name \in Wants(j) =>
          \E q \in packages : q.name = p.name /\ q.base = p.base
    /\ \/ /\ id'[j.base] = id[j.base]
          /\ \/ j.pc \in Unsaved \/ ~j.saves \/ id[j.base] = 0
             \/ \A p : p.base = j.into => (p \in packages' <=> p \in packages)
       \/ /\ id'[j.base] = 0
          /\ \A p \in packages' : p.base # id[j.base]

Fresher == /\ nextId' \in Nat /\ nextId' >= nextId
           /\ \A c \in Bases : id'[c] \in {id[c], 0, nextId}

LEMMA HookFrame ==
    ASSUME MaintInv, HookInv, Fresher, NEW s \in Sessions, job[s].checked,
           job'[s] = job[s], Spared(s)
    PROVE  Intact(s)'
<1> DEFINE j == job[s]
           b == j.base
<1>0. HookKnows(s) /\ (j.pc \notin Unsaved /\ j.saves => Filling(s))
  BY DEF HookInv, Intact
<1>1. j.pc # "idle" /\ job'[s] = j
  BY <1>0 DEF HookKnows, Hooked, Accepted
<1>2. /\ b \in Bases /\ id \in [Bases -> Nat] /\ id[b] \in Nat /\ nextId \in Nat /\ j.into \in Nat
  BY <1>1, HookType
<1>3. HookKnows(s)'
  <2>1. ASSUME j.pc \in Unsaved, NEW p \in packages', p.name \in Wants(j)
        PROVE  p.base = id'[b]
    <3>1. PICK q \in packages : q.name = p.name /\ q.base = p.base
      BY <2>1 DEF Spared
    <3>2. p.base = id[b] /\ p.base # 0
      BY <1>0, <2>1, <3>1, PackageRow DEF HookKnows
    <3> QED
      BY <3>2, <2>1 DEF Spared
  <2>2. id'[b] \in {id[b], 0}
    BY DEF Spared
  <2> QED
    BY <1>0, <1>1, <2>1, <2>2 DEF HookKnows
<1>4. ASSUME Filling(s), j.pc \notin Unsaved, j.saves PROVE Filling(s)'
  <2>1. \A c \in Bases : id'[c] = j.into => c = b
    BY <1>2, <1>4 DEF Filling, Fresher, Spared
  <2>2. ASSUME NEW p \in packages', p.name \in j.todo
        PROVE  j.pc = "describe" /\ p.name = j.name /\ p.base = j.into
    <3>1. PICK q \in packages : q.name = p.name /\ q.base = p.base
      BY <1>4, <2>2 DEF Filling, Spared
    <3> QED
      BY <1>4, <2>2, <3>1 DEF Filling
  <2>3. UnderWay(s)' = UnderWay(s)
    BY <1>1 DEF UnderWay, Added
  <2>4. ASSUME id'[b] # 0
        PROVE  /\ Rows(j, Wants(j) \ j.todo) \cup UnderWay(s) \subseteq packages'
               /\ \A p \in packages' : p.base = j.into =>
                     p \in Rows(j, Wants(j) \ j.todo) \cup UnderWay(s)
    <3>1. id[b] # 0 /\ \A p : p.base = j.into => (p \in packages' <=> p \in packages)
      BY <1>4, <2>4 DEF Spared
    <3>2. \A p \in Rows(j, Wants(j) \ j.todo) \cup UnderWay(s) : p.base = j.into
      BY DEF Rows, UnderWay, Added, Row
    <3> QED
      BY <1>4, <3>1, <3>2 DEF Filling
  <2>5. id'[b] \in {id[b], 0} /\ j.into < nextId'
    BY <1>2, <1>4 DEF Filling, Fresher, Spared
  <2>6. j.into # 0 /\ j.todo \subseteq Wants(j) /\ id'[b] \in {0, j.into}
    BY <1>4, <2>5 DEF Filling
  <2> HIDE DEF j
  <2> QED
    BY <1>1, <2>1, <2>2, <2>3, <2>4, <2>5, <2>6 DEF Filling
<1> QED
  BY <1>0, <1>1, <1>3, <1>4 DEF Intact

LEMMA HookPut ==
    ASSUME MaintInv, HookInv, Fresher, NEW T \in SUBSET Sessions,
           \A s \in Sessions \ T : job'[s] = job[s] /\ (job[s].checked => Spared(s)),
           \A s \in T : /\ job'[s].pc \in Accepted => job'[s].checked
                        /\ job'[s].checked => Intact(s)'
    PROVE  HookInv'
<1>1. ASSUME NEW s \in Sessions, job'[s].checked PROVE Intact(s)'
  <2>1. CASE s \in T
    BY <1>1, <2>1
  <2>2. CASE s \notin T
    BY <1>1, <2>2, HookFrame
  <2> QED
    BY <2>1, <2>2
<1>2. ASSUME NEW s \in Sessions, job'[s].pc \in Accepted PROVE job'[s].checked
  BY <1>2 DEF HookInv
<1> QED
  BY <1>1, <1>2 DEF HookInv

LEMMA HookMove ==
    ASSUME MaintInv, HookInv, Fresher, NEW t \in Sessions,
           \A s \in Sessions \ {t} : job'[s] = job[s] /\ (job[s].checked => Spared(s)),
           job'[t].pc \in Accepted => job'[t].checked,
           job'[t].checked => Intact(t)'
    PROVE  HookInv'
<1> DEFINE T == {t}
<1>1. T \in SUBSET Sessions
  OBVIOUS
<1>2. \A s \in T : /\ job'[s].pc \in Accepted => job'[s].checked
                   /\ job'[s].checked => Intact(s)'
  OBVIOUS
<1>3. \A s \in Sessions \ T : job'[s] = job[s] /\ (job[s].checked => Spared(s))
  OBVIOUS
<1> HIDE DEF T
<1> QED
  BY <1>1, <1>2, <1>3, HookPut

LEMMA SameSpared ==
    ASSUME UNCHANGED <<id, packages>>, NEW s
    PROVE  Spared(s)
BY DEF Spared

LEMMA SameFresher ==
    ASSUME MaintInv, UNCHANGED <<id, nextId>>
    PROVE  Fresher
BY DEF Fresher, MaintInv, TypeInv, TypeOK

(* Steps that change neither the rows nor what a hook knows of them.        *)
LEMMA HookEnds ==
    ASSUME MaintInv, HookInv, NEW t \in Sessions, UNCHANGED <<id, packages, nextId>>,
           \A s \in Sessions \ {t} : job'[s] = job[s],
           job'[t].pc \notin Accepted, ~job'[t].checked
    PROVE  HookInv'
<1>1. Fresher /\ \A s \in Sessions : Spared(s)
  BY SameSpared, SameFresher
<1> QED
  BY <1>1, HookMove

LEMMA HookSame ==
    ASSUME MaintInv, HookInv, UNCHANGED <<id, packages, nextId, job>>
    PROVE  HookInv'
<1>1. Fresher /\ \A s \in Sessions : job'[s] = job[s] /\ Spared(s)
  BY SameSpared, SameFresher
<1>2. {} \in SUBSET Sessions
  OBVIOUS
<1> QED
  BY <1>1, <1>2, HookPut

(* The steps of a hook.                                                     *)
LEMMA HookCheck ==
    ASSUME MaintInv, HookInv, NEW t \in Sessions, Check(t)
    PROVE  HookInv'
<1> DEFINE j == job[t]
<1>1. /\ j.pc = "check" /\ Acceptable(j) /\ UNCHANGED <<id, packages, nextId>>
      /\ j \in Job /\ job \in [Sessions -> Job] /\ j.base \in Bases
  BY HookType DEF Check, At, database, table
<1>2. \A s \in Sessions \ {t} : job'[s] = job[s]
  BY <1>1 DEF Check
<1>3. \A p \in packages : p.name \in Wants(j) => p.base = id[j.base]
  BY <1>1 DEF Acceptable, Taken, Wants, Tip
<1>4. /\ job'[t].checked /\ job'[t].new = j.new /\ job'[t].base = j.base
      /\ job'[t].user = j.user
      /\ \/ job'[t].pc \in {"create", "save"} /\ job'[t].saves
         \/ job'[t].pc = "announce" /\ ~job'[t].saves /\ j.user \in Privileged
  BY <1>1 DEF Check, Job
<1>5. Intact(t)'
  BY <1>1, <1>3, <1>4 DEF Intact, HookKnows, Hooked, Accepted, Unsaved, Wants, Tip
<1> QED
  BY <1>1, <1>2, <1>4, <1>5, HookMove, SameSpared, SameFresher

LEMMA HookCreate ==
    ASSUME MaintInv, HookInv, Apart, NEW t \in Sessions, CreateBase(t)
    PROVE  HookInv'
<1> DEFINE j == job[t]
<1>1. /\ j.pc = "create" /\ j.checked /\ j \in Job /\ job \in [Sessions -> Job]
      /\ j.base \in Bases /\ id \in [Bases -> Nat] /\ nextId \in Nat
      /\ id[j.base] = 0 /\ HookKnows(t)
  BY HookType DEF CreateBase, At, HookInv, Accepted, Intact
<1>2. /\ id' = [id EXCEPT ![j.base] = nextId] /\ packages' = packages
      /\ nextId' = nextId + 1
      /\ \A s \in Sessions \ {t} : job'[s] = job[s]
  BY <1>1 DEF CreateBase
<1>3. /\ job'[t].checked /\ job'[t].new = j.new /\ job'[t].base = j.base
      /\ job'[t].pc = "notify" /\ job'[t].row = nextId /\ job'[t].saves = j.saves
  BY <1>1 DEF CreateBase, Job
<1>4. \A p \in packages : p.name \notin Wants(j)
  BY <1>1, PackageRow DEF HookKnows, Unsaved
<1>5. Intact(t)'
  BY <1>1, <1>2, <1>3, <1>4 DEF Intact, HookKnows, Hooked, Accepted, Unsaved, Wants, Tip
<1>6. ASSUME NEW s \in Sessions \ {t}, job[s].checked PROVE Spared(s)
  <2>1. job[s].base # j.base
    BY <1>1, <1>6 DEF Apart
  <2>2. job[s].base \in Bases
    BY <1>6, HookType DEF HookInv, Intact, HookKnows, Hooked, Accepted
  <2> QED
    BY <1>1, <1>2, <2>1, <2>2 DEF Spared
<1>7. Fresher
  BY <1>1, <1>2 DEF Fresher
<1> QED
  BY <1>2, <1>3, <1>5, <1>6, <1>7, HookMove

LEMMA HookNotify ==
    ASSUME MaintInv, HookInv, NEW t \in Sessions, NotifyCreator(t)
    PROVE  HookInv'
<1> DEFINE j == job[t]
<1>1. /\ j.pc = "notify" /\ j.checked /\ j \in Job /\ job \in [Sessions -> Job]
      /\ HookKnows(t) /\ UNCHANGED <<id, packages, nextId>>
  BY HookType DEF NotifyCreator, At, HookInv, Accepted, Intact
<1>2. \A s \in Sessions \ {t} : job'[s] = job[s]
  BY <1>1 DEF NotifyCreator, Goto
<1>3. /\ job'[t].checked /\ job'[t].new = j.new /\ job'[t].base = j.base
      /\ job'[t].pc = "save" /\ job'[t].saves = j.saves
  BY <1>1 DEF NotifyCreator, Goto, Job
<1>4. Intact(t)'
  BY <1>1, <1>3 DEF Intact, HookKnows, Hooked, Accepted, Unsaved, Wants, Tip
<1> QED
  BY <1>1, <1>2, <1>3, <1>4, HookMove, SameSpared, SameFresher

LEMMA WantsSome ==
    ASSUME MaintInv, NEW s \in Sessions, job[s].pc \in Pushed
    PROVE  Wants(job[s]) # {} /\ Tip(job[s]) \in Revisions /\ Wants(job[s]) \subseteq Names
<1>1. job[s].new \in Seq(Revisions) /\ job[s].new # <<>>
  BY DEF MaintInv, TypeInv, TypeOK, JobFits, Job
<1> QED
  BY <1>1, TipType, RevisionsAssumption DEF Wants, Tip

LEMMA HookSave ==
    ASSUME MaintInv, HookInv, Apart, NEW t \in Sessions, SaveBase(t)
    PROVE  HookInv'
<1> DEFINE j == job[t]
           k == job'[t]
<1>1. /\ j.pc = "save" /\ j.checked /\ j \in Job /\ job \in [Sessions -> Job]
      /\ j.base \in Bases /\ id \in [Bases -> Nat] /\ nextId \in Nat
      /\ id[j.base] # 0 /\ id[j.base] < nextId /\ HookKnows(t) /\ Intact(t)
      /\ \A c \in Bases : id[c] = id[j.base] => c = j.base
  BY HookType DEF SaveBase, At, HookInv, Accepted, Intact
<1>2. /\ UNCHANGED <<id, nextId>>
      /\ packages' = {p \in packages : p.base # id[j.base]}
      /\ \A s \in Sessions \ {t} : job'[s] = job[s]
  BY <1>1 DEF SaveBase, PackagesOf
<1>3. /\ k.checked /\ k.new = j.new /\ k.base = j.base /\ k.pc = "add"
      /\ k.saves = j.saves /\ k.into = id[j.base] /\ k.todo = Wants(k)
      /\ Wants(k) = Wants(j)
  BY <1>1 DEF SaveBase, Job, Wants, Tip
<1>4. \A p \in packages : p.name \in Wants(j) => p.base = id[j.base]
  BY <1>1 DEF HookKnows, Unsaved
<1>5. HookKnows(t)'
  <2>1. Wants(j) # {}
    BY <1>1, WantsSome DEF Pushed, Steps
  <2> QED
    BY <1>1, <1>3, <2>1 DEF HookKnows, Hooked, Accepted, Unsaved
<1>6. Filling(t)'
  <2>1. Rows(k, Wants(k) \ k.todo) = {} /\ UnderWay(t)' = {}
    BY <1>3 DEF Rows, UnderWay
  <2> HIDE DEF j, k
  <2> QED
    BY <1>1, <1>2, <1>3, <1>4, <2>1 DEF Filling, k
<1>7. ASSUME NEW s \in Sessions \ {t}, job[s].checked PROVE Spared(s)
  <2>1. job[s].base # j.base
    BY <1>1, <1>7 DEF Apart
  <2>2. job[s].base \in Bases
    BY <1>7, HookType DEF HookInv, Intact, HookKnows, Hooked, Accepted
  <2>3. job[s].pc \notin Unsaved /\ job[s].saves => job[s].into # id[j.base]
    BY <1>1, <1>7, <2>1 DEF HookInv, Intact, Filling
  <2> QED
    BY <1>2, <2>3 DEF Spared
<1> QED
  BY <1>2, <1>3, <1>5, <1>6, <1>7, HookMove, SameFresher DEF Intact

(* The hook that inserts into a package base is the one that saved it.      *)
LEMMA IntoOwn ==
    ASSUME MaintInv, HookInv, NEW t \in Sessions, job[t].pc \in Saving
    PROVE  /\ job[t].checked /\ HookKnows(t) /\ Filling(t) /\ job[t].saves
           /\ RowExists(job[t].into) => id[job[t].base] = job[t].into
<1>1. job[t].checked /\ Intact(t)
  BY DEF HookInv, Saving, Accepted
<1>2. HookKnows(t) /\ Filling(t) /\ job[t].saves
  BY <1>1 DEF Intact, HookKnows, Saving, Unsaved
<1> QED
  BY <1>1, <1>2 DEF Filling, RowExists

(* Different hooks insert into different package bases.                     *)
LEMMA IntoApart ==
    ASSUME MaintInv, HookInv, Apart, NEW t \in Sessions, job[t].pc \in Saving,
           NEW s \in Sessions \ {t}, job[s].checked
    PROVE  /\ Wants(job[s]) \cap Wants(job[t]) = {}
           /\ job[s].pc \notin Unsaved /\ job[s].saves =>
                 \/ job[s].into # job[t].into
                 \/ id[job[s].base] = 0
<1>1. job[t].checked /\ Filling(t) /\ job[t].base \in Bases
  BY IntoOwn, HookType DEF Saving
<1>2. job[s].pc \notin Unsaved /\ job[s].saves => Filling(s)
  BY DEF HookInv, Intact
<1>3. job[s].base # job[t].base
  BY <1>1 DEF Apart
<1>4. job[s].base \in Bases /\ id[job[s].base] \in Nat
  BY HookType DEF HookInv, Intact, HookKnows, Hooked, Accepted
<1>5. Wants(job[s]) \cap Wants(job[t]) = {}
  BY <1>1 DEF Apart
<1>6. ASSUME job[s].pc \notin Unsaved, job[s].saves, id[job[s].base] # 0
      PROVE  job[s].into # job[t].into
  BY <1>1, <1>2, <1>3, <1>4, <1>6 DEF Filling
<1> QED
  BY <1>5, <1>6

LEMMA HookAdd ==
    ASSUME MaintInv, HookInv, Apart, NEW t \in Sessions, NEW n \in Names, AddPackage(t, n)
    PROVE  HookInv'
<1> DEFINE j == job[t]
           k == job'[t]
           new == Row(j, n, t)
<1>1. /\ j.pc = "add" /\ j.checked /\ j \in Job /\ job \in [Sessions -> Job]
      /\ j.base \in Bases /\ id[j.base] = j.into /\ n \in j.todo
      /\ HookKnows(t) /\ Filling(t) /\ j.saves
  BY HookType, IntoOwn DEF AddPackage, At, Saving
<1>2. /\ UNCHANGED <<id, nextId>> /\ packages' = packages \cup {new}
      /\ \A s \in Sessions \ {t} : job'[s] = job[s]
  BY <1>1 DEF AddPackage, table, Row, Tip
<1>3. /\ k.checked /\ k.new = j.new /\ k.base = j.base /\ k.pc = "describe"
      /\ k.saves = j.saves /\ k.into = j.into /\ k.todo = j.todo /\ k.name = n
      /\ Wants(k) = Wants(j) /\ Tip(k) = Tip(j)
  BY <1>1 DEF AddPackage, Job, Wants, Tip
<1>4. HookKnows(t)'
  BY <1>1, <1>3 DEF HookKnows, Hooked, Accepted, Unsaved
<1>5. Filling(t)'
  <2>1. /\ UnderWay(t)' = {new} /\ UnderWay(t) = {}
        /\ Rows(k, Wants(k) \ k.todo) = Rows(j, Wants(j) \ j.todo)
    BY <1>1, <1>3 DEF UnderWay, Added, Rows, Row
  <2>2. new.name = n /\ new.base = j.into
    BY DEF Row
  <2> HIDE DEF j, k, new
  <2>3. \A p \in packages' : p.name \in j.todo => p.name = n /\ p.base = j.into
    BY <1>1, <1>2, <2>2 DEF Filling, j
  <2>4. /\ Rows(j, Wants(j) \ j.todo) \cup {new} \subseteq packages'
        /\ \A p \in packages' : p.base = j.into =>
              p \in Rows(j, Wants(j) \ j.todo) \cup {new}
    BY <1>1, <1>2, <2>1 DEF Filling, j
  <2> QED
    BY <1>1, <1>2, <1>3, <2>1, <2>3, <2>4 DEF Filling, j, k
<1>6. ASSUME NEW s \in Sessions \ {t}, job[s].checked PROVE Spared(s)
  <2>1. n \notin Wants(job[s]) /\ new.name = n /\ new.base = j.into
    BY <1>1, <1>6, IntoApart DEF Saving, Filling, Row
  <2>2. job[s].pc \notin Unsaved /\ job[s].saves =>
            job[s].into # j.into \/ id[job[s].base] = 0
    BY <1>1, <1>6, IntoApart DEF Saving, Filling
  <2> HIDE DEF new
  <2> QED
    BY <1>2, <2>1, <2>2 DEF Spared
<1> QED
  BY <1>2, <1>3, <1>4, <1>5, <1>6, HookMove, SameFresher DEF Intact

LEMMA HookDescribe ==
    ASSUME MaintInv, HookInv, Apart, NEW t \in Sessions, Describe(t)
    PROVE  HookInv'
<1> DEFINE j == job[t]
           k == job'[t]
           done == Row(j, j.name, NULL)
<1>1. /\ j.pc = "describe" /\ j.checked /\ j \in Job /\ job \in [Sessions -> Job]
      /\ j.base \in Bases /\ HookKnows(t) /\ Filling(t) /\ j.saves
      /\ j.name \in j.todo /\ j.todo \subseteq Wants(j)
  BY HookType, IntoOwn DEF Describe, At, Saving, HookKnows, Filling
<1>2. /\ UNCHANGED <<id, nextId>>
      /\ packages' = (packages \ Own(t)) \cup {[p EXCEPT !.writer = NULL] : p \in Own(t)}
      /\ \A s \in Sessions \ {t} : job'[s] = job[s]
  BY <1>1 DEF Describe, table
<1>3. /\ k.checked /\ k.new = j.new /\ k.base = j.base
      /\ k.saves = j.saves /\ k.into = j.into /\ k.todo = j.todo \ {j.name}
      /\ k.pc = IF k.todo = {} THEN "announce" ELSE "add"
      /\ Wants(k) = Wants(j) /\ Tip(k) = Tip(j)
  BY <1>1 DEF Describe, Job, Wants, Tip
<1>4. HookKnows(t)'
  BY <1>1, <1>3 DEF HookKnows, Hooked, Accepted, Unsaved
<1>5. /\ \A p \in packages : p \in Package
      /\ \A p \in Own(t) : p \in packages /\ p.name = j.name /\ p.base = j.into
  BY <1>1, PackageRow DEF Own, Filling
<1>6. \A p \in Own(t) : LET q == [p EXCEPT !.writer = NULL]
                       IN  q.name = j.name /\ q.base = j.into
  BY <1>5 DEF Package
<1>7. \A p \in packages' :
          \/ p \in packages /\ p \notin Own(t)
          \/ p.name = j.name /\ p.base = j.into
  BY <1>2, <1>6
<1>8. Filling(t)'
  <2>1. ASSUME NEW p \in packages', p.name \in k.todo PROVE FALSE
    <3>1. p.name \in j.todo /\ p.name # j.name
      BY <1>3, <2>1
    <3> QED
      BY <1>1, <1>7, <3>1 DEF Filling
  <2>2. ASSUME id[j.base] # 0
        PROVE  /\ Rows(k, Wants(k) \ k.todo) \subseteq packages'
               /\ \A p \in packages' : p.base = j.into => p \in Rows(k, Wants(k) \ k.todo)
    <3>1. /\ Rows(j, Wants(j) \ j.todo) \subseteq packages /\ Added(t) \in packages
          /\ \A p \in packages : p.base = j.into =>
                p \in Rows(j, Wants(j) \ j.todo) \cup {Added(t)}
      BY <1>1, <2>2 DEF Filling, UnderWay
    <3>2. Rows(k, Wants(k) \ k.todo) = Rows(j, Wants(j) \ j.todo) \cup {done}
      BY <1>1, <1>3 DEF Rows, Row
    <3>3. \A p \in Rows(j, Wants(j) \ j.todo) : p.name # j.name
      BY <1>1 DEF Rows, Row
    <3>4. Added(t) \in Own(t) /\ [Added(t) EXCEPT !.writer = NULL] = done
      BY <3>1 DEF Own, Added, Row
    <3>5. Own(t) = {Added(t)}
      BY <1>5, <3>1, <3>3, <3>4
    <3>6. packages' = (packages \ {Added(t)}) \cup {done}
      BY <1>2, <3>4, <3>5
    <3>7. Added(t).name = j.name
      BY DEF Added, Row
    <3> HIDE DEF j, k, done
    <3> QED
      BY <3>1, <3>2, <3>3, <3>6, <3>7
  <2>3. UnderWay(t)' = {}
    BY <1>3 DEF UnderWay
  <2> HIDE DEF j, k
  <2> QED
    BY <1>1, <1>2, <1>3, <2>1, <2>2, <2>3 DEF Filling, j, k
<1>9. ASSUME NEW s \in Sessions \ {t}, job[s].checked PROVE Spared(s)
  <2>1. j.name \notin Wants(job[s])
    BY <1>1, <1>9, IntoApart DEF Saving
  <2>2. job[s].pc \notin Unsaved /\ job[s].saves =>
            job[s].into # j.into \/ id[job[s].base] = 0
    BY <1>1, <1>9, IntoApart DEF Saving
  <2> QED
    BY <1>2, <1>5, <1>7, <2>1, <2>2 DEF Spared
<1> QED
  BY <1>2, <1>3, <1>4, <1>8, <1>9, HookMove, SameFresher DEF Intact

LEMMA HookRemove ==
    ASSUME MaintInv, HookInv, NEW B \in SUBSET Bases, RemoveRows(B)
    PROVE  HookInv'
<1>1. /\ UNCHANGED <<nextId, job>> /\ id \in [Bases -> Nat] /\ nextId \in Nat
      /\ packages' = {p \in packages : \A b \in B : p.base # id[b]}
      /\ \A b \in Bases : id'[b] = IF b \in B THEN 0 ELSE id[b]
  BY DEF RemoveRows, MaintInv, TypeInv, TypeOK
<1>2. Fresher
  BY <1>1 DEF Fresher
<1>3. ASSUME NEW s \in Sessions, job[s].checked PROVE Spared(s)
  <2>1. Intact(s) /\ job[s].base \in Bases
    BY <1>3, HookType DEF HookInv, Intact, HookKnows, Hooked, Accepted
  <2>2. CASE job[s].base \in B
    BY <1>1, <2>1, <2>2 DEF Spared
  <2>3. CASE job[s].base \notin B /\ job[s].pc \notin Unsaved /\ job[s].saves
             /\ id[job[s].base] # 0
    <3>1. job[s].into = id[job[s].base]
      BY <2>1, <2>3 DEF Intact, Filling
    <3>2. \A b \in B : id[b] # id[job[s].base]
      BY <2>1, <2>3, HookType DEF Intact, HookKnows, Hooked, Accepted
    <3> QED
      BY <1>1, <2>1, <2>3, <3>1, <3>2 DEF Spared
  <2> QED
    BY <1>1, <2>1, <2>2, <2>3 DEF Spared
<1>4. \A s \in Sessions : job'[s] = job[s] /\ (job[s].checked => Spared(s))
  BY <1>1, <1>3
<1>5. {} \in SUBSET Sessions
  OBVIOUS
<1> QED
  BY <1>2, <1>4, <1>5, HookPut

(* The tag and the notification change nothing a hook relies on.            *)
LEMMA HookAnnounce ==
    ASSUME MaintInv, HookInv, NEW t \in Sessions, Announce(t)
    PROVE  HookInv'
<1> DEFINE j == job[t]
           k == job'[t]
<1>1. /\ j.pc = "announce" /\ j.checked /\ Intact(t) /\ j \in Job
      /\ job \in [Sessions -> Job]
      /\ UNCHANGED <<id, packages, nextId>>
      /\ \A s \in Sessions \ {t} : job'[s] = job[s]
  BY HookType DEF Announce, At, HookInv, Accepted, database, table, Goto, Finish
<1>2. CASE job' = [job EXCEPT ![t] = Idle]
  BY <1>1, <1>2, HookEnds DEF Idle, Accepted
<1>3. CASE Goto(t, "update")
  <2>1. k = [j EXCEPT !.pc = "update"]
    BY <1>1, <1>3 DEF Goto
  <2>2. /\ k.pc = "update" /\ k.checked /\ k.new = j.new /\ k.base = j.base
        /\ k.saves = j.saves /\ k.into = j.into /\ k.todo = j.todo /\ k.user = j.user
        /\ Wants(k) = Wants(j) /\ Tip(k) = Tip(j)
    BY <1>1, <2>1 DEF Job, Wants, Tip
  <2>3. HookKnows(t)'
    BY <1>1, <2>2 DEF Intact, HookKnows, Hooked, Accepted, Unsaved
  <2>4. ASSUME j.saves PROVE Filling(t)'
    <3>1. Filling(t)
      BY <1>1, <2>4 DEF Intact, Unsaved
    <3>2. /\ UnderWay(t)' = {} /\ UnderWay(t) = {}
          /\ Rows(k, Wants(k) \ k.todo) = Rows(j, Wants(j) \ j.todo)
      BY <1>1, <2>2 DEF UnderWay, Rows, Row
    <3>3. \A p \in packages : p.name \notin j.todo
      BY <1>1, <3>1 DEF Filling
    <3> HIDE DEF j, k
    <3> QED
      BY <1>1, <2>2, <3>1, <3>2, <3>3 DEF Filling, j, k
  <2>5. Intact(t)'
    BY <2>2, <2>3, <2>4 DEF Intact
  <2> QED
    BY <1>1, <2>2, <2>5, HookMove, SameSpared, SameFresher
<1> QED
  BY <1>2, <1>3 DEF Announce, Finish

(* Sessions that have not come to their hook, and the ends of a session.    *)
LEMMA HookShell ==
    ASSUME MaintInv, HookInv, NEW t \in Sessions,
           \/ \E u \in Users, b \in Bases, push \in BOOLEAN : Serve(t, u, b, push)
           \/ MakeDirectory(t) \/ InitRepository(t) \/ LinkHook(t) \/ Leave(t)
           \/ \E new \in Histories, o \in BOOLEAN : Receive(t, new, o)
           \/ SkipHook(t) \/ Refuse(t) \/ UpdateRef(t) \/ Fail(t) \/ Crash(t)
    PROVE  HookInv'
<1> DEFINE j == job[t]
<1>1. job \in [Sessions -> Job] /\ j \in Job /\ (j.pc \in Unchecked => ~j.checked)
  BY DEF MaintInv, TypeInv, TypeOK, JobFits
<1>2. UNCHANGED <<id, packages, nextId>>
  BY DEF Serve, MakeDirectory, InitRepository, LinkHook, Leave, Receive, SkipHook,
     Refuse, UpdateRef, Fail, Crash, database, table
<1>3. CASE Finish(t)
  BY <1>1, <1>2, <1>3, HookEnds DEF Finish, Idle, Accepted
<1>4. CASE \E u \in Users, b \in Bases, push \in BOOLEAN : Serve(t, u, b, push)
  <2>1. PICK u \in Users, b \in Bases, push \in BOOLEAN : Serve(t, u, b, push)
    BY <1>4
  <2>2. /\ ~job'[t].checked /\ job'[t].pc = "repository"
        /\ \A s \in Sessions \ {t} : job'[s] = job[s]
    BY <1>1, <2>1 DEF Serve, Idle
  <2> QED
    BY <1>2, <2>2, HookEnds DEF Accepted
<1>5. CASE MakeDirectory(t) \/ InitRepository(t) \/ LinkHook(t) \/ SkipHook(t)
  <2>1. j.pc \in Unchecked
    BY <1>5 DEF MakeDirectory, InitRepository, LinkHook, SkipHook, At, Unchecked
  <2>2. \E pc \in Steps \ Accepted : job' = [job EXCEPT ![t].pc = pc]
    BY <1>5 DEF MakeDirectory, InitRepository, LinkHook, SkipHook, Goto, Steps, Accepted
  <2>3. /\ ~job'[t].checked /\ job'[t].pc \notin Accepted
        /\ \A s \in Sessions \ {t} : job'[s] = job[s]
    BY <1>1, <2>1, <2>2 DEF Job
  <2> QED
    BY <1>2, <2>3, HookEnds
<1>6. CASE \E new \in Histories, o \in BOOLEAN : Receive(t, new, o)
  <2>1. PICK new \in Histories, o \in BOOLEAN : Receive(t, new, o)
    BY <1>6
  <2>2. j.pc \in Unchecked
    BY <2>1 DEF Receive, At, Unchecked
  <2>3. /\ ~job'[t].checked /\ job'[t].pc = "check"
        /\ \A s \in Sessions \ {t} : job'[s] = job[s]
    BY <1>1, <2>1, <2>2 DEF Receive, Job
  <2> QED
    BY <1>2, <2>3, HookEnds DEF Accepted
<1> QED
  BY <1>3, <1>4, <1>5, <1>6 DEF Leave, Refuse, UpdateRef, Fail, Crash

LEMMA HookNext == MaintInv /\ HookInv /\ Apart /\ [Next]_vars => HookInv'
<1> SUFFICES ASSUME MaintInv, HookInv, Apart, [Next]_vars PROVE HookInv'
  OBVIOUS
<1>1. ASSUME NEW s \in Sessions, Step(s) PROVE HookInv'
  BY <1>1, HookShell, HookCheck, HookCreate, HookNotify, HookSave, HookAdd,
     HookDescribe, HookAnnounce DEF Step, Hook
<1>2. ASSUME NEW s \in Sessions, Crash(s) PROVE HookInv'
  BY <1>2, HookShell
<1>3. ASSUME NEW s \in Sessions, NEW u \in Users, NEW b \in Bases,
             NEW push \in BOOLEAN, Serve(s, u, b, push)
      PROVE  HookInv'
  BY <1>3, HookShell
<1>4. ASSUME Others PROVE HookInv'
  <2>1. ASSUME NEW b, \/ \E m \in Users \cup {NULL} : ChangeOwner(b, m)
                      \/ \E us \in SUBSET (Users \ Privileged) : ChangeComaintainers(b, us)
                      \/ Age(b)
        PROVE  HookInv'
    BY <2>1, HookSame DEF ChangeOwner, ChangeComaintainers, Age
  <2>2. ASSUME NEW b \in Managed, DeleteBase(b) PROVE HookInv'
    BY <2>2, HookRemove, BoundsAssumption DEF DeleteBase
  <2>3. ASSUME PkgMaint PROVE HookInv'
    <3>1. Unpackaged \in SUBSET Bases
      BY DEF Unpackaged
    <3> QED
      BY <2>3, <3>1, HookRemove DEF PkgMaint
  <2> QED
    BY <1>4, <2>1, <2>2, <2>3 DEF Others
<1>5. CASE UNCHANGED vars
  BY <1>5, HookSame DEF vars, database, table
<1> QED
  BY <1>1, <1>2, <1>3, <1>4, <1>5 DEF Next

LEMMA HookInit == Init => HookInv
BY DEF Init, HookInv, Idle, Accepted

(* What the hook leaves behind when git moves the ref.                      *)
LEMMA DescribedFirst ==
    ASSUME MaintInv, HookInv, NEW s \in Sessions, NEW b \in Bases, UpdateRef(s),
           job[s].checked, job[s].base = b, id[b] # 0,
           job[s].saves \/ job[s].user \notin Privileged
    PROVE  Described(b)'
<1> DEFINE j == job[s]
<1>1. j.pc = "update" /\ Intact(s) /\ j.saves
  BY DEF UpdateRef, At, HookInv, Intact, HookKnows
<1>2. Filling(s) /\ j.todo = {} /\ j.into = id[b] /\ UnderWay(s) = {}
  BY <1>1 DEF Intact, Unsaved, HookKnows, Filling, UnderWay
<1>3. /\ Rows(j, Wants(j)) \subseteq packages
      /\ \A p \in packages : p.base = id[b] => p \in Rows(j, Wants(j))
  BY <1>2 DEF Filling
<1>4. \A p \in Rows(j, Wants(j)) : p.base = id[b]
  BY <1>2 DEF Rows, Row
<1>5. PackagesOf(id[b]) = Rows(j, Wants(j))
  BY <1>3, <1>4 DEF PackagesOf
<1>6. head'[b] = j.new /\ UNCHANGED <<id, packages>>
  BY DEF UpdateRef, MaintInv, TypeInv, TypeOK, database, table
<1> QED
  BY <1>2, <1>5, <1>6 DEF Described, Rows, Row, Wants, Tip, PackagesOf

(* Of any number of sessions, killed or not, whose hooks share neither a    *)
(* package base nor the name of a package: whoever moves a master branch    *)
(* without privileges leaves its new tip described completely, whatever the *)
(* web server and pkgmaint did between the transactions of the hook.        *)
THEOREM TheTipIsDescribed == Spec /\ []Apart => MetadataFirst
<1>1. MaintInv /\ HookInv =>
        \A s \in Sessions, b \in Bases :
            /\ UpdateRef(s)
            /\ job[s].checked
            /\ job[s].base = b /\ id[b] # 0
            /\ job[s].saves \/ job[s].user \notin Privileged
            => Described(b)'
  BY DescribedFirst
<1> QED
  BY <1>1, MaintInit, MaintNext, HookInit, HookNext, PTL DEF Spec, MetadataFirst

-----------------------------------------------------------------------------
(* None is killed, either: every package base that is not just being saved  *)
(* has a package, for a hook fails while it holds none only if its package  *)
(* base is gone.                                                            *)

Between == {"notify", "save", "add", "describe"}
Saves(s, b) == job[s].pc \in Between /\ job[s].base = b

Filled == \A b \in Bases :
              \/ id[b] = 0
              \/ PackagesOf(id[b]) # {}
              \/ \E s \in Sessions : Saves(s, b)

(* A step that removes no package keeps what is filled, unless a session    *)
(* turns away from its package base.                                        *)
LEMMA FilledKept ==
    ASSUME Filled, id' = id, \A p \in packages : \E q \in packages' : q.base = p.base,
           \A s \in Sessions, b \in Bases :
               Saves(s, b) => \/ Saves(s, b)'
                              \/ id[b] = 0
                              \/ PackagesOf(id[b])' # {}
    PROVE  Filled'
BY DEF Filled, PackagesOf

LEMMA FilledFail ==
    ASSUME MaintInv, HookInv, NEW t \in Sessions, Fail(t),
           NEW b \in Bases, Saves(t, b)
    PROVE  id[b] = 0 \/ PackagesOf(id[b]) # {}
<1> DEFINE j == job[t]
<1>1. j.checked /\ Intact(t) /\ j.base = b
  BY DEF Saves, Between, HookInv, Accepted
<1>2. CASE j.pc = "notify"
  BY <1>1, <1>2 DEF Fail, At, Intact, HookKnows
<1>3. CASE j.pc = "save"
  BY <1>1, <1>3 DEF Fail, At
<1>4. CASE j.pc = "add"
  <2>1. Filling(t)
    BY <1>1, <1>4 DEF Intact, HookKnows, Unsaved
  <2>2. ~RowExists(j.into)
    BY <1>4, <2>1 DEF Fail, At, Filling
  <2> QED
    BY <1>1, <2>1, <2>2 DEF Filling, RowExists
<1>5. CASE j.pc = "describe"
  <2>1. Filling(t)
    BY <1>1, <1>5 DEF Intact, HookKnows, Unsaved
  <2>2. CASE id[b] # 0
    <3>1. Added(t) \in packages /\ Added(t).base = id[b]
      BY <1>1, <1>5, <2>1, <2>2 DEF Filling, UnderWay, Added, Row
    <3> QED
      BY <3>1 DEF PackagesOf
  <2> QED
    BY <2>2
<1> QED
  BY <1>2, <1>3, <1>4, <1>5 DEF Saves, Between

(* A package base whose last package is described has one.                  *)
LEMMA FilledDescribe ==
    ASSUME MaintInv, HookInv, HookInv', NEW t \in Sessions, Describe(t),
           NEW b \in Bases, Saves(t, b)
    PROVE  Saves(t, b)' \/ id[b] = 0 \/ PackagesOf(id[b])' # {}
<1> DEFINE j == job[t]
           k == job'[t]
<1>1. /\ j.pc = "describe" /\ j.checked /\ j \in Job /\ job \in [Sessions -> Job]
      /\ j.base = b /\ id' = id /\ j.saves
  BY HookType, IntoOwn DEF Describe, At, Saving, table, Saves
<1>2. /\ k.pc = IF k.todo = {} THEN "announce" ELSE "add"
      /\ k.base = b /\ k.new = j.new /\ k.checked /\ k.saves
  BY <1>1 DEF Describe, Job
<1>3. CASE k.todo # {}
  BY <1>2, <1>3 DEF Saves, Between
<1>4. CASE k.todo = {} /\ id[b] # 0
  <2>1. Filling(t)'
    BY <1>2, <1>4 DEF HookInv, Intact, Unsaved
  <2>2. Rows(k, Wants(k)) \subseteq packages' /\ k.into = id[b]
    BY <1>1, <1>2, <1>4, <2>1 DEF Filling
  <2>3. PICK n \in Wants(k) : TRUE
    BY <1>1, <1>2, WantsSome DEF Pushed, Steps, Wants, Tip
  <2>4. Row(k, n, NULL) \in packages' /\ Row(k, n, NULL).base = id[b]
    BY <2>2, <2>3 DEF Rows, Row
  <2> QED
    BY <1>1, <2>4 DEF PackagesOf
<1> QED
  BY <1>3, <1>4

LEMMA FilledSave ==
    ASSUME MaintInv, Filled, NEW t \in Sessions, SaveBase(t)
    PROVE  Filled'
<1> PICK c \in Bases : c = job[t].base
  BY HookType DEF SaveBase, At
<1>1. /\ job[t].pc = "save" /\ job \in [Sessions -> Job] /\ job[t] \in Job
      /\ \A b \in Bases : id[b] = id[c] /\ id[b] # 0 => b = c
      /\ id' = id /\ packages' = {p \in packages : p.base # id[c]}
  BY HookType DEF SaveBase, At, PackagesOf
<1>2. \A s \in Sessions, b \in Bases : Saves(s, b) => Saves(s, b)'
  BY <1>1 DEF SaveBase, Saves, Between, Job
<1>3. Saves(t, c)'
  BY <1>1 DEF SaveBase, Saves, Between, Job
<1>4. \A b \in Bases \ {c} : id[b] # 0 => PackagesOf(id[b])' = PackagesOf(id[b])
  BY <1>1 DEF PackagesOf
<1> SUFFICES ASSUME NEW b \in Bases, id'[b] # 0, b # c
             PROVE  PackagesOf(id[b])' # {} \/ \E s \in Sessions : Saves(s, b)'
  BY <1>1, <1>3 DEF Filled
<1>5. id'[b] = id[b]
  BY <1>1
<1>6. CASE PackagesOf(id[b]) # {}
  BY <1>4, <1>5, <1>6
<1>7. CASE \E s \in Sessions : Saves(s, b)
  BY <1>2, <1>7
<1> QED
  BY <1>5, <1>6, <1>7 DEF Filled

LEMMA FilledCreate ==
    ASSUME MaintInv, Filled, NEW t \in Sessions, CreateBase(t)
    PROVE  Filled'
<1> PICK c \in Bases : c = job[t].base
  BY HookType DEF CreateBase, At
<1>1. /\ job[t].pc = "create" /\ job \in [Sessions -> Job] /\ job[t] \in Job
      /\ id \in [Bases -> Nat] /\ id' = [id EXCEPT ![c] = nextId] /\ packages' = packages
  BY HookType DEF CreateBase, At
<1>2. \A s \in Sessions, b \in Bases : Saves(s, b) => Saves(s, b)'
  BY <1>1 DEF CreateBase, Saves, Between, Job
<1>3. Saves(t, c)'
  BY <1>1 DEF CreateBase, Saves, Between, Job
<1>4. \A b \in Bases \ {c} : id'[b] = id[b] /\ PackagesOf(id[b])' = PackagesOf(id[b])
  BY <1>1 DEF PackagesOf
<1> SUFFICES ASSUME NEW b \in Bases, id'[b] # 0, b # c
             PROVE  PackagesOf(id[b])' # {} \/ \E s \in Sessions : Saves(s, b)'
  BY <1>1, <1>3 DEF Filled
<1>5. id'[b] = id[b]
  BY <1>1
<1>6. CASE PackagesOf(id[b]) # {}
  BY <1>4, <1>5, <1>6
<1>7. CASE \E s \in Sessions : Saves(s, b)
  BY <1>2, <1>7
<1> QED
  BY <1>5, <1>6, <1>7 DEF Filled

LEMMA FilledRemove ==
    ASSUME MaintInv, Filled, NEW B \in SUBSET Bases, RemoveRows(B)
    PROVE  Filled'
<1>1. /\ job' = job /\ id \in [Bases -> Nat]
      /\ packages' = {p \in packages : \A b \in B : p.base # id[b]}
      /\ \A b \in Bases : id'[b] = IF b \in B THEN 0 ELSE id[b]
      /\ \A b, c \in Bases : id[b] = id[c] /\ id[b] # 0 => b = c
  BY DEF RemoveRows, MaintInv, TypeInv, TypeOK, IdsUnique
<1>2. ASSUME NEW b \in Bases \ B, id[b] # 0, NEW p \in PackagesOf(id[b])
      PROVE  p \in PackagesOf(id[b])'
  <2>1. \A c \in B : id[c] # id[b]
    BY <1>1, <1>2
  <2> QED
    BY <1>1, <1>2, <2>1 DEF PackagesOf
<1> QED
  BY <1>1, <1>2 DEF Filled, Saves

(* Steps before and after the hook saves, and steps of the web server.      *)
LEMMA FilledMove ==
    ASSUME Filled, NEW t \in Sessions, UNCHANGED <<id, packages>>,
           \A s \in Sessions \ {t} : job'[s] = job[s],
           \A b \in Bases : Saves(t, b) =>
               Saves(t, b)' \/ id[b] = 0 \/ PackagesOf(id[b]) # {}
    PROVE  Filled'
BY FilledKept DEF Saves, PackagesOf

LEMMA FilledStep ==
    ASSUME MaintInv, HookInv, HookInv', Filled, NEW t \in Sessions, Step(t)
    PROVE  Filled'
<1>1. job \in [Sessions -> Job]
  BY DEF MaintInv, TypeInv, TypeOK
<1>2. CASE \/ MakeDirectory(t) \/ InitRepository(t) \/ LinkHook(t) \/ Leave(t)
           \/ \E new \in Histories, o \in BOOLEAN : Receive(t, new, o)
           \/ SkipHook(t) \/ Check(t) \/ Refuse(t) \/ UpdateRef(t) \/ Announce(t)
  <2>1. UNCHANGED <<id, packages>> /\ \A s \in Sessions \ {t} : job'[s] = job[s]
    BY <1>1, <1>2 DEF MakeDirectory, InitRepository, LinkHook, Leave, Receive, SkipHook,
       Check, Refuse, UpdateRef, Announce, Goto, Finish, database, table
  <2>2. job[t].pc \notin Between
    BY <1>2 DEF MakeDirectory, InitRepository, LinkHook, Leave, Receive, SkipHook,
       Check, Refuse, UpdateRef, Announce, At, Between
  <2> QED
    BY <2>1, <2>2, FilledMove DEF Saves
<1>3. CASE NotifyCreator(t)
  <2>1. /\ UNCHANGED <<id, packages>>
        /\ job'[t].pc = "save" /\ job'[t].base = job[t].base
        /\ \A s \in Sessions \ {t} : job'[s] = job[s]
    BY <1>1, <1>3 DEF NotifyCreator, Goto, Job
  <2> QED
    BY <2>1, FilledMove DEF Saves, Between
<1>4. CASE Fail(t)
  <2>1. UNCHANGED <<id, packages>> /\ \A s \in Sessions \ {t} : job'[s] = job[s]
    BY <1>1, <1>4 DEF Fail, Finish, database, table
  <2> QED
    BY <1>4, <2>1, FilledMove, FilledFail
<1>5. CASE \E n \in Names : AddPackage(t, n)
  <2>1. /\ id' = id /\ packages \subseteq packages'
        /\ job'[t].pc = "describe" /\ job'[t].base = job[t].base
        /\ \A s \in Sessions \ {t} : job'[s] = job[s]
    BY <1>1, <1>5 DEF AddPackage, table, Job
  <2> QED
    BY <2>1, FilledKept DEF Saves, Between
<1>6. CASE Describe(t)
  <2>1. /\ id' = id
        /\ packages' = (packages \ Own(t)) \cup {[p EXCEPT !.writer = NULL] : p \in Own(t)}
        /\ \A s \in Sessions \ {t} : job'[s] = job[s]
    BY <1>1, <1>6 DEF Describe, table
  <2>2. ASSUME NEW p \in packages PROVE \E q \in packages' : q.base = p.base
    <3>1. [p EXCEPT !.writer = NULL].base = p.base
      BY PackageRow DEF Package
    <3> QED
      BY <2>1, <3>1
  <2>3. \A s \in Sessions \ {t}, b \in Bases : Saves(s, b) => Saves(s, b)'
    BY <2>1 DEF Saves
  <2> QED
    BY <1>6, <2>1, <2>2, <2>3, FilledKept, FilledDescribe
<1> QED
  BY <1>2, <1>3, <1>4, <1>5, <1>6, FilledSave, FilledCreate DEF Step, Hook

LEMMA FilledNext ==
    ASSUME MaintInv, HookInv, HookInv', Filled, ~Crashes, [Next]_vars
    PROVE  Filled'
<1>1. ASSUME NEW s \in Sessions, NEW u \in Users, NEW b \in Bases,
             NEW push \in BOOLEAN, Serve(s, u, b, push)
      PROVE  Filled'
  <2>1. /\ UNCHANGED <<id, packages>> /\ job[s].pc = "idle"
        /\ \A t \in Sessions \ {s} : job'[t] = job[t]
    BY <1>1 DEF Serve, Idle, database, table, MaintInv, TypeInv, TypeOK
  <2> QED
    BY <2>1, FilledMove DEF Saves, Between
<1>2. ASSUME NEW b, \/ \E m \in Users \cup {NULL} : ChangeOwner(b, m)
                    \/ \E us \in SUBSET (Users \ Privileged) : ChangeComaintainers(b, us)
                    \/ Age(b)
      PROVE  Filled'
  BY <1>2, FilledKept DEF ChangeOwner, ChangeComaintainers, Age, Saves
<1>3. ASSUME NEW b \in Managed, DeleteBase(b) PROVE Filled'
  BY <1>3, FilledRemove, BoundsAssumption DEF DeleteBase
<1>4. CASE PkgMaint
  <2>1. Unpackaged \in SUBSET Bases
    BY DEF Unpackaged
  <2> QED
    BY <1>4, <2>1, FilledRemove DEF PkgMaint
<1>5. CASE UNCHANGED vars
  BY <1>5, FilledKept DEF vars, database, table, Saves
<1> QED
  BY <1>1, <1>2, <1>3, <1>4, <1>5, FilledStep DEF Next, Others, Crash

LEMMA FilledInit == Init => Filled
BY DEF Init, Filled

LEMMA FilledPushable == Filled => Pushable
BY DEF Filled, Pushable, Saves, Between, Idle

(* Of any number of sessions that are not killed, whose hooks share neither *)
(* a package base nor the name of a package: a package base at rest has a   *)
(* packages[0], however the hooks failed (on a license two of them record   *)
(* at a time, say) and whatever the web server and pkgmaint did between     *)
(* their transactions.                                                      *)
THEOREM EveryBaseCanBePushed ==
    ASSUME ~Crashes
    PROVE  Spec /\ []Apart => []Pushable
<1>1. /\ MaintInv /\ HookInv /\ HookInv' /\ Filled /\ [Next]_vars
      => Filled'
  BY FilledNext
<1> QED
  BY <1>1, MaintInit, MaintNext, HookInit, HookNext, FilledInit, FilledPushable, PTL
  DEF Spec

=============================================================================
