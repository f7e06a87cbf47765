--------------------------- MODULE AccountsProofs ---------------------------
(* Theorems about Accounts, for any number of workers, users and forms.     *)
EXTENDS Accounts, TLAPS

-----------------------------------------------------------------------------
(* The invariant.  Accounts do not vanish, so the account an edit was       *)
(* checked for is still there when its type is written; and the type a form *)
(* was allowed is no higher than some type that was held when it was        *)
(* checked, which TopType bounds whatever the editor is by now.             *)

Editing == {"check", "simple", "load", "key", "type", "password"}
Checked == {"simple", "load", "key", "type"}

RowFits(r) == /\ r.type <= TopType
              /\ r.type # 0 => /\ r.name # NULL
                               /\ r.passwd # NULL \/ r.resetKey

JobFits(j, acc) ==
    /\ j.pc # "idle" => j.user \in Users
    /\ j.pc = "open" => j.user \in SsoUsers
    /\ j.pc \in {"register", "addKey"} \cup Editing => j.form \in Form
    /\ j.pc = "addKey" => j.form.key # NULL
    /\ j.pc = "simple" => j.row \in Account
    /\ j.pc = "reset" => j.new # NULL
    /\ j.pc = "type" => j.form.type # 0
    /\ j.pc \in Editing => acc[j.user].type # 0
    /\ j.pc = "check" => j.rank <= TopType
    /\ j.pc \in Checked => j.form.type <= TopType

Inv == /\ TypeOK
       /\ \A u \in Users : RowFits(account[u])
       /\ \A w \in Workers : JobFits(job[w], account)

(* Accounts stay, in whatever row.                                          *)
Stay(acc) == \A u \in Users : account[u].type # 0 => acc[u].type # 0

LEMMA NullIsNoData ==
    NULL \notin Users /\ NULL \notin Names /\ NULL \notin Passwords
        /\ NULL \notin Fingerprints
BY NullAssumption

LEMMA TopTypeIsType == TopType \in Nat /\ User <= TopType
BY TypesAssumption DEF Types, User

(* A worker whose job is replaced, while accounts stay.                     *)
LEMMA JobReplaced ==
    ASSUME Inv, NEW w \in Workers, NEW j \in Job, NEW acc, Stay(acc),
           JobFits(j, acc), job' = [job EXCEPT ![w] = j]
    PROVE  job' \in [Workers -> Job] /\ \A v \in Workers : JobFits(job'[v], acc)
<1>1. \A v \in Workers : job'[v] = IF v = w THEN j ELSE job[v]
  BY DEF Inv, TypeOK
<1>2. \A v \in Workers : JobFits(job[v], acc)
  <2> TAKE v \in Workers
  <2>1. JobFits(job[v], account)
    BY DEF Inv
  <2>2. job[v].pc \in Editing => acc[job[v].user].type # 0
    BY <2>1 DEF JobFits, Editing, Stay
  <2> QED
    BY <2>1, <2>2 DEF JobFits
<1>3. job' \in [Workers -> Job]
  BY DEF Inv, TypeOK
<1> QED
  BY <1>1, <1>2, <1>3

LEMMA IdleFits ==
    ASSUME NEW acc
    PROVE  Idle \in Job /\ JobFits(Idle, acc)
BY DEF Idle, Job, JobFits, Steps, Types, Editing, Checked

LEMMA FinishFits ==
    ASSUME Inv, NEW w \in Workers, Finish(w), NEW acc, Stay(acc)
    PROVE  job' \in [Workers -> Job] /\ \A v \in Workers : JobFits(job'[v], acc)
BY IdleFits, JobReplaced DEF Finish

LEMMA Unchanged == Stay(account)
BY DEF Stay

LEMMA GotoFits ==
    ASSUME Inv, NEW w \in Workers, NEW pc \in Steps, Goto(w, pc),
           NEW acc, Stay(acc), job[w].pc # "idle",
           pc \in {"login", "password", "addKey"},
           pc = "password" => job[w].pc \in Editing,
           pc = "addKey" => job[w].pc = "register" /\ job[w].form.key # NULL
    PROVE  job' \in [Workers -> Job] /\ \A v \in Workers : JobFits(job'[v], acc)
<1> DEFINE j == [job[w] EXCEPT !.pc = pc]
<1>1. job[w] \in Job /\ JobFits(job[w], account)
  BY DEF Inv, TypeOK
<1>2. j \in Job /\ j.pc = pc /\ j.user = job[w].user /\ j.form = job[w].form
  BY <1>1 DEF Job
<1>3. job' = [job EXCEPT ![w] = j]
  BY DEF Goto, Inv, TypeOK
<1> HIDE DEF j
<1>4. pc = "password" => acc[job[w].user].type # 0
  BY <1>1 DEF JobFits, Stay, Editing
<1>5. JobFits(j, acc)
  BY <1>1, <1>2, <1>4 DEF JobFits, Editing, Checked
<1> QED
  BY <1>2, <1>3, <1>5, JobReplaced

(* A row that is replaced.                                                  *)
LEMMA RowReplaced ==
    ASSUME Inv, NEW u \in Users, NEW r \in Account, RowFits(r),
           account[u].type # 0 => r.type # 0,
           account' = [account EXCEPT ![u] = r]
    PROVE  /\ account' \in [Users -> Account] /\ Stay(account')
           /\ \A v \in Users : RowFits(account'[v])
           /\ \A v \in Users : account'[v].type # 0 => account'[v].name # NULL
<1>1. \A v \in Users : account'[v] = IF v = u THEN r ELSE account[v]
  BY DEF Inv, TypeOK
<1>2. account' \in [Users -> Account]
  BY DEF Inv, TypeOK
<1>3. Stay(account')
  BY <1>1 DEF Stay
<1>4. \A v \in Users : RowFits(account'[v])
  BY <1>1 DEF Inv
<1> QED
  BY <1>2, <1>3, <1>4 DEF RowFits

(* What a step leaves to be shown that changes nothing else.                *)
LEMMA InvAgain ==
    ASSUME Inv, UNCHANGED <<keyOwner, sessions, sids, now>>,
           account' \in [Users -> Account],
           \A v \in Users : RowFits(account'[v]),
           job' \in [Workers -> Job],
           \A v \in Workers : JobFits(job'[v], account')
    PROVE  Inv'
<1>1. \A v \in Users : account'[v].type # 0 => account'[v].name # NULL
  BY DEF RowFits
<1>2. TypeOK'
  BY <1>1 DEF Inv, TypeOK
<1> QED
  BY <1>2 DEF Inv

-----------------------------------------------------------------------------
(* Calls.                                                                   *)

LEMMA ReceiveInv ==
    ASSUME Inv, NEW w \in Workers, NEW j \in Job, JobFits(j, account), Receive(w, j)
    PROVE  Inv'
<1>1. job' \in [Workers -> Job] /\ \A v \in Workers : JobFits(job'[v], account)
  BY Unchanged, JobReplaced DEF Receive
<1> QED
  BY <1>1 DEF Receive, Inv, TypeOK

LEMMA UserCall ==
    ASSUME NEW u \in Users, NEW pc \in {"login", "expire", "logout", "issue"},
           NEW acc
    PROVE  LET j == [Idle EXCEPT !.pc = pc, !.user = u]
           IN  j \in Job /\ JobFits(j, acc)
<1> DEFINE j == [Idle EXCEPT !.pc = pc, !.user = u]
<1>1. j \in Job /\ j.pc = pc /\ j.user = u
  BY IdleFits DEF Job, Idle, Steps
<1> HIDE DEF j
<1>2. JobFits(j, acc)
  BY <1>1 DEF JobFits, Editing, Checked
<1> QED
  BY <1>1, <1>2 DEF j

LEMMA ServeInv ==
    ASSUME Inv, NEW w \in Workers, NEW u \in Users, Serve(w, u)
    PROVE  Inv'
<1>1. ASSUME NEW p \in Passwords, LoginPost(w, u, p) PROVE Inv'
  BY <1>1, UserCall, ReceiveInv DEF LoginPost
<1>2. CASE SsoAuthenticate(w, u)
  <2> DEFINE j == [Idle EXCEPT !.pc = "open", !.user = u]
  <2>1. j \in Job /\ j.pc = "open" /\ j.user = u
    BY IdleFits DEF Job, Idle, Steps
  <2>2. Receive(w, j) /\ u \in SsoUsers
    BY <1>2 DEF SsoAuthenticate
  <2> HIDE DEF j
  <2>3. JobFits(j, account)
    BY <2>1, <2>2 DEF JobFits, Editing, Checked
  <2> QED
    BY <2>1, <2>2, <2>3, ReceiveInv
<1>3. CASE LogoutPost(w, u)
  BY <1>3, UserCall, ReceiveInv DEF LogoutPost
<1>4. CASE PassresetPost(w, u)
  BY <1>4, UserCall, ReceiveInv DEF PassresetPost
<1>5. ASSUME NEW p \in Passwords, ResetKeyPost(w, u, p) PROVE Inv'
  <2> DEFINE j == [Idle EXCEPT !.pc = "reset", !.user = u, !.new = p]
  <2>1. j \in Job /\ j.pc = "reset" /\ j.user = u /\ j.new = p
    BY IdleFits DEF Job, Idle, Steps
  <2>2. Receive(w, j)
    BY <1>5 DEF ResetKeyPost
  <2> HIDE DEF j
  <2>3. JobFits(j, account)
    BY <2>1, NullIsNoData DEF JobFits, Editing, Checked
  <2> QED
    BY <2>1, <2>2, <2>3, ReceiveInv
<1>6. ASSUME NEW f \in Forms, AccountRegisterPost(w, u, f) PROVE Inv'
  <2> DEFINE g == [f EXCEPT !.type = 0, !.passwd = NULL, !.suspended = FALSE]
             j == [Idle EXCEPT !.pc = "register", !.user = u, !.form = g]
  <2>1. g \in Form
    BY BoundsAssumption DEF Form
  <2>2. Receive(w, j)
    BY <1>6 DEF AccountRegisterPost
  <2> HIDE DEF g
  <2>3. j \in Job /\ j.pc = "register" /\ j.user = u /\ j.form = g
    BY <2>1, IdleFits DEF Job, Idle, Steps
  <2> HIDE DEF j
  <2>4. JobFits(j, account)
    BY <2>1, <2>3 DEF JobFits, Editing, Checked
  <2> QED
    BY <2>2, <2>3, <2>4, ReceiveInv
<1>7. ASSUME NEW e \in Users, NEW f \in Forms, AccountEditPost(w, e, u, f)
      PROVE  Inv'
  <2> DEFINE j == [Idle EXCEPT !.pc = "check", !.user = u, !.by = e,
                               !.rank = account[e].type, !.form = f]
  <2>1. f \in Form /\ account[e] \in Account /\ account[e].type <= TopType
    BY BoundsAssumption DEF Inv, TypeOK, RowFits
  <2>2. account[e].type \in Types \cup {0}
    BY <2>1 DEF Account
  <2>3. /\ j \in Job /\ j.pc = "check" /\ j.user = u /\ j.form = f
        /\ j.rank = account[e].type
    BY <2>1, <2>2, IdleFits DEF Job, Idle, Steps
  <2>4. Receive(w, j) /\ account[u].type # 0
    BY <1>7 DEF AccountEditPost, Exists
  <2> HIDE DEF j
  <2>5. JobFits(j, account)
    BY <2>1, <2>3, <2>4 DEF JobFits, Editing, Checked
  <2> QED
    BY <2>3, <2>4, <2>5, ReceiveInv
<1> QED
  BY <1>1, <1>2, <1>3, <1>4, <1>5, <1>6, <1>7 DEF Serve

-----------------------------------------------------------------------------
(* The steps of a job.                                                      *)

(* A worker at work and what it remembers.                                  *)
LEMMA AtWork ==
    ASSUME Inv, NEW w \in Workers, job[w].pc # "idle"
    PROVE  /\ job[w] \in Job /\ JobFits(job[w], account)
           /\ job[w].user \in Users
           /\ account[job[w].user] \in Account
           /\ RowFits(account[job[w].user])
BY DEF Inv, TypeOK, JobFits

LEMMA SessionStepInv ==
    ASSUME Inv, NEW w \in Workers,
           Login(w) \/ OpenSession(w) \/ EndSession(w)
    PROVE  Inv'
<1>1. job' \in [Workers -> Job] /\ \A v \in Workers : JobFits(job'[v], account)
  BY FinishFits, Unchanged DEF Login, OpenSession, EndSession
<1>2. account' = account /\ keyOwner' = keyOwner /\ now' = now
  BY DEF Login, OpenSession, EndSession
<1>3. job[w].user \in Users
  BY AtWork DEF Login, OpenSession, EndSession
<1>4. NewSid \in Nat \ {0} /\ NewSid \in Nat
  BY DEF NewSid, Inv, TypeOK
<1>5. [user |-> job[w].user, sid |-> NewSid, at |-> now] \in Session
  BY <1>3, <1>4 DEF Session, Inv, TypeOK
<1>6. sessions' \subseteq Session /\ sids' \in Nat
  <2>0. sessions \subseteq Session /\ sids \in Nat
    BY DEF Inv, TypeOK
  <2>1. CASE Login(w)
    <3> DEFINE new == [user |-> job[w].user, sid |-> NewSid, at |-> now]
               mine == SessionsOf(job[w].user)
    <3>1. \/ sessions' = sessions \cup {new} /\ sids' = NewSid
          \/ sessions' = (sessions \ mine) \cup {new} /\ sids' = NewSid
          \/ UNCHANGED <<sessions, sids>>
      BY <2>1 DEF Login
    <3> HIDE DEF new, mine
    <3>2. new \in Session
      BY <1>5 DEF new
    <3> QED
      BY <1>4, <2>0, <3>1, <3>2
  <2>2. CASE OpenSession(w)
    BY <1>4, <1>5, <2>0, <2>2 DEF OpenSession
  <2>3. CASE EndSession(w)
    BY <2>0, <2>3 DEF EndSession
  <2> QED
    BY <2>1, <2>2, <2>3
<1> QED
  BY <1>1, <1>2, <1>6 DEF Inv, TypeOK

LEMMA ResetInv ==
    ASSUME Inv, NEW w \in Workers, IssueResetKey(w) \/ ResetPassword(w)
    PROVE  Inv'
<1> DEFINE u == job[w].user
<1>0. /\ job[w] \in Job /\ JobFits(job[w], account) /\ u \in Users
      /\ account[u] \in Account /\ RowFits(account[u])
  BY AtWork DEF IssueResetKey, ResetPassword
<1>1. CASE IssueResetKey(w)
  <2> DEFINE r == [account[u] EXCEPT !.resetKey = TRUE]
  <2>1. r \in Account /\ r.type = account[u].type /\ RowFits(r)
    BY <1>0 DEF Account, RowFits
  <2>2. account' = [account EXCEPT ![u] = r]
    BY <1>1 DEF IssueResetKey, Inv, TypeOK
  <2> HIDE DEF r, u
  <2>3. /\ account' \in [Users -> Account] /\ Stay(account')
        /\ \A v \in Users : RowFits(account'[v])
    BY <1>0, <2>1, <2>2, RowReplaced
  <2>4. job' \in [Workers -> Job] /\ \A v \in Workers : JobFits(job'[v], account')
    BY <1>1, <2>3, FinishFits DEF IssueResetKey
  <2> QED
    BY <1>1, <2>3, <2>4, InvAgain DEF IssueResetKey
<1>2. CASE ResetPassword(w)
  <2> DEFINE new == job[w].new
             r == [account[u] EXCEPT !.resetKey = FALSE, !.passwd = new]
  <2>0. new \in Passwords \cup {NULL} /\ new # NULL
    BY <1>0, <1>2 DEF JobFits, Job, ResetPassword
  <2> HIDE DEF new
  <2>1. r \in Account /\ r.type = account[u].type /\ RowFits(r)
    BY <1>0, <2>0 DEF Account, RowFits
  <2>2. account' = [account EXCEPT ![u] = r]
    BY <1>2 DEF ResetPassword, Inv, TypeOK, new
  <2> HIDE DEF r, u
  <2>3. /\ account' \in [Users -> Account] /\ Stay(account')
        /\ \A v \in Users : RowFits(account'[v])
        /\ \A v \in Users : account'[v].type # 0 => account'[v].name # NULL
    BY <1>0, <2>1, <2>2, RowReplaced
  <2>4. job' \in [Workers -> Job] /\ \A v \in Workers : JobFits(job'[v], account')
    BY <1>2, <2>3, FinishFits DEF ResetPassword
  <2>5. /\ sessions' \subseteq Session
        /\ keyOwner' = keyOwner /\ sids' = sids /\ now' = now
    BY <1>2 DEF ResetPassword, Inv, TypeOK
  <2>6. TypeOK'
    BY <2>3, <2>4, <2>5 DEF Inv, TypeOK
  <2> QED
    BY <2>3, <2>4, <2>6 DEF Inv
<1> QED
  BY <1>1, <1>2

LEMMA CreateAccountInv ==
    ASSUME Inv, NEW w \in Workers, CreateAccount(w)
    PROVE  Inv'
<1> DEFINE j == job[w]
           u == j.user
           r == [type |-> User, name |-> j.form.name, suspended |-> FALSE,
                 passwd |-> NULL, resetKey |-> TRUE]
<1>0. j \in Job /\ j.pc = "register" /\ j.form \in Form /\ u \in Users
  BY AtWork DEF CreateAccount, JobFits
<1>1. r \in Account /\ r.type = User /\ r.type # 0 /\ RowFits(r)
  BY <1>0, NullIsNoData, TopTypeIsType DEF Form, Account, RowFits, User, Types
<1>2. \/ Finish(w) /\ UNCHANGED account
      \/ /\ account' = [account EXCEPT ![u] = r]
         /\ Finish(w) \/ (j.form.key # NULL /\ Goto(w, "addKey"))
  BY DEF CreateAccount
<1> HIDE DEF r
<1>3. /\ account' \in [Users -> Account] /\ Stay(account')
      /\ \A v \in Users : RowFits(account'[v])
  <2>1. CASE account' = account
    BY <2>1, Unchanged DEF Inv, TypeOK
  <2>2. CASE account' = [account EXCEPT ![u] = r]
    BY <1>0, <1>1, <2>2, RowReplaced
  <2> QED
    BY <1>2, <2>1, <2>2
<1>4. "addKey" \in Steps /\ j.pc # "idle"
  BY <1>0 DEF Steps
<1>5. job' \in [Workers -> Job] /\ \A v \in Workers : JobFits(job'[v], account')
  <2>1. CASE Finish(w)
    BY <1>3, <2>1, FinishFits
  <2>2. CASE j.form.key # NULL /\ Goto(w, "addKey")
    BY <1>0, <1>3, <1>4, <2>2, GotoFits
  <2> QED
    BY <1>2, <2>1, <2>2
<1> QED
  BY <1>3, <1>5, InvAgain DEF CreateAccount

LEMMA AddUserInv ==
    ASSUME Inv, NEW u \in Users, NEW f \in Forms, AddUser(u, f)
    PROVE  Inv'
<1> DEFINE r == [type |-> f.type, name |-> f.name, suspended |-> FALSE,
                 passwd |-> f.passwd, resetKey |-> FALSE]
<1>1. f \in Form /\ f.type \in 1 .. TopType /\ f.passwd # NULL
  BY BoundsAssumption DEF AddUser
<1>2. f.type \in Types /\ f.type <= TopType /\ f.type # 0
  BY <1>1, TypesAssumption DEF Types
<1>3. f.name \in Names /\ f.name # NULL
  BY <1>1, NullIsNoData DEF Form
<1>4. r \in Account /\ r.type # 0 /\ RowFits(r)
  BY <1>1, <1>2, <1>3 DEF Form, Account, RowFits
<1>5. account' = [account EXCEPT ![u] = r]
  BY DEF AddUser
<1> HIDE DEF r
<1>6. /\ account' \in [Users -> Account] /\ Stay(account')
      /\ \A v \in Users : RowFits(account'[v])
  BY <1>4, <1>5, RowReplaced
<1>7. \A v \in Workers : JobFits(job[v], account')
  <2> TAKE v \in Workers
  <2>1. JobFits(job[v], account)
    BY DEF Inv
  <2> QED
    BY <1>6, <2>1 DEF JobFits, Stay, Editing
<1>8. job' = job
  BY DEF AddUser
<1> QED
  BY <1>6, <1>7, <1>8, InvAgain DEF AddUser, Inv, TypeOK

LEMMA AddKeyInv ==
    ASSUME Inv, NEW w \in Workers, AddKey(w)
    PROVE  Inv'
<1>1. job' \in [Workers -> Job] /\ \A v \in Workers : JobFits(job'[v], account)
  BY FinishFits, Unchanged DEF AddKey
<1>2. keyOwner' \in [Fingerprints -> Users \cup {NULL}]
  BY AtWork DEF AddKey, Inv, TypeOK
<1> QED
  BY <1>1, <1>2 DEF AddKey, Inv, TypeOK

-----------------------------------------------------------------------------
(* The steps of an edit.                                                    *)

(* An edit at work, with its account and form.                              *)
LEMMA Edited ==
    ASSUME Inv, NEW w \in Workers, job[w].pc \in Editing
    PROVE  /\ job[w] \in Job /\ JobFits(job[w], account)
           /\ job[w].user \in Users /\ job[w].form \in Form
           /\ account[job[w].user] \in Account
           /\ RowFits(account[job[w].user])
           /\ account[job[w].user].type # 0
<1>1. job[w].pc # "idle"
  BY DEF Editing
<1> QED
  BY <1>1, AtWork DEF JobFits

(* The type a checked form gives is one the editor or the account had.      *)
LEMMA AllowedTypes ==
    ASSUME Inv, NEW w \in Workers, job[w].pc = "check", TypeAllowed(job[w])
    PROVE  job[w].form.type <= TopType
<1> DEFINE j == job[w]
<1>1. /\ j \in Job /\ j.rank <= TopType /\ account[j.user].type <= TopType
      /\ j.form \in Form /\ account[j.user] \in Account
  BY Edited DEF Editing, JobFits, RowFits
<1>2. /\ j.form.type \in Nat /\ j.rank \in Nat /\ account[j.user].type \in Nat
  BY <1>1 DEF Form, Job, Types, Account
<1>3. Rank(j) \in Nat /\ Rank(j) <= TopType
  BY <1>1, <1>2 DEF Rank
<1>4. j.form.type \in {0, account[j.user].type} \/ j.form.type <= Rank(j)
  BY DEF TypeAllowed
<1> HIDE DEF j
<1>5. j.form.type <= TopType
  BY <1>1, <1>2, <1>3, <1>4, TopTypeIsType
<1> QED
  BY <1>5 DEF j

LEMMA ProcessAccountFormInv ==
    ASSUME Inv, NEW w \in Workers, ProcessAccountForm(w)
    PROVE  Inv'
<1> DEFINE old == job[w]
           j == [old EXCEPT !.pc = "simple", !.rank = 0, !.row = account[old.user]]
<1>0. /\ old \in Job /\ JobFits(old, account) /\ old.form \in Form /\ old.user \in Users
      /\ account[old.user] \in Account /\ account[old.user].type # 0
      /\ old.pc = "check"
  BY Edited DEF ProcessAccountForm, Editing
<1>1. job' \in [Workers -> Job] /\ \A v \in Workers : JobFits(job'[v], account)
  <2>1. CASE Valid(old)
    <3>1. old.form.type <= TopType
      BY <1>0, <2>1, AllowedTypes DEF Valid
    <3>2. /\ j \in Job /\ j.pc = "simple" /\ j.user = old.user /\ j.form = old.form
          /\ j.row = account[old.user]
      BY <1>0 DEF Job, Steps, Types
    <3>3. job' = [job EXCEPT ![w] = j]
      BY <2>1 DEF ProcessAccountForm, Inv, TypeOK
    <3> HIDE DEF j
    <3>4. JobFits(j, account)
      BY <1>0, <3>1, <3>2 DEF JobFits, Editing, Checked
    <3> QED
      BY <3>2, <3>3, <3>4, JobReplaced, Unchanged
  <2>2. CASE ~Valid(old)
    BY <2>2, FinishFits, Unchanged DEF ProcessAccountForm
  <2> QED
    BY <2>1, <2>2
<1> QED
  BY <1>1 DEF ProcessAccountForm, Inv, TypeOK

LEMMA SimpleInv ==
    ASSUME Inv, NEW w \in Workers, Simple(w)
    PROVE  Inv'
<1> DEFINE old == job[w]
           u == old.user
           newName == old.form.name # old.row.name
           name == IF newName THEN old.form.name ELSE account[u].name
           susp == IF old.form.suspended # old.row.suspended
                   THEN old.form.suspended ELSE account[u].suspended
           r == [account[u] EXCEPT !.name = name, !.suspended = susp]
           j == [old EXCEPT !.pc = "load", !.row = NULL]
<1>0. /\ old \in Job /\ JobFits(old, account) /\ old.form \in Form /\ u \in Users
      /\ account[u] \in Account /\ account[u].type # 0 /\ RowFits(account[u])
      /\ old.pc = "simple"
  BY Edited DEF Simple, Editing
<1>1. \/ Finish(w) /\ UNCHANGED account
      \/ /\ account' = [account EXCEPT ![u].name = name, ![u].suspended = susp]
         /\ job' = [job EXCEPT ![w].pc = "load", ![w].row = NULL]
  BY DEF Simple
<1>2. CASE Finish(w) /\ UNCHANGED account
  <2>1. job' \in [Workers -> Job] /\ \A v \in Workers : JobFits(job'[v], account)
    BY <1>2, FinishFits, Unchanged
  <2> QED
    BY <1>2, <2>1 DEF Simple, Inv, TypeOK
<1>3. CASE /\ account' = [account EXCEPT ![u].name = name, ![u].suspended = susp]
           /\ job' = [job EXCEPT ![w].pc = "load", ![w].row = NULL]
  <2>1. /\ name \in Names \cup {NULL} /\ name # NULL
        /\ susp \in BOOLEAN
    BY <1>0, NullIsNoData DEF Form, Account, RowFits
  <2>2. account' = [account EXCEPT ![u] = r]
    BY <1>0, <1>3 DEF Inv, TypeOK
  <2>3. job' = [job EXCEPT ![w] = j]
    BY <1>3 DEF Inv, TypeOK
  <2> HIDE DEF name, susp
  <2>4. r \in Account /\ r.type = account[u].type /\ RowFits(r)
    BY <1>0, <2>1 DEF Account, RowFits
  <2>5. /\ j \in Job /\ j.pc = "load" /\ j.user = u /\ j.form = old.form
    BY <1>0 DEF Job, Steps
  <2> HIDE DEF r, j
  <2>6. /\ account' \in [Users -> Account] /\ Stay(account')
        /\ \A v \in Users : RowFits(account'[v])
    BY <1>0, <2>2, <2>4, RowReplaced
  <2>7. JobFits(j, account')
    BY <1>0, <2>5, <2>6 DEF JobFits, Editing, Checked, Stay
  <2>8. job' \in [Workers -> Job] /\ \A v \in Workers : JobFits(job'[v], account')
    BY <2>3, <2>5, <2>6, <2>7, JobReplaced
  <2> QED
    BY <2>6, <2>8, InvAgain DEF Simple
<1> QED
  BY <1>1, <1>2, <1>3

(* Where the key is done with.                                              *)
LEMMA AfterKeyFits ==
    ASSUME NEW old \in Job, JobFits(old, account),
           old.pc \in {"load", "key"}, NEW pc \in {"key", AfterKey(old.form)},
           NEW f \in Fingerprints \cup {NULL},
           NEW j, j = [old EXCEPT !.pc = pc, !.had = f]
    PROVE  j \in Job /\ JobFits(j, account)
<1>1. pc \in {"key", "type", "password"} /\ (pc = "type" => old.form.type # 0)
  BY DEF AfterKey
<1>2. pc \in Steps
  BY <1>1 DEF Steps
<1>3. j \in Job /\ j.pc = pc /\ j.user = old.user /\ j.form = old.form
  BY <1>2 DEF Job
<1>4. JobFits(j, account)
  BY <1>1, <1>3 DEF JobFits, Editing, Checked
<1> QED
  BY <1>3, <1>4

LEMMA LoadKeyInv ==
    ASSUME Inv, NEW w \in Workers, LoadKey(w)
    PROVE  Inv'
<1> DEFINE old == job[w]
           pc(f) == IF f = old.form.key THEN AfterKey(old.form) ELSE "key"
           had(f) == IF f = old.form.key THEN NULL ELSE f
<1>0. old \in Job /\ JobFits(old, account) /\ old.pc \in {"load", "key"}
  BY Edited DEF LoadKey, Editing
<1>1. PICK f \in IF KeysOf(old.user) = {} THEN {NULL} ELSE KeysOf(old.user) :
        job' = [job EXCEPT ![w].pc = pc(f), ![w].had = had(f)]
  BY DEF LoadKey
<1>2. f \in Fingerprints \cup {NULL}
  BY DEF KeysOf
<1> DEFINE j == [old EXCEPT !.pc = pc(f), !.had = had(f)]
<1>3. job' = [job EXCEPT ![w] = j]
  BY <1>1 DEF Inv, TypeOK
<1>4. j \in Job /\ JobFits(j, account)
  <2>1. pc(f) \in {"key", AfterKey(old.form)} /\ had(f) \in Fingerprints \cup {NULL}
    BY <1>2
  <2> HIDE DEF pc, had
  <2> QED
    BY <1>0, <2>1, AfterKeyFits
<1> HIDE DEF j
<1>5. job' \in [Workers -> Job] /\ \A v \in Workers : JobFits(job'[v], account)
  BY <1>3, <1>4, JobReplaced, Unchanged
<1> QED
  BY <1>5 DEF LoadKey, Inv, TypeOK

LEMMA SshPubkeyInv ==
    ASSUME Inv, NEW w \in Workers, SshPubkey(w)
    PROVE  Inv'
<1> DEFINE old == job[w]
           owner == IF old.had = NULL THEN old.user ELSE keyOwner[old.had]
           owners == [f \in Fingerprints |->
                        CASE f = old.form.key -> owner
                          [] f = old.had -> NULL
                          [] OTHER -> keyOwner[f]]
           j == [old EXCEPT !.pc = AfterKey(old.form), !.had = NULL]
<1>0. /\ old \in Job /\ JobFits(old, account) /\ old.pc \in {"load", "key"}
      /\ old.user \in Users
  BY Edited DEF SshPubkey, Editing
<1>1. \/ Finish(w) /\ UNCHANGED keyOwner
      \/ /\ keyOwner' = owners
         /\ job' = [job EXCEPT ![w].pc = AfterKey(old.form), ![w].had = NULL]
  BY DEF SshPubkey
<1>2. keyOwner' \in [Fingerprints -> Users \cup {NULL}]
  <2>1. keyOwner \in [Fingerprints -> Users \cup {NULL}]
    BY DEF Inv, TypeOK
  <2>2. owner \in Users \cup {NULL}
    BY <1>0, <2>1 DEF Job
  <2> HIDE DEF owner
  <2>3. owners \in [Fingerprints -> Users \cup {NULL}]
    BY <2>1, <2>2
  <2> HIDE DEF owners
  <2> QED
    BY <1>1, <2>1, <2>3
<1>3. job' \in [Workers -> Job] /\ \A v \in Workers : JobFits(job'[v], account)
  <2>1. CASE Finish(w)
    BY <2>1, FinishFits, Unchanged
  <2>2. CASE job' = [job EXCEPT ![w].pc = AfterKey(old.form), ![w].had = NULL]
    <3>1. job' = [job EXCEPT ![w] = j]
      BY <2>2 DEF Inv, TypeOK
    <3>2. j \in Job /\ JobFits(j, account)
      BY <1>0, AfterKeyFits
    <3> HIDE DEF j
    <3> QED
      BY <3>1, <3>2, JobReplaced, Unchanged
  <2> QED
    BY <1>1, <2>1, <2>2
<1> QED
  BY <1>2, <1>3 DEF SshPubkey, Inv, TypeOK

LEMMA AccountTypeInv ==
    ASSUME Inv, NEW w \in Workers, AccountType(w)
    PROVE  Inv'
<1> DEFINE u == job[w].user
           type == job[w].form.type
           r == [account[u] EXCEPT !.type = type]
<1>0. /\ job[w] \in Job /\ JobFits(job[w], account) /\ u \in Users
      /\ account[u] \in Account /\ account[u].type # 0 /\ RowFits(account[u])
      /\ job[w].form \in Form /\ job[w].pc = "type"
  BY Edited DEF AccountType, Editing
<1>1. type \in Types \cup {0} /\ type # 0 /\ type <= TopType
  BY <1>0 DEF JobFits, Form, Checked
<1>2. account' = [account EXCEPT ![u] = r]
  BY <1>0 DEF AccountType, Inv, TypeOK
<1> HIDE DEF type
<1>3. r \in Account /\ r.type = type /\ RowFits(r)
  BY <1>0, <1>1 DEF Account, RowFits
<1> HIDE DEF r
<1>4. /\ account' \in [Users -> Account] /\ Stay(account')
      /\ \A v \in Users : RowFits(account'[v])
  BY <1>0, <1>1, <1>2, <1>3, RowReplaced
<1>5. "password" \in Steps /\ job[w].pc \in Editing /\ job[w].pc # "idle"
  BY <1>0 DEF Steps, Editing
<1>6. job' \in [Workers -> Job] /\ \A v \in Workers : JobFits(job'[v], account')
  BY <1>4, <1>5, GotoFits DEF AccountType
<1> QED
  BY <1>4, <1>6, InvAgain DEF AccountType

LEMMA PasswordInv ==
    ASSUME Inv, NEW w \in Workers, Password(w)
    PROVE  Inv'
<1> DEFINE u == job[w].user
           new == job[w].form.passwd \notin {NULL, account[u].passwd}
           passwd == IF new THEN job[w].form.passwd ELSE account[u].passwd
           r == [account[u] EXCEPT !.passwd = passwd]
<1>0. /\ u \in Users /\ job[w].form \in Form
      /\ account[u] \in Account /\ account[u].type # 0 /\ RowFits(account[u])
      /\ job[w].pc = "password"
  BY Edited DEF Password, Editing
<1>1. /\ passwd \in Passwords \cup {NULL}
      /\ account[u].passwd # NULL => passwd # NULL
  BY <1>0 DEF Form, Account
<1>2. account' = [account EXCEPT ![u] = r]
  BY <1>0 DEF Password, Inv, TypeOK
<1> HIDE DEF passwd
<1>3. r \in Account /\ r.type = account[u].type /\ RowFits(r)
  BY <1>0, <1>1 DEF Account, RowFits
<1> HIDE DEF r
<1>4. /\ account' \in [Users -> Account] /\ Stay(account')
      /\ \A v \in Users : RowFits(account'[v])
  BY <1>0, <1>2, <1>3, RowReplaced
<1>5. "login" \in Steps /\ job[w].pc # "idle"
  BY <1>0 DEF Steps
<1>6. Goto(w, "login") \/ Finish(w)
  BY DEF Password
<1>7. job' \in [Workers -> Job] /\ \A v \in Workers : JobFits(job'[v], account')
  BY <1>4, <1>5, <1>6, GotoFits, FinishFits
<1> QED
  BY <1>4, <1>7, InvAgain DEF Password

-----------------------------------------------------------------------------
LEMMA StepInv ==
    ASSUME Inv, NEW w \in Workers, Step(w)
    PROVE  Inv'
BY SessionStepInv, ResetInv, CreateAccountInv, AddKeyInv, ProcessAccountFormInv,
   SimpleInv, LoadKeyInv, SshPubkeyInv, AccountTypeInv, PasswordInv DEF Step

LEMMA InitInv == Init => Inv
<1> SUFFICES ASSUME Init PROVE Inv
  OBVIOUS
<1>1. \A u \in Users : RowFits(account[u])
  BY FoundersAssumption DEF Init, RowFits
<1>2. TypeOK
  <2>1. account \in [Users -> Account] /\ \A u \in Users : account[u].type # 0 => account[u].name # NULL
    BY FoundersAssumption DEF Init
  <2>2. keyOwner \in [Fingerprints -> Users \cup {NULL}] /\ sessions \subseteq Session
    BY DEF Init
  <2>3. sids \in Nat /\ now \in Nat /\ job \in [Workers -> Job]
    BY IdleFits DEF Init
  <2> QED
    BY <2>1, <2>2, <2>3 DEF TypeOK
<1>3. \A w \in Workers : JobFits(job[w], account)
  BY IdleFits DEF Init
<1> QED
  BY <1>1, <1>2, <1>3 DEF Inv

LEMMA NextInv == Inv /\ [Next]_vars => Inv'
<1> SUFFICES ASSUME Inv, [Next]_vars PROVE Inv'
  OBVIOUS
<1>1. ASSUME NEW w \in Workers, NEW u \in Users, Serve(w, u) PROVE Inv'
  BY <1>1, ServeInv
<1>2. ASSUME NEW u \in Users, NEW f \in Forms, AddUser(u, f) PROVE Inv'
  BY <1>2, AddUserInv
<1>3. ASSUME NEW w \in Workers, NEW s \in sessions, NEW remembered \in BOOLEAN,
             Authenticate(w, s, remembered)
      PROVE  Inv'
  <2>1. s.user \in Users
    BY DEF Inv, TypeOK, Session
  <2> QED
    BY <1>3, <2>1, UserCall, ReceiveInv DEF Authenticate
<1>4. ASSUME NEW w \in Workers, Step(w) PROVE Inv'
  BY <1>4, StepInv
<1>5. ASSUME NEW w \in Workers, Crash(w) PROVE Inv'
  BY <1>5, FinishFits, Unchanged DEF Crash, Inv, TypeOK
<1>6. CASE Tick
  BY <1>6 DEF Tick, Inv, TypeOK
<1>7. CASE UNCHANGED vars
  BY <1>7 DEF vars, Inv, TypeOK
<1> QED
  BY <1>1, <1>2, <1>3, <1>4, <1>5, <1>6, <1>7 DEF Next

LEMMA Invariant == Spec => []Inv
BY InitInv, NextInv, PTL DEF Spec

(* Accounts, keys, sessions and jobs have their types, and no account is    *)
(* left without a name, whatever the workers do.                            *)
THEOREM TypeCorrect == Spec => []TypeOK
<1>1. Inv => TypeOK
  BY DEF Inv
<1> QED
  BY <1>1, Invariant, PTL

(* No chain of registrations and edits gives anybody a type above those     *)
(* administrators gave out, however stale the types are it was checked      *)
(* against.                                                                 *)
THEOREM PrivilegesDoNotGrowAlways == Spec => []PrivilegesDoNotGrow
<1>1. Inv => PrivilegesDoNotGrow
  BY DEF Inv, RowFits, PrivilegesDoNotGrow
<1> QED
  BY <1>1, Invariant, PTL

(* Every account has a password or a key to set one, at every moment        *)
(* between the transactions of registrations, resets and edits.             *)
THEOREM AccountsCanAlwaysBeEntered == Spec => []AccountsCanBeEntered
<1>1. Inv => AccountsCanBeEntered
  BY DEF Inv, RowFits, AccountsCanBeEntered, Exists
<1> QED
  BY <1>1, Invariant, PTL

-----------------------------------------------------------------------------
(* Sessions.  Only Login and OpenSession add a row, with a new ID; Login    *)
(* only where the user has none, or one that the new row replaces.          *)

LEMMA SessionsLeft ==
    ASSUME [Next]_vars
    PROVE  \/ sessions' \subseteq sessions /\ sids' = sids
           \/ \E w \in Workers : Login(w) \/ OpenSession(w)
<1>1. ASSUME NEW w \in Workers, NEW u \in Users, Serve(w, u)
      PROVE  sessions' = sessions /\ sids' = sids
  BY <1>1 DEF Serve, LoginPost, SsoAuthenticate, LogoutPost, PassresetPost,
              ResetKeyPost, AccountRegisterPost, AccountEditPost, Receive
<1>2. ASSUME NEW w \in Workers, Step(w), ~Login(w), ~OpenSession(w)
      PROVE  sessions' \subseteq sessions /\ sids' = sids
  BY <1>2 DEF Step, EndSession, IssueResetKey, ResetPassword, CreateAccount, AddKey,
              ProcessAccountForm, Simple, LoadKey, SshPubkey, AccountType, Password
<1>3. ASSUME NEW u \in Users, NEW f \in Forms, AddUser(u, f)
      PROVE  sessions' = sessions /\ sids' = sids
  BY <1>3 DEF AddUser
<1>4. ASSUME NEW w \in Workers, NEW s \in sessions, NEW remembered \in BOOLEAN,
             Authenticate(w, s, remembered)
      PROVE  sessions' = sessions /\ sids' = sids
  BY <1>4 DEF Authenticate, Receive
<1>5. ASSUME NEW w \in Workers, Crash(w) PROVE sessions' = sessions /\ sids' = sids
  BY <1>5 DEF Crash
<1>6. CASE Tick \/ UNCHANGED vars
  BY <1>6 DEF Tick, vars
<1> QED
  BY <1>1, <1>2, <1>3, <1>4, <1>5, <1>6 DEF Next

(* The row of a login or a single sign-on.                                  *)
NewRow(w) == [user |-> job[w].user, sid |-> NewSid, at |-> now]

LEMMA LoginRows ==
    ASSUME NEW w \in Workers, Login(w)
    PROVE  \/ UNCHANGED <<sessions, sids>>
           \/ /\ sessions' = (sessions \ SessionsOf(job[w].user)) \cup {NewRow(w)}
              /\ sids' = NewSid
<1> DEFINE mine == SessionsOf(job[w].user)
<1>1. CASE mine = {}
  BY <1>1 DEF Login, NewRow
<1>2. CASE mine # {}
  <2>1. \/ UNCHANGED <<sessions, sids>>
        \/ /\ sessions' = (sessions \ mine) \cup {NewRow(w)}
           /\ sids' = NewSid
    BY <1>2 DEF Login, NewRow
  <2> QED
    BY <2>1
<1> QED
  BY <1>1, <1>2

LEMMA NextOneSession == Inv /\ OneSession /\ [Next]_vars => OneSession'
<1> SUFFICES ASSUME Inv, OneSession, [Next]_vars PROVE OneSession'
  OBVIOUS
<1>1. CASE sessions' \subseteq sessions
  BY <1>1 DEF OneSession
<1>2. ASSUME NEW w \in Workers, Login(w),
             sessions' = (sessions \ SessionsOf(job[w].user)) \cup {NewRow(w)}
      PROVE  OneSession'
  <2> SUFFICES ASSUME NEW s \in sessions', NEW t \in sessions',
                      s.user = t.user, s.user \notin SsoUsers
               PROVE  s = t
    BY DEF OneSession
  <2>1. NewRow(w).user = job[w].user
    BY DEF NewRow
  <2>2. \A r \in sessions' : r = NewRow(w) \/ (r \in sessions /\ r.user # job[w].user)
    BY <1>2 DEF SessionsOf
  <2>3. CASE s \in sessions /\ t \in sessions /\ s # NewRow(w) /\ t # NewRow(w)
    BY <2>3 DEF OneSession
  <2> QED
    BY <2>1, <2>2, <2>3
<1>3. ASSUME NEW w \in Workers, OpenSession(w) PROVE OneSession'
  <2> SUFFICES ASSUME NEW s \in sessions', NEW t \in sessions',
                      s.user = t.user, s.user \notin SsoUsers
               PROVE  s = t
    BY DEF OneSession
  <2>1. NewRow(w).user \in SsoUsers
    BY <1>3 DEF NewRow, OpenSession, Inv, JobFits
  <2>2. \A r \in sessions' : r = NewRow(w) \/ r \in sessions
    BY <1>3 DEF OpenSession, NewRow
  <2> QED
    BY <2>1, <2>2 DEF OneSession
<1> QED
  BY <1>1, <1>2, <1>3, SessionsLeft, LoginRows

(* Whatever the workers do, a user without single sign-on never has two     *)
(* rows: a login that runs twice replaces the row it finds.                 *)
THEOREM OneSessionAlways == Spec => []OneSession
<1>1. Init => OneSession
  BY DEF Init, OneSession
<1> QED
  BY <1>1, Invariant, NextOneSession, PTL DEF Spec

(* A session ID that was given out and belongs to no session stays without  *)
(* one: no step of login, single sign-on, edit, logout or reset brings it   *)
(* back.                                                                    *)
THEOREM EndedSessionsStayEnded == Spec => EndedStaysEnded
<1> DEFINE A == \A i \in 1 .. sids : (\A s \in sessions : s.sid # i)
                                        => (\A s \in sessions : s.sid # i)'
<1>1. Inv /\ [Next]_vars => [A]_vars
  <2> SUFFICES ASSUME Inv, [Next]_vars, NEW i \in 1 .. sids,
                      \A s \in sessions : s.sid # i,
                      NEW s \in sessions'
               PROVE  s.sid # i
    OBVIOUS
  <2>1. sids \in Nat
    BY DEF Inv, TypeOK
  <2>2. \/ s \in sessions \/ \E w \in Workers : s = NewRow(w)
    BY SessionsLeft, LoginRows DEF OpenSession, NewRow
  <2>3. \A w \in Workers : NewRow(w).sid = sids + 1
    BY DEF NewRow, NewSid
  <2> QED
    BY <2>1, <2>2, <2>3
<1>2. Spec => [][A]_vars
  BY <1>1, Invariant, PTL DEF Spec
<1> QED
  BY <1>2 DEF EndedStaysEnded
=============================================================================
