------------------------------ MODULE Accounts ------------------------------
(***************************************************************************)
(* Accounts and sessions: registration, login with a password or single    *)
(* sign-on, time-out and logout, password resets and edits of an account   *)
(* by its user or by a privileged one.  The handlers of                    *)
(* aurweb/routers/accounts.py, routers/auth.py and routers/sso.py with     *)
(* models/user.py, auth/__init__.py, users/validate.py, users/update.py    *)
(* and scripts/adduser.py.                                                 *)
(*                                                                         *)
(* One step of a job is one transaction or the reads between two.  Of the  *)
(* user name and the e-mail address, both unique, `name' stands for either.*)
(***************************************************************************)
EXTENDS Naturals, FiniteSets

CONSTANTS Workers,            \* the processes of the web server
          Users,              \* the accounts there may be
          Founders,           \* the accounts there are at the start
          Names,              \* user names (e-mail addresses)
          Passwords,
          Fingerprints,       \* of SSH keys
          SsoUsers,           \* accounts with an SSOAccountID
          TopType,            \* the highest type an administrator gives
          LoginTimeout, PersistentTimeout,
          Forms,              \* bound: the forms sent to edit an account
          MaxSids,            \* bound: session IDs when a session is asked for
          MaxTime,            \* bound: time steps
          Crashes,            \* whether a worker may be killed
          NULL

(* AccountTypes.ID, in the order of what they may do; 0 is no account.      *)
Types == 1 .. 4
User == 1
TrustedUser == 2

(* What a form says of an account: `key' is NULL if no SSH key is given,    *)
(* `type' 0 if no type and `passwd' NULL if no new password.                *)
Form == [name : Names, suspended : BOOLEAN, key : Fingerprints \cup {NULL},
         type : Types \cup {0}, passwd : Passwords \cup {NULL}]

Account == [type : Types \cup {0}, name : Names \cup {NULL}, suspended : BOOLEAN,
            passwd : Passwords \cup {NULL}, resetKey : BOOLEAN]

ASSUME NullAssumption == NULL \notin Users \cup Names \cup Passwords \cup Fingerprints
ASSUME FoundersAssumption ==
    /\ Founders \in [Users -> Account]
    /\ \A u \in Users :
          /\ Founders[u].type <= TopType
          /\ Founders[u].type # 0 => /\ Founders[u].passwd # NULL
                                     /\ Founders[u].name # NULL
ASSUME TypesAssumption == TopType \in Types
ASSUME TimeoutAssumption == /\ LoginTimeout \in Nat /\ PersistentTimeout \in Nat
                            /\ LoginTimeout <= PersistentTimeout
ASSUME BoundsAssumption == /\ Forms \subseteq Form
                           /\ MaxSids \in Nat /\ MaxTime \in Nat
                           /\ Crashes \in BOOLEAN

VARIABLES account,   \* Users: the rows, of type 0 where there is none
          keyOwner,  \* SSHPubKeys: the user of each fingerprint on record
          sessions,  \* Sessions
          sids,      \* how many session IDs were generated
          now,       \* the time
          job        \* what each worker is doing

vars == <<account, keyOwner, sessions, sids, now, job>>

(* A row of Sessions; `at' is LastUpdateTS.  Nothing makes UsersID unique.  *)
Session == [user : Users, sid : Nat \ {0}, at : Nat]

Steps == {"idle", "login", "open", "expire", "logout", "issue", "reset",
          "register", "addKey", "check", "simple", "load", "key", "type",
          "password"}

(* `user' is the account at hand and `by' who edits it, with the type `rank' *)
(* as it was loaded; `row' the account and `had' its key as loaded; `form'  *)
(* what was sent, `new' the password of a reset.                            *)
Job == [pc : Steps, user : Users \cup {NULL}, by : Users \cup {NULL},
        rank : Types \cup {0}, row : Account \cup {NULL},
        had : Fingerprints \cup {NULL}, form : Form \cup {NULL},
        new : Passwords \cup {NULL}]

Idle == [pc |-> "idle", user |-> NULL, by |-> NULL, rank |-> 0, row |-> NULL,
         had |-> NULL, form |-> NULL, new |-> NULL]

TypeOK == /\ account \in [Users -> Account]
          /\ \A u \in Users : account[u].type # 0 => account[u].name # NULL
          /\ keyOwner \in [Fingerprints -> Users \cup {NULL}]
          /\ sessions \subseteq Session
          /\ sids \in Nat
          /\ now \in Nat
          /\ job \in [Workers -> Job]

Init == /\ account = Founders
        /\ keyOwner = [f \in Fingerprints |-> NULL]
        /\ sessions = {}
        /\ sids = 0
        /\ now = 1
        /\ job = [w \in Workers |-> Idle]

-----------------------------------------------------------------------------
Receive(w, j) ==
    /\ job[w] = Idle
    /\ job' = [job EXCEPT ![w] = j]
    /\ UNCHANGED <<account, keyOwner, sessions, sids, now>>

Finish(w) == job' = [job EXCEPT ![w] = Idle]
Goto(w, pc) == job' = [job EXCEPT ![w].pc = pc]

Crash(w) ==
    /\ Crashes
    /\ job[w] # Idle
    /\ Finish(w)
    /\ UNCHANGED <<account, keyOwner, sessions, sids, now>>

Exists(u) == account[u].type # 0
IsElevated(type) == type >= TrustedUser
NameInUse(n, u) == \E v \in Users \ {u} : Exists(v) /\ account[v].name = n
KeyInUse(f, u) == keyOwner[f] \notin {NULL, u}
KeysOf(u) == {f \in Fingerprints : keyOwner[f] = u}
SessionsOf(u) == {s \in sessions : s.user = u}

-----------------------------------------------------------------------------
(* Sessions.                                                                *)

(* The browser's AURREMEMBER cookie decides which time-out applies.         *)
TimedOut(s, remembered) ==
    s.at + (IF remembered THEN PersistentTimeout ELSE LoginTimeout) < now

(* Some browser of user u has a session that is accepted.                   *)
LoggedIn(u) == \E s \in SessionsOf(u) : ~TimedOut(s, TRUE)

(* The account is not suspended and the password is right.                  *)
LoginPost(w, u, p) ==
    /\ sids < MaxSids
    /\ Exists(u)
    /\ ~account[u].suspended
    /\ account[u].passwd = p
    /\ Receive(w, [Idle EXCEPT !.pc = "login", !.user = u])

(* Mutant: the session ID generated last is taken once more.                *)
ReusedSid == IF sids = 0 THEN 1 ELSE sids

(* generate_unique_sid: 32 random characters, taken to be new.              *)
NewSid == sids + 1

(* Mutant: a session is created at every login.                             *)
LoginCreating(w) ==
    /\ job[w].pc = "login"
    /\ sessions' = sessions \cup {[user |-> job[w].user, sid |-> NewSid, at |-> now]}
    /\ sids' = NewSid
    /\ Finish(w)
    /\ UNCHANGED <<account, keyOwner, now>>

(* User.login: a session is created, or the one there is gets a new ID,     *)
(* unless it is of the same second.  With two rows of the user the update   *)
(* violates the unique index, in each of its attempts.                      *)
Login(w) ==
    LET u == job[w].user
        mine == SessionsOf(u)
    IN  /\ job[w].pc = "login"
        /\ \/ /\ mine = {}
              /\ sessions' = sessions \cup {[user |-> u, sid |-> NewSid, at |-> now]}
              /\ sids' = NewSid
           \/ /\ Cardinality(mine) = 1
              /\ \E s \in mine :
                    IF s.at < now
                    THEN /\ sessions' = (sessions \ mine) \cup
                                {[user |-> u, sid |-> NewSid, at |-> now]}
                         /\ sids' = NewSid
                    ELSE UNCHANGED <<sessions, sids>>
           \/ /\ Cardinality(mine) > 1
              /\ UNCHANGED <<sessions, sids>>
        /\ Finish(w)
        /\ UNCHANGED <<account, keyOwner, now>>

(* A single sign-on adds a row, whatever sessions the user has.             *)
SsoAuthenticate(w, u) ==
    /\ u \in SsoUsers
    /\ sids < MaxSids
    /\ Exists(u)
    /\ ~account[u].suspended
    /\ Receive(w, [Idle EXCEPT !.pc = "open", !.user = u])

OpenSession(w) ==
    /\ job[w].pc = "open"
    /\ sessions' = sessions \cup {[user |-> job[w].user, sid |-> NewSid, at |-> now]}
    /\ sids' = NewSid
    /\ Finish(w)
    /\ UNCHANGED <<account, keyOwner, now>>

(* Any request that comes with a cookie whose session timed out.            *)
Authenticate(w, s, remembered) ==
    /\ TimedOut(s, remembered)
    /\ Receive(w, [Idle EXCEPT !.pc = "expire", !.user = s.user])

LogoutPost(w, u) ==
    /\ LoggedIn(u)
    /\ Receive(w, [Idle EXCEPT !.pc = "logout", !.user = u])

(* The mapper takes UsersID for the primary key of Sessions: whichever row  *)
(* was loaded, all of the user's are deleted.                               *)
EndSession(w) ==
    /\ job[w].pc \in {"expire", "logout"}
    /\ sessions' = sessions \ SessionsOf(job[w].user)
    /\ Finish(w)
    /\ UNCHANGED <<account, keyOwner, sids, now>>

-----------------------------------------------------------------------------
(* Password resets: passreset_post.  Whether the key that was sent is the   *)
(* one on record is all there is to a key.                                  *)

PassresetPost(w, u) ==
    /\ Exists(u)
    /\ Receive(w, [Idle EXCEPT !.pc = "issue", !.user = u])

IssueResetKey(w) ==
    /\ job[w].pc = "issue"
    /\ account' = [account EXCEPT ![job[w].user].resetKey = TRUE]
    /\ Finish(w)
    /\ UNCHANGED <<keyOwner, sessions, sids, now>>

ResetKeyPost(w, u, p) ==
    /\ Exists(u)
    /\ account[u].resetKey
    /\ Receive(w, [Idle EXCEPT !.pc = "reset", !.user = u, !.new = p])

(* Mutant: the key is cleared first and the password set with the next.     *)
ResetClearingFirst(w) ==
    LET u == job[w].user
    IN  /\ job[w].pc = "reset"
        /\ account' = [account EXCEPT ![u].resetKey = FALSE,
                          ![u].passwd = IF account[u].resetKey THEN @ ELSE job[w].new]
        /\ sessions' = sessions \ SessionsOf(u)
        /\ IF account[u].resetKey THEN UNCHANGED job ELSE Finish(w)
        /\ UNCHANGED <<keyOwner, sids, now>>

ResetPassword(w) ==
    LET u == job[w].user
    IN  /\ job[w].pc = "reset"
        /\ account' = [account EXCEPT ![u].resetKey = FALSE,
                                      ![u].passwd = job[w].new]
        /\ sessions' = sessions \ SessionsOf(u)
        /\ Finish(w)
        /\ UNCHANGED <<keyOwner, sids, now>>

-----------------------------------------------------------------------------
(* Registration: account_register_post, and the script aurweb-adduser.      *)

(* The ID of an account to be, which no other registration is given.        *)
Unused(u) == ~Exists(u) /\ \A w \in Workers : job[w].user # u

AccountRegisterPost(w, u, f) ==
    /\ Unused(u)
    /\ ~NameInUse(f.name, u)
    /\ f.key # NULL => ~KeyInUse(f.key, u)
    /\ Receive(w, [Idle EXCEPT !.pc = "register", !.user = u,
                               !.form = [f EXCEPT !.type = 0, !.passwd = NULL,
                                                  !.suspended = FALSE]])

(* Mutant: the name is left out of the row.                                 *)
CreateNameless(w) ==
    LET j == job[w]
    IN  /\ j.pc = "register"
        /\ account' = [account EXCEPT ![j.user] =
               [type |-> User, name |-> NULL, suspended |-> FALSE,
                passwd |-> NULL, resetKey |-> TRUE]]
        /\ IF j.form.key = NULL THEN Finish(w) ELSE Goto(w, "addKey")
        /\ UNCHANGED <<keyOwner, sessions, sids, now>>

(* The new account has no password, but a key to set one.                   *)
CreateAccount(w) ==
    LET j == job[w]
    IN  /\ j.pc = "register"
        /\ IF NameInUse(j.form.name, j.user)
           THEN Finish(w) /\ UNCHANGED account
           ELSE /\ account' = [account EXCEPT ![j.user] =
                      [type |-> User, name |-> j.form.name, suspended |-> FALSE,
                       passwd |-> NULL, resetKey |-> TRUE]]
                /\ IF j.form.key = NULL THEN Finish(w) ELSE Goto(w, "addKey")
        /\ UNCHANGED <<keyOwner, sessions, sids, now>>

(* The fingerprint is the primary key: the account stays if it is taken.    *)
AddKey(w) ==
    LET f == job[w].form.key
    IN  /\ job[w].pc = "addKey"
        /\ keyOwner' = [keyOwner EXCEPT ![f] = IF @ = NULL THEN job[w].user ELSE @]
        /\ Finish(w)
        /\ UNCHANGED <<account, sessions, sids, now>>

(* An administrator adds an account with a password, of any type.           *)
AddUser(u, f) ==
    /\ Unused(u)
    /\ ~NameInUse(f.name, u)
    /\ f.type \in 1 .. TopType
    /\ f.passwd # NULL
    /\ account' = [account EXCEPT ![u] =
          [type |-> f.type, name |-> f.name, suspended |-> FALSE,
           passwd |-> f.passwd, resetKey |-> FALSE]]
    /\ UNCHANGED <<keyOwner, sessions, sids, now, job>>

-----------------------------------------------------------------------------
(* Edits: account_edit_post.                                                *)

(* User.can_edit_user, of the editor's type and an account.                 *)
CanEdit(e, u) ==
    /\ e = u \/ IsElevated(account[e].type)
    /\ account[e].type >= account[u].type

(* The editor's password is right as well.                                  *)
AccountEditPost(w, e, u, f) ==
    /\ sids <= MaxSids
    /\ LoggedIn(e)
    /\ account[e].passwd # NULL
    /\ Exists(u)
    /\ CanEdit(e, u)
    /\ Receive(w, [Idle EXCEPT !.pc = "check", !.user = u, !.by = e,
                               !.rank = account[e].type, !.form = f])

(* The type of the editor: its row is loaded again only if it edits itself. *)
Rank(j) == IF j.by = j.user THEN account[j.user].type ELSE j.rank

(* Mutant: the new type is not compared with the editor's.                  *)
AnyTypeAllowed(j) ==
    \/ j.form.type \in {0, account[j.user].type}
    \/ IsElevated(Rank(j))

(* validate.invalid_account_type.                                           *)
TypeAllowed(j) ==
    \/ j.form.type \in {0, account[j.user].type}
    \/ IsElevated(Rank(j)) /\ j.form.type <= Rank(j)

(* process_account_form, after the form has been awaited.                   *)
Valid(j) ==
    /\ j.form.key # NULL => ~KeyInUse(j.form.key, j.user)
    /\ ~NameInUse(j.form.name, j.user)
    /\ TypeAllowed(j)

ProcessAccountForm(w) ==
    LET j == job[w]
    IN  /\ j.pc = "check"
        /\ IF Valid(j)
           THEN job' = [job EXCEPT ![w].pc = "simple", ![w].rank = 0,
                                    ![w].row = account[j.user]]
           ELSE Finish(w)
        /\ UNCHANGED <<account, keyOwner, sessions, sids, now>>

(* A column is written where the form differs from the row as loaded.       *)
Simple(w) ==
    LET j == job[w]
        newName == j.form.name # j.row.name
    IN  /\ j.pc = "simple"
        /\ IF newName /\ NameInUse(j.form.name, j.user)
           THEN Finish(w) /\ UNCHANGED account
           ELSE /\ account' = [account EXCEPT
                      ![j.user].name = IF newName THEN j.form.name ELSE @,
                      ![j.user].suspended = IF j.form.suspended # j.row.suspended
                                            THEN j.form.suspended ELSE @]
                /\ job' = [job EXCEPT ![w].pc = "load", ![w].row = NULL]
        /\ UNCHANGED <<keyOwner, sessions, sids, now>>

AfterKey(f) == IF f.type # 0 THEN "type" ELSE "password"

(* user.ssh_pub_key is one of the user's keys, if there is any.             *)
LoadKey(w) ==
    LET j == job[w]
        mine == KeysOf(j.user)
    IN  /\ j.pc = "load"
        /\ \E f \in IF mine = {} THEN {NULL} ELSE mine :
              job' = [job EXCEPT
                 ![w].pc = IF f = j.form.key THEN AfterKey(j.form) ELSE "key",
                 ![w].had = IF f = j.form.key THEN NULL ELSE f]
        /\ UNCHANGED <<account, keyOwner, sessions, sids, now>>

(* ssh_pubkey creates, replaces or deletes the row that was loaded, which   *)
(* by now may be another user's; where the new fingerprint was taken or the *)
(* row to replace is gone the rest of the edit is lost.                     *)
SshPubkey(w) ==
    LET j == job[w]
        new == j.form.key
        owner == IF j.had = NULL THEN j.user ELSE keyOwner[j.had]
    IN  /\ j.pc = "key"
        /\ IF new # NULL /\ (keyOwner[new] # NULL \/ owner = NULL)
           THEN Finish(w) /\ UNCHANGED keyOwner
           ELSE /\ keyOwner' = [f \in Fingerprints |->
                      CASE f = new -> owner
                        [] f = j.had -> NULL
                        [] OTHER -> keyOwner[f]]
                /\ job' = [job EXCEPT ![w].pc = AfterKey(j.form), ![w].had = NULL]
        /\ UNCHANGED <<account, sessions, sids, now>>

AccountType(w) ==
    LET j == job[w]
    IN  /\ j.pc = "type"
        /\ account' = [account EXCEPT ![j.user].type = j.form.type]
        /\ Goto(w, "password")
        /\ UNCHANGED <<keyOwner, sessions, sids, now>>

(* A user who changed the own password is logged in with it.                *)
Password(w) ==
    LET j == job[w]
        new == j.form.passwd \notin {NULL, account[j.user].passwd}
    IN  /\ j.pc = "password"
        /\ account' = [account EXCEPT ![j.user].passwd = IF new THEN j.form.passwd ELSE @]
        /\ IF new /\ j.by = j.user /\ ~account[j.user].suspended
           THEN Goto(w, "login") ELSE Finish(w)
        /\ UNCHANGED <<keyOwner, sessions, sids, now>>

-----------------------------------------------------------------------------
Tick ==
    /\ now < MaxTime
    /\ now' = now + 1
    /\ UNCHANGED <<account, keyOwner, sessions, sids, job>>

Serve(w, u) ==
    \/ \E p \in Passwords : LoginPost(w, u, p)
    \/ SsoAuthenticate(w, u)
    \/ LogoutPost(w, u)
    \/ PassresetPost(w, u)
    \/ \E p \in Passwords : ResetKeyPost(w, u, p)
    \/ \E f \in Forms : AccountRegisterPost(w, u, f)
    \/ \E e \in Users, f \in Forms : AccountEditPost(w, e, u, f)

Step(w) ==
    \/ Login(w)
    \/ OpenSession(w)
    \/ EndSession(w)
    \/ IssueResetKey(w)
    \/ ResetPassword(w)
    \/ CreateAccount(w)
    \/ AddKey(w)
    \/ ProcessAccountForm(w)
    \/ Simple(w)
    \/ LoadKey(w)
    \/ SshPubkey(w)
    \/ AccountType(w)
    \/ Password(w)

Next ==
    \/ \E w \in Workers, u \in Users : Serve(w, u)
    \/ \E u \in Users, f \in Forms : AddUser(u, f)
    \/ \E w \in Workers, s \in sessions, remembered \in BOOLEAN :
          Authenticate(w, s, remembered)
    \/ \E w \in Workers : Step(w) \/ Crash(w)
    \/ Tick

Spec == Init /\ [][Next]_vars

-----------------------------------------------------------------------------
(* Properties.                                                              *)

(* Nobody gets a type above those administrators gave out, by any chain of  *)
(* edits: a form is checked against the editor's type as it was loaded, and *)
(* editor and account may be edited by others before the type is written.   *)
PrivilegesDoNotGrow == \A u \in Users : account[u].type <= TopType

(* Every account has a password or a key to set one: a registration that    *)
(* fails half way, two resets at once or an edit in between do not lock its *)
(* user out.                                                                *)
AccountsCanBeEntered ==
    \A u \in Users : Exists(u) => account[u].passwd # NULL \/ account[u].resetKey

(* Users without single sign-on have one session at most, so that the next  *)
(* login never meets two rows, which no login survives.                     *)
OneSession ==
    \A s, t \in sessions : s.user = t.user /\ s.user \notin SsoUsers => s = t

(* A session that has ended, by logout, time-out, a reset of the password   *)
(* or a new login, never comes back: its cookie is worth nothing, whichever *)
(* workers open and end sessions at the same time.                          *)
EndedStaysEnded ==
    [][\A i \in 1 .. sids : (\A s \in sessions : s.sid # i)
                               => (\A s \in sessions : s.sid # i)']_vars
=============================================================================
