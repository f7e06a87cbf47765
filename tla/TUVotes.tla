------------------------------- MODULE TUVotes -------------------------------
(***************************************************************************)
(* Proposals of the Trusted Users and the votes on them:                   *)
(* aurweb/routers/trusted_user.py with the tables TU_VoteInfo and TU_Votes *)
(* and the change of account types in aurweb/users/update.py.              *)
(*                                                                         *)
(* Worker processes share nothing but the database.  A handler reads what  *)
(* it checks and counts, and writes in a transaction later; in between     *)
(* other workers write.  The columns it writes are computed from the row   *)
(* as it was read.                                                         *)
(***************************************************************************)
EXTENDS Integers, Sequences, FiniteSets

CONSTANTS Users, Workers, NULL,
          LongVote, ShortVote,   \* the durations of ADDVOTE_SPECIFICS
          MaxProposals,          \* bound: proposals, those being added included
          MaxTime                \* bound of the clock

Decisions == {"Yes", "No", "Abstain"}
ProposalTypes == {"add_tu", "remove_tu", "remove_inactive_tu", "bylaws"}

ASSUME NULLAssumption == NULL \notin Users
ASSUME UsersAssumption == IsFiniteSet(Users)
ASSUME DurationsAssumption == LongVote \in Nat /\ ShortVote \in Nat
ASSUME BoundsAssumption == MaxProposals \in Nat /\ MaxTime \in Nat

(* ADDVOTE_SPECIFICS; a quorum is a percentage. *)
Duration(type) == IF type = "remove_inactive_tu" THEN ShortVote ELSE LongVote
Quorum(type) == IF type \in {"add_tu", "remove_inactive_tu"} THEN 66 ELSE 75

VARIABLES trusted,   \* accounts of the types TU and TU & Developer
          voteinfo,  \* rows of TU_VoteInfo by their auto-increment ID
          votes,     \* rows of TU_Votes
          now,       \* time.utcnow()
          job        \* what each worker is doing

vars == <<trusted, voteinfo, votes, now, job>>

(* The counts of a proposal are its columns Yes, No and Abstain.            *)
VoteInfo == [about : Users \cup {NULL}, type : ProposalTypes, end : Nat,
             tally : [Decisions -> Nat], active : Nat]

(* The table stores who voted on what.  The decision is not stored, it is   *)
(* kept here to count by; `row' tells apart the rows different workers      *)
(* inserted for one user, which no index prevents.                          *)
Vote == [proposal : Nat, user : Users, decision : Decisions, row : Workers]

(* A handler between its checks and its transaction: `tally' and `active'   *)
(* are the columns of the proposal as they were read.                       *)
Idle == [pc |-> "idle"]
Voting == [pc : {"vote"}, user : Users, proposal : Nat, decision : Decisions,
           tally : [Decisions -> Nat], active : Nat]
Adding == [pc : {"add"}, about : Users \cup {NULL}, type : ProposalTypes, at : Nat]

TypeOK == /\ trusted \subseteq Users
          /\ voteinfo \in Seq(VoteInfo)
          /\ votes \subseteq Vote
          /\ now \in Nat
          /\ job \in [Workers -> {Idle} \cup Voting \cup Adding]

Init == /\ trusted \in SUBSET Users
        /\ voteinfo = <<>>
        /\ votes = {}
        /\ now = 0
        /\ job = [w \in Workers |-> Idle]

-----------------------------------------------------------------------------

Voters(p) == {v.user : v \in {x \in votes : x.proposal = p}}

(* trusted_user_addvote_post, up to its transaction.  A proposal about the  *)
(* bylaws names nobody; for the others the user must not have had one.      *)
AddVotePost(w, u, about, type) ==
    /\ job[w] = Idle
    /\ Len(voteinfo) + Cardinality({v \in Workers : job[v].pc = "add"}) < MaxProposals
    /\ u \in trusted
    /\ type # "bylaws" =>
          about \in Users /\ \A p \in DOMAIN voteinfo : voteinfo[p].about # about
    /\ job' = [job EXCEPT ![w] = [pc |-> "add", about |-> about, type |-> type,
                                  at |-> now]]
    /\ UNCHANGED <<trusted, voteinfo, votes, now>>

(* Mutant: the counts are left without their default of 0.                  *)
AddVoteUncounted(w) ==
    LET j == job[w]
    IN  /\ j.pc = "add"
        /\ voteinfo' = Append(voteinfo,
              [about |-> j.about, type |-> j.type, end |-> j.at + Duration(j.type),
               tally |-> [d \in Decisions |-> NULL], active |-> Cardinality(trusted)])
        /\ job' = [job EXCEPT ![w] = Idle]
        /\ UNCHANGED <<trusted, votes, now>>

(* Its transaction counts the Trusted Users and inserts the proposal.       *)
AddVote(w) ==
    LET j == job[w]
    IN  /\ j.pc = "add"
        /\ voteinfo' = Append(voteinfo,
              [about |-> j.about, type |-> j.type, end |-> j.at + Duration(j.type),
               tally |-> [d \in Decisions |-> 0], active |-> Cardinality(trusted)])
        /\ job' = [job EXCEPT ![w] = Idle]
        /\ UNCHANGED <<trusted, votes, now>>

(* trusted_user_proposal_post, up to its transaction: a Trusted User who is *)
(* not the subject and has not voted.  The end of the vote is not checked.  *)
VotePost(w, u, p, d) ==
    /\ job[w] = Idle
    /\ p \in DOMAIN voteinfo
    /\ u \in trusted /\ voteinfo[p].about # u
    /\ u \notin Voters(p)
    /\ job' = [job EXCEPT ![w] = [pc |-> "vote", user |-> u, proposal |-> p,
                                  decision |-> d, tally |-> voteinfo[p].tally,
                                  active |-> voteinfo[p].active]]
    /\ UNCHANGED <<trusted, voteinfo, votes, now>>

(* Mutant: the count is written from total_votes().                         *)
CastOnTotal(w) ==
    LET j == job[w]
        total == j.tally["Yes"] + j.tally["No"] + j.tally["Abstain"]
    IN  /\ j.pc = "vote"
        /\ votes' = votes \cup {[proposal |-> j.proposal, user |-> j.user,
                                 decision |-> j.decision, row |-> w]}
        /\ voteinfo' = [voteinfo EXCEPT
              ![j.proposal].tally[j.decision] = total + 1,
              ![j.proposal].active = j.active + 1]
        /\ job' = [job EXCEPT ![w] = Idle]
        /\ UNCHANGED <<trusted, now>>

(* Mutant: ActiveTUs is raised by all votes, not by the one that is cast.   *)
CastRaisingByTotal(w) ==
    LET j == job[w]
        total == j.tally["Yes"] + j.tally["No"] + j.tally["Abstain"]
    IN  /\ j.pc = "vote"
        /\ votes' = votes \cup {[proposal |-> j.proposal, user |-> j.user,
                                 decision |-> j.decision, row |-> w]}
        /\ voteinfo' = [voteinfo EXCEPT
              ![j.proposal].tally[j.decision] = j.tally[j.decision] + 1,
              ![j.proposal].active = j.active + total + 1]
        /\ job' = [job EXCEPT ![w] = Idle]
        /\ UNCHANGED <<trusted, now>>

(* Its transaction inserts the vote and writes the count of the decision    *)
(* and ActiveTUs, both one more than they were read.                        *)
CastVote(w) ==
    LET j == job[w]
    IN  /\ j.pc = "vote"
        /\ votes' = votes \cup {[proposal |-> j.proposal, user |-> j.user,
                                 decision |-> j.decision, row |-> w]}
        /\ voteinfo' = [voteinfo EXCEPT
              ![j.proposal].tally[j.decision] = j.tally[j.decision] + 1,
              ![j.proposal].active = j.active + 1]
        /\ job' = [job EXCEPT ![w] = Idle]
        /\ UNCHANGED <<trusted, now>>

(* An account becomes one of a Trusted User, or ceases to be: account_type  *)
(* of users/update.py, called by a Trusted User or a Developer.             *)
AccountType(u) ==
    /\ trusted' \in {trusted \cup {u}, trusted \ {u}} \ {trusted}
    /\ UNCHANGED <<voteinfo, votes, now, job>>

Tick == /\ now < MaxTime
        /\ now' = now + 1
        /\ UNCHANGED <<trusted, voteinfo, votes, job>>

Next == \/ \E w \in Workers, u \in Users, about \in Users \cup {NULL},
              type \in ProposalTypes : AddVotePost(w, u, about, type)
        \/ \E w \in Workers, u \in Users, p \in DOMAIN voteinfo, d \in Decisions :
              VotePost(w, u, p, d)
        \/ \E w \in Workers : AddVote(w) \/ CastVote(w)
        \/ \E u \in Users : AccountType(u)
        \/ Tick

Spec == Init /\ [][Next]_vars

-----------------------------------------------------------------------------
(* render_proposal.                                                         *)

Total(p) == LET t == voteinfo[p].tally IN t["Yes"] + t["No"] + t["Abstain"]

Accepted(p) ==
    LET v == voteinfo[p]
    IN  \/ 2 * v.tally["Yes"] > v.active
        \/ /\ 100 * Total(p) > Quorum(v.type) * v.active
           /\ v.tally["Yes"] > v.tally["No"]

-----------------------------------------------------------------------------
(* Properties.                                                              *)

(* No decision is counted more often than it was made, although the counts  *)
(* are written from rows read earlier: concurrent votes may be lost from    *)
(* the counts, but a stale count never makes up for votes nobody cast.      *)
Cast(rows, p, d) == {v \in rows : v.proposal = p /\ v.decision = d}

CountedAtMostOnce ==
    \A p \in DOMAIN voteinfo, d \in Decisions :
        voteinfo[p].tally[d] <= Cardinality(Cast(votes, p, d))

(* A Yes never turns an accepted proposal into one that is not, although    *)
(* every vote also raises the number of Trusted Users it is measured by.    *)
(* Without interference: nobody else voted since the handler read the row.  *)
YesKeepsAccepted ==
    \A w \in Workers, p \in DOMAIN voteinfo :
       (/\ job[w].pc = "vote" /\ job'[w] = Idle
        /\ job[w].proposal = p /\ job[w].decision = "Yes"
        /\ job[w].tally = voteinfo[p].tally /\ job[w].active = voteinfo[p].active
        /\ Accepted(p))
          => Accepted(p)'

YesNeverHurts == [][YesKeepsAccepted]_vars
=============================================================================
