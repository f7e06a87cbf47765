---------------------------- MODULE TUVotesProofs ----------------------------
(* Theorems about TUVotes, for any number of Trusted Users, proposals and   *)
(* worker processes: types, that no decision is counted more often than it  *)
(* was made, that counts are exact while votes do not overlap, and that a Yes   *)
(* never takes the acceptance away.                                         *)
EXTENDS TUVotes, TLAPS, FiniteSetTheorems, SequenceTheorems

-----------------------------------------------------------------------------
(* What a handler has read concerns a proposal that exists, and votes are   *)
(* finitely many.                                                           *)
TypeInv == /\ TypeOK
           /\ IsFiniteSet(votes)
           /\ \A w \in Workers :
                 job[w].pc = "vote" => job[w].proposal \in DOMAIN voteinfo

(* The inductive strengthening of CountedAtMostOnce: what was read was      *)
(* covered by votes, too, and the row about to be inserted is a new one.    *)
ReadAtMostOnce ==
    \A w \in Workers : job[w].pc = "vote" =>
        /\ \A d \in Decisions :
              job[w].tally[d] <= Cardinality(Cast(votes, job[w].proposal, d))
        /\ \A v \in votes : v.proposal = job[w].proposal /\ v.user = job[w].user
                            => v.row # w

CountInv == CountedAtMostOnce /\ ReadAtMostOnce

LEMMA JobTypes ==
    ASSUME TypeInv, NEW w \in Workers
    PROVE  /\ job[w] \in {Idle} \cup Voting \cup Adding
           /\ job[w].pc = "vote" => job[w] \in Voting
           /\ job[w].pc = "add" => job[w] \in Adding
           /\ job[w].pc = "idle" => job[w] = Idle
BY DEF TypeInv, TypeOK, Idle, Voting, Adding

LEMMA CardinalityTypes ==
    ASSUME TypeInv, NEW p, NEW d
    PROVE  IsFiniteSet(Cast(votes, p, d)) /\ Cardinality(Cast(votes, p, d)) \in Nat
<1>1. Cast(votes, p, d) \subseteq votes
  BY DEF Cast
<1> QED
  BY <1>1, FS_Subset, FS_CardinalityType DEF TypeInv

-----------------------------------------------------------------------------
(* Types.                                                                   *)

LEMMA AppendedType ==
    ASSUME TypeInv, NEW r \in VoteInfo
    PROVE  /\ Append(voteinfo, r) \in Seq(VoteInfo)
           /\ DOMAIN Append(voteinfo, r) = DOMAIN voteinfo \cup {Len(voteinfo) + 1}
           /\ Append(voteinfo, r)[Len(voteinfo) + 1] = r
           /\ \A p \in DOMAIN voteinfo : Append(voteinfo, r)[p] = voteinfo[p]
BY AppendProperties, LenProperties DEF TypeInv, TypeOK

(* The row a vote writes to.                                                *)
Counted(v, j) == [v EXCEPT !.tally[j.decision] = j.tally[j.decision] + 1,
                           !.active = j.active + 1]

LEMMA CountedType ==
    ASSUME NEW v \in VoteInfo, NEW j \in Voting
    PROVE  /\ Counted(v, j) \in VoteInfo
           /\ Counted(v, j).tally[j.decision] = j.tally[j.decision] + 1
           /\ \A d \in Decisions \ {j.decision} : Counted(v, j).tally[d] = v.tally[d]
           /\ Counted(v, j).active = j.active + 1 /\ Counted(v, j).type = v.type
<1> DEFINE n == j.tally[j.decision] + 1
           tally == [v.tally EXCEPT ![j.decision] = n]
           active == j.active + 1
<1>1. j.decision \in Decisions /\ n \in Nat /\ active \in Nat
  BY DEF Voting
<1>2. /\ tally \in [Decisions -> Nat] /\ tally[j.decision] = n
      /\ \A d \in Decisions \ {j.decision} : tally[d] = v.tally[d]
  BY <1>1 DEF VoteInfo
<1>3. Counted(v, j) = [v EXCEPT !.tally = tally, !.active = active]
  BY DEF Counted, VoteInfo
<1> HIDE DEF n, tally, active
<1>4. [v EXCEPT !.tally = tally, !.active = active] \in VoteInfo
  BY <1>1, <1>2 DEF VoteInfo
<1>5. LET c == [v EXCEPT !.tally = tally, !.active = active]
      IN  c.tally = tally /\ c.active = active /\ c.type = v.type
  BY DEF VoteInfo
<1> QED
  BY <1>2, <1>3, <1>4, <1>5 DEF n, active

LEMMA CastVoteRow ==
    ASSUME TypeInv, NEW w \in Workers, CastVote(w)
    PROVE  /\ job[w] \in Voting /\ job[w].proposal \in DOMAIN voteinfo
           /\ voteinfo' \in Seq(VoteInfo) /\ DOMAIN voteinfo' = DOMAIN voteinfo
           /\ voteinfo'[job[w].proposal] = Counted(voteinfo[job[w].proposal], job[w])
           /\ \A p \in DOMAIN voteinfo \ {job[w].proposal} : voteinfo'[p] = voteinfo[p]
<1> DEFINE p == job[w].proposal
           r == Counted(voteinfo[p], job[w])
<1>1. job[w] \in Voting /\ p \in DOMAIN voteinfo
  BY JobTypes DEF CastVote, TypeInv
<1>2. voteinfo \in Seq(VoteInfo) /\ voteinfo[p] \in VoteInfo
  BY <1>1, LenProperties DEF TypeInv, TypeOK
<1>3. r \in VoteInfo
  BY <1>1, <1>2, CountedType
<1>4. voteinfo' = [voteinfo EXCEPT ![p] = r]
  BY <1>1, <1>2 DEF CastVote, Counted, VoteInfo
<1> HIDE DEF r
<1>5. /\ voteinfo' \in Seq(VoteInfo) /\ DOMAIN voteinfo' = DOMAIN voteinfo
      /\ voteinfo'[p] = r
      /\ \A q \in DOMAIN voteinfo \ {p} : voteinfo'[q] = voteinfo[q]
  BY <1>1, <1>2, <1>3, <1>4, ExceptSeq
<1> QED
  BY <1>1, <1>5 DEF r

LEMMA InitType == Init => TypeInv
<1> SUFFICES ASSUME Init PROVE TypeInv
  OBVIOUS
<1>1. voteinfo \in Seq(VoteInfo) /\ job \in [Workers -> {Idle}]
  BY DEF Init
<1>2. IsFiniteSet(votes)
  BY FS_EmptySet DEF Init
<1> QED
  BY <1>1, <1>2 DEF Init, TypeInv, TypeOK, Idle

LEMMA NextType == TypeInv /\ [Next]_vars => TypeInv'
<1> SUFFICES ASSUME TypeInv, [Next]_vars PROVE TypeInv'
  OBVIOUS
<1>0. trusted \subseteq Users /\ voteinfo \in Seq(VoteInfo) /\ now \in Nat
  BY DEF TypeInv, TypeOK
<1>1. ASSUME NEW w \in Workers, NEW u \in Users, NEW about \in Users \cup {NULL},
             NEW type \in ProposalTypes, AddVotePost(w, u, about, type)
      PROVE  TypeInv'
  <2>1. [pc |-> "add", about |-> about, type |-> type, at |-> now] \in Adding
    BY <1>0 DEF Adding
  <2> QED
    BY <1>1, <2>1 DEF AddVotePost, TypeInv, TypeOK
<1>2. ASSUME NEW w \in Workers, NEW u \in Users, NEW p \in DOMAIN voteinfo,
             NEW d \in Decisions, VotePost(w, u, p, d)
      PROVE  TypeInv'
  <2>1. voteinfo[p] \in VoteInfo /\ p \in Nat
    BY <1>0, LenProperties
  <2>2. [pc |-> "vote", user |-> u, proposal |-> p, decision |-> d,
         tally |-> voteinfo[p].tally, active |-> voteinfo[p].active] \in Voting
    BY <2>1 DEF Voting, VoteInfo
  <2> QED
    BY <1>2, <2>2 DEF VotePost, TypeInv, TypeOK
<1>3. ASSUME NEW w \in Workers, AddVote(w)
      PROVE  TypeInv'
  <2> DEFINE j == job[w]
             r == [about |-> j.about, type |-> j.type, end |-> j.at + Duration(j.type),
                   tally |-> [d \in Decisions |-> 0], active |-> Cardinality(trusted)]
  <2>1. j \in Adding
    BY <1>3, JobTypes DEF AddVote
  <2>2. Cardinality(trusted) \in Nat
    BY <1>0, UsersAssumption, FS_Subset, FS_CardinalityType
  <2>3. r \in VoteInfo
    BY <2>1, <2>2, DurationsAssumption DEF VoteInfo, Adding, Duration
  <2>4. voteinfo' = Append(voteinfo, r)
    BY <1>3 DEF AddVote
  <2> HIDE DEF r
  <2>5. voteinfo' \in Seq(VoteInfo) /\ DOMAIN voteinfo \subseteq DOMAIN voteinfo'
    BY <2>3, <2>4, AppendedType
  <2> QED
    BY <1>3, <2>5 DEF AddVote, TypeInv, TypeOK, Idle
<1>4. ASSUME NEW w \in Workers, CastVote(w)
      PROVE  TypeInv'
  <2> DEFINE row == [proposal |-> job[w].proposal, user |-> job[w].user,
                     decision |-> job[w].decision, row |-> w]
  <2>1. voteinfo' \in Seq(VoteInfo) /\ DOMAIN voteinfo' = DOMAIN voteinfo
    BY <1>4, CastVoteRow
  <2>2. row \in Vote
    BY <1>4, CastVoteRow DEF Voting, Vote
  <2>3. votes' = votes \cup {row}
    BY <1>4 DEF CastVote
  <2> HIDE DEF row
  <2>4. votes' \subseteq Vote /\ IsFiniteSet(votes')
    BY <2>2, <2>3, FS_AddElement DEF TypeInv, TypeOK
  <2> QED
    BY <1>4, <2>1, <2>4 DEF CastVote, TypeInv, TypeOK, Idle
<1>5. ASSUME NEW u \in Users, AccountType(u)
      PROVE  TypeInv'
  BY <1>5 DEF AccountType, TypeInv, TypeOK
<1>6. CASE Tick
  BY <1>6 DEF Tick, TypeInv, TypeOK
<1>7. CASE UNCHANGED vars
  BY <1>7 DEF vars, TypeInv, TypeOK
<1> QED
  BY <1>1, <1>2, <1>3, <1>4, <1>5, <1>6, <1>7 DEF Next

(* The counts stay natural numbers and the votes refer to users, whatever   *)
(* the workers interleave.                                                  *)
THEOREM TypeCorrect == Spec => []TypeOK
<1>1. TypeInv => TypeOK
  BY DEF TypeInv
<1> QED
  BY <1>1, InitType, NextType, PTL DEF Spec

-----------------------------------------------------------------------------
(* Counts.                                                                  *)

(* A vote adds one to the votes for its decision and takes none away.       *)
LEMMA CastVoteAdds ==
    ASSUME TypeInv, ReadAtMostOnce, NEW w \in Workers, CastVote(w),
           NEW p, NEW d
    PROVE  /\ Cardinality(Cast(votes', p, d)) \in Nat
           /\ Cardinality(Cast(votes, p, d)) <= Cardinality(Cast(votes', p, d))
           /\ p = job[w].proposal /\ d = job[w].decision
                 => Cardinality(Cast(votes', p, d)) = Cardinality(Cast(votes, p, d)) + 1
<1> DEFINE row == [proposal |-> job[w].proposal, user |-> job[w].user,
                   decision |-> job[w].decision, row |-> w]
           before == Cast(votes, p, d)
           after == Cast(votes', p, d)
<1>2. votes' = votes \cup {row}
  BY DEF CastVote
<1>3. IsFiniteSet(before) /\ Cardinality(before) \in Nat
  BY CardinalityTypes
<1>4. CASE p = job[w].proposal /\ d = job[w].decision
  <2>1. after = before \cup {row}
    BY <1>2, <1>4 DEF Cast
  <2>2. row \notin before
    BY JobTypes DEF ReadAtMostOnce, CastVote, Cast
  <2> HIDE DEF row, before, after
  <2>3. Cardinality(after) = Cardinality(before) + 1
    BY <1>3, <2>1, <2>2, FS_AddElement
  <2> QED
    BY <1>3, <2>3 DEF before, after
<1>5. CASE ~(p = job[w].proposal /\ d = job[w].decision)
  <2>1. after = before
    BY <1>2, <1>5 DEF Cast
  <2> QED
    BY <1>3, <1>5, <2>1
<1> QED
  BY <1>4, <1>5

LEMMA CastVoteCounts ==
    ASSUME TypeInv, CountInv, NEW w \in Workers, CastVote(w)
    PROVE  CountedAtMostOnce'
<1> SUFFICES ASSUME NEW p \in DOMAIN voteinfo', NEW d \in Decisions
             PROVE  voteinfo'[p].tally[d] <= Cardinality(Cast(votes', p, d))
  BY DEF CountedAtMostOnce
<1>1. p \in DOMAIN voteinfo /\ voteinfo[p] \in VoteInfo
  BY CastVoteRow, LenProperties DEF TypeInv, TypeOK
<1>2. /\ job[w] \in Voting /\ job[w].pc = "vote"
      /\ Cardinality(Cast(votes, p, d)) \in Nat
      /\ voteinfo[p].tally[d] <= Cardinality(Cast(votes, p, d))
      /\ voteinfo[p].tally[d] \in Nat
  BY <1>1, CastVoteRow, CardinalityTypes
  DEF CountInv, CountedAtMostOnce, CastVote, VoteInfo
<1>3. /\ Cardinality(Cast(votes', p, d)) \in Nat
      /\ Cardinality(Cast(votes, p, d)) <= Cardinality(Cast(votes', p, d))
      /\ p = job[w].proposal /\ d = job[w].decision
            => Cardinality(Cast(votes', p, d)) = Cardinality(Cast(votes, p, d)) + 1
  BY CastVoteAdds DEF CountInv
<1>4. CASE p = job[w].proposal /\ d = job[w].decision
  <2>1. job[w].tally[d] <= Cardinality(Cast(votes, p, d)) /\ job[w].tally[d] \in Nat
    BY <1>2, <1>4 DEF CountInv, ReadAtMostOnce, Voting
  <2>2. voteinfo'[p].tally[d] = job[w].tally[d] + 1
    BY <1>1, <1>2, <1>4, CastVoteRow, CountedType
  <2> QED
    BY <1>2, <1>3, <1>4, <2>1, <2>2
<1>5. CASE ~(p = job[w].proposal /\ d = job[w].decision)
  <2>1. voteinfo'[p].tally[d] = voteinfo[p].tally[d]
    BY <1>1, <1>2, <1>5, CastVoteRow, CountedType
  <2> QED
    BY <1>2, <1>3, <2>1
<1> QED
  BY <1>4, <1>5

LEMMA CastVoteReads ==
    ASSUME TypeInv, CountInv, NEW w \in Workers, CastVote(w)
    PROVE  ReadAtMostOnce'
<1> SUFFICES ASSUME NEW v \in Workers, job'[v].pc = "vote"
             PROVE  /\ \A d \in Decisions :
                          job'[v].tally[d] <= Cardinality(Cast(votes', job'[v].proposal, d))
                    /\ \A x \in votes' : x.proposal = job'[v].proposal
                          /\ x.user = job'[v].user => x.row # v
  BY DEF ReadAtMostOnce
<1>1. v # w /\ job'[v] = job[v]
  BY DEF CastVote, TypeInv, TypeOK, Idle
<1>2. job[v] \in Voting /\ job[v].pc = "vote"
  BY <1>1, JobTypes
<1>3. ASSUME NEW d \in Decisions
      PROVE  job[v].tally[d] <= Cardinality(Cast(votes', job[v].proposal, d))
  <2> DEFINE p == job[v].proposal
  <2>1. /\ job[v].tally[d] <= Cardinality(Cast(votes, p, d))
        /\ job[v].tally[d] \in Nat /\ Cardinality(Cast(votes, p, d)) \in Nat
    BY <1>2, CardinalityTypes DEF CountInv, ReadAtMostOnce, Voting
  <2>2. /\ Cardinality(Cast(votes', p, d)) \in Nat
        /\ Cardinality(Cast(votes, p, d)) <= Cardinality(Cast(votes', p, d))
    BY CastVoteAdds DEF CountInv
  <2> QED
    BY <2>1, <2>2
<1>4. \A x \in votes' : x.proposal = job[v].proposal /\ x.user = job[v].user
                            => x.row # v
  BY <1>1, <1>2 DEF CastVote, CountInv, ReadAtMostOnce
<1> QED
  BY <1>1, <1>3, <1>4

LEMMA CountStep ==
    ASSUME TypeInv, CountInv, [Next]_vars
    PROVE  CountInv'
<1>0. voteinfo \in Seq(VoteInfo) /\ job \in [Workers -> {Idle} \cup Voting \cup Adding]
  BY DEF TypeInv, TypeOK
<1>1. ASSUME UNCHANGED <<voteinfo, votes>>,
             \A v \in Workers : job'[v] = job[v] \/ job'[v].pc # "vote"
      PROVE  CountInv'
  BY <1>1 DEF CountInv, CountedAtMostOnce, ReadAtMostOnce
<1>2. ASSUME NEW w \in Workers, NEW u \in Users, NEW about \in Users \cup {NULL},
             NEW type \in ProposalTypes, AddVotePost(w, u, about, type)
      PROVE  CountInv'
  BY <1>0, <1>1, <1>2 DEF AddVotePost
<1>3. ASSUME NEW w \in Workers, NEW u \in Users, NEW p \in DOMAIN voteinfo,
             NEW d \in Decisions, VotePost(w, u, p, d)
      PROVE  CountInv'
  <2>1. CountedAtMostOnce'
    BY <1>3 DEF VotePost, CountInv, CountedAtMostOnce
  <2>2. ASSUME NEW v \in Workers, job'[v].pc = "vote"
        PROVE  /\ \A e \in Decisions :
                     job'[v].tally[e] <= Cardinality(Cast(votes', job'[v].proposal, e))
               /\ \A x \in votes' : x.proposal = job'[v].proposal
                     /\ x.user = job'[v].user => x.row # v
    <3>1. CASE v # w
      <4>1. job'[v] = job[v] /\ votes' = votes
        BY <1>0, <1>3, <3>1 DEF VotePost
      <4> QED
        BY <2>2, <4>1 DEF CountInv, ReadAtMostOnce
    <3>2. CASE v = w
      <4>1. /\ job'[v].proposal = p /\ job'[v].user = u
            /\ job'[v].tally = voteinfo[p].tally /\ votes' = votes
        BY <1>0, <1>3, <3>2 DEF VotePost
      <4>2. \A x \in votes : x.proposal = p => x.user # u
        BY <1>3 DEF VotePost, Voters
      <4> QED
        BY <4>1, <4>2 DEF CountInv, CountedAtMostOnce
    <3> QED
      BY <3>1, <3>2
  <2> QED
    BY <2>1, <2>2 DEF CountInv, ReadAtMostOnce
<1>4. ASSUME NEW w \in Workers, AddVote(w)
      PROVE  CountInv'
  <2> DEFINE j == job[w]
             r == [about |-> j.about, type |-> j.type, end |-> j.at + Duration(j.type),
                   tally |-> [d \in Decisions |-> 0], active |-> Cardinality(trusted)]
  <2>1. j \in Adding
    BY <1>4, JobTypes DEF AddVote
  <2>2. Cardinality(trusted) \in Nat
    BY UsersAssumption, FS_Subset, FS_CardinalityType DEF TypeInv, TypeOK
  <2>3. r \in VoteInfo /\ \A d \in Decisions : r.tally[d] = 0
    BY <2>1, <2>2, DurationsAssumption DEF VoteInfo, Adding, Duration
  <2>4. voteinfo' = Append(voteinfo, r) /\ votes' = votes
    BY <1>4 DEF AddVote
  <2> HIDE DEF r
  <2>5. \A p \in DOMAIN voteinfo' : p \notin DOMAIN voteinfo => voteinfo'[p] = r
    BY <2>3, <2>4, AppendedType
  <2>6. \A p \in DOMAIN voteinfo : voteinfo'[p] = voteinfo[p]
    BY <2>3, <2>4, AppendedType
  <2>7. CountedAtMostOnce'
    <3> SUFFICES ASSUME NEW p \in DOMAIN voteinfo', NEW d \in Decisions
                 PROVE  voteinfo'[p].tally[d] <= Cardinality(Cast(votes', p, d))
      BY DEF CountedAtMostOnce
    <3>1. Cardinality(Cast(votes, p, d)) \in Nat
      BY CardinalityTypes
    <3> QED
      BY <2>3, <2>4, <2>5, <2>6, <3>1 DEF CountInv, CountedAtMostOnce
  <2>8. \A v \in Workers : job'[v] = job[v] \/ job'[v].pc # "vote"
    BY <1>0, <1>4 DEF AddVote, Idle
  <2> QED
    BY <2>4, <2>7, <2>8 DEF CountInv, ReadAtMostOnce
<1>5. ASSUME NEW w \in Workers, CastVote(w)
      PROVE  CountInv'
  BY <1>5, CastVoteCounts, CastVoteReads DEF CountInv
<1>6. ASSUME NEW u \in Users, AccountType(u)
      PROVE  CountInv'
  BY <1>1, <1>6 DEF AccountType
<1>7. CASE Tick \/ UNCHANGED vars
  BY <1>1, <1>7 DEF Tick, vars
<1> QED
  BY <1>2, <1>3, <1>4, <1>5, <1>6, <1>7 DEF Next

(* However many workers count from rows that others have changed since, no  *)
(* decision is counted more often than it was made: what a handler read was *)
(* covered by votes when it was read, votes are never removed, and its own  *)
(* adds one.                                                                *)
THEOREM NothingCountedTwice == Spec => []CountedAtMostOnce
<1>1. Init => CountInv
  BY DEF Init, CountInv, CountedAtMostOnce, ReadAtMostOnce, Idle
<1>2. CountInv => CountedAtMostOnce
  BY DEF CountInv
<1> QED
  BY <1>1, <1>2, InitType, NextType, CountStep, PTL DEF Spec

-----------------------------------------------------------------------------
(* Exact counts.                                                            *)

(* What the code does not arrange for: no two handlers vote on one proposal *)
(* at a time.                                                               *)
Apart ==
    \A v, w \in Workers :
        v # w /\ job[v].pc = "vote" /\ job[w].pc = "vote"
            => job[v].proposal # job[w].proposal

CountedExactly ==
    \A p \in DOMAIN voteinfo, d \in Decisions :
        voteinfo[p].tally[d] = Cardinality(Cast(votes, p, d))

VotedOnce ==
    \A v, x \in votes : v.proposal = x.proposal /\ v.user = x.user => v = x

(* What was read is still so, and votes are about proposals that exist.     *)
ReadIsCurrent ==
    /\ \A v \in votes : v.proposal \in DOMAIN voteinfo
    /\ \A w \in Workers : job[w].pc = "vote" =>
          /\ job[w].tally = voteinfo[job[w].proposal].tally
          /\ \A v \in votes : v.proposal = job[w].proposal => v.user # job[w].user

ExactInv == CountedExactly /\ VotedOnce /\ ReadIsCurrent

(* One more vote for each decision there is a vote for, exactly.            *)
LEMMA CastVoteExact ==
    ASSUME TypeInv, CountInv, ExactInv, NEW w \in Workers, CastVote(w)
    PROVE  CountedExactly'
<1> SUFFICES ASSUME NEW p \in DOMAIN voteinfo', NEW d \in Decisions
             PROVE  voteinfo'[p].tally[d] = Cardinality(Cast(votes', p, d))
  BY DEF CountedExactly
<1>1. p \in DOMAIN voteinfo /\ voteinfo[p] \in VoteInfo
  BY CastVoteRow, LenProperties DEF TypeInv, TypeOK
<1>2. /\ job[w] \in Voting /\ job[w].pc = "vote"
      /\ voteinfo[p].tally[d] = Cardinality(Cast(votes, p, d))
  BY <1>1, CastVoteRow DEF ExactInv, CountedExactly, CastVote
<1>3. CASE p = job[w].proposal /\ d = job[w].decision
  <2>1. Cardinality(Cast(votes', p, d)) = Cardinality(Cast(votes, p, d)) + 1
    BY <1>3, CastVoteAdds DEF CountInv
  <2>2. voteinfo'[p].tally[d] = job[w].tally[d] + 1
    BY <1>1, <1>2, <1>3, CastVoteRow, CountedType
  <2>3. job[w].tally[d] = voteinfo[p].tally[d]
    BY <1>2, <1>3 DEF ExactInv, ReadIsCurrent
  <2> QED
    BY <1>2, <2>1, <2>2, <2>3
<1>4. CASE ~(p = job[w].proposal /\ d = job[w].decision)
  <2>1. voteinfo'[p].tally[d] = voteinfo[p].tally[d]
    BY <1>1, <1>2, <1>4, CastVoteRow, CountedType
  <2>2. Cast(votes', p, d) = Cast(votes, p, d)
    BY <1>4 DEF CastVote, Cast
  <2> QED
    BY <1>2, <2>1, <2>2
<1> QED
  BY <1>3, <1>4

(* Who votes had not voted, and the others who are voting do so on other    *)
(* proposals.                                                               *)
LEMMA CastVoteApart ==
    ASSUME TypeInv, Apart, ExactInv, NEW w \in Workers, CastVote(w)
    PROVE  VotedOnce' /\ ReadIsCurrent'
<1> DEFINE row == [proposal |-> job[w].proposal, user |-> job[w].user,
                   decision |-> job[w].decision, row |-> w]
<1>1. votes' = votes \cup {row} /\ job[w].pc = "vote"
  BY DEF CastVote
<1>2. row.proposal = job[w].proposal /\ row.user = job[w].user
  OBVIOUS
<1> HIDE DEF row
<1>3. \A v \in votes : ~(v.proposal = row.proposal /\ v.user = row.user)
  BY <1>1, <1>2 DEF ExactInv, ReadIsCurrent
<1>4. VotedOnce'
  BY <1>1, <1>3 DEF ExactInv, VotedOnce
<1>5. \A v \in votes' : v.proposal \in DOMAIN voteinfo'
  BY <1>1, <1>2, CastVoteRow DEF ExactInv, ReadIsCurrent
<1>6. ASSUME NEW v \in Workers, job'[v].pc = "vote"
      PROVE  /\ job'[v].tally = voteinfo'[job'[v].proposal].tally
             /\ \A x \in votes' : x.proposal = job'[v].proposal => x.user # job'[v].user
  <2>1. v # w /\ job'[v] = job[v]
    BY <1>6 DEF CastVote, TypeInv, TypeOK, Idle
  <2>2. job[v].proposal # job[w].proposal /\ job[v].proposal \in DOMAIN voteinfo
    BY <1>1, <1>6, <2>1 DEF Apart, TypeInv
  <2>3. voteinfo'[job[v].proposal] = voteinfo[job[v].proposal]
    BY <2>2, CastVoteRow
  <2> QED
    BY <1>1, <1>2, <1>6, <2>1, <2>2, <2>3 DEF ExactInv, ReadIsCurrent
<1> QED
  BY <1>4, <1>5, <1>6 DEF ReadIsCurrent

LEMMA ExactStep ==
    ASSUME TypeInv, CountInv, Apart, ExactInv, [Next]_vars
    PROVE  ExactInv'
<1>0. voteinfo \in Seq(VoteInfo) /\ job \in [Workers -> {Idle} \cup Voting \cup Adding]
  BY DEF TypeInv, TypeOK
<1>1. ASSUME UNCHANGED <<voteinfo, votes>>,
             \A v \in Workers : job'[v] = job[v] \/ job'[v].pc # "vote"
      PROVE  ExactInv'
  BY <1>1 DEF ExactInv, CountedExactly, VotedOnce, ReadIsCurrent
<1>2. ASSUME NEW w \in Workers, NEW u \in Users, NEW about \in Users \cup {NULL},
             NEW type \in ProposalTypes, AddVotePost(w, u, about, type)
      PROVE  ExactInv'
  BY <1>0, <1>1, <1>2 DEF AddVotePost
<1>3. ASSUME NEW w \in Workers, NEW u \in Users, NEW p \in DOMAIN voteinfo,
             NEW d \in Decisions, VotePost(w, u, p, d)
      PROVE  ExactInv'
  <2>1. UNCHANGED <<voteinfo, votes>> /\ \A x \in votes : x.proposal = p => x.user # u
    BY <1>3 DEF VotePost, Voters
  <2>2. CountedExactly' /\ VotedOnce'
    BY <2>1 DEF ExactInv, CountedExactly, VotedOnce
  <2>3. ASSUME NEW v \in Workers
        PROVE  \/ job'[v] = job[v]
               \/ /\ job'[v].proposal = p /\ job'[v].user = u
                  /\ job'[v].tally = voteinfo[p].tally
    BY <1>0, <1>3 DEF VotePost
  <2> QED
    BY <2>1, <2>2, <2>3 DEF ExactInv, ReadIsCurrent
<1>4. ASSUME NEW w \in Workers, AddVote(w)
      PROVE  ExactInv'
  <2> DEFINE j == job[w]
             r == [about |-> j.about, type |-> j.type, end |-> j.at + Duration(j.type),
                   tally |-> [d \in Decisions |-> 0], active |-> Cardinality(trusted)]
  <2>1. j \in Adding
    BY <1>4, JobTypes DEF AddVote
  <2>2. Cardinality(trusted) \in Nat
    BY UsersAssumption, FS_Subset, FS_CardinalityType DEF TypeInv, TypeOK
  <2>3. r \in VoteInfo /\ \A d \in Decisions : r.tally[d] = 0
    BY <2>1, <2>2, DurationsAssumption DEF VoteInfo, Adding, Duration
  <2>4. voteinfo' = Append(voteinfo, r) /\ votes' = votes
    BY <1>4 DEF AddVote
  <2> HIDE DEF r
  <2>5. /\ DOMAIN voteinfo' = DOMAIN voteinfo \cup {Len(voteinfo) + 1}
        /\ voteinfo'[Len(voteinfo) + 1] = r
        /\ \A p \in DOMAIN voteinfo : voteinfo'[p] = voteinfo[p]
    BY <2>3, <2>4, AppendedType
  <2>6. CountedExactly'
    <3> SUFFICES ASSUME NEW p \in DOMAIN voteinfo', NEW d \in Decisions
                 PROVE  voteinfo'[p].tally[d] = Cardinality(Cast(votes, p, d))
      BY <2>4 DEF CountedExactly
    <3>1. CASE p \in DOMAIN voteinfo
      BY <2>5, <3>1 DEF ExactInv, CountedExactly
    <3>2. CASE p \notin DOMAIN voteinfo
      <4>1. Cast(votes, p, d) = {}
        BY <3>2 DEF Cast, ExactInv, ReadIsCurrent
      <4> QED
        BY <2>3, <2>5, <3>2, <4>1, FS_EmptySet
    <3> QED
      BY <3>1, <3>2
  <2>7. ASSUME NEW v \in Workers, job'[v].pc = "vote"
        PROVE  job'[v] = job[v] /\ job[v].proposal \in DOMAIN voteinfo
    BY <1>0, <1>4, <2>7 DEF AddVote, Idle, TypeInv
  <2> QED
    BY <2>4, <2>5, <2>6, <2>7 DEF ExactInv, VotedOnce, ReadIsCurrent
<1>5. ASSUME NEW w \in Workers, CastVote(w)
      PROVE  ExactInv'
  BY <1>5, CastVoteExact, CastVoteApart DEF ExactInv
<1>6. ASSUME NEW u \in Users, AccountType(u)
      PROVE  ExactInv'
  BY <1>1, <1>6 DEF AccountType
<1>7. CASE Tick \/ UNCHANGED vars
  BY <1>1, <1>7 DEF Tick, vars
<1> QED
  BY <1>2, <1>3, <1>4, <1>5, <1>6, <1>7 DEF Next

(* As long as no two handlers vote on one proposal at a time, every vote is *)
(* counted exactly once, and nobody votes twice: without that, a vote is    *)
(* lost from the counts or cast twice, since both handlers read before the  *)
(* other writes and no index of TU_Votes is unique.                         *)
THEOREM ApartVotesAreCounted ==
    Spec /\ []Apart => [](CountedExactly /\ VotedOnce)
<1>1. Init => ExactInv
  BY DEF Init, ExactInv, CountedExactly, VotedOnce, ReadIsCurrent, Idle
<1>2. Init => CountInv
  BY DEF Init, CountInv, CountedAtMostOnce, ReadAtMostOnce, Idle
<1>3. ExactInv => CountedExactly /\ VotedOnce
  BY DEF ExactInv
<1> QED
  BY <1>1, <1>2, <1>3, InitType, NextType, CountStep, ExactStep, PTL DEF Spec

-----------------------------------------------------------------------------
(* What a Yes does to a proposal.                                           *)

(* Measured by the counts and the number of Trusted Users that are written, *)
(* one more Yes keeps the majority of all, the quorum and the majority of   *)
(* the votes: a quorum is at most 100 per cent.                             *)
LEMMA OneMoreYes ==
    ASSUME NEW y \in Nat, NEW n \in Nat, NEW a \in Nat, NEW active \in Nat,
           NEW quorum \in 0 .. 100
    PROVE  /\ 2 * y > active => 2 * (y + 1) > active + 1
           /\ 100 * (y + n + a) > quorum * active
                 => 100 * (y + 1 + n + a) > quorum * (active + 1)
           /\ y > n => y + 1 > n
<1>1. quorum * (active + 1) = quorum * active + quorum /\ quorum * active \in Nat
  OBVIOUS
<1> DEFINE product == quorum * active
<1>2. product \in Nat /\ quorum * (active + 1) = product + quorum
  BY <1>1
<1> HIDE DEF product
<1>3. 100 * (y + n + a) > product => 100 * (y + 1 + n + a) > product + quorum
  BY <1>2
<1> QED
  BY <1>2, <1>3 DEF product

(* The only step that ends a vote writes what was read, plus one.           *)
LEMMA YesWritten ==
    ASSUME TypeInv, NEW w \in Workers, NEW p \in DOMAIN voteinfo, CastVote(w),
           job[w].proposal = p, job[w].decision = "Yes",
           job[w].tally = voteinfo[p].tally, job[w].active = voteinfo[p].active
    PROVE  /\ voteinfo[p] \in VoteInfo
           /\ voteinfo'[p].tally["Yes"] = voteinfo[p].tally["Yes"] + 1
           /\ voteinfo'[p].tally["No"] = voteinfo[p].tally["No"]
           /\ voteinfo'[p].tally["Abstain"] = voteinfo[p].tally["Abstain"]
           /\ voteinfo'[p].active = voteinfo[p].active + 1
           /\ voteinfo'[p].type = voteinfo[p].type
<1>1. job[w] \in Voting /\ voteinfo'[p] = Counted(voteinfo[p], job[w])
  BY CastVoteRow
<1>2. voteinfo[p] \in VoteInfo
  BY LenProperties DEF TypeInv, TypeOK
<1> QED
  BY <1>1, <1>2, CountedType DEF Decisions

LEMMA YesStep ==
    ASSUME TypeInv, NEW w \in Workers, NEW p \in DOMAIN voteinfo, CastVote(w),
           job[w].proposal = p, job[w].decision = "Yes",
           job[w].tally = voteinfo[p].tally, job[w].active = voteinfo[p].active,
           Accepted(p)
    PROVE  Accepted(p)'
<1> DEFINE v == voteinfo[p]
           y == v.tally["Yes"]
           n == v.tally["No"]
           a == v.tally["Abstain"]
           q == Quorum(v.type)
<1>1. y \in Nat /\ n \in Nat /\ a \in Nat /\ v.active \in Nat /\ q \in 0 .. 100
  BY YesWritten DEF VoteInfo, Decisions, Quorum
<1>2. \/ 2 * y > v.active
      \/ 100 * (y + n + a) > q * v.active /\ y > n
  BY DEF Accepted, Total
<1>3. \/ 2 * (y + 1) > v.active + 1
      \/ 100 * (y + 1 + n + a) > q * (v.active + 1) /\ y + 1 > n
  <2> HIDE DEF v, y, n, a, q
  <2> QED
    BY <1>1, <1>2, OneMoreYes
<1>4. /\ voteinfo'[p].tally["Yes"] = y + 1 /\ voteinfo'[p].tally["No"] = n
      /\ voteinfo'[p].tally["Abstain"] = a /\ voteinfo'[p].active = v.active + 1
      /\ Quorum(voteinfo'[p].type) = q
  BY YesWritten
<1> QED
  BY <1>3, <1>4 DEF Accepted, Total

(* A handler that ends its vote casts it: no step of another worker touches *)
(* its job.                                                                 *)
LEMMA VoteEndsByCasting ==
    ASSUME TypeInv, Next, NEW w \in Workers, job[w].pc = "vote", job'[w] = Idle
    PROVE  CastVote(w)
<1>0. job \in [Workers -> {Idle} \cup Voting \cup Adding]
  BY DEF TypeInv, TypeOK
<1>1. job[w] # Idle /\ job[w].pc # "add"
  BY DEF Idle
<1>2. ASSUME NEW v \in Workers, job[v] = Idle, NEW r, job' = [job EXCEPT ![v] = r]
      PROVE  FALSE
  BY <1>0, <1>1, <1>2
<1>3. ASSUME NEW v \in Workers, v # w, NEW r, job' = [job EXCEPT ![v] = r]
      PROVE  FALSE
  BY <1>0, <1>1, <1>3
<1>4. ASSUME NEW v \in Workers, NEW u \in Users, NEW about \in Users \cup {NULL},
             NEW type \in ProposalTypes, AddVotePost(v, u, about, type)
      PROVE  FALSE
  BY <1>2, <1>4 DEF AddVotePost
<1>5. ASSUME NEW v \in Workers, NEW u \in Users, NEW p \in DOMAIN voteinfo,
             NEW d \in Decisions, VotePost(v, u, p, d)
      PROVE  FALSE
  BY <1>2, <1>5 DEF VotePost
<1>6. ASSUME NEW v \in Workers, AddVote(v)
      PROVE  FALSE
  BY <1>1, <1>3, <1>6 DEF AddVote
<1>7. ASSUME NEW v \in Workers, CastVote(v)
      PROVE  v = w
  BY <1>3, <1>7 DEF CastVote
<1>8. ASSUME NEW u \in Users, AccountType(u) \/ Tick
      PROVE  FALSE
  BY <1>1, <1>8 DEF AccountType, Tick
<1>9. Tick => FALSE
  BY <1>1 DEF Tick
<1> QED
  BY <1>4, <1>5, <1>6, <1>7, <1>8, <1>9 DEF Next

(* A Yes that nobody interferes with never takes its acceptance from a      *)
(* proposal, whatever its type, the quorum and the number of Trusted Users, *)
(* although the vote itself raises the number the proposal is measured by.  *)
THEOREM YesHelps == Spec => YesNeverHurts
<1>1. TypeInv /\ [Next]_vars => [YesKeepsAccepted]_vars
  BY VoteEndsByCasting, YesStep DEF YesKeepsAccepted
<1> QED
  BY <1>1, InitType, NextType, PTL DEF Spec, YesNeverHurts
=============================================================================
