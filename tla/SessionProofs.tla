--------------------------- MODULE SessionProofs ---------------------------
(***************************************************************************)
(* Proofs about what players send and are sent: votes to eject (Voting),   *)
(* a client's planet (Updates), the player file (Register), messages       *)
(* (MessageRing) and numbers on datagrams (Sequence), for any slots,       *)
(* quorum and persons, teams and data of a planet, processes, names and    *)
(* passwords, writers, readers and rings, and limits of the numbers.       *)
(***************************************************************************)
EXTENDS MessageRing, Voting, Updates, Sequence, Register,
        FiniteSetTheorems, SequenceTheorems, TLAPS

-----------------------------------------------------------------------------
(* Voting *)

\* Passes() depends on the team alone: who votes for it, and who votes yes.
Team(t)    == {u \in VSlot : v_status[u] # "PFREE" /\ v_team[u] = t}
Yes(t)     == {u \in Team(t) : ballot[u] \in Cast}
\* So do the votes of the others: the accused's own is stored uncounted.
Others(t)  == Yes(t) \ {Accused}
Carries(t) == /\ Cardinality(Others(t)) >= MinPass
              /\ Cardinality(Team(t)) \div 2 + 1 <= Cardinality(Others(t))

\* Somebody is about to count that team's votes, or to take all votes back.
Pending(t) == \E v \in VSlot : \/ voter[v].step = "count" /\ v_team[v] = t
                               \/ voter[v].step = "reset"

\* Who votes is in the game, and is not the accused; who is in the game has a
\* team; a vote is against whoever is in the slot, unless he is of no team, and
\* so are the votes somebody has counted; a majority is about to be noticed.
VotersFly     == \A v \in VSlot : voter[v].step # "none" =>
                                    v_status[v] = "PALIVE" /\ v # Accused
\* Who is in the game has a team.
FliersHaveTeam == \A v \in VSlot : v_status[v] = "PALIVE" => v_team[v] \in VTeam
Fair(u)       == against[u] = person \/ v_team[Accused] = "NOBODY"
VotesAreFair  == \A u \in VSlot : ballot[u] \in Cast => Fair(u)
\* Who has counted has counted fair votes, against the one he ejects.
CountsAreFair == \A v \in VSlot : voter[v].step \in {"reset", "act"} =>
                   voter[v].whom = person /\ \A u \in voter[v].of : Fair(u)
\* A majority is noticed by somebody who is still to count or to act.
MajorityNoticed == \A t \in VTeam \ gone : Carries(t) => Pending(t)

\* The inductive invariant of votes.
VoteIInv ==
  /\ VoteTypeOK /\ EjectIsEarned /\ VotersFly /\ FliersHaveTeam
  /\ VotesAreFair /\ CountsAreFair /\ MajorityNoticed

\* Others' votes suffice if and only if they carry the team, and then the vote
\* passes, with the accused's own or without it.
LEMMA PassesCarries ==
  ASSUME NEW s \in VSlot
  PROVE  /\ OthersSuffice(s) <=> Carries(v_team[s])
         /\ Carries(v_team[s]) => Passes(s)
<1>1. Electors(s) = Team(v_team[s])  BY DEF Electors, Team
<1>2. Ayes(s) = Yes(v_team[s])  BY <1>1 DEF Ayes, Yes
<1>3. IsFiniteSet(Yes(v_team[s])) /\ IsFiniteSet(Team(v_team[s]))
  BY VotingAssumption, FS_Subset DEF Yes, Team
<1>4. /\ Cardinality(Others(v_team[s])) \in Nat /\ Cardinality(Yes(v_team[s])) \in Nat
      /\ Cardinality(Others(v_team[s])) <= Cardinality(Yes(v_team[s]))
  BY <1>3, FS_Subset, FS_CardinalityType DEF Others
<1>5. Cardinality(Team(v_team[s])) \div 2 + 1 \in Nat /\ MinPass \in Nat
  BY <1>3, FS_CardinalityType, VotingAssumption
<1>6. OthersSuffice(s) <=> Carries(v_team[s])
  BY <1>1, <1>2 DEF OthersSuffice, Carries, Others
<1> QED  BY <1>1, <1>2, <1>4, <1>5, <1>6 DEF Passes, Carries

\* No votes carry nothing, whatever minpass is.
LEMMA NoVotesFail ==
  ASSUME NEW T \in SUBSET VSlot
  PROVE  ~(Cardinality(T) \div 2 + 1 <= Cardinality({}))
<1>1. IsFiniteSet(T)  BY VotingAssumption, FS_Subset
<1>2. Cardinality(T) \in Nat  BY <1>1, FS_CardinalityType
<1>3. Cardinality({}) = 0  BY FS_EmptySet
<1> QED  BY <1>2, <1>3

\* Whoever the idle voter votes about, it is one of the persons.
LEMMA IdleIsVoter ==
  IdleVoter \in [step : {"none", "count", "reset", "act"}, of : SUBSET VSlot,
                whom : 0 .. Persons - 1]
<1>1. 0 \in 0 .. Persons - 1  BY VotingAssumption
<1> QED  BY <1>1 DEF IdleVoter

\* Votes of others that are taken back, of the same team, do not carry it.
LEMMA FewerOthers ==
  ASSUME NEW t, Team(t)' = Team(t), Others(t)' \subseteq Others(t), Carries(t)'
  PROVE  Carries(t)
<1>1. IsFiniteSet(Team(t))  BY VotingAssumption, FS_Subset DEF Team
<1>2. IsFiniteSet(Others(t))  BY <1>1, FS_Subset DEF Yes, Others
<1>3. /\ Cardinality(Others(t)) \in Nat /\ Cardinality(Others(t)') \in Nat
      /\ Cardinality(Others(t)') <= Cardinality(Others(t))
  BY <1>2, FS_Subset, FS_CardinalityType
<1>4. Cardinality(Team(t)) \in Nat  BY <1>1, FS_CardinalityType
<1>5. Cardinality(Team(t)) \div 2 \in Nat  BY <1>4
<1>6. /\ Cardinality(Others(t)') >= MinPass
      /\ Cardinality(Team(t)) \div 2 + 1 <= Cardinality(Others(t)')
  BY DEF Carries
<1>7. MinPass \in Nat  BY VotingAssumption
<1> QED  BY <1>3, <1>5, <1>6, <1>7 DEF Carries

\* Nor does it do so to take back any votes.
LEMMA FewerVotes ==
  ASSUME NEW t, Team(t)' = Team(t), Yes(t)' \subseteq Yes(t), Carries(t)'
  PROVE  Carries(t)
<1>1. Others(t)' \subseteq Others(t)  BY DEF Others
<1> QED  BY <1>1, FewerOthers

\* In a new game nobody has voted.
LEMMA VoteFirst == VoteInit => VoteIInv
<1> SUFFICES ASSUME VoteInit PROVE VoteIInv  OBVIOUS
<1>1. 0 \in 0 .. Persons - 1  BY VotingAssumption
<1>2. VoteTypeOK
  BY <1>1 DEF VoteInit, VoteTypeOK, VTeam, Cast, IdleVoter
<1>3. MajorityNoticed
  <2>1. ASSUME NEW t \in VTeam PROVE Yes(t) = {}
    BY DEF Yes, Team, VoteInit, Cast
  <2>2. \A t : Team(t) \in SUBSET VSlot  BY DEF Team
  <2>3. \A t \in VTeam : Others(t) = {}  BY <2>1 DEF Others
  <2> QED  BY <2>2, <2>3, NoVotesFail DEF MajorityNoticed, Carries
<1> QED
  BY <1>2, <1>3 DEF VoteInit, VoteIInv, EjectIsEarned, VotersFly, FliersHaveTeam,
     VotesAreFair, CountsAreFair, Fair, IdleVoter, Cast, VTeam

\* Each step of a vote, and each coming and going, keeps it.
LEMMA VoteStep == ASSUME VoteIInv, [VoteNext]_voteVars PROVE VoteIInv'
<1> USE DEF VoteIInv
<1>1. ASSUME NEW s \in VSlot, StoreVote(s) PROVE VoteIInv'
  <2>1. VoteTypeOK'
    <3>1. [voter[s] EXCEPT !.step = "count"]
             \in [step : {"none", "count", "reset", "act"}, of : SUBSET VSlot,
                 whom : 0 .. Persons - 1]
      BY <1>1 DEF VoteTypeOK
    <3>2. voter' \in [VSlot -> [step : {"none", "count", "reset", "act"},
                               of : SUBSET VSlot, whom : 0 .. Persons - 1]]
      BY <3>1, <1>1 DEF StoreVote, VoteTypeOK
    <3> QED  BY <3>2, <1>1 DEF StoreVote, VoteTypeOK, Cast
  <2>2. /\ \A v \in VSlot : v # s => voter'[v] = voter[v]
        /\ voter'[s].step = IF s = Accused THEN "none" ELSE "count"
        /\ voter[s].step = "none" /\ v_status[s] = "PALIVE"
    BY <1>1 DEF StoreVote, VoteTypeOK, IdleVoter
  <2>3. MajorityNoticed'
    <3> SUFFICES ASSUME NEW t \in VTeam \ gone, Carries(t)' PROVE Pending(t)'
      BY <1>1 DEF StoreVote, MajorityNoticed
    <3>1. CASE v_team[s] = t /\ s # Accused
      BY <3>1, <2>2, <1>1 DEF Pending, StoreVote
    <3>2. CASE v_team[s] # t \/ s = Accused
      <4>1. Team(t)' = Team(t)  BY <1>1 DEF StoreVote, Team
      <4>2. Others(t)' = Others(t)
        BY <4>1, <3>2, <1>1 DEF StoreVote, Others, Yes, Team, VoteTypeOK
      <4>3. Carries(t)  BY <4>1, <4>2, FewerOthers
      <4>4. PICK v \in VSlot : \/ voter[v].step = "count" /\ v_team[v] = t
                               \/ voter[v].step = "reset"
        BY <4>3 DEF Pending, MajorityNoticed
      <4>5. v # s  BY <4>4, <2>2
      <4> QED  BY <4>4, <4>5, <2>2, <1>1 DEF Pending, StoreVote
    <3> QED  BY <3>1, <3>2
  <2>4. CountsAreFair'
    <3>1. \A v \in VSlot : voter'[v].step \in {"reset", "act"} => voter'[v] = voter[v]
      BY <2>2
    <3>2. \A u \in VSlot : Fair(u) => Fair(u)'
      BY <1>1 DEF StoreVote, Fair, VoteTypeOK
    <3>3. \A v \in VSlot : voter[v].of \subseteq VSlot  BY DEF VoteTypeOK
    <3> QED  BY <3>1, <3>2, <3>3, <1>1 DEF StoreVote, CountsAreFair
  <2>5. VotesAreFair'
    BY <1>1 DEF StoreVote, VotesAreFair, Fair, VoteTypeOK
  <2> QED
    BY <2>1, <2>2, <2>3, <2>4, <2>5, <1>1
    DEF StoreVote, EjectIsEarned, VotersFly, FliersHaveTeam
<1>2. ASSUME NEW s \in VSlot, CountVotes(s) PROVE VoteIInv'
  <2>0. /\ UNCHANGED <<v_status, v_team, ballot, against, person, unjust>>
        /\ gone' = gone \ {v_team[s]}
        /\ voter[s].step = "count"
    BY <1>2 DEF CountVotes
  <2>1. Ayes(s) \subseteq {u \in VSlot : ballot[u] \in Cast}
    BY DEF Ayes, Electors
  <2>2. VoteTypeOK'
    <3>1. [step |-> "reset", of |-> Ayes(s), whom |-> person]
             \in [step : {"none", "count", "reset", "act"}, of : SUBSET VSlot,
                 whom : 0 .. Persons - 1]
      BY <2>1 DEF VoteTypeOK
    <3>2. voter' \in [VSlot -> [step : {"none", "count", "reset", "act"},
                               of : SUBSET VSlot, whom : 0 .. Persons - 1]]
      BY <3>1, IdleIsVoter, <1>2 DEF CountVotes, VoteTypeOK
    <3> QED  BY <3>2, <2>0 DEF VoteTypeOK
  <2>3. CountsAreFair'
    <3>1. \A u \in Ayes(s) : Fair(u)  BY <2>1 DEF VotesAreFair
    <3> QED
      BY <3>1, <1>2 DEF CountVotes, CountsAreFair, Fair, VoteTypeOK, IdleVoter
  <2>4. MajorityNoticed'
    <3> SUFFICES ASSUME NEW t \in VTeam \ gone', Carries(t)' PROVE Pending(t)'
      BY DEF MajorityNoticed
    <3>1. Carries(t)  BY <2>0 DEF Carries, Others, Yes, Team
    <3>2. CASE Passes(s)
      <4>1. voter'[s].step = "reset"  BY <3>2, <1>2 DEF CountVotes, VoteTypeOK
      <4> QED  BY <4>1 DEF Pending
    <3>3. CASE ~Passes(s)
      <4>1. v_team[s] # t  BY <3>1, <3>3, PassesCarries
      <4>2. t \in VTeam \ gone  BY <4>1, <2>0
      <4>3. PICK v \in VSlot : \/ voter[v].step = "count" /\ v_team[v] = t
                               \/ voter[v].step = "reset"
        BY <4>2, <3>1 DEF MajorityNoticed, Pending
      <4>4. v # s  BY <4>3, <4>1, <2>0
      <4>5. voter'[v] = voter[v]  BY <4>4, <1>2 DEF CountVotes, VoteTypeOK
      <4> QED  BY <4>3, <4>5, <2>0 DEF Pending
    <3> QED  BY <3>2, <3>3
  <2>5. VotersFly'
    BY <1>2 DEF CountVotes, VotersFly, VoteTypeOK
  <2> QED
    BY <2>0, <2>2, <2>3, <2>4, <2>5
    DEF EjectIsEarned, FliersHaveTeam, VotesAreFair, Fair
<1>3. ASSUME NEW s \in VSlot, ResetVotes(s) PROVE VoteIInv'
  <2>1. VoteTypeOK'  BY <1>3 DEF ResetVotes, VoteTypeOK, Cast
  <2>2. \A v \in VSlot : /\ v # s => voter'[v] = voter[v]
                         /\ voter'[s].step = "act" /\ voter[s].step = "reset"
                         /\ voter'[s].of = voter[s].of
                         /\ voter'[s].whom = voter[s].whom
    BY <1>3 DEF ResetVotes, VoteTypeOK
  <2>3. MajorityNoticed'
    <3>1. \A t : Others(t)' = {}  BY <1>3 DEF ResetVotes, Others, Yes, Team, Cast
    <3>2. \A t : Team(t)' \in SUBSET VSlot  BY DEF Team
    <3> QED  BY <3>1, <3>2, NoVotesFail DEF MajorityNoticed, Carries
  <2>4. CountsAreFair' /\ VotersFly'
    BY <2>2, <1>3 DEF ResetVotes, CountsAreFair, VotersFly, Fair
  <2> QED
    BY <2>1, <2>3, <2>4, <1>3
    DEF ResetVotes, EjectIsEarned, FliersHaveTeam, VotesAreFair, Cast
<1>4. ASSUME NEW s \in VSlot, EjectPlayer(s) PROVE VoteIInv'
  <2>1. /\ UNCHANGED <<v_team, ballot, against, person, gone>>
        /\ voter' = [voter EXCEPT ![s] = IdleVoter] /\ voter[s].step = "act"
    BY <1>4 DEF EjectPlayer
  <2>2. \/ /\ Ejects(s) /\ v_status' = [v_status EXCEPT ![Accused] = "PEXPLODE"]
           /\ unjust' = (unjust \/ person # voter[s].whom
                                \/ \E u \in voter[s].of : against[u] # person)
        \/ UNCHANGED <<v_status, unjust>>
    BY <1>4 DEF EjectPlayer
  <2>3. Ejects(s) => /\ person = voter[s].whom
                     /\ \A u \in voter[s].of : against[u] = person
    <3>1. v_team[s] \in VTeam  BY <2>1 DEF VotersFly, FliersHaveTeam
    <3>2. v_team[s] # "NOBODY"  BY <3>1 DEF VTeam
    <3> QED  BY <3>2, <2>1 DEF CountsAreFair, Fair, Ejects
  <2>4. unjust' = unjust  BY <2>2, <2>3 DEF VoteTypeOK
  <2>5. VoteTypeOK'
    <3>1. v_status' \in [VSlot -> {"PFREE", "POUTFIT", "PALIVE", "PEXPLODE"}]
      BY <2>2 DEF VoteTypeOK
    <3>2. voter' \in [VSlot -> [step : {"none", "count", "reset", "act"},
                               of : SUBSET VSlot, whom : 0 .. Persons - 1]]
      BY <2>1, IdleIsVoter DEF VoteTypeOK
    <3> QED  BY <3>1, <3>2, <2>1, <2>4 DEF VoteTypeOK
  <2>6. /\ \A v \in VSlot : v # s => voter'[v] = voter[v]
        /\ voter'[s].step = "none"
    BY <2>1 DEF VoteTypeOK, IdleVoter
  <2>7. /\ \A v \in VSlot : v # Accused => v_status'[v] = v_status[v]
        /\ \A v \in VSlot : v_status'[v] = "PALIVE" => v_status[v] = "PALIVE"
        /\ \A v \in VSlot : v_status'[v] = "PFREE" <=> v_status[v] = "PFREE"
    BY <2>2 DEF VoteTypeOK, Ejects
  <2>8. MajorityNoticed'
    <3> SUFFICES ASSUME NEW t \in VTeam \ gone, Carries(t)' PROVE Pending(t)'
      BY <2>1 DEF MajorityNoticed
    <3>1. Team(t)' = Team(t)  BY <2>1, <2>7 DEF Team
    <3>2. Yes(t)' = Yes(t)  BY <2>1, <3>1 DEF Yes
    <3>3. Pending(t)  BY <3>1, <3>2, FewerVotes DEF MajorityNoticed
    <3> QED  BY <3>3, <2>1, <2>6 DEF Pending
  <2> QED
    BY <2>1, <2>4, <2>5, <2>6, <2>7, <2>8
    DEF EjectIsEarned, VotersFly, FliersHaveTeam, VotesAreFair, CountsAreFair, Fair
<1>5. ASSUME NEW s \in VSlot, Ages(s) PROVE VoteIInv'
  <2>1. VoteTypeOK'  BY <1>5 DEF Ages, VoteTypeOK, Cast
  <2>2. \A u \in VSlot : ballot'[u] \in Cast => ballot[u] \in Cast
    BY <1>5 DEF Ages, VoteTypeOK
  <2>3. MajorityNoticed'
    <3> SUFFICES ASSUME NEW t \in VTeam \ gone, Carries(t)' PROVE Pending(t)'
      BY <1>5 DEF MajorityNoticed, Ages
    <3>1. Team(t)' = Team(t)  BY <1>5 DEF Ages, Team
    <3>2. Yes(t)' \subseteq Yes(t)  BY <2>2, <3>1 DEF Yes, Team
    <3>3. Pending(t)  BY <3>1, <3>2, FewerVotes DEF MajorityNoticed
    <3> QED  BY <3>3, <1>5 DEF Pending, Ages
  <2> QED
    BY <2>1, <2>2, <2>3, <1>5
    DEF Ages, EjectIsEarned, VotersFly, FliersHaveTeam, VotesAreFair, CountsAreFair,
        Fair
<1>6. ASSUME NEW s \in VSlot, VoterLeaves(s) PROVE VoteIInv'
  <2>1. VoteTypeOK'  BY <1>6 DEF VoterLeaves, VoteTypeOK
  <2>2. \A v \in VSlot : v # s => v_status'[v] = v_status[v] /\ ballot'[v] = ballot[v]
    BY <1>6 DEF VoterLeaves, VoteTypeOK
  <2>3. voter[s].step = "none" /\ v_status'[s] = "PFREE" /\ ballot'[s] = "zero"
    BY <1>6 DEF VoterLeaves, VoteTypeOK, IdleVoter
  <2>4. MajorityNoticed'
    <3> SUFFICES ASSUME NEW t \in VTeam \ gone', Carries(t)' PROVE Pending(t)'
      BY DEF MajorityNoticed
    <3>1. t \in VTeam \ gone /\ v_team[s] # t  BY <1>6 DEF VoterLeaves
    <3>2. Team(t)' = Team(t)  BY <3>1, <2>2, <1>6 DEF VoterLeaves, Team
    <3>3. Yes(t)' = Yes(t)  BY <3>1, <3>2, <2>2 DEF Yes, Team
    <3>4. Pending(t)  BY <3>1, <3>2, <3>3, FewerVotes DEF MajorityNoticed
    <3> QED  BY <3>4, <1>6 DEF Pending, VoterLeaves
  <2> QED
    BY <2>1, <2>2, <2>3, <2>4, <1>6
    DEF VoterLeaves, EjectIsEarned, VotersFly, FliersHaveTeam, VotesAreFair,
        CountsAreFair, Fair, Cast
<1>7. ASSUME NEW s \in VSlot, Explodes(s) PROVE VoteIInv'
  <2>1. VoteTypeOK'  BY <1>7 DEF Explodes, VoteTypeOK
  <2>2. /\ \A v \in VSlot : v # s => v_status'[v] = v_status[v]
        /\ v_status'[s] = "POUTFIT" /\ v_status[s] # "PFREE" /\ voter[s].step = "none"
    BY <1>7 DEF Explodes, VoteTypeOK, IdleVoter
  <2>3. MajorityNoticed'
    <3> SUFFICES ASSUME NEW t \in VTeam \ gone, Carries(t)' PROVE Pending(t)'
      BY <1>7 DEF MajorityNoticed, Explodes
    <3>1. Team(t)' = Team(t)  BY <2>2, <1>7 DEF Explodes, Team
    <3>2. Yes(t)' = Yes(t)  BY <3>1, <1>7 DEF Explodes, Yes
    <3>3. Pending(t)  BY <3>1, <3>2, FewerVotes DEF MajorityNoticed
    <3> QED  BY <3>3, <1>7 DEF Pending, Explodes
  <2> QED
    BY <2>1, <2>2, <2>3, <1>7
    DEF Explodes, EjectIsEarned, VotersFly, FliersHaveTeam, VotesAreFair,
        CountsAreFair, Fair
<1>8. ASSUME NEW s \in VSlot, LogsIn(s) PROVE VoteIInv'
  <2>1. (person + 1) % Persons \in 0 .. Persons - 1  BY VotingAssumption DEF VoteTypeOK
  <2>2. VoteTypeOK'  BY <1>8, <2>1 DEF LogsIn, VoteTypeOK
  <2>3. /\ \A v \in VSlot : v # s => /\ v_status'[v] = v_status[v]
                                     /\ v_team'[v] = v_team[v]
                                     /\ ballot'[v] = ballot[v]
        /\ v_status'[s] = "POUTFIT" /\ v_status[s] = "PFREE"
        /\ v_team'[s] = "NOBODY" /\ ballot'[s] = "zero"
    BY <1>8 DEF LogsIn, VoteTypeOK
  <2>4. MajorityNoticed'
    <3> SUFFICES ASSUME NEW t \in VTeam \ gone, Carries(t)' PROVE FALSE
      BY <1>8 DEF MajorityNoticed, LogsIn
    <3>1. Team(t)' = Team(t)  BY <2>3 DEF Team, VTeam
    <3>2. Yes(t)' = Yes(t)  BY <3>1, <2>3 DEF Yes, Team
    <3>3. Pending(t)  BY <3>1, <3>2, FewerVotes DEF MajorityNoticed
    <3> QED  BY <3>3, <1>8 DEF Pending, LogsIn, NoVote
  <2>5. VotesAreFair'
    BY <2>3, <1>8, VotingAssumption DEF LogsIn, VotesAreFair, Fair, Cast
  <2> QED
    BY <2>2, <2>3, <2>4, <2>5, <1>8
    DEF LogsIn, NoVote, EjectIsEarned, VotersFly, FliersHaveTeam, CountsAreFair
<1>9. ASSUME NEW s \in VSlot, NEW t \in VTeam, Enters(s, t) PROVE VoteIInv'
  <2>1. VoteTypeOK'  BY <1>9 DEF Enters, VoteTypeOK
  <2>2. /\ \A v \in VSlot : v # s => /\ v_status'[v] = v_status[v]
                                     /\ v_team'[v] = v_team[v]
        /\ v_status'[s] = "PALIVE" /\ v_status[s] = "POUTFIT" /\ v_team'[s] = t
    BY <1>9 DEF Enters, VoteTypeOK
  <2>3. \A u \in VSlot : ballot'[u] \in Cast => ballot[u] \in Cast /\ s # Accused
    BY <1>9 DEF Enters, VoteTypeOK, Cast
  <2>4. MajorityNoticed'
    <3> SUFFICES ASSUME NEW w \in VTeam \ gone', Carries(w)' PROVE FALSE
      BY DEF MajorityNoticed
    <3>1. w \in VTeam \ gone /\ v_team[s] # w /\ w # t  BY <1>9 DEF Enters
    <3>2. Team(w)' = Team(w)  BY <3>1, <2>2 DEF Team
    <3>3. Yes(w)' \subseteq Yes(w)  BY <3>2, <2>3 DEF Yes, Team
    <3>4. Pending(w)  BY <3>1, <3>2, <3>3, FewerVotes DEF MajorityNoticed
    <3> QED  BY <3>4, <1>9 DEF Pending, Enters, NoVote
  <2>5. VotesAreFair'
    BY <2>2, <2>3, <1>9, VotingAssumption DEF Enters, VotesAreFair, Fair
  <2> QED
    BY <2>1, <2>2, <2>4, <2>5, <1>9
    DEF Enters, NoVote, EjectIsEarned, VotersFly, FliersHaveTeam, CountsAreFair
<1>10. ASSUME UNCHANGED voteVars PROVE VoteIInv'
  <2>1. \A t : Carries(t)' = Carries(t) /\ Pending(t)' = Pending(t)
    BY <1>10 DEF voteVars, Carries, Others, Yes, Team, Pending
  <2> QED
    BY <1>10, <2>1 DEF voteVars, VoteTypeOK, EjectIsEarned, VotersFly, FliersHaveTeam,
       VotesAreFair, CountsAreFair, Fair, MajorityNoticed
<1> QED
  BY <1>1, <1>2, <1>3, <1>4, <1>5, <1>6, <1>7, <1>8, <1>9, <1>10 DEF VoteNext, Votes

\* Nobody is ejected for votes cast against another, and a majority that is
\* there is acted upon, for any slots, minpass and persons: two processes that
\* count at once cannot both overlook the other's vote, since each stores its
\* own before it counts.
THEOREM VotesHold == VoteSpec => []VoteInv
<1>1. VoteInit => VoteIInv  BY VoteFirst
<1>2. VoteIInv /\ [VoteNext]_voteVars => VoteIInv'  BY VoteStep
<1>3. VoteIInv => VoteInv
  <2> SUFFICES ASSUME VoteIInv PROVE VoteInv  OBVIOUS
  <2>1. ASSUME NoVote, NEW s \in VSlot, v_status[s] = "PALIVE", v_team[s] \notin gone
        PROVE  ~OthersSuffice(s)
    <3>1. v_team[s] \in VTeam \ gone  BY <2>1 DEF VoteIInv, FliersHaveTeam
    <3>2. ~Pending(v_team[s])  BY <2>1 DEF NoVote, Pending
    <3> QED  BY <3>1, <3>2, PassesCarries DEF VoteIInv, MajorityNoticed
  <2> QED  BY <2>1 DEF VoteIInv, VoteInv, MajorityActs
<1> QED  BY <1>1, <1>2, <1>3, PTL DEF VoteSpec

-----------------------------------------------------------------------------
(* Updates *)

\* The cache is the packet sent last: it is what the client has when that has
\* arrived last, and what is at the end of the queue when it has not arrived.
AppliedIsCache == newest = "applied" => view = cache
\* The last packet of a queue says what the server has cached.
LastIsCache(q) == q # <<>> /\ q[Len(q)] = cache
TcpIsCache     == newest = "tcp" => LastIsCache(tcp)
UdpIsCache     == newest = "udp" => LastIsCache(udp)
\* A cleared cache compares equal to no planet, scouted or not.
DueIsCleared   == IF newest = "due" THEN cache.data = "cleared" /\ my_team \in cache.info
                                    ELSE cache \in Packets
\* After updatePlanets() the cache is the planet, or says nothing of it.
FreshIsCached  == fresh => /\ newest # "due"
                           /\ IF Scouted THEN cache = truth ELSE my_team \notin cache.info

\* The inductive invariant of updates.
UpdIInv ==
  /\ UpdTypeOK /\ AppliedIsCache /\ TcpIsCache /\ UdpIsCache
  /\ DueIsCleared /\ FreshIsCached

\* What is left of a queue without its first i still ends with its last.
LEMMA Rest ==
  ASSUME NEW S, NEW q \in Seq(S), NEW i \in 1 .. Len(q)
  PROVE  LET r == SubSeq(q, i + 1, Len(q)) IN
         /\ r \in Seq(S) /\ Len(r) = Len(q) - i
         /\ i # Len(q) => r # <<>> /\ r[Len(r)] = q[Len(q)]
<1> DEFINE n == Len(q)
           r == SubSeq(q, i + 1, n)
<1>1. n \in Nat /\ i \in Nat /\ 1 <= i /\ i <= n  BY LenProperties
<1>2. \A k \in i + 1 .. n : q[k] \in S  BY <1>1, ElementOfSeq
<1> HIDE DEF n
<1>3. /\ r \in Seq(S) /\ Len(r) = IF i + 1 <= n THEN n - (i + 1) + 1 ELSE 0
      /\ \A k \in 1 .. n - (i + 1) + 1 : r[k] = q[i + 1 + k - 1]
  BY <1>1, <1>2, SubSeqProperties
<1> HIDE DEF r
<1>4. Len(r) = n - i  BY <1>1, <1>3
<1>5. ASSUME i # n PROVE r # <<>> /\ r[Len(r)] = q[n]
  <2>1. n - i \in 1 .. n - (i + 1) + 1  BY <1>1, <1>5
  <2>2. r[n - i] = q[i + 1 + (n - i) - 1]  BY <2>1, <1>3
  <2>3. i + 1 + (n - i) - 1 = n  BY <1>1
  <2>4. Len(r) # 0  BY <1>1, <1>4, <1>5
  <2>5. r # <<>>  BY <2>4, EmptySeq
  <2> QED  BY <2>2, <2>3, <2>5, <1>4
<1> QED  BY <1>3, <1>4, <1>5 DEF n, r

\* RemoveAt() of another but the last leaves the last where it is.
LEMMA Without ==
  ASSUME NEW S, NEW q \in Seq(S), NEW i \in 1 .. Len(q)
  PROVE  LET r == RemoveAt(q, i) IN
         /\ r \in Seq(S) /\ Len(r) = Len(q) - 1
         /\ i # Len(q) => r # <<>> /\ r[Len(r)] = q[Len(q)]
<1> DEFINE n == Len(q)
           a == SubSeq(q, 1, i - 1)
           b == SubSeq(q, i + 1, n)
           r == a \o b
<1>1. n \in Nat /\ i \in Nat /\ 1 <= i /\ i <= n  BY LenProperties
<1>2. b \in Seq(S) /\ Len(b) = n - i /\ (i # n => b # <<>> /\ b[Len(b)] = q[n])
  BY Rest
<1>3. \A k \in 1 .. i - 1 : q[k] \in S  BY <1>1, ElementOfSeq
<1>4. a \in Seq(S) /\ Len(a) = IF 1 <= i - 1 THEN i - 1 - 1 + 1 ELSE 0
  BY <1>1, <1>3, SubSeqProperties
<1>5. RemoveAt(q, i) = r  BY DEF RemoveAt
<1> HIDE DEF n, a, b
<1>6. Len(a) = i - 1  BY <1>1, <1>4
<1>7. /\ r \in Seq(S) /\ Len(r) = Len(a) + Len(b)
      /\ \A k \in 1 .. Len(a) + Len(b) : r[k] = IF k <= Len(a) THEN a[k] ELSE b[k - Len(a)]
  BY <1>2, <1>4, ConcatProperties
<1> HIDE DEF r
<1>8. Len(r) = n - 1  BY <1>1, <1>2, <1>6, <1>7
<1>9. ASSUME i # n PROVE r # <<>> /\ r[Len(r)] = q[n]
  <2>1. n - 1 \in 1 .. Len(a) + Len(b) /\ ~(n - 1 <= Len(a))
    BY <1>1, <1>2, <1>6, <1>9
  <2>2. r[n - 1] = b[n - 1 - Len(a)]  BY <2>1, <1>7
  <2>3. n - 1 - Len(a) = Len(b)  BY <1>1, <1>2, <1>6
  <2>4. Len(r) # 0  BY <1>1, <1>8, <1>9
  <2>5. r # <<>>  BY <2>4, EmptySeq
  <2> QED  BY <2>2, <2>3, <2>5, <1>2, <1>8, <1>9
<1> QED  BY <1>5, <1>7, <1>8, <1>9 DEF n, r

\* What is put at the end of a queue is last.
LEMMA Appended ==
  ASSUME NEW S, NEW q \in Seq(S), NEW x \in S
  PROVE  /\ Append(q, x) \in Seq(S) /\ Len(Append(q, x)) = Len(q) + 1
         /\ Append(q, x) # <<>> /\ Append(q, x)[Len(Append(q, x))] = x
<1>1. Len(q) \in Nat  BY LenProperties
<1>2. /\ Append(q, x) \in Seq(S) /\ Len(Append(q, x)) = Len(q) + 1
      /\ Append(q, x)[Len(q) + 1] = x
  BY <1>1
<1>3. Append(q, x) # <<>>  BY <1>1, <1>2, EmptySeq
<1> QED  BY <1>2, <1>3

\* Before the first packet the client and the cache know nothing.
LEMMA UpdFirst == UpdInit => UpdIInv
<1> SUFFICES ASSUME UpdInit PROVE UpdIInv  OBVIOUS
<1>1. <<>> \in Seq(Packets) /\ Len(<<>>) = 0  BY EmptySeq
<1>2. truth \in Known  BY DEF UpdInit, Known
<1>3. UpdTypeOK
  <2>1. Unknown \in Packets  BY DEF Packets
  <2>2. Len(tcp) + Len(udp) <= MaxFlight  BY <1>1, UpdatesAssumption DEF UpdInit
  <2> QED  BY <1>1, <1>2, <2>1, <2>2 DEF UpdInit, UpdTypeOK
<1> QED
  BY <1>3 DEF UpdInit, UpdIInv, AppliedIsCache, TcpIsCache, UdpIsCache, DueIsCleared,
     FreshIsCached, Packets

\* updatePlanets(): what it sends is what it caches; what it does not send is
\* in the cache already.
LEMMA UpdatePlanetsKeeps == ASSUME UpdIInv, UpdatePlanets PROVE UpdIInv'
<1> USE DEF UpdIInv
<1>1. /\ UNCHANGED <<truth, my_team, udp_mode, chilled, view>> /\ fresh'
      /\ Len(tcp) + Len(udp) < MaxFlight
  BY DEF UpdatePlanets
<1>2. /\ tcp \in Seq(Packets) /\ udp \in Seq(Packets)
      /\ Len(tcp) \in Nat /\ Len(udp) \in Nat /\ MaxFlight \in Nat
  BY LenProperties, UpdatesAssumption DEF UpdTypeOK
<1>3. CASE UpdtPlanet
  <2> DEFINE pkt == PlanetPacket
  <2>1. pkt \in Packets  BY DEF PlanetPacket, UpdTypeOK, Packets
  <2>2. cache' = pkt /\ SendPlanet(pkt)  BY <1>3 DEF UpdatePlanets
  <2>3. /\ IF Scouted THEN pkt = truth ELSE my_team \notin pkt.info
        /\ Scouted' = Scouted
    BY <1>1 DEF PlanetPacket, Unknown, Scouted
  <2> HIDE DEF pkt
  <2>4. CASE tcp' = Append(tcp, pkt) /\ newest' = "tcp" /\ UNCHANGED <<udp, comm>>
    <3>1. /\ tcp' \in Seq(Packets) /\ Len(tcp') = Len(tcp) + 1
          /\ LastIsCache(tcp)'
      BY <2>1, <2>2, <2>4, <1>2, Appended DEF LastIsCache
    <3>2. Len(tcp') + Len(udp') <= MaxFlight  BY <3>1, <2>4, <1>1, <1>2
    <3>3. UpdTypeOK'  BY <3>1, <3>2, <2>1, <2>2, <2>4, <1>1 DEF UpdTypeOK
    <3> QED
      BY <3>1, <3>3, <2>1, <2>2, <2>3, <2>4, <1>1
      DEF AppliedIsCache, TcpIsCache, UdpIsCache, DueIsCleared, FreshIsCached
  <2>5. CASE udp' = Append(udp, pkt) /\ newest' = "udp" /\ UNCHANGED <<tcp, comm>>
    <3>1. /\ udp' \in Seq(Packets) /\ Len(udp') = Len(udp) + 1
          /\ LastIsCache(udp)'
      BY <2>1, <2>2, <2>5, <1>2, Appended DEF LastIsCache
    <3>2. Len(tcp') + Len(udp') <= MaxFlight  BY <3>1, <2>5, <1>1, <1>2
    <3>3. UpdTypeOK'  BY <3>1, <3>2, <2>1, <2>2, <2>5, <1>1 DEF UpdTypeOK
    <3> QED
      BY <3>1, <3>3, <2>1, <2>2, <2>3, <2>5, <1>1
      DEF AppliedIsCache, TcpIsCache, UdpIsCache, DueIsCleared, FreshIsCached
  <2>6. CASE comm' = "COMM_TCP" /\ udp' = <<>> /\ newest' = "lost" /\ UNCHANGED tcp
    <3>1. udp' \in Seq(Packets) /\ Len(udp') = 0  BY <2>6, EmptySeq
    <3>2. Len(tcp') + Len(udp') <= MaxFlight  BY <3>1, <2>6, <1>1, <1>2
    <3>3. UpdTypeOK'  BY <3>1, <3>2, <2>1, <2>2, <2>6, <1>1 DEF UpdTypeOK
    <3> QED
      BY <3>3, <2>1, <2>2, <2>3, <2>6, <1>1
      DEF AppliedIsCache, TcpIsCache, UdpIsCache, DueIsCleared, FreshIsCached
  <2> QED  BY <2>2, <2>4, <2>5, <2>6 DEF SendPlanet
<1>4. CASE ~UpdtPlanet
  <2>1. UNCHANGED <<cache, tcp, udp, newest, comm>>  BY <1>4 DEF UpdatePlanets
  <2>2. IF Scouted THEN cache = truth ELSE my_team \notin cache.info
    BY <1>4 DEF UpdtPlanet
  <2>3. newest # "due"
    <3> SUFFICES ASSUME newest = "due" PROVE FALSE  OBVIOUS
    <3>1. cache.data = "cleared" /\ my_team \in cache.info  BY DEF DueIsCleared
    <3>2. truth.data # "cleared"  BY UpdatesAssumption DEF UpdTypeOK, Known
    <3> QED  BY <3>1, <3>2, <2>2
  <2>4. UpdTypeOK'  BY <1>1, <2>1 DEF UpdTypeOK
  <2> QED
    BY <2>1, <2>2, <2>3, <2>4, <1>1
    DEF AppliedIsCache, TcpIsCache, UdpIsCache, LastIsCache, DueIsCleared, FreshIsCached,
        Scouted
<1> QED  BY <1>3, <1>4

\* forceUpdate() is denied, or clears the cache.
LEMMA ForceUpdateKeeps ==
  ASSUME UpdIInv, ForceUpdate, UNCHANGED <<truth, my_team, comm, tcp, udp, view>>,
         udp_mode' \in {"MODE_TCP", "MODE_SIMPLE", "MODE_FAT"}
  PROVE  UpdIInv'
<1> USE DEF UpdIInv
<1>1. CASE chilled
  <2>1. UNCHANGED <<cache, chilled, newest, fresh>>  BY <1>1 DEF ForceUpdate
  <2>2. UpdTypeOK'  BY <2>1 DEF UpdTypeOK
  <2> QED
    BY <2>1, <2>2 DEF AppliedIsCache, TcpIsCache, UdpIsCache, LastIsCache, DueIsCleared,
       FreshIsCached, Scouted
<1>2. CASE ~chilled
  <2>1. cache' = Cleared(cache) /\ chilled' /\ newest' = "due" /\ ~fresh'
    BY <1>2 DEF ForceUpdate
  <2>2. cache.info \in SUBSET UTeam  BY DEF UpdTypeOK, Packets, Known, Unknown
  <2>3. cache' \in [info : SUBSET UTeam, data : {"cleared"}]
    BY <2>1, <2>2 DEF Cleared, UpdTypeOK
  <2>4. UpdTypeOK'  BY <2>1, <2>3, <1>2 DEF UpdTypeOK, ForceUpdate
  <2> QED
    BY <2>1, <2>4 DEF AppliedIsCache, TcpIsCache, UdpIsCache, DueIsCleared,
       FreshIsCached, Cleared
<1> QED  BY <1>1, <1>2

\* What arrives or is lost is not the packet sent last, unless it says so.
LEMMA ReceivesKeep ==
  ASSUME UpdIInv, ReceiveTcp \/ ReceiveUdp \/ LosePacket PROVE UpdIInv'
<1> USE DEF UpdIInv
<1>0. /\ tcp \in Seq(Packets) /\ udp \in Seq(Packets)
      /\ Len(tcp) \in Nat /\ Len(udp) \in Nat /\ MaxFlight \in Nat
      /\ Len(tcp) + Len(udp) <= MaxFlight
  BY LenProperties, UpdatesAssumption DEF UpdTypeOK
<1>1. CASE ReceiveTcp
  <2>1. /\ tcp # <<>> /\ tcp' = Tail(tcp) /\ view' = Head(tcp)
        /\ newest' = IF newest = "tcp" /\ Len(tcp) = 1 THEN "applied"
                     ELSE IF newest = "applied" THEN "overtaken" ELSE newest
        /\ UNCHANGED <<truth, my_team, comm, udp_mode, cache, chilled, udp, fresh>>
    BY <1>1 DEF ReceiveTcp, HandlePlanet
  <2>2. Len(tcp) # 0  BY <1>0, <2>1, EmptySeq
  <2>3. /\ 1 \in 1 .. Len(tcp) /\ Tail(tcp) = SubSeq(tcp, 1 + 1, Len(tcp))
        /\ Head(tcp) = tcp[1]
    BY <1>0, <2>1, <2>2, TailIsSubSeq
  <2>4. /\ tcp' \in Seq(Packets) /\ Len(tcp') = Len(tcp) - 1
        /\ 1 # Len(tcp) => tcp' # <<>> /\ tcp'[Len(tcp')] = tcp[Len(tcp)]
    BY <1>0, <2>1, <2>3, Rest
  <2>5. view' \in Packets  BY <1>0, <2>1, <2>3, ElementOfSeq
  <2>6. Len(tcp') + Len(udp') <= MaxFlight  BY <1>0, <2>1, <2>4
  <2>7. UpdTypeOK'  BY <2>1, <2>4, <2>5, <2>6 DEF UpdTypeOK
  <2>8. TcpIsCache'  BY <2>1, <2>4 DEF TcpIsCache, LastIsCache
  <2>9. AppliedIsCache'  BY <2>1, <2>3 DEF AppliedIsCache, TcpIsCache, LastIsCache
  <2> QED
    BY <2>1, <2>7, <2>8, <2>9
    DEF UdpIsCache, LastIsCache, DueIsCleared, FreshIsCached, Scouted
<1>2. CASE ReceiveUdp
  <2>1. PICK i \in 1 .. Len(udp) :
          /\ udp' = SubSeq(udp, i + 1, Len(udp)) /\ view' = udp[i]
          /\ newest' = IF newest = "udp" /\ i = Len(udp) THEN "applied"
                       ELSE IF newest = "applied" THEN "overtaken" ELSE newest
    BY <1>2 DEF ReceiveUdp, HandlePlanet
  <2>2. UNCHANGED <<truth, my_team, comm, udp_mode, cache, chilled, tcp, fresh>>
    BY <1>2 DEF ReceiveUdp
  <2>4. /\ udp' \in Seq(Packets) /\ Len(udp') = Len(udp) - i
        /\ i # Len(udp) => udp' # <<>> /\ udp'[Len(udp')] = udp[Len(udp)]
    BY <1>0, <2>1, Rest
  <2>5. view' \in Packets  BY <1>0, <2>1, ElementOfSeq
  <2>6. Len(tcp') + Len(udp') <= MaxFlight  BY <1>0, <2>1, <2>2, <2>4
  <2>7. UpdTypeOK'  BY <2>1, <2>2, <2>4, <2>5, <2>6 DEF UpdTypeOK
  <2>8. UdpIsCache'  BY <2>1, <2>2, <2>4 DEF UdpIsCache, LastIsCache
  <2>9. AppliedIsCache'  BY <2>1, <2>2 DEF AppliedIsCache, UdpIsCache, LastIsCache
  <2> QED
    BY <2>1, <2>2, <2>7, <2>8, <2>9
    DEF TcpIsCache, LastIsCache, DueIsCleared, FreshIsCached, Scouted
<1>3. CASE LosePacket
  <2>1. PICK i \in 1 .. Len(udp) :
          /\ udp' = RemoveAt(udp, i)
          /\ newest' = IF newest = "udp" /\ i = Len(udp) THEN "lost" ELSE newest
    BY <1>3 DEF LosePacket
  <2>2. UNCHANGED <<truth, my_team, comm, udp_mode, cache, chilled, tcp, view, fresh>>
    BY <1>3 DEF LosePacket
  <2>4. /\ udp' \in Seq(Packets) /\ Len(udp') = Len(udp) - 1
        /\ i # Len(udp) => udp' # <<>> /\ udp'[Len(udp')] = udp[Len(udp)]
    BY <1>0, <2>1, Without
  <2>5. Len(tcp') + Len(udp') <= MaxFlight  BY <1>0, <2>1, <2>2, <2>4
  <2>6. UpdTypeOK'  BY <2>1, <2>2, <2>4, <2>5 DEF UpdTypeOK
  <2>7. UdpIsCache'  BY <2>1, <2>2, <2>4 DEF UdpIsCache, LastIsCache
  <2> QED
    BY <2>1, <2>2, <2>6, <2>7
    DEF AppliedIsCache, TcpIsCache, LastIsCache, DueIsCleared, FreshIsCached, Scouted
<1> QED  BY <1>1, <1>2, <1>3

\* So does every other step.
LEMMA UpdStep == ASSUME UpdIInv, [UpdNext]_updVars PROVE UpdIInv'
<1> USE DEF UpdIInv
<1>1. CASE UpdatePlanets  BY <1>1, UpdatePlanetsKeeps
<1>2. CASE FullUpdate
  BY <1>2, ForceUpdateKeeps DEF FullUpdate, UpdTypeOK
<1>3. ASSUME NEW m \in {"MODE_TCP", "MODE_SIMPLE", "MODE_FAT"}, CommMode(m)
      PROVE  UpdIInv'
  <2>1. CASE m = "MODE_FAT"
    BY <2>1, <1>3, ForceUpdateKeeps DEF CommMode
  <2>2. CASE m # "MODE_FAT"
    <3>1. UNCHANGED <<cache, chilled, newest, fresh, truth, my_team, comm, tcp, udp, view>>
          /\ udp_mode' = m
      BY <2>2, <1>3 DEF CommMode
    <3>2. UpdTypeOK'  BY <3>1 DEF UpdTypeOK
    <3> QED
      BY <3>1, <3>2 DEF AppliedIsCache, TcpIsCache, UdpIsCache, LastIsCache,
         DueIsCleared, FreshIsCached, Scouted
  <2> QED  BY <2>1, <2>2
<1>4. CASE Chill \/ ToUdp
  <2>1. /\ UNCHANGED <<truth, my_team, cache, tcp, udp, view, newest, fresh>>
        /\ chilled' \in BOOLEAN /\ comm' \in {"COMM_TCP", "COMM_UDP"}
        /\ udp_mode' \in {"MODE_TCP", "MODE_SIMPLE", "MODE_FAT"}
    BY <1>4 DEF Chill, ToUdp, UpdTypeOK
  <2>2. UpdTypeOK'  BY <2>1 DEF UpdTypeOK
  <2> QED
    BY <2>1, <2>2 DEF AppliedIsCache, TcpIsCache, UdpIsCache, LastIsCache,
       DueIsCleared, FreshIsCached, Scouted
<1>5. CASE BackToTcp
  <2>1. /\ comm' = "COMM_TCP" /\ udp' = <<>>
        /\ newest' = IF newest = "udp" THEN "lost" ELSE newest
        /\ UNCHANGED <<truth, my_team, udp_mode, cache, chilled, tcp, view, fresh>>
    BY <1>5 DEF BackToTcp
  <2>2. udp' \in Seq(Packets) /\ Len(udp') = 0  BY <2>1, EmptySeq
  <2>3. Len(tcp') + Len(udp') <= MaxFlight
    <3>1. /\ Len(tcp) \in Nat /\ Len(udp) \in Nat /\ MaxFlight \in Nat
          /\ Len(tcp) + Len(udp) <= MaxFlight
      BY LenProperties, UpdatesAssumption DEF UpdTypeOK
    <3> QED  BY <3>1, <2>1, <2>2
  <2>4. UpdTypeOK'  BY <2>1, <2>2, <2>3 DEF UpdTypeOK
  <2> QED
    BY <2>1, <2>4 DEF AppliedIsCache, TcpIsCache, UdpIsCache, LastIsCache,
       DueIsCleared, FreshIsCached, Scouted
<1>6. CASE Changes
  <2>1. /\ ~fresh' /\ truth' \in Known /\ my_team' \in UTeam
        /\ newest = "due" => my_team' = my_team
        /\ UNCHANGED <<comm, udp_mode, cache, chilled, tcp, udp, view, newest>>
    BY <1>6 DEF Changes, UpdTypeOK
  <2>2. UpdTypeOK'  BY <2>1, <1>6 DEF UpdTypeOK, Changes
  <2> QED
    BY <2>1, <2>2 DEF AppliedIsCache, TcpIsCache, UdpIsCache, LastIsCache,
       DueIsCleared, FreshIsCached
<1>7. CASE ReceiveTcp \/ ReceiveUdp \/ LosePacket  BY <1>7, ReceivesKeep
<1>8. CASE UNCHANGED updVars
  <2>1. UpdTypeOK'  BY <1>8 DEF updVars, UpdTypeOK
  <2> QED
    BY <2>1, <1>8 DEF updVars, AppliedIsCache, TcpIsCache, UdpIsCache, LastIsCache,
       DueIsCleared, FreshIsCached, Scouted
<1> QED
  BY <1>1, <1>2, <1>3, <1>4, <1>5, <1>6, <1>7, <1>8 DEF UpdNext

\* What the client has when the packet sent last has arrived last is the planet
\* as its team knows it, and a full update sends every planet it may have wrong,
\* for any teams, data of a planet and number of packets under way: the packet
\* ntserv keeps is always the one it has sent last.
THEOREM UpdatesHold == UpdSpec => []UpdInv
<1>1. UpdInit => UpdIInv  BY UpdFirst
<1>2. UpdIInv /\ [UpdNext]_updVars => UpdIInv'  BY UpdStep
<1>3. UpdIInv => UpdInv
  BY DEF UpdIInv, UpdInv, SeenAsItIs, FullUpdateSends, Shows, AppliedIsCache,
     FreshIsCached, Scouted
<1> QED  BY <1>1, <1>2, <1>3, PTL DEF UpdSpec

-----------------------------------------------------------------------------
(* Register *)

\* Who plays is on his own record, and has given its password; so is who has
\* been found and has not yet given one that is right.
OwnTrue(p) == session[p].at = "play" /\ ~astray[p] =>
  /\ p_pos[p] \in 1 .. Len(file)
  /\ file[p_pos[p]].name = session[p].name
  /\ session[p].name \in changed \/ session[p].word = file[p_pos[p]].word
\* A position from the index is a record of the name that was asked for, with
\* the password it had.
EntryTrue(p) == entry_pos[p] # 0 /\ ~astray[p] =>
  /\ entry_pos[p] \in 1 .. Len(file)
  /\ file[entry_pos[p]].name = entry[p].name /\ entry[p].name \in PName
  /\ entry[p].name \in changed \/ entry[p].word = file[entry_pos[p]].word

\* Who is past his login has a name, and who plays a position; the name of who is
\* about to append a record is not in the file, and he has the lock alone.
Named(p) == /\ session[p].at # "login" => session[p].name \in PName
            /\ session[p].at = "play" => p_pos[p] # 0
\* Who appends a record has the lock alone, for a name that is not in the
\* file.
Adder(p) == session[p].at = "append" =>
  adding = {p} /\ \A i \in 1 .. Len(file) : file[i].name # session[p].name

\* The inductive invariant of the player file.
RegIInv ==
  /\ RegTypeOK /\ UniqueNames /\ LockIsHeld
  /\ \A p \in Conn : OwnTrue(p) /\ EntryTrue(p) /\ Named(p) /\ Adder(p)

\* No name and no password is empty.
LEMMA SomeName == "" \notin PName
BY RegisterAssumption

\* A record by its parts.
LEMMA ARecord ==
  ASSUME NEW n \in PName \cup {""}, NEW w \in Word \cup {""}
  PROVE  [name |-> n, word |-> w] \in Record
BY DEF Record

\* Numbers have a least: of the intervals below them one is minimal, since the
\* strict subsets of a finite set are well founded.
LEMMA LeastNumber ==
  ASSUME NEW I \in SUBSET Nat, I # {} PROVE \E k \in I : \A m \in I : k <= m
<1> DEFINE T == {1 .. k : k \in I}
<1>1. T \subseteq FiniteSubsetsOf(Nat)
  <2> SUFFICES ASSUME NEW k \in I PROVE 1 .. k \in FiniteSubsetsOf(Nat)  OBVIOUS
  <2>1. IsFiniteSet(1 .. k)  BY FS_Interval
  <2> QED  BY <2>1 DEF FiniteSubsetsOf
<1>2. T # {}  OBVIOUS
<1>3. IsWellFoundedOn(StrictSubsetOrdering(Nat), FiniteSubsetsOf(Nat))
  BY FS_StrictSubsetOrderingWellFounded
<1> HIDE DEF T
<1>4. PICK x \in T : \A y \in T : ~(<<y, x>> \in StrictSubsetOrdering(Nat))
  BY <1>1, <1>2, <1>3, WFMin
<1>5. PICK k \in I : x = 1 .. k  BY DEF T
<1>6. ASSUME NEW m \in I, m < k PROVE FALSE
  <2>1. 1 .. m \in T /\ k \in Nat /\ m \in Nat  BY DEF T
  <2>2. 1 .. m \subseteq 1 .. k /\ k \in 1 .. k /\ k \notin 1 .. m  BY <1>6, <2>1
  <2>3. <<1 .. m, x>> \in StrictSubsetOrdering(Nat)
    BY <1>5, <2>1, <2>2 DEF StrictSubsetOrdering
  <2> QED  BY <1>4, <2>1, <2>3
<1> QED  BY <1>6

\* No record, and no position.
LEMMA Nothing == NoRecord \in Record /\ 0 \in Pos
<1>1. NoRecord \in Record  BY DEF NoRecord, Record
<1>2. MaxFile \in Nat  BY RegisterAssumption
<1> QED  BY <1>1, <1>2 DEF Pos

\* Neither has a name, and there is a login to come.
LEMMA Nameless == NoRecord.name = "" /\ AtLogin.at = "login"
BY DEF NoRecord, AtLogin

\* Positions are found from the front of the file.
LEMMA FirstIsOne ==
  ASSUME RegTypeOK, NEW n
  PROVE  LET k == FirstRecord(n) IN
         /\ k = 0 => \A i \in 1 .. Len(file) : file[i].name # n
         /\ k # 0 => k \in 1 .. Len(file) /\ file[k].name = n
<1> DEFINE I == {i \in 1 .. Len(file) : file[i].name = n}
<1>1. FirstRecord(n) = IF I # {} THEN Min(I) ELSE 0  BY DEF FirstRecord, SelectInSeq
<1>2. Len(file) \in Nat  BY LenProperties DEF RegTypeOK
<1>3. I \in SUBSET Nat /\ 0 \notin I  BY <1>2
<1>4. ASSUME I # {} PROVE Min(I) \in I
  <2> HIDE DEF I
  <2>3. \E k \in I : \A m \in I : k <= m  BY <1>3, <1>4, LeastNumber
  <2> QED  BY <2>3 DEF Min
<1>5. CASE I = {}  BY <1>1, <1>5
<1>6. CASE I # {}
  <2>1. FirstRecord(n) = Min(I) /\ Min(I) \in I  BY <1>1, <1>4, <1>6
  <2> QED  BY <1>3, <2>1
<1> QED  BY <1>5, <1>6

\* findplayer() finds the record of that name, or none is there, unless it has
\* compared a buffer that read() has not filled.
LEMMA Finds ==
  ASSUME RegTypeOK, NEW n \in PName, NEW held \in Record
  PROVE  LET f == Find(n, held) IN
         /\ f.at \in Pos /\ f.got \in Record /\ f.index \in [PName -> Pos]
         /\ f.at = 0 => \A i \in 1 .. Len(file) : file[i].name # n
         /\ f.at # 0 /\ ~(Hint(n, held.name) /\ Blind(n)) =>
              f.at \in 1 .. Len(file) /\ f.got = file[f.at] /\ file[f.at].name = n
<1> DEFINE k == FirstRecord(n)
           f == Find(n, held)
<1>1. /\ file \in Seq(Record) /\ Len(file) \in Nat /\ Len(file) <= MaxFile
      /\ index \in [PName -> Pos] /\ MaxFile \in Nat
  BY LenProperties, RegisterAssumption DEF RegTypeOK
<1>2. index[n] \in Pos /\ index[n] \in Nat  BY <1>1 DEF Pos
<1>3. CASE Hint(n, held.name)
  <2>1. f.at = index[n] /\ f.index = index /\ f.got = IF Blind(n) THEN held ELSE file[index[n]]
    BY <1>3 DEF Find
  <2>2. index[n] # 0  BY <1>3 DEF Hint
  <2>3. ~Blind(n) => index[n] \in 1 .. Len(file) /\ file[index[n]].name = n
    BY <1>1, <1>2, <1>3, <2>2 DEF Blind, Hint
  <2>4. ~Blind(n) => file[index[n]] \in Record  BY <1>1, <2>3, ElementOfSeq
  <2> HIDE DEF f
  <2> QED  BY <1>1, <1>2, <1>3, <2>1, <2>2, <2>3, <2>4 DEF f
<1>4. CASE ~Hint(n, held.name) /\ k # 0
  <2>1. k \in 1 .. Len(file) /\ file[k].name = n  BY <1>4, FirstIsOne
  <2>2. f.at = k /\ f.got = file[k] /\ f.index = [index EXCEPT ![n] = k]  BY <1>4 DEF Find
  <2>3. file[k] \in Record  BY <1>1, <2>1, ElementOfSeq
  <2> HIDE DEF f, k
  <2>4. k \in Pos  BY <1>1, <2>1 DEF Pos
  <2> QED  BY <1>1, <1>4, <2>1, <2>2, <2>3, <2>4 DEF f
<1>5. CASE ~Hint(n, held.name) /\ k = 0
  <2>1. \A i \in 1 .. Len(file) : file[i].name # n  BY <1>5, FirstIsOne
  <2>2. f.at = 0 /\ f.got = [name |-> n, word |-> ""] /\ f.index = index  BY <1>5 DEF Find
  <2>3. [name |-> n, word |-> ""] \in Record  BY ARecord
  <2>4. 0 \in Pos  BY <1>1 DEF Pos
  <2> HIDE DEF f, k
  <2> QED  BY <1>1, <2>1, <2>2, <2>3, <2>4 DEF f
<1> QED  BY <1>3, <1>4, <1>5

\* What handleLogin() goes by is a record of that name, or a name without one.
LEMMA LooksUp ==
  ASSUME RegIInv, NEW p \in Conn, NEW n \in PName
  PROVE  LET f == LookUp(p, n) IN
         /\ f.at \in Pos /\ f.got \in Record /\ f.index \in [PName -> Pos]
         /\ f.at # 0 /\ ~astray[p] =>
              /\ f.at \in 1 .. Len(file) /\ file[f.at].name = n /\ f.got.name = n
              /\ n \in changed \/ f.got.word = file[f.at].word
<1> DEFINE f == LookUp(p, n)
<1>1. RegTypeOK /\ entry[p] \in Record  BY DEF RegIInv, RegTypeOK
<1>2. CASE entry[p].name = n
  <2>1. f.at = entry_pos[p] /\ f.got = entry[p] /\ f.index = index  BY <1>2 DEF LookUp
  <2>2. EntryTrue(p)  BY DEF RegIInv
  <2> HIDE DEF f
  <2> QED  BY <1>1, <1>2, <2>1, <2>2 DEF EntryTrue, RegTypeOK, f
<1>3. CASE entry[p].name # n
  <2>1. f = Find(n, entry[p])  BY <1>3 DEF LookUp
  <2>2. ~(Hint(n, entry[p].name) /\ Blind(n))  BY <1>3 DEF Hint
  <2> HIDE DEF f
  <2>3. f.at # 0 => f.at \in 1 .. Len(file) /\ f.got = file[f.at] /\ file[f.at].name = n
    BY <1>1, <2>1, <2>2, Finds
  <2> QED  BY <1>1, <2>1, <2>3, Finds DEF f
<1> QED  BY <1>2, <1>3

\* The file only grows while somebody plays: records keep their names, and their
\* passwords unless that is a change.
Grows ==
  /\ file' \in Seq(Record) /\ Len(file) <= Len(file') /\ changed \subseteq changed'
  /\ \A i \in 1 .. Len(file) :
       /\ file'[i].name = file[i].name
       /\ file[i].name \in PName => file'[i].word = file[i].word \/ file[i].name \in changed'

\* Others keep what they have: their records, and a name that is new.
LEMMA GrowsKeeps ==
  ASSUME RegIInv, Grows, NEW p \in Conn, session'[p] = session[p], p_pos'[p] = p_pos[p],
         entry'[p] = entry[p], entry_pos'[p] = entry_pos[p], astray[p] => astray'[p]
  PROVE  OwnTrue(p)' /\ EntryTrue(p)' /\ Named(p)'
<1>1. OwnTrue(p) /\ EntryTrue(p) /\ Named(p)  BY DEF RegIInv
<1>2. Len(file) \in Nat /\ Len(file') \in Nat
  BY LenProperties DEF RegIInv, RegTypeOK, Grows
<1>3. OwnTrue(p)'
  <2> SUFFICES ASSUME session[p].at = "play", ~astray[p]
               PROVE  /\ p_pos[p] \in 1 .. Len(file')
                      /\ file'[p_pos[p]].name = session[p].name
                      /\ session[p].name \in changed' \/ session[p].word = file'[p_pos[p]].word
    BY DEF OwnTrue
  <2>1. /\ p_pos[p] \in 1 .. Len(file) /\ file[p_pos[p]].name = session[p].name
        /\ session[p].name \in changed \/ session[p].word = file[p_pos[p]].word
        /\ session[p].name \in PName
    BY <1>1 DEF OwnTrue, Named
  <2> QED  BY <1>2, <2>1 DEF Grows
<1>4. EntryTrue(p)'
  <2> SUFFICES ASSUME entry_pos[p] # 0, ~astray[p]
               PROVE  /\ entry_pos[p] \in 1 .. Len(file')
                      /\ file'[entry_pos[p]].name = entry[p].name /\ entry[p].name \in PName
                      /\ entry[p].name \in changed' \/ entry[p].word = file'[entry_pos[p]].word
    BY DEF EntryTrue
  <2>1. /\ entry_pos[p] \in 1 .. Len(file)
        /\ file[entry_pos[p]].name = entry[p].name /\ entry[p].name \in PName
        /\ entry[p].name \in changed \/ entry[p].word = file[entry_pos[p]].word
    BY <1>1 DEF EntryTrue
  <2> QED  BY <1>2, <2>1 DEF Grows
<1>5. Named(p)'  BY <1>1 DEF Named
<1> QED  BY <1>3, <1>4, <1>5

\* A file that is left alone.
LEMMA SameGrows == ASSUME RegTypeOK, UNCHANGED <<file, changed>> PROVE Grows
<1>1. file \in Seq(Record) /\ Len(file) \in Nat  BY LenProperties DEF RegTypeOK
<1>2. file' = file /\ changed' = changed  OBVIOUS
<1> QED  BY <1>1, <1>2 DEF Grows

\* handleLogin() and newplayer(), but for the record itself: what one process does
\* that leaves the file and what others hold alone.
LEMMA OneKeeps ==
  ASSUME RegIInv, NEW p \in Conn, UNCHANGED <<file, changed>>,
         index' \in [PName -> Pos], NEW r \in Record, NEW k \in Pos, Keep(p, r, k),
         leftover' \in [Conn -> PName \cup {""}],
         session' \in [Conn -> [at : {"login", "new", "append", "again", "play"},
                                name : PName \cup {""}, word : Word \cup {""}]],
         p_pos' \in [Conn -> Pos], astray' \in [Conn -> BOOLEAN],
         \A q \in Conn : q # p => /\ session'[q] = session[q] /\ p_pos'[q] = p_pos[q]
                                  /\ astray'[q] = astray[q],
         adding' \subseteq Conn, LockIsHeld', \A q \in Conn : Adder(q)',
         OwnTrue(p)', EntryTrue(p)', Named(p)'
  PROVE  RegIInv'
<1>1. RegTypeOK /\ Grows  BY SameGrows DEF RegIInv
<1>2. /\ entry' \in [Conn -> Record] /\ entry_pos' \in [Conn -> Pos]
      /\ \A q \in Conn : q # p => entry'[q] = entry[q] /\ entry_pos'[q] = entry_pos[q]
  BY <1>1 DEF RegTypeOK, Keep
<1>3. RegTypeOK'  BY <1>1, <1>2 DEF RegTypeOK
<1>4. UniqueNames'  BY DEF RegIInv, UniqueNames
<1>5. \A q \in Conn : OwnTrue(q)' /\ EntryTrue(q)' /\ Named(q)'
  BY <1>1, <1>2, GrowsKeeps
<1> QED  BY <1>3, <1>4, <1>5 DEF RegIInv

\* A login on what has been found: who may pass, or has that to try again.
LEMMA LogInIsTrue ==
  ASSUME RegIInv, NEW p \in Conn, NEW n \in PName, NEW w \in Word \cup {""}, NEW f,
         f.at \in Pos, f.got \in Record, f.at # 0,
         ~astray'[p] => /\ f.at \in 1 .. Len(file)
                        /\ file[f.at].name = n /\ f.got.name = n
                        /\ n \in changed \/ f.got.word = file[f.at].word,
         UNCHANGED <<file, changed>>, LogIn(p, n, w, f)
  PROVE  /\ session' \in [Conn -> [at : {"login", "new", "append", "again", "play"},
                                   name : PName \cup {""}, word : Word \cup {""}]]
         /\ \A q \in Conn : q # p => session'[q] = session[q] /\ p_pos'[q] = p_pos[q]
         /\ session'[p].at \in {"login", "play"}
         /\ p_pos' \in [Conn -> Pos] /\ leftover' \in [Conn -> PName \cup {""}]
         /\ \E r \in Record, k \in Pos : Keep(p, r, k)
         /\ OwnTrue(p)' /\ EntryTrue(p)' /\ Named(p)'
<1>1. RegTypeOK  BY DEF RegIInv
<1>2. NoRecord \in Record /\ 0 \in Pos  BY Nothing
<1>3. CASE f.got.word = w
  <2>1. /\ session' = [session EXCEPT ![p] = [at |-> "play", name |-> n, word |-> w]]
        /\ p_pos' = [p_pos EXCEPT ![p] = f.at]
        /\ Keep(p, NoRecord, 0) /\ leftover' = [leftover EXCEPT ![p] = ""]
    BY <1>3 DEF LogIn, Plays
  <2>2. /\ session' \in [Conn -> [at : {"login", "new", "append", "again", "play"},
                                  name : PName \cup {""}, word : Word \cup {""}]]
        /\ session'[p].at = "play" /\ session'[p].name = n /\ session'[p].word = w
        /\ \A q \in Conn : q # p => session'[q] = session[q]
    BY <1>1, <2>1 DEF RegTypeOK
  <2>3. /\ p_pos' \in [Conn -> Pos] /\ p_pos'[p] = f.at
        /\ \A q \in Conn : q # p => p_pos'[q] = p_pos[q]
    BY <1>1, <2>1 DEF RegTypeOK
  <2>4. leftover' \in [Conn -> PName \cup {""}]  BY <1>1, <2>1 DEF RegTypeOK
  <2>5. OwnTrue(p)'  BY <1>3, <2>2, <2>3 DEF OwnTrue
  <2>6. entry_pos'[p] = 0  BY <1>1, <2>1 DEF Keep, RegTypeOK
  <2>7. EntryTrue(p)'  BY <2>6 DEF EntryTrue
  <2>8. Named(p)'  BY <2>2, <2>3 DEF Named
  <2> QED  BY <1>2, <2>1, <2>2, <2>3, <2>4, <2>5, <2>7, <2>8
<1>4. CASE f.got.word # w
  <2>1. /\ session' = [session EXCEPT ![p] = AtLogin]
        /\ Keep(p, f.got, f.at) /\ UNCHANGED <<p_pos, leftover>>
    BY <1>4 DEF LogIn
  <2>2. /\ session' \in [Conn -> [at : {"login", "new", "append", "again", "play"},
                                  name : PName \cup {""}, word : Word \cup {""}]]
        /\ session'[p].at = "login"
        /\ \A q \in Conn : q # p => session'[q] = session[q]
    BY <1>1, <2>1 DEF RegTypeOK, AtLogin
  <2>3. /\ p_pos' \in [Conn -> Pos] /\ leftover' \in [Conn -> PName \cup {""}]
        /\ \A q \in Conn : p_pos'[q] = p_pos[q]
    BY <1>1, <2>1 DEF RegTypeOK
  <2>4. OwnTrue(p)' /\ Named(p)'  BY <2>2 DEF OwnTrue, Named
  <2>5. entry_pos'[p] = f.at /\ entry'[p] = f.got  BY <1>1, <2>1 DEF Keep, RegTypeOK
  <2>6. EntryTrue(p)'  BY <2>5 DEF EntryTrue
  <2> QED  BY <2>1, <2>2, <2>3, <2>4, <2>6
<1> QED  BY <1>3, <1>4

\* The lock and the names that are about to be appended, when the file is left
\* alone and nobody else moves.
LEMMA LockKeeps ==
  ASSUME RegIInv, NEW p \in Conn, UNCHANGED <<file, adding>>,
         \A q \in Conn : q # p => session'[q] = session[q],
         session[p].at # "append", session'[p].at # "append"
  PROVE  adding' \subseteq Conn /\ LockIsHeld' /\ \A q \in Conn : Adder(q)'
<1>1. adding \subseteq Conn /\ LockIsHeld /\ \A q \in Conn : Adder(q)
  BY DEF RegIInv, RegTypeOK
<1>2. p \notin adding  BY <1>1 DEF LockIsHeld
<1>3. LockIsHeld'  BY <1>1, <1>2 DEF LockIsHeld
<1>4. \A q \in Conn : Adder(q)'  BY <1>1 DEF Adder
<1> QED  BY <1>1, <1>3, <1>4

\* handleLogin(), a query.
LEMMA QueryStep ==
  ASSUME RegIInv, NEW p \in Conn, NEW n \in PName, Query(p, n) PROVE RegIInv'
<1> DEFINE f == LookUp(p, n)
<1>1. RegTypeOK  BY DEF RegIInv
<1>2. /\ session[p].at = "login" /\ Keep(p, f.got, f.at) /\ index' = f.index
      /\ UNCHANGED <<file, adding, leftover, session, p_pos, changed, astray>>
  BY DEF Query
<1>3. /\ f.at \in Pos /\ f.got \in Record /\ f.index \in [PName -> Pos]
      /\ f.at # 0 /\ ~astray[p] =>
              /\ f.at \in 1 .. Len(file) /\ file[f.at].name = n /\ f.got.name = n
              /\ n \in changed \/ f.got.word = file[f.at].word
  BY LooksUp
<1> HIDE DEF f
<1>4. entry'[p] = f.got /\ entry_pos'[p] = f.at  BY <1>1, <1>2 DEF Keep, RegTypeOK
<1>5. EntryTrue(p)'  BY <1>2, <1>3, <1>4 DEF EntryTrue
<1>6. OwnTrue(p)' /\ Named(p)'  BY <1>2 DEF OwnTrue, Named
<1>7. adding' \subseteq Conn /\ LockIsHeld' /\ \A q \in Conn : Adder(q)'
  BY <1>2, LockKeeps
<1> QED  BY <1>1, <1>2, <1>3, <1>5, <1>6, <1>7, OneKeeps DEF RegTypeOK

\* handleLogin(), an attempt.
LEMMA AttemptStep ==
  ASSUME RegIInv, NEW p \in Conn, NEW n \in PName, NEW w \in Word, Attempt(p, n, w)
  PROVE  RegIInv'
<1> DEFINE f == LookUp(p, n)
<1>1. RegTypeOK  BY DEF RegIInv
<1>2. /\ session[p].at = "login" /\ index' = f.index
      /\ UNCHANGED <<file, adding, changed, astray>>
      /\ f.at # 0 => LogIn(p, n, w, f)
      /\ f.at = 0 =>
           /\ session' = [session EXCEPT ![p] = [at |-> "new", name |-> n, word |-> w]]
           /\ Keep(p, f.got, f.at) /\ UNCHANGED <<p_pos, leftover>>
  BY DEF Attempt
<1>3. /\ f.at \in Pos /\ f.got \in Record /\ f.index \in [PName -> Pos]
      /\ f.at # 0 /\ ~astray[p] =>
              /\ f.at \in 1 .. Len(file) /\ file[f.at].name = n /\ f.got.name = n
              /\ n \in changed \/ f.got.word = file[f.at].word
  BY LooksUp
<1> HIDE DEF f
<1>4. CASE f.at # 0
  <2>1. /\ session' \in [Conn -> [at : {"login", "new", "append", "again", "play"},
                                  name : PName \cup {""}, word : Word \cup {""}]]
        /\ \A q \in Conn : q # p => session'[q] = session[q] /\ p_pos'[q] = p_pos[q]
        /\ session'[p].at \in {"login", "play"}
        /\ p_pos' \in [Conn -> Pos] /\ leftover' \in [Conn -> PName \cup {""}]
        /\ \E r \in Record, k \in Pos : Keep(p, r, k)
        /\ OwnTrue(p)' /\ EntryTrue(p)' /\ Named(p)'
    BY <1>2, <1>3, <1>4, LogInIsTrue
  <2>2. adding' \subseteq Conn /\ LockIsHeld' /\ \A q \in Conn : Adder(q)'
    BY <1>2, <2>1, LockKeeps
  <2>3. PICK r \in Record, k \in Pos : Keep(p, r, k)  BY <2>1
  <2> QED  BY <1>1, <1>2, <1>3, <2>1, <2>2, <2>3, OneKeeps DEF RegTypeOK
<1>5. CASE f.at = 0
  <2>0. session' = [session EXCEPT ![p] = [at |-> "new", name |-> n, word |-> w]]
    BY <1>2, <1>5
  <2>1. /\ session' \in [Conn -> [at : {"login", "new", "append", "again", "play"},
                                  name : PName \cup {""}, word : Word \cup {""}]]
        /\ session'[p].at = "new" /\ session'[p].name = n
        /\ \A q \in Conn : q # p => session'[q] = session[q]
    BY <1>1, <2>0 DEF RegTypeOK
  <2>2. adding' \subseteq Conn /\ LockIsHeld' /\ \A q \in Conn : Adder(q)'
    BY <1>2, <2>1, LockKeeps
  <2>3. entry_pos'[p] = 0  BY <1>1, <1>2, <1>5 DEF Keep, RegTypeOK
  <2>4. OwnTrue(p)' /\ EntryTrue(p)' /\ Named(p)'
    BY <2>1, <2>3 DEF OwnTrue, EntryTrue, Named
  <2> QED  BY <1>1, <1>2, <1>3, <1>5, <2>1, <2>2, <2>4, OneKeeps DEF RegTypeOK
<1> QED  BY <1>4, <1>5

\* newplayer(), under the lock: the name is new, or somebody has it.
LEMMA LockAddStep ==
  ASSUME RegIInv, NEW p \in Conn, LockAdd(p) PROVE RegIInv'
<1> DEFINE n == session[p].name
           w == session[p].word
           held == [name |-> leftover[p], word |-> ""]
           f == Find(n, held)
<1>1. RegTypeOK  BY DEF RegIInv
<1>2. /\ session[p].at = "new" /\ adding = {}
      /\ Keep(p, [name |-> n, word |-> w], 0)
      /\ leftover' = [leftover EXCEPT ![p] = n] /\ index' = f.index
      /\ f.at = 0 => /\ adding' = {p} /\ session' = [session EXCEPT ![p].at = "append"]
                     /\ UNCHANGED astray
      /\ f.at # 0 => /\ session' = [session EXCEPT ![p].at = "again"]
                     /\ astray' = [astray EXCEPT ![p] = @ \/ (Hint(n, leftover[p]) /\ Blind(n))]
                     /\ UNCHANGED adding
      /\ UNCHANGED <<file, p_pos, changed>>
  BY DEF LockAdd
<1>3. n \in PName /\ w \in Word \cup {""}
  <2>1. Named(p)  BY DEF RegIInv
  <2> QED  BY <1>1, <1>2, <2>1 DEF Named, RegTypeOK
<1>4. held \in Record
  <2>1. leftover[p] \in PName \cup {""}  BY <1>1 DEF RegTypeOK
  <2> QED  BY <2>1, ARecord
<1>5. f.index \in [PName -> Pos] /\ (f.at = 0 => \A i \in 1 .. Len(file) : file[i].name # n)
  BY <1>1, <1>3, <1>4, Finds
<1>6. [name |-> n, word |-> w] \in Record /\ 0 \in Pos
  <2>1. [name |-> n, word |-> w] \in Record  BY <1>3, ARecord
  <2> QED  BY <2>1, Nothing
<1> HIDE DEF f, held
<1>7. leftover' \in [Conn -> PName \cup {""}] /\ astray' \in [Conn -> BOOLEAN]
      /\ \A q \in Conn : q # p => astray'[q] = astray[q]
  <2>1. leftover' \in [Conn -> PName \cup {""}]  BY <1>1, <1>2, <1>3 DEF RegTypeOK
  <2>2. \/ astray' = astray
        \/ astray' = [astray EXCEPT ![p] = @ \/ (Hint(n, leftover[p]) /\ Blind(n))]
    BY <1>2
  <2>3. astray' \in [Conn -> BOOLEAN] /\ \A q \in Conn : q # p => astray'[q] = astray[q]
    BY <1>1, <2>2 DEF RegTypeOK
  <2> QED  BY <2>1, <2>3
<1>8. /\ session' \in [Conn -> [at : {"login", "new", "append", "again", "play"},
                                name : PName \cup {""}, word : Word \cup {""}]]
      /\ session'[p].at = IF f.at = 0 THEN "append" ELSE "again"
      /\ session'[p].name = n
      /\ \A q \in Conn : q # p => session'[q] = session[q]
  <2> DEFINE l == IF f.at = 0 THEN "append" ELSE "again"
  <2>1. session' = [session EXCEPT ![p].at = l] /\ l \in {"append", "again"}
    BY <1>2
  <2> HIDE DEF l
  <2>2. /\ session' \in [Conn -> [at : {"login", "new", "append", "again", "play"},
                                  name : PName \cup {""}, word : Word \cup {""}]]
        /\ session'[p].at = l /\ session'[p].name = n
        /\ \A q \in Conn : q # p => session'[q] = session[q]
    BY ZenonT(60), <1>1, <2>1 DEF RegTypeOK
  <2> QED  BY <2>2 DEF l
<1>9. entry_pos'[p] = 0  BY <1>1, <1>2 DEF Keep, RegTypeOK
<1> HIDE DEF n, w
<1>10. OwnTrue(p)' /\ EntryTrue(p)' /\ Named(p)'
  BY <1>3, <1>8, <1>9 DEF OwnTrue, EntryTrue, Named
<1>11. adding' \subseteq Conn /\ LockIsHeld' /\ \A q \in Conn : Adder(q)'
  <2>1. \A q \in Conn : session[q].at # "append"  BY <1>2 DEF RegIInv, Adder
  <2>2. CASE f.at = 0
    <3>1. adding' = {p} /\ session'[p].at = "append"  BY <1>2, <1>8, <2>2
    <3>2. Adder(p)'  BY <1>2, <1>5, <1>8, <2>2, <3>1 DEF Adder
    <3>3. \A q \in Conn : q # p => Adder(q)'  BY <1>8, <2>1 DEF Adder
    <3> QED  BY <3>1, <3>2, <3>3 DEF LockIsHeld
  <2>3. CASE f.at # 0
    BY <1>2, <1>8, <2>3, LockKeeps
  <2> QED  BY <2>2, <2>3
<1>12. p_pos' \in [Conn -> Pos]  BY <1>1, <1>2 DEF RegTypeOK
<1> QED  BY <1>2, <1>5, <1>6, <1>7, <1>8, <1>10, <1>11, <1>12, OneKeeps

\* handleLogin(), when another has taken the name.
LEMMA AgainStep ==
  ASSUME RegIInv, NEW p \in Conn, Again(p) PROVE RegIInv'
<1> DEFINE n == session[p].name
           w == session[p].word
           f == Find(n, entry[p])
<1>1. RegTypeOK  BY DEF RegIInv
<1>2. /\ session[p].at = "again" /\ index' = f.index
      /\ f.at = 0 => /\ session' = [session EXCEPT ![p] = AtLogin] /\ Keep(p, f.got, 0)
                     /\ UNCHANGED <<p_pos, leftover, astray>>
      /\ f.at # 0 => LogIn(p, n, w, f) /\ astray' = [astray EXCEPT ![p] = @ \/ Blind(n)]
      /\ UNCHANGED <<file, adding, changed>>
  BY DEF Again
<1>3. n \in PName /\ w \in Word \cup {""} /\ entry[p] \in Record
  <2>1. Named(p)  BY DEF RegIInv
  <2> QED  BY <1>1, <1>2, <2>1 DEF Named, RegTypeOK
<1>4. /\ f.at \in Pos /\ f.got \in Record /\ f.index \in [PName -> Pos]
      /\ f.at # 0 /\ ~(Hint(n, entry[p].name) /\ Blind(n)) =>
           f.at \in 1 .. Len(file) /\ f.got = file[f.at] /\ file[f.at].name = n
  BY <1>1, <1>3, Finds
<1> HIDE DEF f, n, w
<1>5. CASE f.at = 0
  <2>0. session' = [session EXCEPT ![p] = AtLogin]  BY <1>2, <1>5
  <2>1. /\ session' \in [Conn -> [at : {"login", "new", "append", "again", "play"},
                                  name : PName \cup {""}, word : Word \cup {""}]]
        /\ session'[p].at = "login"
        /\ \A q \in Conn : q # p => session'[q] = session[q]
    BY <1>1, <2>0 DEF RegTypeOK, AtLogin
  <2>2. entry_pos'[p] = 0  BY <1>1, <1>2, <1>5 DEF Keep, RegTypeOK
  <2>3. OwnTrue(p)' /\ EntryTrue(p)' /\ Named(p)'
    BY <2>1, <2>2 DEF OwnTrue, EntryTrue, Named
  <2>4. adding' \subseteq Conn /\ LockIsHeld' /\ \A q \in Conn : Adder(q)'
    BY <1>2, <2>1, LockKeeps
  <2> QED  BY ZenonT(60), <1>1, <1>2, <1>4, <1>5, <2>1, <2>3, <2>4, OneKeeps DEF RegTypeOK
<1>6. CASE f.at # 0
  <2>1. /\ astray' \in [Conn -> BOOLEAN] /\ (~astray'[p] => ~Blind(n))
        /\ \A q \in Conn : q # p => astray'[q] = astray[q]
    BY <1>1, <1>2, <1>6 DEF RegTypeOK
  <2>2. ~astray'[p] => /\ f.at \in 1 .. Len(file)
                       /\ file[f.at].name = n /\ f.got.name = n
                       /\ n \in changed \/ f.got.word = file[f.at].word
    BY <1>4, <1>6, <2>1
  <2>3. /\ session' \in [Conn -> [at : {"login", "new", "append", "again", "play"},
                                  name : PName \cup {""}, word : Word \cup {""}]]
        /\ \A q \in Conn : q # p => session'[q] = session[q] /\ p_pos'[q] = p_pos[q]
        /\ session'[p].at \in {"login", "play"}
        /\ p_pos' \in [Conn -> Pos] /\ leftover' \in [Conn -> PName \cup {""}]
        /\ \E r \in Record, k \in Pos : Keep(p, r, k)
        /\ OwnTrue(p)' /\ EntryTrue(p)' /\ Named(p)'
    BY <1>2, <1>3, <1>4, <1>6, <2>2, LogInIsTrue
  <2>4. adding' \subseteq Conn /\ LockIsHeld' /\ \A q \in Conn : Adder(q)'
    BY <1>2, <2>3, LockKeeps
  <2>5. PICK r \in Record, k \in Pos : Keep(p, r, k)  BY <2>3
  <2> QED  BY <1>2, <1>4, <2>1, <2>3, <2>4, <2>5, OneKeeps
<1> QED  BY <1>5, <1>6

\* A record more.
LEMMA OneMore ==
  ASSUME file \in Seq(Record), NEW r \in Record, file' = Append(file, r)
  PROVE  /\ file' \in Seq(Record) /\ Len(file') = Len(file) + 1
         /\ \A i \in 1 .. Len(file) : file'[i] = file[i]
         /\ file'[Len(file) + 1] = r
BY AppendProperties

\* ... is the new one.
LEMMA OldOrNew == ASSUME NEW k \in Nat, NEW i \in 1 .. k + 1 PROVE i \in 1 .. k \/ i = k + 1
OBVIOUS

\* newplayer(), the record.
LEMMA AppendRecordStep ==
  ASSUME RegIInv, NEW p \in Conn, AppendRecord(p) PROVE RegIInv'
<1> DEFINE n == session[p].name
           w == session[p].word
           r == [name |-> n, word |-> w]
<1>1. RegTypeOK /\ Adder(p) /\ Named(p) /\ \A q \in Conn : Adder(q)  BY DEF RegIInv
<1>2. /\ session[p].at = "append" /\ adding' = {} /\ UNCHANGED <<index, changed>>
      /\ \/ /\ Len(file) < MaxFile /\ Plays(p, n, w, Len(file) + 1)
            /\ \/ file' = Append(file, r) /\ UNCHANGED astray
               \/ astray' = [astray EXCEPT ![p] = TRUE] /\ UNCHANGED file
         \/ /\ session' = [session EXCEPT ![p] = AtLogin]
            /\ UNCHANGED <<file, p_pos, entry, entry_pos, leftover, astray>>
  BY DEF AppendRecord
<1>3. n \in PName /\ w \in Word \cup {""} /\ r \in Record
  <2>1. n \in PName /\ w \in Word \cup {""}  BY <1>1, <1>2 DEF Named, RegTypeOK
  <2> QED  BY <2>1, ARecord
<1>4. adding = {p} /\ \A i \in 1 .. Len(file) : file[i].name # n  BY <1>1, <1>2 DEF Adder
<1>5. \A q \in Conn : q # p => session[q].at # "append"  BY <1>1, <1>4 DEF Adder
<1>6. file \in Seq(Record) /\ Len(file) \in Nat /\ MaxFile \in Nat
  BY <1>1, LenProperties, RegisterAssumption DEF RegTypeOK
<1> HIDE DEF r, n, w
<1>7. ASSUME \A q \in Conn : q # p => session'[q] = session[q], session'[p].at # "append"
      PROVE  adding' \subseteq Conn /\ LockIsHeld' /\ \A q \in Conn : Adder(q)'
  BY <1>2, <1>5, <1>7 DEF LockIsHeld, Adder
<1>8. CASE Len(file) < MaxFile /\ Plays(p, n, w, Len(file) + 1)
  <2>1. /\ session' = [session EXCEPT ![p] = [at |-> "play", name |-> n, word |-> w]]
        /\ p_pos' = [p_pos EXCEPT ![p] = Len(file) + 1]
        /\ Keep(p, NoRecord, 0) /\ leftover' = [leftover EXCEPT ![p] = ""]
    BY <1>8 DEF Plays
  <2>2. /\ session' \in [Conn -> [at : {"login", "new", "append", "again", "play"},
                                  name : PName \cup {""}, word : Word \cup {""}]]
        /\ session'[p].at = "play" /\ session'[p].name = n /\ session'[p].word = w
        /\ \A q \in Conn : q # p => session'[q] = session[q]
    BY <1>1, <1>3, <2>1 DEF RegTypeOK
  <2>3. Len(file) + 1 \in Pos /\ Len(file) + 1 # 0  BY <1>6, <1>8 DEF Pos
  <2>4. /\ p_pos' \in [Conn -> Pos] /\ p_pos'[p] = Len(file) + 1
        /\ \A q \in Conn : q # p => p_pos'[q] = p_pos[q]
    BY <1>1, <2>1, <2>3 DEF RegTypeOK
  <2>5. leftover' \in [Conn -> PName \cup {""}]  BY <1>1, <2>1 DEF RegTypeOK
  <2>6. entry_pos'[p] = 0  BY <1>1, <2>1 DEF Keep, RegTypeOK
  <2>7. EntryTrue(p)' /\ Named(p)'  BY <1>3, <2>2, <2>3, <2>4, <2>6 DEF EntryTrue, Named
  <2>8. adding' \subseteq Conn /\ LockIsHeld' /\ \A q \in Conn : Adder(q)'
    BY <1>7, <2>2
  <2>9. CASE astray' = [astray EXCEPT ![p] = TRUE] /\ UNCHANGED file
    <3>1. astray' \in [Conn -> BOOLEAN] /\ astray'[p]
          /\ \A q \in Conn : q # p => astray'[q] = astray[q]
      BY <1>1, <2>9 DEF RegTypeOK
    <3>2. OwnTrue(p)'  BY <3>1 DEF OwnTrue
    <3>3. index' \in [PName -> Pos]  BY <1>1, <1>2 DEF RegTypeOK
    <3> QED  BY <1>2, <2>1, <2>2, <2>4, <2>5, <2>7, <2>8, <2>9, <3>1, <3>2, <3>3,
                Nothing, OneKeeps
  <2>10. CASE file' = Append(file, r) /\ UNCHANGED astray
    <3>1. /\ file' \in Seq(Record) /\ Len(file') = Len(file) + 1
          /\ \A i \in 1 .. Len(file) : file'[i] = file[i]
          /\ file'[Len(file) + 1] = r
      BY <1>3, <1>6, <2>10, OneMore
    <3>2. r.name = n /\ r.word = w  BY DEF r
    <3>3. Grows  BY <1>2, <1>6, <3>1 DEF Grows
    <3>4. OwnTrue(p)'
      <4>1. Len(file) + 1 \in 1 .. Len(file')  BY <1>6, <3>1
      <4>2. p_pos'[p] \in 1 .. Len(file') /\ file'[p_pos'[p]] = r  BY <2>4, <3>1, <4>1
      <4> QED  BY <2>2, <3>2, <4>2 DEF OwnTrue
    <3>5. /\ entry' \in [Conn -> Record] /\ entry_pos' \in [Conn -> Pos]
          /\ \A q \in Conn : q # p => entry'[q] = entry[q] /\ entry_pos'[q] = entry_pos[q]
      BY <1>1, <2>1, Nothing DEF RegTypeOK, Keep
    <3>6. \A q \in Conn : q # p => OwnTrue(q)' /\ EntryTrue(q)' /\ Named(q)'
      BY <2>2, <2>4, <2>10, <3>3, <3>5, GrowsKeeps
    <3>7. RegTypeOK'
      <4>1. Len(file') <= MaxFile  BY <1>6, <1>8, <3>1
      <4> QED  BY <1>1, <1>2, <2>2, <2>4, <2>5, <2>8, <2>10, <3>1, <3>5, <4>1 DEF RegTypeOK
    <3>8. UniqueNames'
      <4> SUFFICES ASSUME NEW i \in 1 .. Len(file) + 1, NEW j \in 1 .. Len(file) + 1,
                          file'[i].name = file'[j].name, file'[i].name # ""
                   PROVE  i = j
        BY <3>1 DEF UniqueNames
      <4>1. CASE i \in 1 .. Len(file) /\ j \in 1 .. Len(file)
        BY <3>1, <4>1 DEF RegIInv, UniqueNames
      <4>2. CASE i = Len(file) + 1 /\ j \in 1 .. Len(file)  BY <1>4, <3>1, <3>2, <4>2
      <4>3. CASE i \in 1 .. Len(file) /\ j = Len(file) + 1  BY <1>4, <3>1, <3>2, <4>3
      <4>4. i \in 1 .. Len(file) \/ i = Len(file) + 1  BY <1>6, OldOrNew
      <4>5. j \in 1 .. Len(file) \/ j = Len(file) + 1  BY <1>6, OldOrNew
      <4> QED  BY <4>1, <4>2, <4>3, <4>4, <4>5
    <3> QED  BY <2>7, <2>8, <3>4, <3>6, <3>7, <3>8 DEF RegIInv
  <2> QED  BY <1>2, <2>1, <2>2, <2>9, <2>10 DEF AtLogin
<1>9. CASE /\ session' = [session EXCEPT ![p] = AtLogin]
           /\ UNCHANGED <<file, p_pos, entry, entry_pos, leftover, astray>>
  <2>1. /\ session' \in [Conn -> [at : {"login", "new", "append", "again", "play"},
                                  name : PName \cup {""}, word : Word \cup {""}]]
        /\ session'[p].at = "login"
        /\ \A q \in Conn : q # p => session'[q] = session[q]
    BY <1>1, <1>9 DEF RegTypeOK, AtLogin
  <2>2. EntryTrue(p)  BY DEF RegIInv
  <2>3. OwnTrue(p)' /\ EntryTrue(p)' /\ Named(p)'
    BY <1>2, <1>9, <2>1, <2>2 DEF OwnTrue, EntryTrue, Named
  <2>4. adding' \subseteq Conn /\ LockIsHeld' /\ \A q \in Conn : Adder(q)'
    BY <1>7, <2>1
  <2>5. Keep(p, entry[p], entry_pos[p]) /\ entry[p] \in Record /\ entry_pos[p] \in Pos
    BY <1>1, <1>9 DEF Keep, RegTypeOK
  <2> QED  BY <1>1, <1>2, <1>9, <2>1, <2>3, <2>4, <2>5, OneKeeps DEF RegTypeOK
<1> QED  BY <1>2, <1>8, <1>9

\* write() at a record: the old ones stay, and what is new is empty.
LEMMA WriteAtKeeps ==
  ASSUME RegTypeOK, NEW k \in Pos
  PROVE  LET g == WriteAt(k) IN
         /\ g \in Seq(Record) /\ Len(file) <= Len(g) /\ Len(g) <= MaxFile
         /\ k # 0 => k \in 1 .. Len(g)
         /\ \A i \in 1 .. Len(file) : g[i] = file[i]
         /\ \A i \in 1 .. Len(g) : i > Len(file) => g[i] = NoRecord
<1> DEFINE n == Len(file)
           m == IF k > n THEN k - n ELSE 0
           e == [i \in 1 .. m |-> NoRecord]
           g == file \o e
<1>1. file \in Seq(Record) /\ n \in Nat /\ n <= MaxFile  BY LenProperties DEF RegTypeOK
<1>0. MaxFile \in Nat  BY RegisterAssumption
<1>2. k \in Nat /\ k <= MaxFile  BY <1>0 DEF Pos
<1>3. m \in Nat /\ n + m <= MaxFile /\ (k # 0 => k \in 1 .. n + m)  BY <1>0, <1>1, <1>2
<1>4. WriteAt(k) = g  BY DEF WriteAt
<1> HIDE DEF n, m
<1>5. e \in Seq(Record) /\ Len(e) = m /\ \A i \in 1 .. m : e[i] = NoRecord
  BY <1>3, Nothing
<1> HIDE DEF e
<1>6. /\ g \in Seq(Record) /\ Len(g) = n + m
      /\ \A i \in 1 .. n + m : g[i] = IF i <= n THEN file[i] ELSE e[i - n]
  BY <1>1, <1>5, ConcatProperties DEF n
<1> HIDE DEF g
<1>7. \A i \in 1 .. n : g[i] = file[i]  BY <1>1, <1>3, <1>6
<1>8. \A i \in 1 .. n + m : i > n => g[i] = NoRecord
  <2> SUFFICES ASSUME NEW i \in 1 .. n + m, i > n PROVE g[i] = NoRecord  OBVIOUS
  <2>1. i - n \in 1 .. m /\ ~(i <= n)  BY <1>1, <1>3
  <2> QED  BY <1>5, <1>6, <2>1
<1>9. n <= Len(g) /\ Len(g) <= MaxFile /\ (k # 0 => k \in 1 .. Len(g))
  BY <1>1, <1>3, <1>6
<1> QED  BY <1>4, <1>6, <1>7, <1>8, <1>9 DEF n

\* What is written where one plays brings no name that was not there.
LEMMA NamesStay ==
  ASSUME RegIInv, file' \in Seq(Record),
         \A i \in 1 .. Len(file') :
           /\ i \in 1 .. Len(file) => file'[i].name = file[i].name
           /\ i \notin 1 .. Len(file) => file'[i].name = ""
  PROVE  /\ UniqueNames'
         /\ \A n \in PName : (\A i \in 1 .. Len(file) : file[i].name # n)
                                => \A i \in 1 .. Len(file') : file'[i].name # n
<1>1. ASSUME NEW i \in 1 .. Len(file'), file'[i].name # ""
      PROVE  i \in 1 .. Len(file) /\ file'[i].name = file[i].name
  BY <1>1
<1>2. UniqueNames'  BY <1>1 DEF RegIInv, UniqueNames
<1> QED  BY <1>1, <1>2, SomeName

\* changepassword(), savepass().
LEMMA ChangeWordStep ==
  ASSUME RegIInv, NEW p \in Conn, NEW w \in Word, ChangeWord(p, w) PROVE RegIInv'
<1> DEFINE k == p_pos[p]
           g == WriteAt(k)
<1>1. RegTypeOK /\ Named(p)  BY DEF RegIInv
<1>2. /\ session[p].at = "play" /\ file' = [g EXCEPT ![k].word = w]
      /\ changed' = changed \cup ({file'[k].name} \cap PName)
      /\ UNCHANGED <<index, adding, entry, entry_pos, leftover, session, p_pos, astray>>
  BY DEF ChangeWord
<1>3. k \in Pos /\ k # 0  BY <1>1, <1>2 DEF Named, RegTypeOK
<1>4. /\ g \in Seq(Record) /\ Len(file) <= Len(g) /\ Len(g) <= MaxFile /\ k \in 1 .. Len(g)
      /\ \A i \in 1 .. Len(file) : g[i] = file[i]
      /\ \A i \in 1 .. Len(g) : i > Len(file) => g[i] = NoRecord
  BY <1>1, <1>3, WriteAtKeeps
<1> HIDE DEF g, k
<1> DEFINE r == [g[k] EXCEPT !.word = w]
<1>5. g[k] \in Record  BY <1>4, ElementOfSeq
<1>6. r \in Record /\ r.name = g[k].name  BY <1>5 DEF Record
<1> HIDE DEF r
<1>7. file' = [g EXCEPT ![k] = r]  BY <1>2 DEF r
<1>8. /\ file' \in Seq(Record) /\ Len(file') = Len(g)
      /\ \A i \in 1 .. Len(g) : file'[i] = IF i = k THEN r ELSE g[i]
  BY <1>4, <1>6, <1>7, ExceptSeq
<1>9. Len(file) \in Nat /\ Len(g) \in Nat  BY <1>1, <1>4, LenProperties DEF RegTypeOK
<1>10. \A i \in 1 .. Len(file') :
           /\ i \in 1 .. Len(file) => file'[i].name = file[i].name
           /\ i \notin 1 .. Len(file) => file'[i].name = ""
  <2> SUFFICES ASSUME NEW i \in 1 .. Len(g)
               PROVE  /\ i \in 1 .. Len(file) => g[i].name = file[i].name
                      /\ i \notin 1 .. Len(file) => g[i].name = ""
    BY <1>6, <1>8
  <2>1. i \in 1 .. Len(file) \/ i > Len(file)  BY <1>9
  <2>2. i > Len(file) => i \notin 1 .. Len(file)  BY <1>9
  <2>3. NoRecord.name = ""  BY DEF NoRecord
  <2>4. CASE i \in 1 .. Len(file)  BY <1>4, <2>4
  <2>5. CASE i > Len(file)
    <3>1. g[i] = NoRecord  BY <1>4, <2>5
    <3> QED  BY <2>2, <2>3, <2>5, <3>1
  <2> QED  BY <2>1, <2>4, <2>5
<1>11. Grows
  <2>1. \A i \in 1 .. Len(file) : i \in 1 .. Len(file')  BY <1>4, <1>8, <1>9
  <2>2. ASSUME NEW i \in 1 .. Len(file), file[i].name \in PName
        PROVE  file'[i].word = file[i].word \/ file[i].name \in changed'
    <3>1. CASE i = k  BY <1>2, <1>10, <2>1, <2>2, <3>1
    <3>2. CASE i # k  BY <1>4, <1>8, <2>1, <3>2
    <3> QED  BY <3>1, <3>2
  <2> QED  BY <1>2, <1>4, <1>8, <1>10, <2>1, <2>2 DEF Grows
<1>12. UniqueNames' /\ \A n \in PName : (\A i \in 1 .. Len(file) : file[i].name # n)
                                => \A i \in 1 .. Len(file') : file'[i].name # n
  BY <1>8, <1>10, NamesStay
<1>13. \A q \in Conn : OwnTrue(q)' /\ EntryTrue(q)' /\ Named(q)'
  BY <1>2, <1>11, GrowsKeeps
<1>14. \A q \in Conn : Adder(q)'
  BY <1>2, <1>12 DEF RegIInv, Adder, Named
<1>15. changed' \subseteq PName  BY <1>1, <1>2 DEF RegTypeOK
<1>16. RegTypeOK'  BY <1>1, <1>2, <1>4, <1>8, <1>15 DEF RegTypeOK
<1>17. LockIsHeld'  BY <1>2 DEF RegIInv, LockIsHeld
<1> QED  BY <1>12, <1>13, <1>14, <1>16, <1>17 DEF RegIInv

\* Who starts again plays under no name, and has found nobody.
LEMMA StartsAgainKeeps ==
  ASSUME RegTypeOK, NEW p \in Conn, StartsAgain(p)
  PROVE  /\ session' \in [Conn -> [at : {"login", "new", "append", "again", "play"},
                                   name : PName \cup {""}, word : Word \cup {""}]]
         /\ p_pos' \in [Conn -> Pos] /\ entry' \in [Conn -> Record]
         /\ entry_pos' \in [Conn -> Pos] /\ leftover' \in [Conn -> PName \cup {""}]
         /\ astray' \in [Conn -> BOOLEAN]
         /\ session'[p].at = "login" /\ entry_pos'[p] = 0
         /\ \A q \in Conn : q # p =>
              /\ session'[q] = session[q] /\ p_pos'[q] = p_pos[q] /\ entry'[q] = entry[q]
              /\ entry_pos'[q] = entry_pos[q] /\ astray'[q] = astray[q]
         /\ OwnTrue(p)' /\ EntryTrue(p)' /\ Named(p)' /\ Adder(p)'
<1>1. /\ session' \in [Conn -> [at : {"login", "new", "append", "again", "play"},
                                name : PName \cup {""}, word : Word \cup {""}]]
      /\ session'[p].at = "login" /\ \A q \in Conn : q # p => session'[q] = session[q]
  BY DEF StartsAgain, RegTypeOK, AtLogin
<1>2. /\ entry' \in [Conn -> Record] /\ \A q \in Conn : q # p => entry'[q] = entry[q]
  BY Nothing DEF StartsAgain, RegTypeOK
<1>3. /\ p_pos' \in [Conn -> Pos] /\ \A q \in Conn : q # p => p_pos'[q] = p_pos[q]
  BY Nothing DEF StartsAgain, RegTypeOK
<1>4. /\ entry_pos' \in [Conn -> Pos] /\ entry_pos'[p] = 0
      /\ \A q \in Conn : q # p => entry_pos'[q] = entry_pos[q]
  BY Nothing DEF StartsAgain, RegTypeOK
<1>5. /\ leftover' \in [Conn -> PName \cup {""}]  BY DEF StartsAgain, RegTypeOK
<1>6. /\ astray' \in [Conn -> BOOLEAN] /\ \A q \in Conn : q # p => astray'[q] = astray[q]
  BY DEF StartsAgain, RegTypeOK
<1>7. OwnTrue(p)' /\ EntryTrue(p)' /\ Named(p)' /\ Adder(p)'
  BY <1>1, <1>4 DEF OwnTrue, EntryTrue, Named, Adder
<1> QED  BY <1>1, <1>2, <1>3, <1>4, <1>5, <1>6, <1>7

\* savestats(), at the end.
LEMMA LeaveGameStep ==
  ASSUME RegIInv, NEW p \in Conn, LeaveGame(p) PROVE RegIInv'
<1> DEFINE k == p_pos[p]
           g == WriteAt(k)
<1>1. RegTypeOK  BY DEF RegIInv
<1>2. /\ session[p].at = "play" /\ file' = g /\ StartsAgain(p)
      /\ UNCHANGED <<index, adding, changed>>
  BY DEF LeaveGame
<1>3. k \in Pos  BY <1>1 DEF RegTypeOK
<1>4. /\ g \in Seq(Record) /\ Len(file) <= Len(g) /\ Len(g) <= MaxFile
      /\ \A i \in 1 .. Len(file) : g[i] = file[i]
      /\ \A i \in 1 .. Len(g) : i > Len(file) => g[i] = NoRecord
  BY <1>1, <1>3, WriteAtKeeps
<1> HIDE DEF g, k
<1>5. Len(file) \in Nat /\ Len(g) \in Nat  BY <1>1, <1>4, LenProperties DEF RegTypeOK
<1>6. \A i \in 1 .. Len(file') :
           /\ i \in 1 .. Len(file) => file'[i].name = file[i].name
           /\ i \notin 1 .. Len(file) => file'[i].name = ""
  <2> SUFFICES ASSUME NEW i \in 1 .. Len(g), i \notin 1 .. Len(file) PROVE g[i].name = ""
    BY <1>2, <1>4
  <2>1. i > Len(file)  BY <1>5
  <2>2. g[i] = NoRecord  BY <1>4, <2>1
  <2>3. NoRecord.name = ""  BY DEF NoRecord
  <2> QED  BY <2>2, <2>3
<1>7. Grows  BY <1>2, <1>4 DEF Grows
<1>8. UniqueNames' /\ \A n \in PName : (\A i \in 1 .. Len(file) : file[i].name # n)
                                => \A i \in 1 .. Len(file') : file'[i].name # n
  BY <1>2, <1>4, <1>6, NamesStay
<1>9. /\ session' \in [Conn -> [at : {"login", "new", "append", "again", "play"},
                                   name : PName \cup {""}, word : Word \cup {""}]]
      /\ p_pos' \in [Conn -> Pos] /\ entry' \in [Conn -> Record]
      /\ entry_pos' \in [Conn -> Pos] /\ leftover' \in [Conn -> PName \cup {""}]
      /\ astray' \in [Conn -> BOOLEAN]
      /\ \A q \in Conn : q # p =>
           /\ session'[q] = session[q] /\ p_pos'[q] = p_pos[q] /\ entry'[q] = entry[q]
           /\ entry_pos'[q] = entry_pos[q] /\ astray'[q] = astray[q]
      /\ OwnTrue(p)' /\ EntryTrue(p)' /\ Named(p)' /\ Adder(p)'
  BY <1>1, <1>2, StartsAgainKeeps
<1>10. \A q \in Conn : q # p => OwnTrue(q)' /\ EntryTrue(q)' /\ Named(q)'
  BY <1>7, <1>9, GrowsKeeps
<1>11. ASSUME NEW q \in Conn, q # p PROVE Adder(q)'
  <2>1. Adder(q) /\ Named(q) /\ session'[q] = session[q]  BY <1>9, <1>11 DEF RegIInv
  <2> QED  BY <1>2, <1>8, <2>1 DEF Adder, Named
<1>12. RegTypeOK'  BY <1>1, <1>2, <1>4, <1>9 DEF RegTypeOK
<1>13. LockIsHeld'
  <2>1. p \notin adding  BY <1>2 DEF RegIInv, LockIsHeld
  <2> QED  BY <1>1, <1>2, <1>9, <2>1 DEF RegIInv, LockIsHeld, RegTypeOK
<1> QED  BY <1>8, <1>9, <1>10, <1>11, <1>12, <1>13 DEF RegIInv

\* The process is killed before it plays.
LEMMA KilledStep ==
  ASSUME RegIInv, NEW p \in Conn, Killed(p) PROVE RegIInv'
<1>1. RegTypeOK  BY DEF RegIInv
<1>2. StartsAgain(p) /\ adding' = adding \ {p} /\ UNCHANGED <<file, index, changed>>
  BY DEF Killed
<1>3. Grows  BY <1>1, <1>2, SameGrows
<1>4. /\ session' \in [Conn -> [at : {"login", "new", "append", "again", "play"},
                                   name : PName \cup {""}, word : Word \cup {""}]]
      /\ p_pos' \in [Conn -> Pos] /\ entry' \in [Conn -> Record]
      /\ entry_pos' \in [Conn -> Pos] /\ leftover' \in [Conn -> PName \cup {""}]
      /\ astray' \in [Conn -> BOOLEAN]
      /\ \A q \in Conn : q # p =>
           /\ session'[q] = session[q] /\ p_pos'[q] = p_pos[q] /\ entry'[q] = entry[q]
           /\ entry_pos'[q] = entry_pos[q] /\ astray'[q] = astray[q]
      /\ OwnTrue(p)' /\ EntryTrue(p)' /\ Named(p)' /\ Adder(p)'
  BY <1>1, <1>2, StartsAgainKeeps
<1>5. \A q \in Conn : q # p => OwnTrue(q)' /\ EntryTrue(q)' /\ Named(q)'
  BY <1>3, <1>4, GrowsKeeps
<1>6. ASSUME NEW q \in Conn, q # p PROVE Adder(q)'
  <2>1. Adder(q)  BY DEF RegIInv
  <2> QED  BY ZenonT(60), <1>2, <1>4, <1>6, <2>1 DEF Adder
<1>7. RegTypeOK'  BY <1>1, <1>2, <1>4 DEF RegTypeOK
<1>8. LockIsHeld'  BY <1>1, <1>2, <1>4 DEF RegIInv, LockIsHeld, RegTypeOK
<1>9. UniqueNames'  BY <1>2 DEF RegIInv, UniqueNames
<1> QED  BY <1>4, <1>5, <1>6, <1>7, <1>8, <1>9 DEF RegIInv

\* What is in a sequence without one of its elements.
LEMMA Dropped ==
  ASSUME NEW S, NEW q \in Seq(S), NEW i \in 1 .. Len(q)
  PROVE  LET r == RemoveAt(q, i) IN
         /\ r \in Seq(S) /\ Len(r) = Len(q) - 1
         /\ \A k \in 1 .. Len(q) - 1 : r[k] = IF k < i THEN q[k] ELSE q[k + 1]
<1> DEFINE n == Len(q)
           a == SubSeq(q, 1, i - 1)
           b == SubSeq(q, i + 1, n)
           r == a \o b
<1>1. n \in Nat /\ i \in Nat /\ 1 <= i /\ i <= n  BY LenProperties
<1>2. \A k \in 1 .. n : q[k] \in S  BY ElementOfSeq
<1>3. /\ a \in Seq(S) /\ Len(a) = IF 1 <= i - 1 THEN i - 1 - 1 + 1 ELSE 0
      /\ \A k \in 1 .. i - 1 - 1 + 1 : a[k] = q[1 + k - 1]
  <2>1. \A k \in 1 .. i - 1 : q[k] \in S  BY <1>1, <1>2
  <2> QED  BY <1>1, <2>1, SubSeqProperties
<1>4. /\ b \in Seq(S) /\ Len(b) = IF i + 1 <= n THEN n - (i + 1) + 1 ELSE 0
      /\ \A k \in 1 .. n - (i + 1) + 1 : b[k] = q[i + 1 + k - 1]
  <2>1. \A k \in i + 1 .. n : q[k] \in S  BY <1>1, <1>2
  <2> QED  BY <1>1, <2>1, SubSeqProperties
<1>5. RemoveAt(q, i) = r  BY DEF RemoveAt
<1> HIDE DEF n, a, b
<1>6. Len(a) = i - 1 /\ Len(b) = n - i  BY <1>1, <1>3, <1>4
<1>7. /\ r \in Seq(S) /\ Len(r) = Len(a) + Len(b)
      /\ \A k \in 1 .. Len(a) + Len(b) : r[k] = IF k <= Len(a) THEN a[k] ELSE b[k - Len(a)]
  BY <1>3, <1>4, ConcatProperties
<1> HIDE DEF r
<1>8. ASSUME NEW k \in 1 .. n - 1 PROVE r[k] = IF k < i THEN q[k] ELSE q[k + 1]
  <2>1. k \in 1 .. Len(a) + Len(b)  BY <1>1, <1>6
  <2>2. CASE k < i
    <3>1. k <= Len(a) /\ k \in 1 .. i - 1 - 1 + 1 /\ 1 + k - 1 = k  BY <1>1, <1>6, <2>2
    <3>2. r[k] = a[k] /\ a[k] = q[1 + k - 1]  BY <1>3, <1>7, <2>1, <3>1
    <3> QED  BY <2>2, <3>1, <3>2
  <2>3. CASE ~(k < i)
    <3>1. /\ ~(k <= Len(a)) /\ k - Len(a) \in 1 .. n - (i + 1) + 1
          /\ i + 1 + (k - Len(a)) - 1 = k + 1
      BY <1>1, <1>6, <2>3
    <3>2. r[k] = b[k - Len(a)] /\ b[k - Len(a)] = q[i + 1 + (k - Len(a)) - 1]
      BY <1>4, <1>7, <2>1, <3>1
    <3> QED  BY <2>3, <3>1, <3>2
  <2> QED  BY <2>2, <2>3
<1>9. Len(r) = n - 1  BY <1>1, <1>6, <1>7
<1> QED  BY <1>5, <1>7, <1>8, <1>9 DEF n

\* What comes after the one that goes moves up.
LEMMA Shifted ==
  ASSUME NEW n \in Nat, NEW k \in 1 .. n, NEW i \in 1 .. n - 1, NEW j \in 1 .. n - 1
  PROVE  LET a == IF i < k THEN i ELSE i + 1
             b == IF j < k THEN j ELSE j + 1
         IN  a \in 1 .. n /\ b \in 1 .. n /\ (a = b => i = j)
OBVIOUS

\* trimscores and the like: a record goes while nobody is on.
LEMMA TrimStep ==
  ASSUME RegIInv, NEW k \in 1 .. Len(file), Trim(k) PROVE RegIInv'
<1>1. RegTypeOK  BY DEF RegIInv
<1>2. /\ \A p \in Conn : session[p] = AtLogin /\ entry[p] = NoRecord
      /\ file' = RemoveAt(file, k) /\ changed' \subseteq changed
      /\ UNCHANGED <<index, adding, entry, entry_pos, leftover, session, p_pos, astray>>
  BY DEF Trim
<1>3. file \in Seq(Record) /\ Len(file) \in Nat /\ Len(file) <= MaxFile
  BY <1>1, LenProperties DEF RegTypeOK
<1>0. MaxFile \in Nat  BY RegisterAssumption
<1>4. /\ file' \in Seq(Record) /\ Len(file') = Len(file) - 1
      /\ \A i \in 1 .. Len(file) - 1 : file'[i] = IF i < k THEN file[i] ELSE file[i + 1]
  BY <1>2, <1>3, Dropped
<1>5. UniqueNames'
  <2> SUFFICES ASSUME NEW i \in 1 .. Len(file) - 1, NEW j \in 1 .. Len(file) - 1,
                      file'[i].name = file'[j].name, file'[i].name # ""
               PROVE  i = j
    BY <1>4 DEF UniqueNames
  <2> DEFINE a == IF i < k THEN i ELSE i + 1
             b == IF j < k THEN j ELSE j + 1
  <2>1. a \in 1 .. Len(file) /\ b \in 1 .. Len(file) /\ (a = b => i = j)
    BY <1>3, Shifted
  <2>2. file'[i] = file[a] /\ file'[j] = file[b]  BY <1>4
  <2> HIDE DEF a, b
  <2>3. a = b  BY <2>1, <2>2 DEF RegIInv, UniqueNames
  <2> QED  BY <2>1, <2>3
<1>6. ASSUME NEW p \in Conn PROVE OwnTrue(p)' /\ EntryTrue(p)' /\ Named(p)' /\ Adder(p)'
  <2>1. session'[p].at = "login"  BY <1>2, Nameless
  <2>2. EntryTrue(p)'
    <3>1. EntryTrue(p)  BY DEF RegIInv
    <3>2. entry[p].name = ""  BY <1>2, Nameless
    <3>3. ~(entry_pos[p] # 0 /\ ~astray[p])  BY <3>1, <3>2, SomeName DEF EntryTrue
    <3> QED  BY <1>2, <3>3 DEF EntryTrue
  <2> QED  BY <2>1, <2>2 DEF OwnTrue, Named, Adder
<1>7. LockIsHeld'  BY <1>2 DEF RegIInv, LockIsHeld
<1>8. Len(file') <= MaxFile  BY <1>0, <1>3, <1>4
<1>9. RegTypeOK'  BY <1>1, <1>2, <1>4, <1>8 DEF RegTypeOK
<1> QED  BY <1>5, <1>6, <1>7, <1>9 DEF RegIInv

\* An empty file, and nobody in the game.
LEMMA RegFirst == ASSUME RegInit PROVE RegIInv
<1>1. <<>> \in Seq(Record) /\ Len(<<>>) = 0  BY EmptySeq
<1>2. MaxFile \in Nat  BY RegisterAssumption
<1>3. \A p \in Conn : session[p] = AtLogin /\ entry_pos[p] = 0  BY DEF RegInit
<1>4. \A p \in Conn : session[p].at = "login"  BY <1>3, Nameless
<1>5. RegTypeOK
  <2>0. file = <<>>  BY DEF RegInit
  <2>1. Len(file) <= MaxFile /\ file \in Seq(Record)  BY <1>1, <1>2, <2>0
  <2>2. session \in [Conn -> [at : {"login", "new", "append", "again", "play"},
                              name : PName \cup {""}, word : Word \cup {""}]]
    BY DEF RegInit, AtLogin
  <2>3. /\ index \in [PName -> Pos] /\ entry \in [Conn -> Record]
        /\ entry_pos \in [Conn -> Pos] /\ p_pos \in [Conn -> Pos]
    BY Nothing DEF RegInit
  <2>4. /\ adding \subseteq Conn /\ leftover \in [Conn -> PName \cup {""}]
        /\ changed \subseteq PName /\ astray \in [Conn -> BOOLEAN]
    BY DEF RegInit
  <2> QED  BY <2>1, <2>2, <2>3, <2>4 DEF RegTypeOK
<1>6. UniqueNames /\ LockIsHeld
  <2>1. file = <<>> /\ adding = {}  BY DEF RegInit
  <2>2. 1 .. Len(file) = {}  BY <1>1, <2>1
  <2> QED  BY <2>1, <2>2 DEF UniqueNames, LockIsHeld
<1> QED
  BY <1>3, <1>4, <1>5, <1>6 DEF RegIInv, OwnTrue, EntryTrue, Named, Adder

\* Logins, the record, the game, and the tools.
LEMMA RegStep == ASSUME RegIInv, [RegNext]_regVars PROVE RegIInv'
<1>1. CASE UNCHANGED regVars
  <2>1. RegTypeOK'  BY <1>1 DEF regVars, RegIInv, RegTypeOK
  <2>2. UniqueNames' /\ LockIsHeld'  BY <1>1 DEF regVars, RegIInv, UniqueNames, LockIsHeld
  <2>3. \A p \in Conn : OwnTrue(p)' /\ EntryTrue(p)' /\ Named(p)' /\ Adder(p)'
    BY <1>1 DEF regVars, RegIInv, OwnTrue, EntryTrue, Named, Adder
  <2> QED  BY <2>1, <2>2, <2>3 DEF RegIInv
<1>2. ASSUME NEW p \in Conn,
             LockAdd(p) \/ AppendRecord(p) \/ Again(p) \/ LeaveGame(p) \/ Killed(p)
      PROVE  RegIInv'
  BY <1>2, LockAddStep, AppendRecordStep, AgainStep, LeaveGameStep, KilledStep
<1>3. ASSUME NEW p \in Conn, NEW n \in Knows[p], Query(p, n) \/ Attempt(p, n, Secret[p])
      PROVE  RegIInv'
  <2>1. n \in PName /\ Secret[p] \in Word  BY RegisterAssumption
  <2> QED  BY <1>3, <2>1, QueryStep, AttemptStep
<1>4. ASSUME NEW p \in Conn, NEW w \in Word, ChangeWord(p, w) PROVE RegIInv'
  BY <1>4, ChangeWordStep
<1>5. ASSUME NEW k \in 1 .. Len(file), Trim(k) PROVE RegIInv'
  BY <1>5, TrimStep
<1> QED  BY <1>1, <1>2, <1>3, <1>4, <1>5 DEF RegNext

\* A name has one record, and who plays under it is on that record and has given
\* its password, whoever registers, logs in, leaves or is killed at once: getname.c
\* and db.c, for any processes, names and passwords.
THEOREM RegisterHolds == RegSpec => []RegInv
<1>1. RegInit => RegIInv  BY RegFirst
<1>2. RegIInv /\ [RegNext]_regVars => RegIInv'  BY RegStep
<1>3. RegIInv => RegInv
  BY DEF RegIInv, RegInv, OwnRecord, KnowsTheWord, OwnTrue
<1> QED  BY <1>1, <1>2, <1>3, PTL DEF RegSpec
-----------------------------------------------------------------------------
(* MessageRing *)

\* An entry with a group flag is one that the daemon may yet requeue.  Whoever
\* composes a message has counted it as sent and not stored it.
GroupFlag  == {"all", "indiv"}
\* An entry that do_message_requeue_all() would copy.
Live(r, k) == uplink[r][k].flags \cap GroupFlag # {}
Composing  == {"store", "wrap", "fill"}
Index      == 0 .. MaxUplink - 1

\* A message has been composed in full.
IsSent(m) == /\ m[2] <= sent[m[1]]
             /\ wpc[m[1]] \in Composing => m[2] < sent[m[1]]

\* Every entry with flags holds a message, and so does the one a writer is about
\* to make valid, and the one the daemon is at.
EntriesHold == \A r \in Ring : \A k \in Index :
                 uplink[r][k].flags # {} => uplink[r][k].msg \in Msg
ValidHolds  == \A w \in Writer : wpc[w] = "valid" => uplink[RingOf[w]][slot[w]].msg \in Msg
\* The daemon works on an entry that holds a message.
CurrentHolds == daemon_pc \in {"kick", "copy", "clear"} => uplink[R][dmc[R]].msg \in Msg
\* So do messages[] and the readers.
TargetsHold == /\ \A k \in 0 .. MaxMessage - 1 :
                    messages[k].flags # {} => messages[k].msg \in Msg
               /\ \A x \in Reader : rpc[x] = "reset" => messages[reset[x]].msg \in Msg
Counted     == \A w \in Writer : wpc[w] # "idle" => sent[w] >= 1

\* No two live entries hold one message; a message that the log has is not live,
\* unless the daemon has copied it and not cleared its entry yet.
LiveIsSent  == \A r \in Ring : \A k \in Index : Live(r, k) => IsSent(uplink[r][k].msg)
LiveOnce    == \A r, s \in Ring : \A k, l \in Index :
                 Live(r, k) /\ Live(s, l) /\ uplink[r][k].msg = uplink[s][l].msg
                   => r = s /\ k = l
LogIsSent   == \A i \in 1 .. Len(log) : IsSent(log[i])
\* A message in the log is live only while the daemon has not cleared its
\* entry.
LoggedIsDone == \A r \in Ring : \A k \in Index : \A i \in 1 .. Len(log) :
                  Live(r, k) /\ uplink[r][k].msg = log[i]
                    => daemon_pc = "clear" /\ r = R /\ k = dmc[R]

\* What entries hold; how a message moves; both with the types.
RingEntries == EntriesHold /\ ValidHolds /\ CurrentHolds /\ TargetsHold /\ Counted
OneMove     == LiveIsSent /\ LiveOnce /\ LogIsSent /\ LoggedIsDone /\ RequeuedOnce
RingIInv    == RingTypeOK /\ RingEntries /\ OneMove

\* A message is one of a writer's, with its number.
LEMMA MsgParts ==
  /\ \A m \in Msg : /\ m[1] \in Writer /\ m[2] \in 1 .. MaxSend[m[1]] /\ m[2] \in Nat
                    /\ m = <<m[1], m[2]>>
  /\ \A w \in Writer : \A n \in 1 .. MaxSend[w] : <<w, n>> \in Msg
BY MessageRingAssumption DEF Msg

\* A remainder is an index of the ring.
LEMMA RingIndex ==
  ASSUME NEW a \in Nat, NEW n \in Nat \ {0} PROVE a % n \in 0 .. n - 1
OBVIOUS

\* The index after one of a ring is one of it.
LEMMA NextIndex ==
  /\ \A d \in 0 .. MaxUplink - 1 : (d + 1) % MaxUplink \in 0 .. MaxUplink - 1
  /\ \A d \in 0 .. MaxMessage - 1 : (d + 1) % MaxMessage \in 0 .. MaxMessage - 1
<1>1. MaxUplink \in Nat \ {0} /\ MaxMessage \in Nat \ {0}  BY MessageRingAssumption
<1> QED  BY ONLY <1>1, RingIndex

\* The daemon is at a ring, and a writer's ring is one.
LEMMA RingsAre ==
  /\ dring \in 1 .. Len(RingSeq) => R \in Ring
  /\ \A w \in Writer : RingOf[w] \in Ring
  /\ Len(RingSeq) \in Nat \ {0}
BY MessageRingAssumption DEF R, Ring

\* The inductive invariant holds of empty rings.
LEMMA RingFirst == ASSUME RingInit PROVE RingIInv
<1> USE MessageRingAssumption DEF RingInit
<1>1. RingTypeOK
  <2>1. 1 \in 1 .. Len(RingSeq)  BY RingsAre
  <2>2. <<>> \in Seq(Msg)  OBVIOUS
  <2>3. 0 \in 0 .. MaxUplink - 1 /\ 1 \in 0 .. MaxUplink - 1
        /\ 0 \in 0 .. MaxMessage - 1 /\ 1 \in 0 .. MaxMessage - 1  OBVIOUS
  <2>4. Blank \in [msg : Msg \cup {NoMsg}, flags : SUBSET Flag]  BY DEF Blank
  <2>5. \A w \in Writer : 0 <= MaxSend[w]  OBVIOUS
  <2> QED  BY <2>1, <2>2, <2>3, <2>4, <2>5 DEF RingTypeOK
<1>2. \A r \in Ring : \A k \in Index : uplink[r][k].flags = {}
  BY DEF Blank, Index
<1>3. RingEntries
  BY <1>2 DEF RingEntries, EntriesHold, ValidHolds, CurrentHolds, TargetsHold, Counted, Blank
<1>4. LiveIsSent /\ LiveOnce /\ LoggedIsDone
  BY <1>2 DEF LiveIsSent, LiveOnce, LoggedIsDone, Live
<1>5. LogIsSent /\ RequeuedOnce  BY DEF LogIsSent, RequeuedOnce
<1> QED  BY <1>1, <1>3, <1>4, <1>5 DEF RingIInv, OneMove

\* The types are kept by the writers, by the daemon and by the readers.
Entry == [msg : Msg \cup {NoMsg}, flags : SUBSET Flag]
\* An entry with other flags.
Flagged(e, f) == [e EXCEPT !.flags = f]

\* It is an entry, of the same message.
LEMMA FlaggedIs ==
  ASSUME NEW e \in Entry, NEW f \in SUBSET Flag
  PROVE  Flagged(e, f) \in Entry /\ Flagged(e, f).msg = e.msg /\ Flagged(e, f).flags = f
BY DEF Flagged, Entry

\* Writers, daemon and readers keep the types.
LEMMA RingTypeStep ==
  ASSUME RingTypeOK, RingEntries, [RingNext]_ringVars
  PROVE  RingTypeOK'
<1>0. /\ mc \in [Ring -> Nat] /\ tmp \in [Writer -> Nat] /\ sent \in [Writer -> Nat]
      /\ slot \in [Writer -> 0 .. MaxUplink - 1] /\ dmc \in [Ring -> 0 .. MaxUplink - 1]
      /\ uplink \in [Ring -> [0 .. MaxUplink - 1 -> Entry]]
      /\ messages \in [0 .. MaxMessage - 1 -> Entry] /\ mc_current \in 0 .. MaxMessage - 1
      /\ R \in Ring /\ Len(RingSeq) \in Nat /\ dring \in 1 .. Len(RingSeq)
  BY RingsAre DEF RingTypeOK, Entry
<1>00. \A w \in Writer : RingOf[w] \in Ring  BY RingsAre
<1>1. CASE UNCHANGED ringVars
  BY <1>1 DEF RingTypeOK, ringVars, uvars, mvars, wvars, daemonVars, rvars
<1>2. ASSUME NEW w \in Writer, Send(w)  PROVE RingTypeOK'
  <2>1. tmp' \in [Writer -> Nat]  BY <1>0, <1>00, <1>2 DEF Send
  <2>2. sent' \in [Writer -> Nat] /\ \A v \in Writer : sent'[v] <= MaxSend[v]
    <3>1. sent' = [sent EXCEPT ![w] = @ + 1] /\ sent[w] < MaxSend[w]  BY <1>2 DEF Send
    <3>2. \A v \in Writer : sent[v] <= MaxSend[v] /\ MaxSend[v] \in Nat
      BY MessageRingAssumption DEF RingTypeOK
    <3>3. w \in Writer  OBVIOUS
    <3> QED  BY ONLY SMTT(30), <1>0, <3>1, <3>2, <3>3
  <2>3. burst' \in [Writer -> 0 .. MaxBurst]
    <3>1. burst' = [burst EXCEPT ![w] = @ + 1] /\ burst[w] < MaxBurst  BY <1>2 DEF Send
    <3>2. burst \in [Writer -> 0 .. MaxBurst] /\ MaxBurst \in Nat
      BY MessageRingAssumption DEF RingTypeOK
    <3> QED  BY ONLY <3>1, <3>2
  <2>4. wpc' \in [Writer -> {"idle", "store", "wrap", "fill", "valid", "post"}]
    BY <1>2 DEF Send, WGoto, RingTypeOK
  <2> QED
    BY <1>2, <2>1, <2>2, <2>3, <2>4
    DEF Send, RingTypeOK, uvars, mvars, daemonVars, rvars
<1>3. ASSUME NEW w \in Writer, KickStore(w) \/ KickWrap(w)  PROVE RingTypeOK'
  <2>1. mc' \in [Ring -> Nat]
    <3>1. \/ mc' = [mc EXCEPT ![RingOf[w]] = tmp[w] + 1]
          \/ mc' = [mc EXCEPT ![RingOf[w]] = 0]
      BY <1>3 DEF KickStore, KickWrap
    <3>2. w \in Writer  OBVIOUS
    <3>3. tmp[w] + 1 \in Nat /\ RingOf[w] \in Ring  BY ONLY <1>0, <1>00, <3>2
    <3>4. 0 \in Nat  OBVIOUS
    <3>5. mc \in [Ring -> Nat]  BY ONLY <1>0
    <3> QED  BY ONLY <3>1, <3>3, <3>4, <3>5
  <2>2. slot' \in [Writer -> 0 .. MaxUplink - 1]
    <3>1. \/ slot' = slot
          \/ tmp[w] + 1 < MaxUplink /\ slot' = [slot EXCEPT ![w] = tmp[w] + 1]
          \/ slot' = [slot EXCEPT ![w] = 0]
      BY <1>3 DEF KickStore, KickWrap
    <3>2. MaxUplink \in Nat \ {0}  BY MessageRingAssumption
    <3>3. w \in Writer  OBVIOUS
    <3>4. tmp[w] + 1 < MaxUplink => tmp[w] + 1 \in 0 .. MaxUplink - 1
      BY ONLY <1>0, <3>2, <3>3
    <3>5. 0 \in 0 .. MaxUplink - 1  BY ONLY <3>2
    <3> QED  BY ONLY <1>0, <3>1, <3>3, <3>4, <3>5
  <2>3. wpc' \in [Writer -> {"idle", "store", "wrap", "fill", "valid", "post"}]
    BY <1>3 DEF KickStore, KickWrap, WGoto, RingTypeOK
  <2> QED
    BY <1>3, <2>1, <2>2, <2>3
    DEF KickStore, KickWrap, RingTypeOK, mvars, daemonVars, rvars
<1>4. ASSUME NEW w \in Writer, Fill(w) \/ SetValid(w)  PROVE RingTypeOK'
  <2>1. RingOf[w] \in Ring /\ slot[w] \in 0 .. MaxUplink - 1  BY <1>0, <1>00
  <2>2. CASE Fill(w)
    <3>1. sent[w] \in 1 .. MaxSend[w]
      BY <1>0, <2>2 DEF Fill, RingEntries, Counted, RingTypeOK
    <3>2. [msg |-> <<w, sent[w]>>, flags |-> Group(w)] \in Entry
      BY <3>1, MsgParts DEF Entry, Group, Flag
    <3>3. uplink' = [uplink EXCEPT ![RingOf[w]][slot[w]] =
                       [msg |-> <<w, sent[w]>>, flags |-> Group(w)]]
      BY <2>2 DEF Fill
    <3>4. uplink' \in [Ring -> [0 .. MaxUplink - 1 -> Entry]]
      BY ONLY <1>0, <2>1, <3>2, <3>3
    <3> QED  BY <2>2, <3>4 DEF Fill, WGoto, RingTypeOK, mvars, daemonVars, rvars, Entry
  <2>3. CASE SetValid(w)
    <3>1. uplink' = [uplink EXCEPT ![RingOf[w]][slot[w]].flags = @ \cup {"valid"}]
      BY <2>3 DEF SetValid
    <3>2. uplink[RingOf[w]][slot[w]].flags \cup {"valid"} \in SUBSET Flag
      <4>1. uplink[RingOf[w]][slot[w]] \in Entry  BY ONLY <1>0, <2>1
      <4> QED  BY <4>1 DEF Entry, Flag
    <3>3. uplink' \in [Ring -> [0 .. MaxUplink - 1 -> Entry]]
      <4> DEFINE e == uplink[RingOf[w]][slot[w]]
                 f == e.flags \cup {"valid"}
      <4>1. uplink' = [uplink EXCEPT ![RingOf[w]][slot[w]] = Flagged(e, f)]
        BY <3>1 DEF Flagged
      <4>2. e \in Entry  BY ONLY <1>0, <2>1
      <4>3. Flagged(e, f) \in Entry  BY <3>2, <4>2, FlaggedIs
      <4> QED  BY ONLY <1>0, <2>1, <4>1, <4>3
    <3> QED  BY <2>3, <3>3 DEF SetValid, WGoto, RingTypeOK, mvars, daemonVars, rvars, Entry
  <2> QED  BY <1>4, <2>2, <2>3
<1>5. ASSUME NEW w \in Writer, Post(w)  PROVE RingTypeOK'
  BY <1>5 DEF Post, WGoto, RingTypeOK, uvars, mvars, daemonVars, rvars
<1>6. ASSUME Tick  PROVE RingTypeOK'
  <2>1. burst' \in [Writer -> 0 .. MaxBurst]
    <3>1. 0 \in 0 .. MaxBurst  BY MessageRingAssumption
    <3> QED  BY <1>6, <3>1 DEF Tick
  <2>2. dring' \in 1 .. Len(RingSeq)
    <3>1. Len(RingSeq) \in Nat \ {0}  BY RingsAre
    <3> QED  BY <1>6, <3>1 DEF Tick
  <2> QED  BY <1>6, <2>1, <2>2 DEF Tick, RingTypeOK, uvars, mvars, rvars
<1>7. ASSUME Look \/ ScanEnd  PROVE RingTypeOK'
  <2>1. (dmc[R] + 1) % MaxUplink \in 0 .. MaxUplink - 1  BY <1>0, NextIndex
  <2>2. dmc' \in [Ring -> 0 .. MaxUplink - 1]
    <3>1. dmc' = dmc \/ dmc' = [dmc EXCEPT ![R] = (dmc[R] + 1) % MaxUplink]
      BY <1>7 DEF Look, ScanEnd
    <3> QED  BY ONLY <1>0, <2>1, <3>1
  <2>3. dring' \in 1 .. Len(RingSeq)
    <3>1. dring' = dring \/ (dring < Len(RingSeq) /\ dring' = dring + 1)
      BY <1>7 DEF Look, ScanEnd
    <3> QED  BY ONLY <1>0, <3>1
  <2>4. rpc' \in [Reader -> {"idle", "read", "reset"}]
    BY <1>7 DEF Look, ScanEnd, RingTypeOK, rvars
  <2> QED
    BY <1>7, <2>2, <2>3, <2>4
    DEF Look, ScanEnd, RingTypeOK, uvars, mvars, wvars, rvars
<1>8. ASSUME RequeueKick  PROVE RingTypeOK'
  <2>1. (mc_current + 1) % MaxMessage \in 0 .. MaxMessage - 1  BY <1>0, NextIndex
  <2> QED  BY <1>8, <2>1 DEF RequeueKick, RingTypeOK, uvars, wvars, rvars
<1>9. ASSUME RequeueCopy  PROVE RingTypeOK'
  <2>1. uplink[R][dmc[R]] \in Entry  BY ONLY <1>0
  <2>2. messages' \in [0 .. MaxMessage - 1 -> Entry]
    BY <1>0, <1>9, <2>1 DEF RequeueCopy
  <2>3. uplink[R][dmc[R]].msg \in Msg
    BY <1>9 DEF RequeueCopy, RingEntries, CurrentHolds
  <2>4. log' \in Seq(Msg)
    BY <1>9, <2>3 DEF RequeueCopy, RingTypeOK
  <2> QED
    BY <1>9, <2>2, <2>4 DEF RequeueCopy, RingTypeOK, uvars, wvars, rvars, Entry
<1>10. ASSUME RequeueClear  PROVE RingTypeOK'
  <2>1. (dmc[R] + 1) % MaxUplink \in 0 .. MaxUplink - 1  BY <1>0, NextIndex
  <2>2. dmc' \in [Ring -> 0 .. MaxUplink - 1]  BY <1>0, <1>10, <2>1 DEF RequeueClear
  <2>3. uplink' = [uplink EXCEPT ![R][dmc[R]].flags = {}]  BY <1>10 DEF RequeueClear
  <2>4. uplink' \in [Ring -> [0 .. MaxUplink - 1 -> Entry]]
    <3> DEFINE e == uplink[R][dmc[R]]
    <3>1. uplink' = [uplink EXCEPT ![R][dmc[R]] = Flagged(e, {})]  BY <2>3 DEF Flagged
    <3>2. e \in Entry  BY ONLY <1>0
    <3>3. Flagged(e, {}) \in Entry  BY <3>2, FlaggedIs
    <3> QED  BY ONLY <1>0, <3>1, <3>3
  <2> QED
    BY <1>10, <2>2, <2>4 DEF RequeueClear, RingTypeOK, mvars, wvars, rvars, Entry
<1>11. ASSUME NEW x \in Reader, Reading(x)  PROVE RingTypeOK'
  <2>1. /\ msgCurrent \in [Reader -> 0 .. MaxMessage - 1] /\ reset \in [Reader -> 0 .. MaxMessage - 1]
        /\ rpc \in [Reader -> {"idle", "read", "reset"}] /\ got \in [Reader -> Seq(Msg)]
    BY DEF RingTypeOK
  <2>2. CASE Read(x)
    <3> DEFINE e == messages[msgCurrent[x]]
    <3>1. e \in Entry  BY <1>0, <2>1
    <3>2. (msgCurrent[x] + 1) % MaxMessage \in 0 .. MaxMessage - 1  BY <2>1, NextIndex
    <3>3. msgCurrent' \in [Reader -> 0 .. MaxMessage - 1]  BY <2>1, <2>2, <3>2 DEF Read
    <3>4. ForMe(x, e) => e.msg \in Msg
      BY <2>1 DEF ForMe, RingEntries, TargetsHold
    <3>5. got' \in [Reader -> Seq(Msg)]
      <4>1. ForMe(x, e) => Append(got[x], e.msg) \in Seq(Msg)  BY <2>1, <3>4
      <4> QED  BY <2>1, <2>2, <4>1 DEF Read
    <3>6. messages' \in [0 .. MaxMessage - 1 -> Entry]
      <4>1. {"valid", "all"} \in SUBSET Flag  BY DEF Flag
      <4>2. messages' = messages
            \/ messages' = [messages EXCEPT ![msgCurrent[x]].flags = {"valid", "all"}]
        BY <2>2 DEF Read
      <4>3. Flagged(e, {"valid", "all"}) \in Entry  BY <3>1, <4>1, FlaggedIs
      <4>4. messages' = messages
            \/ messages' = [messages EXCEPT ![msgCurrent[x]] = Flagged(e, {"valid", "all"})]
        BY <4>2 DEF Flagged
      <4>5. x \in Reader  OBVIOUS
      <4> QED  BY ONLY <1>0, <2>1, <4>3, <4>4, <4>5
    <3>7. reset' \in [Reader -> 0 .. MaxMessage - 1] /\ rpc' \in [Reader -> {"idle", "read", "reset"}]
      BY <2>1, <2>2 DEF Read
    <3> QED
      BY <2>2, <3>3, <3>5, <3>6, <3>7 DEF Read, RingTypeOK, uvars, wvars, daemonVars, Entry
  <2>3. CASE Reset(x)
    <3>1. reset[x] \in 0 .. MaxMessage - 1  BY <2>1
    <3>2. (messages[reset[x]].flags \ {"all"}) \cup {"indiv"} \in SUBSET Flag
      BY <1>0, <3>1 DEF Entry, Flag
    <3>3. messages' = [messages EXCEPT ![reset[x]].flags = (@ \ {"all"}) \cup {"indiv"}]
      BY <2>3 DEF Reset
    <3>4. messages' \in [0 .. MaxMessage - 1 -> Entry]
      BY ONLY <1>0, <3>1, <3>2, <3>3 DEF Entry
    <3>5. rpc' \in [Reader -> {"idle", "read", "reset"}]  BY <2>1, <2>3 DEF Reset
    <3> QED
      BY <2>3, <3>4, <3>5 DEF Reset, RingTypeOK, uvars, wvars, daemonVars, Entry
  <2>4. CASE ReadEnd(x)
    BY <2>1, <2>4 DEF ReadEnd, RingTypeOK, uvars, mvars, wvars, daemonVars
  <2> QED  BY <1>11, <2>2, <2>3, <2>4 DEF Reading
<1> QED
  BY <1>1, <1>2, <1>3, <1>4, <1>5, <1>6, <1>7, <1>8, <1>9, <1>10, <1>11
  DEF RingNext, Writing, Requeue

\* What has been sent stays so.
LEMMA SentStays ==
  ASSUME RingTypeOK, [RingNext]_ringVars, NEW m \in Msg, IsSent(m)
  PROVE  IsSent(m)'
<1>0. sent \in [Writer -> Nat]
      /\ wpc \in [Writer -> {"idle", "store", "wrap", "fill", "valid", "post"}]
  BY DEF RingTypeOK
<1>m. m[1] \in Writer /\ m[2] \in Nat  BY MsgParts
<1> DEFINE v == m[1]
<1>1. \/ sent'[v] = sent[v] /\ (wpc'[v] \in Composing => wpc[v] \in Composing)
      \/ sent'[v] = sent[v] + 1
  <2>1. CASE UNCHANGED <<wpc, sent>>  BY <2>1
  <2>2. ASSUME NEW w \in Writer, Send(w)
        PROVE  \/ sent'[v] = sent[v] /\ wpc'[v] = wpc[v]
               \/ sent'[v] = sent[v] + 1
    <3>1. sent' = [sent EXCEPT ![w] = @ + 1] /\ wpc' = [wpc EXCEPT ![w] = "store"]
      BY <2>2 DEF Send, WGoto
    <3> QED  BY <1>0, <1>m, <3>1
  <2>3. ASSUME NEW w \in Writer, Writing(w)
        PROVE  sent'[v] = sent[v] /\ (wpc'[v] \in Composing => wpc[v] \in Composing)
    <3>1. /\ sent' = sent
          /\ \E l : wpc' = [wpc EXCEPT ![w] = l] /\ (l \in Composing => wpc[w] \in Composing)
      BY <2>3 DEF Writing, KickStore, KickWrap, Fill, SetValid, Post, WGoto, Composing
    <3> QED  BY <1>0, <1>m, <3>1
  <2>4. Tick \/ Requeue => UNCHANGED <<wpc, sent>>
    BY DEF Tick, Requeue, Look, ScanEnd, RequeueKick, RequeueCopy, RequeueClear, wvars
  <2>5. ASSUME NEW x \in Reader, Reading(x)  PROVE UNCHANGED <<wpc, sent>>
    BY <2>5 DEF Reading, Read, Reset, ReadEnd, wvars
  <2>6. CASE UNCHANGED ringVars  BY <2>1, <2>6 DEF ringVars, wvars
  <2> QED  BY <2>1, <2>2, <2>3, <2>4, <2>5, <2>6 DEF RingNext
<1>2. m[2] <= sent[v] /\ (wpc[v] \in Composing => m[2] < sent[v])  BY DEF IsSent
<1>3. m[2] <= sent'[v] /\ (wpc'[v] \in Composing => m[2] < sent'[v])
  BY ONLY <1>0, <1>m, <1>1, <1>2
<1> QED  BY <1>3 DEF IsSent

\* What a step may do to an entry: nothing, fill it, make it valid, clear it.
Placed(r, k)  == (\E w \in Writer : Fill(w)) /\ uplink'[r][k].msg \in Msg
Kept(r, k)    == uplink'[r][k] = uplink[r][k]
Marked(r, k)  == /\ uplink[r][k].msg \in Msg
                 /\ uplink'[r][k] =
                      Flagged(uplink[r][k], uplink[r][k].flags \cup {"valid"})
\* The flags of an entry are cleared.
Emptied(r, k) == uplink'[r][k] = Flagged(uplink[r][k], {})

\* A step does one of these to an entry.
LEMMA EntryStep ==
  ASSUME RingTypeOK, RingEntries, [RingNext]_ringVars,
         NEW r \in Ring, NEW k \in Index
  PROVE  Placed(r, k) \/ Kept(r, k) \/ Marked(r, k) \/ Emptied(r, k)
<1>0. /\ uplink \in [Ring -> [Index -> Entry]] /\ dmc \in [Ring -> Index]
      /\ slot \in [Writer -> Index] /\ R \in Ring
      /\ \A w \in Writer : RingOf[w] \in Ring
  BY RingsAre DEF RingTypeOK, Entry, Index
<1>1. CASE uplink' = uplink  BY <1>1 DEF Kept
<1>2. ASSUME NEW w \in Writer, Fill(w)
      PROVE  Placed(r, k) \/ Kept(r, k)
  <2> DEFINE e == [msg |-> <<w, sent[w]>>, flags |-> Group(w)]
  <2>1. sent[w] \in 1 .. MaxSend[w]
    BY <1>2, MessageRingAssumption DEF Fill, RingEntries, Counted, RingTypeOK
  <2>2. e.msg \in Msg  BY <2>1, MsgParts
  <2>3. uplink' = [uplink EXCEPT ![RingOf[w]][slot[w]] = e]  BY <1>2 DEF Fill
  <2>4. w \in Writer  OBVIOUS
  <2> HIDE DEF e
  <2>5. uplink'[r][k] = uplink[r][k] \/ uplink'[r][k] = e
    BY ONLY <1>0, <2>3, <2>4, r \in Ring, k \in Index
  <2> QED  BY <1>2, <2>2, <2>4, <2>5 DEF Placed, Kept
<1>3. ASSUME NEW w \in Writer, SetValid(w)
      PROVE  Marked(r, k) \/ Kept(r, k)
  <2> DEFINE e == uplink[RingOf[w]][slot[w]]
             g == Flagged(e, e.flags \cup {"valid"})
  <2>1. uplink' = [uplink EXCEPT ![RingOf[w]][slot[w]] = g]
    BY <1>3 DEF SetValid, Flagged
  <2>2. e.msg \in Msg  BY <1>3 DEF SetValid, RingEntries, ValidHolds
  <2>3. w \in Writer  OBVIOUS
  <2> HIDE DEF g
  <2>4. uplink'[r][k] = uplink[r][k]
        \/ (r = RingOf[w] /\ k = slot[w] /\ uplink'[r][k] = g)
    BY ONLY <1>0, <2>1, <2>3, r \in Ring, k \in Index
  <2> QED  BY <2>2, <2>4 DEF g, Marked, Kept
<1>4. ASSUME RequeueClear  PROVE Emptied(r, k) \/ Kept(r, k)
  <2> DEFINE g == Flagged(uplink[R][dmc[R]], {})
  <2>1. uplink' = [uplink EXCEPT ![R][dmc[R]] = g]  BY <1>4 DEF RequeueClear, Flagged
  <2> HIDE DEF g
  <2>2. uplink'[r][k] = uplink[r][k] \/ (r = R /\ k = dmc[R] /\ uplink'[r][k] = g)
    BY ONLY <1>0, <2>1, r \in Ring, k \in Index
  <2> QED  BY <2>2 DEF g, Emptied, Kept
<1>5. ASSUME NEW w \in Writer, Send(w) \/ KickStore(w) \/ KickWrap(w) \/ Post(w)
      PROVE  uplink' = uplink
  BY <1>5 DEF Send, KickStore, KickWrap, Post, uvars
<1>6. Tick \/ Look \/ ScanEnd \/ RequeueKick \/ RequeueCopy => uplink' = uplink
  BY DEF Tick, Look, ScanEnd, RequeueKick, RequeueCopy, uvars
<1>7. ASSUME NEW x \in Reader, Reading(x)  PROVE uplink' = uplink
  BY <1>7 DEF Reading, Read, Reset, ReadEnd, uvars
<1>8. UNCHANGED ringVars => uplink' = uplink  BY DEF ringVars, uvars
<1> QED
  BY <1>1, <1>2, <1>3, <1>4, <1>5, <1>6, <1>7, <1>8 DEF RingNext, Writing, Requeue

\* An entry that holds a message goes on holding one.
LEMMA EntryKeeps ==
  ASSUME RingTypeOK, RingEntries, [RingNext]_ringVars,
         NEW r \in Ring, NEW k \in Index
  PROVE  /\ uplink[r][k].msg \in Msg => uplink'[r][k].msg \in Msg
         /\ uplink'[r][k].flags # {} => uplink'[r][k].msg \in Msg
<1>0. uplink \in [Ring -> [Index -> Entry]]  BY DEF RingTypeOK, Entry, Index
<1>1. uplink[r][k] \in Entry  BY ONLY <1>0, r \in Ring, k \in Index
<1>2. uplink[r][k].flags \cup {"valid"} \in SUBSET Flag /\ {} \in SUBSET Flag
  BY <1>1 DEF Entry, Flag
<1>3. CASE Placed(r, k)  BY <1>3 DEF Placed
<1>4. CASE Kept(r, k)  BY <1>4 DEF Kept, RingEntries, EntriesHold
<1>5. CASE Marked(r, k)  BY <1>1, <1>2, <1>5, FlaggedIs DEF Marked
<1>6. CASE Emptied(r, k)  BY <1>1, <1>2, <1>6, FlaggedIs DEF Emptied
<1> QED  BY <1>3, <1>4, <1>5, <1>6, EntryStep

\* Every step keeps what entries hold.
LEMMA RingEntriesStep ==
  ASSUME RingTypeOK, RingEntries, [RingNext]_ringVars
  PROVE  RingEntries'
<1>0. /\ uplink \in [Ring -> [Index -> Entry]] /\ dmc \in [Ring -> Index]
      /\ slot \in [Writer -> Index] /\ R \in Ring
      /\ \A w \in Writer : RingOf[w] \in Ring
      /\ wpc \in [Writer -> {"idle", "store", "wrap", "fill", "valid", "post"}]
      /\ sent \in [Writer -> Nat] /\ MaxUplink \in Nat \ {0}
      /\ messages \in [0 .. MaxMessage - 1 -> Entry] /\ mc_current \in 0 .. MaxMessage - 1
      /\ rpc \in [Reader -> {"idle", "read", "reset"}]
      /\ reset \in [Reader -> 0 .. MaxMessage - 1] /\ msgCurrent \in [Reader -> 0 .. MaxMessage - 1]
  BY RingsAre, MessageRingAssumption DEF RingTypeOK, Entry, Index
<1>1. EntriesHold'  BY EntryKeeps DEF EntriesHold
<1>2. ValidHolds' /\ Counted'
  <2>1. ASSUME NEW v \in Writer
        PROVE  /\ wpc'[v] = "valid" => uplink'[RingOf[v]][slot'[v]].msg \in Msg
               /\ wpc'[v] # "idle" => sent'[v] >= 1
    <3>0. /\ wpc[v] = "valid" => uplink[RingOf[v]][slot[v]].msg \in Msg
          /\ wpc[v] # "idle" => sent[v] >= 1
          /\ RingOf[v] \in Ring /\ slot[v] \in Index /\ sent[v] \in Nat
      BY <1>0 DEF RingEntries, ValidHolds, Counted
    <3>1. CASE wpc'[v] = wpc[v] /\ slot'[v] = slot[v] /\ sent'[v] = sent[v]
      BY <3>0, <3>1, EntryKeeps
    <3>2. ASSUME NEW w \in Writer, Send(w)
          PROVE  \/ wpc'[v] # "valid" /\ sent'[v] >= 1
                 \/ wpc'[v] = wpc[v] /\ slot'[v] = slot[v] /\ sent'[v] = sent[v]
      BY <1>0, <3>0, <3>2 DEF Send, WGoto
    <3>3. ASSUME NEW w \in Writer, KickStore(w) \/ KickWrap(w) \/ SetValid(w) \/ Post(w)
          PROVE  \/ wpc'[v] # "valid" /\ wpc[v] # "idle" /\ sent'[v] = sent[v]
                 \/ wpc'[v] = wpc[v] /\ slot'[v] = slot[v] /\ sent'[v] = sent[v]
      BY <1>0, <3>3 DEF KickStore, KickWrap, SetValid, Post, WGoto
    <3>4. ASSUME NEW w \in Writer, Fill(w)
          PROVE  \/ wpc'[v] = wpc[v] /\ slot'[v] = slot[v] /\ sent'[v] = sent[v]
                 \/ /\ v = w /\ sent'[v] = sent[v] /\ wpc[v] # "idle"
                    /\ uplink'[RingOf[v]][slot'[v]].msg \in Msg
      <4> DEFINE e == [msg |-> <<w, sent[w]>>, flags |-> Group(w)]
      <4>1. uplink' = [uplink EXCEPT ![RingOf[w]][slot[w]] = e]
            /\ slot' = slot /\ sent' = sent /\ wpc[w] = "fill"
            /\ wpc' = [wpc EXCEPT ![w] = "valid"]
        BY <3>4 DEF Fill, WGoto
      <4>2. sent[w] \in 1 .. MaxSend[w]
        BY <4>1, MessageRingAssumption DEF RingEntries, Counted, RingTypeOK
      <4>3. e.msg \in Msg  BY <4>2, MsgParts
      <4>4. v = w => uplink'[RingOf[v]][slot'[v]] = e
        <5> HIDE DEF e
        <5> QED  BY <1>0, <3>0, <4>1
      <4> QED  BY <1>0, <4>1, <4>3, <4>4
    <3>5. Tick \/ Requeue => UNCHANGED <<wpc, slot, sent>>
      BY DEF Tick, Requeue, Look, ScanEnd, RequeueKick, RequeueCopy, RequeueClear, wvars
    <3>6. ASSUME NEW x \in Reader, Reading(x)  PROVE UNCHANGED <<wpc, slot, sent>>
      BY <3>6 DEF Reading, Read, Reset, ReadEnd, wvars
    <3>7. UNCHANGED ringVars => UNCHANGED <<wpc, slot, sent>>  BY DEF ringVars, wvars
    <3> QED
      BY <3>0, <3>1, <3>2, <3>3, <3>4, <3>5, <3>6, <3>7 DEF RingNext, Writing
  <2> QED  BY <2>1 DEF ValidHolds, Counted
<1>3. CurrentHolds'
  <2>1. CASE UNCHANGED daemonVars
    <3>1. daemon_pc \in {"kick", "copy", "clear"} => uplink[R][dmc[R]].msg \in Msg
      BY DEF RingEntries, CurrentHolds
    <3>2. dmc[R] \in Index  BY <1>0
    <3>3. R' = R /\ dmc' = dmc /\ daemon_pc' = daemon_pc  BY <2>1 DEF daemonVars, R
    <3> QED  BY <1>0, <3>1, <3>2, <3>3, EntryKeeps DEF CurrentHolds
  <2>2. ASSUME Look  PROVE CurrentHolds'
    <3>1. daemon_pc' = "kick" => "valid" \in uplink[R][dmc[R]].flags /\ dmc' = dmc
      BY <2>2 DEF Look
    <3>2. daemon_pc' \in {"scan", "kick"} /\ R' = R /\ uplink' = uplink
      BY <2>2 DEF Look, R, uvars
    <3>3. dmc[R] \in Index  BY <1>0
    <3>4. "valid" \in uplink[R][dmc[R]].flags => uplink[R][dmc[R]].msg \in Msg
      BY <1>0, <3>3 DEF RingEntries, EntriesHold
    <3> QED  BY <3>1, <3>2, <3>4 DEF CurrentHolds
  <2>3. RequeueKick \/ RequeueCopy => CurrentHolds'
    BY DEF RequeueKick, RequeueCopy, RingEntries, CurrentHolds, R, uvars
  <2>4. Tick \/ ScanEnd \/ RequeueClear => CurrentHolds'
    BY DEF Tick, ScanEnd, RequeueClear, CurrentHolds
  <2>5. ASSUME NEW w \in Writer, Send(w) \/ Writing(w)  PROVE UNCHANGED daemonVars
    BY <2>5 DEF Send, Writing, KickStore, KickWrap, Fill, SetValid, Post
  <2>6. ASSUME NEW x \in Reader, Reading(x)  PROVE UNCHANGED daemonVars
    BY <2>6 DEF Reading, Read, Reset, ReadEnd
  <2>7. UNCHANGED ringVars => UNCHANGED daemonVars  BY DEF ringVars
  <2> QED  BY <2>1, <2>2, <2>3, <2>4, <2>5, <2>6, <2>7 DEF RingNext, Requeue
<1>4. TargetsHold'
  <2>0. TargetsHold  BY DEF RingEntries
  <2>1. CASE UNCHANGED <<messages, rpc, reset>>  BY <2>0, <2>1 DEF TargetsHold
  <2>2. ASSUME RequeueCopy  PROVE TargetsHold'
    <3> DEFINE e == uplink[R][dmc[R]]
    <3>1. e.msg \in Msg  BY <2>2 DEF RequeueCopy, RingEntries, CurrentHolds
    <3>2. messages' = [messages EXCEPT ![mc_current] = e] /\ rpc' = rpc /\ reset' = reset
      BY <2>2 DEF RequeueCopy, rvars
    <3> HIDE DEF e
    <3> QED  BY <1>0, <2>0, <3>1, <3>2 DEF TargetsHold
  <2>3. ASSUME ScanEnd  PROVE TargetsHold'
    <3>1. messages' = messages /\ reset' = reset
          /\ \A x \in Reader : rpc'[x] = "reset" => rpc[x] = "reset"
      BY <1>0, <2>3 DEF ScanEnd, mvars
    <3> QED  BY <2>0, <3>1 DEF TargetsHold
  <2>4. ASSUME NEW x \in Reader, Read(x)  PROVE TargetsHold'
    <3> DEFINE e == messages[msgCurrent[x]]
               g == Flagged(e, {"valid", "all"})
    <3>0. msgCurrent[x] \in 0 .. MaxMessage - 1  BY <1>0
    <3>1. CASE messages' = messages /\ rpc' = rpc /\ reset' = reset
      BY <2>1, <3>1
    <3>2. CASE /\ ForMe(x, e) /\ messages' = [messages EXCEPT ![msgCurrent[x]] = g]
               /\ reset' = [reset EXCEPT ![x] = msgCurrent[x]]
               /\ rpc' = [rpc EXCEPT ![x] = "reset"]
      <4>1. e \in Entry  BY <1>0, <3>0
      <4>2. e.msg \in Msg  BY <2>0, <3>0, <3>2 DEF ForMe, TargetsHold
      <4>3. {"valid", "all"} \in SUBSET Flag  BY DEF Flag
      <4>4. g.msg \in Msg  BY <4>1, <4>2, <4>3, FlaggedIs
      <4> HIDE DEF g
      <4>5. \A k \in 0 .. MaxMessage - 1 : messages'[k] = messages[k] \/ messages'[k] = g
        BY <1>0, <3>0, <3>2
      <4>6. messages'[reset'[x]] = g /\ \A y \in Reader \ {x} :
              rpc'[y] = rpc[y] /\ reset'[y] = reset[y]
        BY <1>0, <3>0, <3>2
      <4> QED  BY <1>0, <2>0, <4>4, <4>5, <4>6 DEF TargetsHold
    <3> QED  BY <2>4, <3>1, <3>2 DEF Read, Flagged
  <2>5. ASSUME NEW x \in Reader, Reset(x)  PROVE TargetsHold'
    <3> DEFINE e == messages[reset[x]]
               f == (e.flags \ {"all"}) \cup {"indiv"}
               g == Flagged(e, f)
    <3>0. reset[x] \in 0 .. MaxMessage - 1  BY <1>0
    <3>1. e \in Entry /\ e.msg \in Msg
      BY <1>0, <2>0, <2>5, <3>0 DEF Reset, TargetsHold
    <3>2. f \in SUBSET Flag  BY <3>1 DEF Entry, Flag
    <3>3. g.msg \in Msg  BY <3>1, <3>2, FlaggedIs
    <3>4. /\ messages' = [messages EXCEPT ![reset[x]] = g] /\ reset' = reset
          /\ rpc' = [rpc EXCEPT ![x] = "read"]
      BY <2>5 DEF Reset, Flagged
    <3> HIDE DEF g
    <3>5. \A k \in 0 .. MaxMessage - 1 : messages'[k] = messages[k] \/ messages'[k] = g
      BY <1>0, <3>0, <3>4
    <3>6. \A y \in Reader : rpc'[y] = "reset" => rpc[y] = "reset"  BY <1>0, <3>4
    <3> QED  BY <1>0, <2>0, <3>3, <3>4, <3>5, <3>6 DEF TargetsHold
  <2>6. ASSUME NEW x \in Reader, ReadEnd(x)  PROVE TargetsHold'
    <3>1. messages' = messages /\ reset' = reset
          /\ \A y \in Reader : rpc'[y] = "reset" => rpc[y] = "reset"
      BY <1>0, <2>6 DEF ReadEnd, mvars
    <3> QED  BY <2>0, <3>1 DEF TargetsHold
  <2>7. Tick \/ Look \/ RequeueKick \/ RequeueClear => UNCHANGED <<messages, rpc, reset>>
    BY DEF Tick, Look, RequeueKick, RequeueClear, mvars, rvars
  <2>8. ASSUME NEW w \in Writer, Send(w) \/ Writing(w)
        PROVE  UNCHANGED <<messages, rpc, reset>>
    BY <2>8 DEF Send, Writing, KickStore, KickWrap, Fill, SetValid, Post, mvars, rvars
  <2>9. UNCHANGED ringVars => UNCHANGED <<messages, rpc, reset>>
    BY DEF ringVars, mvars, rvars
  <2> QED
    BY <2>1, <2>2, <2>3, <2>4, <2>5, <2>6, <2>7, <2>8, <2>9
    DEF RingNext, Requeue, Reading
<1> QED  BY <1>1, <1>2, <1>3, <1>4 DEF RingEntries

\* A step that enters no message in a ring makes none live, and one that fills
\* no entry makes at most fewer of them live.
LEMMA LiveStep ==
  ASSUME RingTypeOK, RingEntries, [RingNext]_ringVars,
         NEW r \in Ring, NEW k \in Index,
         Kept(r, k) \/ Marked(r, k) \/ Emptied(r, k)
  PROVE  /\ Live(r, k)' => Live(r, k)
         /\ uplink'[r][k].msg = uplink[r][k].msg
<1>0. uplink \in [Ring -> [Index -> Entry]]  BY DEF RingTypeOK, Entry, Index
<1>1. uplink[r][k] \in Entry  BY ONLY <1>0, r \in Ring, k \in Index
<1>2. uplink[r][k].flags \cup {"valid"} \in SUBSET Flag /\ {} \in SUBSET Flag
  BY <1>1 DEF Entry, Flag
<1>3. CASE Kept(r, k)  BY <1>3 DEF Kept, Live
<1>4. CASE Marked(r, k)
  BY <1>1, <1>2, <1>4, FlaggedIs DEF Marked, Live, GroupFlag
<1>5. CASE Emptied(r, k)
  BY <1>1, <1>2, <1>5, FlaggedIs DEF Emptied, Live, GroupFlag
<1> QED  BY <1>3, <1>4, <1>5

\* The log grows only when the daemon copies, and an entry only when it is filled.
LEMMA QuietStep ==
  ASSUME RingTypeOK, RingEntries, OneMove, [RingNext]_ringVars, log' = log,
         \A r \in Ring : \A k \in Index : Kept(r, k) \/ Marked(r, k) \/ Emptied(r, k),
         \/ UNCHANGED <<daemon_pc, dring, dmc>>
         \/ daemon_pc # "clear"
         \/ Emptied(R, dmc[R])
  PROVE  OneMove'
<1>0. /\ uplink \in [Ring -> [Index -> Entry]] /\ dmc \in [Ring -> Index] /\ R \in Ring
      /\ log \in Seq(Msg)
  BY RingsAre DEF RingTypeOK, Entry, Index
<1>1. \A r \in Ring : \A k \in Index :
        (Live(r, k)' => Live(r, k)) /\ uplink'[r][k].msg = uplink[r][k].msg
  BY LiveStep
<1>2. \A r \in Ring : \A k \in Index : Live(r, k) => uplink[r][k].msg \in Msg
  BY DEF RingEntries, EntriesHold, Live
<1>3. LiveIsSent'  BY <1>1, <1>2, SentStays DEF OneMove, LiveIsSent
<1>4. LiveOnce'  BY <1>1 DEF OneMove, LiveOnce
<1>5. LogIsSent'
  <2>1. \A i \in 1 .. Len(log) : log[i] \in Msg  BY <1>0
  <2> QED  BY <2>1, SentStays DEF OneMove, LogIsSent
<1>6. RequeuedOnce'  BY DEF OneMove, RequeuedOnce
<1>7. LoggedIsDone'
  <2>1. ASSUME NEW r \in Ring, NEW k \in Index, NEW i \in 1 .. Len(log),
               Live(r, k)', uplink'[r][k].msg = log'[i]
        PROVE  daemon_pc' = "clear" /\ r = R' /\ k = dmc'[R']
    <3>1. daemon_pc = "clear" /\ r = R /\ k = dmc[R]
      BY <1>1, <2>1 DEF OneMove, LoggedIsDone
    <3>2. CASE UNCHANGED <<daemon_pc, dring, dmc>>
      BY <3>1, <3>2 DEF R
    <3>3. CASE Emptied(R, dmc[R])
      <4>1. uplink[r][k] \in Entry  BY ONLY <1>0, r \in Ring, k \in Index
      <4>2. uplink'[r][k].flags = {}  BY <3>1, <3>3, <4>1, FlaggedIs DEF Emptied
      <4> QED  BY <2>1, <4>2 DEF Live
    <3> QED  BY <3>1, <3>2, <3>3
  <2>2. 1 .. Len(log') = 1 .. Len(log)  OBVIOUS
  <2> QED  BY <2>1, <2>2 DEF LoggedIsDone
<1> QED  BY <1>3, <1>4, <1>5, <1>6, <1>7 DEF OneMove

\* The new message of a writer is nowhere else.
LEMMA FillKeeps ==
  ASSUME RingTypeOK, RingEntries, OneMove, NEW w \in Writer, Fill(w)
  PROVE  OneMove'
<1> DEFINE n == <<w, sent[w]>>
           e == [msg |-> n, flags |-> Group(w)]
<1>0. /\ uplink \in [Ring -> [Index -> Entry]] /\ slot[w] \in Index /\ RingOf[w] \in Ring
      /\ log \in Seq(Msg) /\ wpc[w] = "fill" /\ sent[w] \in Nat
      /\ wpc \in [Writer -> {"idle", "store", "wrap", "fill", "valid", "post"}]
  BY RingsAre DEF RingTypeOK, Entry, Index, Fill
<1>1. [RingNext]_ringVars  BY DEF RingNext, Writing
<1>2. uplink' = [uplink EXCEPT ![RingOf[w]][slot[w]] = e]  BY DEF Fill
<1>3. n \in Msg
  <2>1. sent[w] \in 1 .. MaxSend[w]
    BY <1>0, MessageRingAssumption DEF RingEntries, Counted, RingTypeOK
  <2> QED  BY <2>1, MsgParts
<1>4. ~IsSent(n)
  <2>1. n[1] = w /\ n[2] = sent[w]  OBVIOUS
  <2>2. ~(sent[w] < sent[w])  BY ONLY <1>0
  <2> QED  BY <1>0, <2>1, <2>2 DEF IsSent, Composing
<1>5. n[2] <= sent'[n[1]] /\ wpc'[n[1]] \notin Composing
  <2>1. sent' = sent /\ wpc' = [wpc EXCEPT ![w] = "valid"]  BY DEF Fill, WGoto
  <2>2. wpc'[w] = "valid"  BY ONLY <1>0, <2>1, w \in Writer
  <2>3. n[1] = w /\ n[2] = sent[w]  OBVIOUS
  <2>4. sent[w] <= sent[w]  BY ONLY <1>0
  <2>5. n[2] <= sent'[n[1]]  BY <2>1, <2>3, <2>4
  <2>6. wpc'[n[1]] \notin Composing  BY <2>2, <2>3 DEF Composing
  <2> QED  BY <2>5, <2>6
<1> DEFINE Here(r, k) == r = RingOf[w] /\ k = slot[w]
<1> HIDE DEF n
<1>6. ASSUME NEW r \in Ring, NEW k \in Index
      PROVE  /\ Here(r, k) => uplink'[r][k].msg = n
             /\ ~Here(r, k) => uplink'[r][k] = uplink[r][k]
  <2>1. e.msg = n  OBVIOUS
  <2> HIDE DEF e
  <2>2. Here(r, k) => uplink'[r][k] = e  BY ONLY <1>0, <1>2, r \in Ring, k \in Index
  <2>3. ~Here(r, k) => uplink'[r][k] = uplink[r][k]
    BY ONLY <1>0, <1>2, r \in Ring, k \in Index
  <2> QED  BY <2>1, <2>2, <2>3
<1>7. \A r \in Ring : \A k \in Index : Live(r, k) => uplink[r][k].msg \in Msg
  BY DEF RingEntries, EntriesHold, Live
<1>8. UNCHANGED <<daemon_pc, dring, dmc, log>>  BY DEF Fill, daemonVars
<1>9. \A r \in Ring : \A k \in Index :
        ~Here(r, k) /\ Live(r, k)' => Live(r, k) /\ uplink'[r][k].msg = uplink[r][k].msg
  BY <1>6 DEF Live
<1> HIDE DEF Here
<1>10. LiveIsSent'
  <2>1. ASSUME NEW r \in Ring, NEW k \in Index, Live(r, k)', Here(r, k)
        PROVE  IsSent(uplink[r][k].msg)'
    BY <1>5, <1>6, <2>1 DEF IsSent
  <2>2. ASSUME NEW r \in Ring, NEW k \in Index, Live(r, k)', ~Here(r, k)
        PROVE  IsSent(uplink[r][k].msg)'
    BY <1>1, <1>7, <1>9, <2>2, SentStays DEF OneMove, LiveIsSent
  <2> QED  BY <2>1, <2>2 DEF LiveIsSent
<1>11. LiveOnce'
  <2>1. \A r, s \in Ring : \A k, l \in Index :
          Here(r, k) /\ Here(s, l) => r = s /\ k = l
    BY DEF Here
  <2>2. \A r \in Ring : \A k \in Index :
          ~Here(r, k) /\ Live(r, k)' => uplink'[r][k].msg # n
    BY <1>4, <1>9 DEF OneMove, LiveIsSent
  <2> QED  BY <1>6, <1>9, <2>1, <2>2 DEF OneMove, LiveOnce
<1>12. LogIsSent' /\ RequeuedOnce'
  <2>1. \A i \in 1 .. Len(log) : log[i] \in Msg  BY <1>0
  <2> QED  BY <1>1, <1>8, <2>1, SentStays DEF OneMove, LogIsSent, RequeuedOnce
<1>13. LoggedIsDone'
  <2>1. \A i \in 1 .. Len(log) : log[i] # n  BY <1>4 DEF OneMove, LogIsSent
  <2>2. R' = R  BY <1>8 DEF R
  <2> QED  BY <1>6, <1>8, <1>9, <2>1, <2>2 DEF OneMove, LoggedIsDone
<1> QED  BY <1>10, <1>11, <1>12, <1>13 DEF OneMove

\* A live entry's message is not in the log yet when the daemon copies it.
LEMMA CopyKeeps ==
  ASSUME RingTypeOK, RingEntries, OneMove, RequeueCopy
  PROVE  OneMove'
<1> DEFINE m == uplink[R][dmc[R]].msg
<1>0. /\ dmc[R] \in Index /\ R \in Ring /\ log \in Seq(Msg)
  BY RingsAre DEF RingTypeOK, Index
<1>1. [RingNext]_ringVars  BY DEF RingNext, Requeue
<1>2. /\ UNCHANGED <<uplink, dring, dmc>> /\ R' = R
      /\ daemon_pc = "copy" /\ daemon_pc' = "clear"
  BY DEF RequeueCopy, uvars, R
<1>3. m \in Msg  BY <1>2 DEF RingEntries, CurrentHolds
<1>4. log' = log \/ (Live(R, dmc[R]) /\ log' = Append(log, m))
  BY DEF RequeueCopy, Deliverable, Live, GroupFlag
<1>5. \A r \in Ring : \A k \in Index : Live(r, k) => uplink[r][k].msg \in Msg
  BY DEF RingEntries, EntriesHold, Live
<1>6. LiveIsSent' /\ LiveOnce'
  <2>1. \A r \in Ring : \A k \in Index : Live(r, k)' <=> Live(r, k)  BY <1>2 DEF Live
  <2> QED  BY <1>1, <1>2, <1>5, <2>1, SentStays DEF OneMove, LiveIsSent, LiveOnce
<1>7. \A r \in Ring : \A k \in Index : Live(r, k) =>
        \A i \in 1 .. Len(log) : uplink[r][k].msg # log[i]
  BY <1>2 DEF OneMove, LoggedIsDone
<1>8. \A i \in 1 .. Len(log') :
        \/ i \in 1 .. Len(log) /\ log'[i] = log[i]
        \/ i = Len(log) + 1 /\ log'[i] = m /\ Live(R, dmc[R])
  <2> HIDE DEF m
  <2> QED  BY ONLY <1>0, <1>3, <1>4
<1>9. LogIsSent'
  <2>1. \A i \in 1 .. Len(log) : log[i] \in Msg  BY <1>0
  <2>2. Live(R, dmc[R]) => IsSent(m)  BY <1>0 DEF OneMove, LiveIsSent
  <2>3. \A i \in 1 .. Len(log') : log'[i] \in Msg /\ IsSent(log'[i])
    BY <1>3, <1>8, <2>1, <2>2 DEF OneMove, LogIsSent
  <2> QED  BY <1>1, <2>3, SentStays DEF LogIsSent
<1>10. RequeuedOnce'
  <2>1. Live(R, dmc[R]) => \A i \in 1 .. Len(log) : m # log[i]  BY <1>0, <1>7
  <2> QED  BY <1>8, <2>1 DEF OneMove, RequeuedOnce
<1>11. LoggedIsDone'
  <2>1. ASSUME NEW r \in Ring, NEW k \in Index, NEW i \in 1 .. Len(log'),
               Live(r, k), uplink[r][k].msg = log'[i]
        PROVE  r = R /\ k = dmc[R]
    <3>1. log'[i] = m /\ Live(R, dmc[R])  BY <1>7, <1>8, <2>1
    <3> QED  BY <1>0, <2>1, <3>1 DEF OneMove, LiveOnce
  <2> QED  BY <1>2, <2>1 DEF LoggedIsDone, Live
<1> QED  BY <1>6, <1>9, <1>10, <1>11 DEF OneMove

\* A step of anybody keeps the invariant.
LEMMA RingStep == ASSUME RingIInv, [RingNext]_ringVars PROVE RingIInv'
<1>1. RingTypeOK /\ RingEntries /\ OneMove  BY DEF RingIInv, OneMove
<1>2. RingTypeOK' /\ RingEntries'  BY <1>1, RingTypeStep, RingEntriesStep
<1>3. ASSUME NEW w \in Writer, Fill(w)  PROVE OneMove'
  BY <1>1, <1>3, FillKeeps
<1>4. RequeueCopy => OneMove'  BY <1>1, CopyKeeps
<1>5. ASSUME ~\E w \in Writer : Fill(w), log' = log,
             \/ UNCHANGED <<daemon_pc, dring, dmc>>
             \/ daemon_pc # "clear"
             \/ Emptied(R, dmc[R])
      PROVE  OneMove'
  <2>1. \A r \in Ring : \A k \in Index : Kept(r, k) \/ Marked(r, k) \/ Emptied(r, k)
    BY <1>1, <1>5, EntryStep DEF Placed
  <2> QED  BY <1>1, <1>5, <2>1, QuietStep
<1>6. ASSUME NEW w \in Writer, Send(w) \/ Writing(w)
      PROVE  log' = log /\ UNCHANGED <<daemon_pc, dring, dmc>>
  BY <1>6 DEF Send, Writing, KickStore, KickWrap, Fill, SetValid, Post, daemonVars
<1>7. ASSUME NEW x \in Reader, Reading(x)
      PROVE  log' = log /\ UNCHANGED <<daemon_pc, dring, dmc>>
  BY <1>7 DEF Reading, Read, Reset, ReadEnd, daemonVars
<1>8. Tick \/ Look \/ ScanEnd \/ RequeueKick => log' = log /\ daemon_pc # "clear"
  BY DEF Tick, Look, ScanEnd, RequeueKick
<1>9. RequeueClear => log' = log /\ Emptied(R, dmc[R])
  <2> SUFFICES ASSUME RequeueClear  PROVE log' = log /\ Emptied(R, dmc[R])
    OBVIOUS
  <2> DEFINE g == Flagged(uplink[R][dmc[R]], {})
  <2>1. uplink' = [uplink EXCEPT ![R][dmc[R]] = g] /\ log' = log
    BY DEF RequeueClear, Flagged
  <2>2. uplink \in [Ring -> [Index -> Entry]] /\ R \in Ring /\ dmc[R] \in Index
    BY <1>1, RingsAre DEF RingTypeOK, Entry, Index
  <2> HIDE DEF g
  <2>3. uplink'[R][dmc[R]] = g  BY ONLY <2>1, <2>2
  <2> QED  BY <2>1, <2>3 DEF Emptied, g
<1>10. UNCHANGED ringVars => log' = log /\ UNCHANGED <<daemon_pc, dring, dmc>>
  BY DEF ringVars, daemonVars
<1>11. OneMove'
  BY <1>3, <1>4, <1>5, <1>6, <1>7, <1>8, <1>9, <1>10 DEF RingNext, Requeue
<1> QED  BY <1>2, <1>11 DEF RingIInv, OneMove

\* However writers, the daemon and readers interleave, on however many rings of
\* whatever size, also when writers share one (do_message_requeue(),
\* do_message_oob()), no message is requeued twice.
THEOREM RequeueHolds == RingSpec => []RequeueInv
<1>1. RingInit => RingIInv  BY RingFirst
<1>2. RingIInv /\ [RingNext]_ringVars => RingIInv'  BY RingStep
<1>3. RingIInv => RequeueInv  BY DEF RingIInv, OneMove, RequeueInv
<1> QED  BY <1>1, <1>2, <1>3, PTL DEF RingSpec

-----------------------------------------------------------------------------
(* The order of a sender's messages *)

\* The newest entry a writer has reserved in a ring, the index after one, how far
\* an index lies ahead of another, and how many entries the daemon is behind.
Final(r)    == IF mc[r] >= MaxUplink THEN MaxUplink - 1 ELSE mc[r]
After(k)    == IF k + 1 = MaxUplink THEN 0 ELSE k + 1
Gap(d, k)   == IF k >= d THEN k - d ELSE k + MaxUplink - d
\* How far the daemon is from an entry; how far it has to go.
Ahead(r, k) == Gap(dmc[r], k)
Due(r)      == Gap(dmc[r], After(Final(r)))

\* Where a writer is in its ring, which is its alone; where the daemon is.
OwnPlace(w) ==
  LET r == RingOf[w] IN
  /\ wpc[w] = "store" => tmp[w] = mc[r]
  /\ IF wpc[w] = "wrap" THEN mc[r] = MaxUplink ELSE mc[r] < MaxUplink
  /\ wpc[w] \in {"fill", "valid"} => slot[w] = mc[r]
  /\ wpc[w] = "fill" => Due(r) >= 1
  /\ daemon_pc = "idle" =>
       Due(r) + (IF wpc[w] \in {"store", "wrap"} THEN 1 ELSE 0) <= burst[w]
  /\ daemon_pc # "idle" => wpc[w] = "idle"
\* An index at the end of its ring is about to be wrapped.
FreeRing(r) == mc[r] < MaxUplink \/ \E w \in Writer : RingOf[w] = r /\ wpc[w] = "wrap"
\* The rings before the daemon's have been emptied.
DaemonPlace ==
  daemon_pc # "idle" =>
    /\ \A k \in 1 .. dring - 1 : Due(RingSeq[k]) = 0
    /\ daemon_pc \in {"kick", "copy", "clear"} => Due(R) > 0
\* Where everybody is.
Places == /\ \A w \in Writer : OwnPlace(w)
          /\ \A r \in Ring : FreeRing(r)
          /\ DaemonPlace

\* The live entries of a ring are those the daemon has not visited, of its own
\* writer, valid or about to be, the older ones first, and newer than the log.
Window     == \A r \in Ring : \A k \in Index : Live(r, k) => Ahead(r, k) < Due(r)
NotYet     == \A w \in Writer : wpc[w] = "fill" => ~Live(RingOf[w], slot[w])
OwnRing    == \A r \in Ring : \A k \in Index :
                Live(r, k) => RingOf[uplink[r][k].msg[1]] = r
ValidSoon  == \A r \in Ring : \A k \in Index :
                Live(r, k) => \/ "valid" \in uplink[r][k].flags
                              \/ \E w \in Writer : /\ wpc[w] = "valid" /\ RingOf[w] = r
                                                   /\ slot[w] = k
\* An entry that the daemon comes to first is older.
InRingOrder == \A r \in Ring : \A k, l \in Index :
                 Live(r, k) /\ Live(r, l) /\ Ahead(r, k) < Ahead(r, l)
                   => uplink[r][k].msg[2] < uplink[r][l].msg[2]
\* An entry is newer than what the log has of its writer.
NewerThanLog == \A r \in Ring : \A k \in Index : \A i \in 1 .. Len(log) :
                  Live(r, k) /\ log[i][1] = uplink[r][k].msg[1]
                    => \/ log[i][2] < uplink[r][k].msg[2]
                       \/ daemon_pc = "clear" /\ r = R /\ k = dmc[R]
\* What the live entries are.
Contents == /\ Window /\ NotYet /\ OwnRing /\ ValidSoon
            /\ InRingOrder /\ NewerThanLog /\ OrderKept

\* The inductive invariant of the order.
OrderIInv == RingIInv /\ Places /\ Contents

\* Counting round a ring.
LEMMA RoundIs ==
  ASSUME NEW d \in Index, NEW k \in Index
  PROVE  /\ (k + 1) % MaxUplink = After(k) /\ After(k) \in Index
         /\ Gap(d, k) \in Index
         /\ (Gap(d, k) = 0) <=> (k = d)
         /\ \A l \in Index : Gap(d, k) = Gap(d, l) => k = l
         /\ k # d => Gap(After(d), k) = Gap(d, k) - 1
         /\ Gap(After(d), d) = MaxUplink - 1
         /\ Gap(d, After(k)) = IF Gap(d, k) + 1 = MaxUplink THEN 0 ELSE Gap(d, k) + 1
<1>1. MaxUplink \in Nat \ {0, 1}  BY MessageRingAssumption
<1>2. (k + 1) % MaxUplink = After(k)
  <2>1. CASE k + 1 = MaxUplink
    <3>1. MaxUplink % MaxUplink = 0  BY ONLY <1>1
    <3> QED  BY <2>1, <3>1 DEF After
  <2>2. CASE k + 1 < MaxUplink
    <3>1. k \in Nat  BY DEF Index
    <3>2. (k + 1) % MaxUplink = k + 1  BY ONLY <1>1, <2>2, <3>1
    <3> QED  BY ONLY <1>1, <2>2, <3>1, <3>2 DEF After
  <2> QED  BY ONLY <1>1, <2>1, <2>2, k \in Index DEF Index
<1>3. d \in 0 .. MaxUplink - 1 /\ k \in 0 .. MaxUplink - 1  BY DEF Index
<1>4. /\ After(k) \in Index /\ Gap(d, k) \in Index
      /\ (Gap(d, k) = 0) <=> (k = d)
      /\ \A l \in Index : Gap(d, k) = Gap(d, l) => k = l
  BY ONLY <1>1, <1>3 DEF Index, Gap, After
<1>5. /\ k # d => Gap(After(d), k) = Gap(d, k) - 1
      /\ Gap(After(d), d) = MaxUplink - 1
  BY ONLY <1>1, <1>3 DEF Gap, After
<1>6. Gap(d, After(k)) = IF Gap(d, k) + 1 = MaxUplink THEN 0 ELSE Gap(d, k) + 1
  BY ONLY <1>1, <1>3 DEF Gap, After
<1> QED  BY <1>2, <1>4, <1>5, <1>6

\* The next index is one further round the ring,
LEMMA RoundNext ==
  ASSUME NEW d \in Index, NEW k \in Index, Gap(d, k) + 1 # MaxUplink
  PROVE  Gap(d, After(k)) = Gap(d, k) + 1
<1>1. Gap(d, After(k)) = IF Gap(d, k) + 1 = MaxUplink THEN 0 ELSE Gap(d, k) + 1
  BY RoundIs
<1> QED  BY <1>1

\* unless that is where the count began.
LEMMA RoundWrap ==
  ASSUME NEW d \in Index, NEW k \in Index, Gap(d, k) + 1 = MaxUplink
  PROVE  Gap(d, After(k)) = 0
<1>1. Gap(d, After(k)) = IF Gap(d, k) + 1 = MaxUplink THEN 0 ELSE Gap(d, k) + 1
  BY RoundIs
<1> QED  BY <1>1

\* The types that the counting needs.
LEMMA RoundTypes ==
  ASSUME RingTypeOK
  PROVE  /\ mc \in [Ring -> Nat] /\ dmc \in [Ring -> Index] /\ tmp \in [Writer -> Nat]
         /\ slot \in [Writer -> Index] /\ R \in Ring
         /\ wpc \in [Writer -> {"idle", "store", "wrap", "fill", "valid", "post"}]
         /\ burst \in [Writer -> 0 .. MaxBurst] /\ MaxBurst \in Nat
         /\ \A w \in Writer : RingOf[w] \in Ring
         /\ MaxUplink \in Nat \ {0, 1} /\ 0 \in Index
         /\ \A r \in Ring : Final(r) \in Index /\ Due(r) \in Index
<1>1. /\ mc \in [Ring -> Nat] /\ dmc \in [Ring -> Index] /\ tmp \in [Writer -> Nat]
      /\ slot \in [Writer -> Index] /\ R \in Ring
      /\ wpc \in [Writer -> {"idle", "store", "wrap", "fill", "valid", "post"}]
      /\ burst \in [Writer -> 0 .. MaxBurst] /\ MaxBurst \in Nat
      /\ \A w \in Writer : RingOf[w] \in Ring
      /\ MaxUplink \in Nat \ {0, 1}
  BY RingsAre, MessageRingAssumption DEF RingTypeOK, Index
<1>2. 0 \in Index  BY ONLY <1>1 DEF Index
<1>3. ASSUME NEW r \in Ring  PROVE Final(r) \in Index /\ Due(r) \in Index
  <2>1. mc[r] \in Nat /\ dmc[r] \in Index  BY <1>1
  <2>2. Final(r) \in Index  BY ONLY <1>1, <2>1 DEF Final, Index
  <2>3. After(Final(r)) \in Index  BY <2>1, <2>2, RoundIs
  <2>4. Gap(dmc[r], After(Final(r))) \in Index  BY <2>1, <2>3, RoundIs
  <2> QED  BY <2>2, <2>4 DEF Due
<1> QED  BY <1>1, <1>2, <1>3

\* Unless its index is changed a ring is where it was.
LEMMA SameRound ==
  ASSUME NEW r \in Ring, mc'[r] = mc[r], dmc'[r] = dmc[r]
  PROVE  Final(r)' = Final(r) /\ Due(r)' = Due(r) /\ \A k \in Index : Ahead(r, k)' = Ahead(r, k)
BY DEF Final, Due, Ahead

\* do_message_kick() reserves the next entry, in one step or two.
LEMMA Reserve ==
  ASSUME RingTypeOK, NEW w \in Writer, OwnPlace(w), daemon_pc = "idle", MaxBurst < MaxUplink,
         KickStore(w) \/ KickWrap(w)
  PROVE  LET r == RingOf[w] IN
         \/ /\ wpc'[w] = "wrap" /\ mc'[r] = MaxUplink /\ Due(r)' = Due(r)
            /\ Due(r) + 1 <= burst[w] /\ slot' = slot
         \/ /\ wpc'[w] = "fill" /\ slot'[w] \in Index
            /\ mc'[r] = slot'[w] /\ mc'[r] < MaxUplink
            /\ Due(r)' = Due(r) + 1 /\ Due(r) + 1 <= burst[w]
            /\ Gap(dmc[r], slot'[w]) = Due(r)
<1> DEFINE r == RingOf[w]
<1>0. /\ r \in Ring /\ mc[r] \in Nat /\ dmc[r] \in Index /\ tmp[w] \in Nat
      /\ Due(r) \in Nat /\ burst[w] \in Nat /\ burst[w] < MaxUplink
      /\ MaxUplink \in Nat \ {0, 1} /\ 0 \in Index
      /\ mc \in [Ring -> Nat] /\ slot \in [Writer -> Index] /\ w \in Writer
      /\ wpc \in [Writer -> {"idle", "store", "wrap", "fill", "valid", "post"}]
  BY RoundTypes DEF Index
<1>1. dmc' = dmc  BY DEF KickStore, KickWrap, daemonVars
<1>2. CASE KickStore(w)
  <2>1. tmp[w] = mc[r] /\ mc[r] < MaxUplink /\ Due(r) + 1 <= burst[w]
    BY <1>2 DEF OwnPlace, KickStore
  <2>2. mc' = [mc EXCEPT ![r] = tmp[w] + 1]  BY <1>2 DEF KickStore
  <2>3. mc'[r] = mc[r] + 1  BY ONLY <1>0, <2>1, <2>2
  <2>4. CASE mc[r] + 1 = MaxUplink
    <3>1. wpc'[w] = "wrap" /\ slot' = slot
      <4>1. wpc' = [wpc EXCEPT ![w] = "wrap"] /\ slot' = slot
        BY <1>0, <1>2, <2>1, <2>4 DEF KickStore, WGoto
      <4> QED  BY ONLY <1>0, <4>1
    <3>2. Final(r)' = Final(r)  BY ONLY <1>0, <2>3, <2>4 DEF Final
    <3>3. Due(r)' = Due(r)  BY <1>1, <3>2 DEF Due
    <3> QED  BY <2>1, <2>3, <2>4, <3>1, <3>3
  <2>5. CASE mc[r] + 1 < MaxUplink
    <3>1. wpc'[w] = "fill" /\ slot'[w] = mc[r] + 1
      <4>1. wpc' = [wpc EXCEPT ![w] = "fill"] /\ slot' = [slot EXCEPT ![w] = tmp[w] + 1]
        BY <1>0, <1>2, <2>1, <2>5 DEF KickStore, WGoto
      <4> QED  BY ONLY <1>0, <2>1, <4>1
    <3>2. /\ mc[r] \in Index /\ mc[r] + 1 \in Index /\ After(mc[r]) = mc[r] + 1
          /\ Final(r) = mc[r] /\ Final(r)' = mc[r] + 1
      BY ONLY <1>0, <2>3, <2>5 DEF Index, After, Final
    <3>3. Due(r) = Gap(dmc[r], mc[r] + 1) /\ Due(r)' = Gap(dmc[r], After(mc[r] + 1))
      BY <1>1, <3>2 DEF Due
    <3>4. Gap(dmc[r], After(mc[r] + 1)) = Gap(dmc[r], mc[r] + 1) + 1
      <4>1. Gap(dmc[r], mc[r] + 1) + 1 # MaxUplink  BY ONLY <1>0, <2>1, <3>3
      <4>2. dmc[r] \in Index /\ mc[r] + 1 \in Index  BY <1>0, <3>2
      <4> QED  BY ONLY <4>1, <4>2, RoundNext
    <3> QED  BY <2>1, <2>3, <2>5, <3>1, <3>2, <3>3, <3>4
  <2> QED  BY ONLY <1>0, <2>1, <2>4, <2>5
<1>3. CASE KickWrap(w)
  <2>1. mc[r] = MaxUplink /\ Due(r) + 1 <= burst[w]
    BY <1>3 DEF OwnPlace, KickWrap
  <2>2. mc' = [mc EXCEPT ![r] = 0] /\ slot' = [slot EXCEPT ![w] = 0]
        /\ wpc' = [wpc EXCEPT ![w] = "fill"]
    BY <1>3 DEF KickWrap, WGoto
  <2>3. mc'[r] = 0 /\ slot'[w] = 0 /\ wpc'[w] = "fill"  BY ONLY <1>0, <2>2
  <2>4. /\ Final(r) = MaxUplink - 1 /\ Final(r)' = 0 /\ After(MaxUplink - 1) = 0
    BY ONLY <1>0, <2>1, <2>3 DEF Final, After
  <2>5. Due(r) = Gap(dmc[r], 0) /\ Due(r)' = Gap(dmc[r], After(0))
    BY <1>1, <2>4 DEF Due
  <2>6. Gap(dmc[r], After(0)) = Gap(dmc[r], 0) + 1
    <3>1. Gap(dmc[r], 0) + 1 # MaxUplink  BY ONLY <1>0, <2>1, <2>5
    <3>2. dmc[r] \in Index /\ 0 \in Index  BY <1>0
    <3> QED  BY ONLY <3>1, <3>2, RoundNext
  <2>7. 0 < MaxUplink  BY ONLY <1>0
  <2> QED  BY <1>0, <2>1, <2>3, <2>5, <2>6, <2>7
<1> QED  BY <1>2, <1>3

\* The daemon goes on to the next entry.
LEMMA Advance ==
  ASSUME RingTypeOK, mc' = mc, dmc' = [dmc EXCEPT ![R] = (@ + 1) % MaxUplink], R' = R, Due(R) > 0
  PROVE  /\ Due(R)' = Due(R) - 1 /\ Final(R)' = Final(R)
         /\ \A k \in Index \ {dmc[R]} : Gap(dmc'[R], k) = Ahead(R, k) - 1
         /\ \A r \in Ring \ {R} : dmc'[r] = dmc[r]
<1>0. R \in Ring /\ dmc \in [Ring -> Index] /\ dmc[R] \in Index /\ Final(R) \in Index
  BY RoundTypes
<1>1. (dmc[R] + 1) % MaxUplink = After(dmc[R])  BY <1>0, RoundIs
<1>2. dmc'[R] = After(dmc[R]) /\ \A r \in Ring \ {R} : dmc'[r] = dmc[r]
  BY ONLY <1>0, <1>1, dmc' = [dmc EXCEPT ![R] = (@ + 1) % MaxUplink]
<1>3. \A k \in Index \ {dmc[R]} : Gap(After(dmc[R]), k) = Gap(dmc[R], k) - 1
  BY <1>0, RoundIs
<1>4. After(Final(R)) \in Index \ {dmc[R]}
  <2>1. After(Final(R)) \in Index  BY <1>0, RoundIs
  <2>2. Gap(dmc[R], After(Final(R))) # 0  BY DEF Due
  <2> QED  BY <1>0, <2>1, <2>2, RoundIs
<1>5. R' = R => Final(R)' = Final(R)  BY DEF Final
<1>6. R' = R => Due(R)' = Due(R) - 1  BY <1>2, <1>3, <1>4, <1>5 DEF Due
<1> QED  BY <1>2, <1>3, <1>5, <1>6 DEF Ahead

\* A writer that no step concerns keeps its place.
LEMMA OwnSame ==
  ASSUME NEW w \in Writer, OwnPlace(w),
         mc'[RingOf[w]] = mc[RingOf[w]], dmc'[RingOf[w]] = dmc[RingOf[w]],
         wpc'[w] = wpc[w], tmp'[w] = tmp[w], slot'[w] = slot[w], burst'[w] = burst[w],
         daemon_pc' = daemon_pc
  PROVE  OwnPlace(w)'
<1>1. Due(RingOf[w])' = Due(RingOf[w])  BY DEF Due, Final
<1> QED  BY <1>1 DEF OwnPlace

\* Each player's ring is its own, the processes take turns, and a writer does not
\* lap the daemon.
TakingTurns ==
  /\ Overlap = FALSE /\ MaxBurst < MaxUplink
  /\ \A v, w \in Writer : RingOf[v] = RingOf[w] => v = w

\* The places are kept by the writers.
LEMMA WriterPlaces ==
  ASSUME TakingTurns, RingTypeOK, Places, NEW w \in Writer, Send(w) \/ Writing(w)
  PROVE  Places'
<1> DEFINE r == RingOf[w]
<1>0. /\ r \in Ring /\ mc \in [Ring -> Nat] /\ slot \in [Writer -> Index]
      /\ tmp \in [Writer -> Nat] /\ burst \in [Writer -> 0 .. MaxBurst]
      /\ wpc \in [Writer -> {"idle", "store", "wrap", "fill", "valid", "post"}]
      /\ Due(r) \in Nat /\ burst[w] \in Nat /\ w \in Writer /\ mc[r] \in Nat
      /\ \A v \in Writer : RingOf[v] \in Ring
  BY RoundTypes DEF Index
<1>1. OwnPlace(w) /\ (\A v \in Writer : OwnPlace(v)) /\ (\A q \in Ring : FreeRing(q))
  BY DEF Places
<1>2. daemon_pc = "idle" /\ daemon_pc' = "idle" /\ UNCHANGED dmc
  <2>1. UNCHANGED daemonVars
    BY DEF Send, Writing, KickStore, KickWrap, Fill, SetValid, Post
  <2>2. Send(w) => daemon_pc = "idle"  BY DEF Send, TakingTurns
  <2>3. Writing(w) => wpc[w] # "idle"
    BY DEF Writing, KickStore, KickWrap, Fill, SetValid, Post
  <2>4. wpc[w] # "idle" => daemon_pc = "idle"  BY <1>1 DEF OwnPlace
  <2> QED  BY <2>1, <2>2, <2>3, <2>4 DEF daemonVars
<1>3. /\ \A v \in Writer \ {w} : /\ wpc'[v] = wpc[v] /\ tmp'[v] = tmp[v]
                                 /\ slot'[v] = slot[v] /\ burst'[v] = burst[v]
      /\ \A q \in Ring \ {r} : mc'[q] = mc[q]
  <2>1. /\ \E l : wpc' = [wpc EXCEPT ![w] = l]
        /\ tmp' = tmp \/ \E l : tmp' = [tmp EXCEPT ![w] = l]
        /\ slot' = slot \/ \E l : slot' = [slot EXCEPT ![w] = l]
        /\ burst' = burst \/ \E l : burst' = [burst EXCEPT ![w] = l]
        /\ mc' = mc \/ \E l : mc' = [mc EXCEPT ![r] = l]
    BY DEF Send, Writing, KickStore, KickWrap, Fill, SetValid, Post, WGoto, uvars
  <2> QED  BY ONLY <1>0, <2>1
<1>4. \A v \in Writer \ {w} : OwnPlace(v)'
  <2>1. \A v \in Writer \ {w} : RingOf[v] \in Ring \ {r}  BY <1>0 DEF TakingTurns
  <2> QED  BY <1>1, <1>2, <1>3, <2>1, OwnSame
<1>5. OwnPlace(w)' /\ FreeRing(r)'
  <2>1. CASE Send(w)
    <3>1. /\ wpc' = [wpc EXCEPT ![w] = "store"] /\ tmp' = [tmp EXCEPT ![w] = mc[r]]
          /\ burst' = [burst EXCEPT ![w] = @ + 1] /\ mc' = mc /\ wpc[w] = "idle"
      BY <2>1 DEF Send, WGoto, uvars
    <3>2. wpc'[w] = "store" /\ tmp'[w] = mc[r] /\ burst'[w] = burst[w] + 1 /\ mc'[r] = mc[r]
      BY ONLY <1>0, <3>1
    <3>3. Due(r)' = Due(r)  BY <1>2, <3>1 DEF Due, Final
    <3>4. Due(r) <= burst[w] /\ mc[r] < MaxUplink
      <4>1. mc[r] < MaxUplink /\ Due(r) + 0 <= burst[w]  BY <1>1, <1>2, <3>1 DEF OwnPlace
      <4> QED  BY ONLY <1>0, <4>1
    <3>5. Due(r)' + 1 <= burst'[w]  BY ONLY <1>0, <3>2, <3>3, <3>4
    <3> QED  BY <1>2, <3>2, <3>4, <3>5 DEF OwnPlace, FreeRing
  <2>2. CASE KickStore(w) \/ KickWrap(w)
    <3> DEFINE wrap == /\ wpc'[w] = "wrap" /\ mc'[r] = MaxUplink /\ Due(r)' = Due(r)
                       /\ Due(r) + 1 <= burst[w] /\ slot' = slot
               fill == /\ wpc'[w] = "fill" /\ slot'[w] \in Index
                       /\ mc'[r] = slot'[w] /\ mc'[r] < MaxUplink
                       /\ Due(r)' = Due(r) + 1 /\ Due(r) + 1 <= burst[w]
    <3>1. wrap \/ fill
      BY <1>1, <1>2, <2>2, Reserve DEF TakingTurns
    <3>2. burst' = burst  BY <2>2 DEF KickStore, KickWrap
    <3>3. CASE wrap
      BY <1>0, <1>2, <3>2, <3>3 DEF OwnPlace, FreeRing
    <3>4. CASE fill
      <4>1. Due(r)' >= 1 /\ Due(r)' + 0 <= burst'[w]  BY ONLY <1>0, <3>2, <3>4
      <4> QED  BY <1>2, <3>4, <4>1 DEF OwnPlace, FreeRing
    <3> QED  BY <3>1, <3>3, <3>4
  <2>3. CASE Fill(w) \/ SetValid(w) \/ Post(w)
    <3>1. /\ mc' = mc /\ slot' = slot /\ burst' = burst
          /\ \/ wpc[w] = "fill" /\ wpc' = [wpc EXCEPT ![w] = "valid"]
             \/ wpc[w] = "valid" /\ wpc' = [wpc EXCEPT ![w] = "post"]
             \/ wpc[w] = "post" /\ wpc' = [wpc EXCEPT ![w] = "idle"]
      BY <2>3 DEF Fill, SetValid, Post, WGoto, uvars
    <3>2. /\ wpc[w] \notin {"store", "wrap", "idle"} /\ wpc'[w] \in {"valid", "post", "idle"}
          /\ wpc'[w] = "valid" => wpc[w] = "fill"
      BY ONLY <1>0, <3>1
    <3>3. Due(r)' = Due(r)  BY <1>2, <3>1 DEF Due, Final
    <3> QED  BY <1>1, <1>2, <3>1, <3>2, <3>3 DEF OwnPlace, FreeRing
  <2> QED  BY <2>1, <2>2, <2>3 DEF Writing
<1>6. \A q \in Ring \ {r} : FreeRing(q)'
  BY <1>1, <1>3 DEF FreeRing
<1> QED  BY <1>2, <1>4, <1>5, <1>6 DEF Places, DaemonPlace

\* While the daemon requeues nobody writes, and it is behind in its ring unless it
\* is at the end of it.
LEMMA WritersRest ==
  ASSUME RingTypeOK, Places, daemon_pc # "idle"
  PROVE  /\ \A w \in Writer : wpc[w] = "idle"
         /\ \A r \in Ring : mc[r] < MaxUplink /\ Final(r) = mc[r]
         /\ (dmc[R] = (mc[R] + 1) % MaxUplink) <=> (Due(R) = 0)
<1>1. \A w \in Writer : wpc[w] = "idle"  BY DEF Places, OwnPlace
<1>2. \A r \in Ring : mc[r] < MaxUplink  BY <1>1 DEF Places, FreeRing
<1>3. \A r \in Ring : mc[r] \in Nat  BY RoundTypes
<1>4. MaxUplink \in Nat  BY RoundTypes
<1>5. \A r \in Ring : Final(r) = mc[r]  BY ONLY <1>2, <1>3, <1>4 DEF Final
<1>6. (dmc[R] = (mc[R] + 1) % MaxUplink) <=> (Due(R) = 0)
  <2>1. R \in Ring /\ dmc[R] \in Index /\ Final(R) \in Index /\ Final(R) = mc[R]
    BY <1>5, RoundTypes
  <2>2. (mc[R] + 1) % MaxUplink = After(Final(R)) /\ After(Final(R)) \in Index
    BY <2>1, RoundIs
  <2> DEFINE a == After(Final(R))
  <2>3. (Gap(dmc[R], a) = 0) <=> (a = dmc[R])
    <3> HIDE DEF a
    <3>1. a \in Index /\ dmc[R] \in Index  BY <2>1, <2>2 DEF a
    <3> QED  BY ONLY <3>1, RoundIs
  <2> QED  BY <2>2, <2>3 DEF Due
<1> QED  BY <1>1, <1>2, <1>5, <1>6

\* The places are kept by the daemon.
LEMMA DaemonPlaces ==
  ASSUME TakingTurns, RingTypeOK, Places, Tick \/ Requeue
  PROVE  Places'
<1>0. /\ R \in Ring /\ \A w \in Writer : RingOf[w] \in Ring
      /\ \A w \in Writer : burst[w] \in Nat
      /\ \A r \in Ring : Due(r) \in Nat
      /\ dring \in 1 .. Len(RingSeq) /\ Len(RingSeq) \in Nat
      /\ \A k \in 1 .. Len(RingSeq) : RingSeq[k] \in Ring
  <2>1. R \in Ring /\ \A w \in Writer : RingOf[w] \in Ring  BY RoundTypes
  <2>2. \A w \in Writer : burst[w] \in Nat  BY ONLY RoundTypes, RingTypeOK
  <2>3. \A r \in Ring : Due(r) \in Nat
    <3>1. \A r \in Ring : Due(r) \in Index  BY RoundTypes
    <3> QED  BY ONLY <3>1 DEF Index
  <2>4. dring \in 1 .. Len(RingSeq) /\ Len(RingSeq) \in Nat
    BY RingsAre DEF RingTypeOK
  <2>5. \A k \in 1 .. Len(RingSeq) : RingSeq[k] \in Ring  BY MessageRingAssumption DEF Ring
  <2> QED  BY ONLY <2>1, <2>2, <2>3, <2>4, <2>5
<1>1. UNCHANGED <<mc, wpc, tmp, slot>>
  BY DEF Tick, Requeue, Look, ScanEnd, RequeueKick, RequeueCopy, RequeueClear, uvars, wvars
<1>2. (\A w \in Writer : wpc[w] = "idle") /\ \A r \in Ring : mc[r] < MaxUplink
  <2>1. Requeue => daemon_pc # "idle"
    BY DEF Requeue, Look, ScanEnd, RequeueKick, RequeueCopy, RequeueClear
  <2>2. Tick => \A w \in Writer : wpc[w] = "idle"  BY DEF Tick, TakingTurns, Idle
  <2>3. \A w \in Writer : wpc[w] = "idle"  BY <2>1, <2>2, WritersRest
  <2> QED  BY <2>3 DEF Places, FreeRing
<1>3. \A r \in Ring : FreeRing(r)'  BY <1>1, <1>2 DEF FreeRing
<1>4. ASSUME daemon_pc' # "idle"  PROVE \A w \in Writer : OwnPlace(w)'
  BY <1>0, <1>1, <1>2, <1>4 DEF OwnPlace
<1>5. CASE Tick
  <2>1. daemon_pc' = "scan" /\ dring' = 1  BY <1>5 DEF Tick
  <2> QED  BY <1>3, <1>4, <2>1 DEF Places, DaemonPlace
<1>6. ASSUME daemon_pc # "idle", daemon_pc' # "idle", dring' = dring,
             \/ dmc' = dmc
             \/ /\ dmc' = [dmc EXCEPT ![R] = (@ + 1) % MaxUplink]
                /\ Due(R) > 0 /\ daemon_pc' = "scan",
             daemon_pc' \in {"kick", "copy", "clear"} => Due(R) > 0
      PROVE  Places'
  <2>1. R' = R  BY <1>6 DEF R
  <2>2. \A k \in 1 .. dring - 1 : Due(RingSeq[k]) = 0  BY <1>6 DEF Places, DaemonPlace
  <2>3. CASE dmc' = dmc
    <3>1. \A r \in Ring : Due(r)' = Due(r)  BY <1>1, <2>3 DEF Due, Final
    <3> QED  BY <1>0, <1>3, <1>4, <1>6, <2>1, <2>2, <3>1 DEF Places, DaemonPlace
  <2>4. CASE dmc' # dmc
    <3>1. \A r \in Ring \ {R} : dmc'[r] = dmc[r]  BY <1>1, <1>6, <2>1, <2>4, Advance
    <3>2. \A r \in Ring \ {R} : Due(r)' = Due(r)  BY <1>1, <3>1 DEF Due, Final
    <3>3. \A k \in 1 .. dring - 1 : RingSeq[k] \in Ring \ {R}
      BY <1>0, <1>6, <2>2, <2>4
    <3> QED  BY <1>3, <1>4, <1>6, <2>2, <2>4, <3>2, <3>3 DEF Places, DaemonPlace
  <2> QED  BY <2>3, <2>4
<1>7. CASE Look
  <2>1. daemon_pc = "scan" /\ dring' = dring /\ daemon_pc' \in {"scan", "kick"}
    BY <1>7 DEF Look
  <2>2. Due(R) > 0  BY <1>0, <1>7, <2>1, WritersRest DEF Look
  <2>3. \/ dmc' = dmc
        \/ dmc' = [dmc EXCEPT ![R] = (@ + 1) % MaxUplink] /\ daemon_pc' = "scan"
    BY <1>7, <2>1 DEF Look
  <2> QED  BY <1>6, <2>1, <2>2, <2>3
<1>8. CASE ScanEnd
  <2>1. daemon_pc = "scan" /\ dmc' = dmc  BY <1>8 DEF ScanEnd
  <2>2. Due(R) = 0  BY <1>8, <2>1, WritersRest DEF ScanEnd
  <2>3. \A r \in Ring : Due(r)' = Due(r)  BY <1>1, <2>1 DEF Due, Final
  <2>4. \A k \in 1 .. dring : Due(RingSeq[k]) = 0
    <3>1. \A k \in 1 .. dring - 1 : Due(RingSeq[k]) = 0
      BY <2>1 DEF Places, DaemonPlace
    <3>2. \A k \in 1 .. dring : k = dring \/ k \in 1 .. dring - 1  BY <1>0
    <3> QED  BY <2>2, <3>1, <3>2 DEF R
  <2>5. CASE dring < Len(RingSeq)
    <3>1. daemon_pc' = "scan" /\ dring' = dring + 1  BY <1>8, <2>1, <2>5 DEF ScanEnd
    <3>2. \A k \in 1 .. dring' - 1 : k \in 1 .. dring /\ RingSeq[k] \in Ring
      BY <1>0, <3>1
    <3>3. \A k \in 1 .. dring' - 1 : Due(RingSeq[k])' = 0
      BY <2>3, <2>4, <3>2
    <3> QED  BY <1>3, <1>4, <3>1, <3>3 DEF Places, DaemonPlace
  <2>6. CASE dring = Len(RingSeq)
    <3>1. daemon_pc' = "idle" /\ burst' = burst  BY <1>8, <2>6 DEF ScanEnd, wvars
    <3>2. \A w \in Writer : Due(RingOf[w]) = 0
      <4>1. \A w \in Writer : \E k \in 1 .. Len(RingSeq) : RingSeq[k] = RingOf[w]
        BY MessageRingAssumption
      <4> QED  BY <2>4, <2>6, <4>1
    <3>3. \A w \in Writer : OwnPlace(w)'
      BY <1>0, <1>1, <1>2, <2>3, <3>1, <3>2 DEF OwnPlace
    <3> QED  BY <1>3, <3>1, <3>3 DEF Places, DaemonPlace
  <2> QED  BY <1>0, <2>5, <2>6
<1>9. CASE RequeueKick \/ RequeueCopy
  <2>1. /\ daemon_pc \in {"kick", "copy"} /\ daemon_pc' \in {"copy", "clear"}
        /\ dring' = dring /\ dmc' = dmc
    BY <1>9 DEF RequeueKick, RequeueCopy
  <2>2. Due(R) > 0  BY <2>1 DEF Places, DaemonPlace
  <2> QED  BY <1>6, <2>1, <2>2
<1>10. CASE RequeueClear
  <2>1. /\ daemon_pc = "clear" /\ daemon_pc' = "scan" /\ dring' = dring
        /\ dmc' = [dmc EXCEPT ![R] = (@ + 1) % MaxUplink]
    BY <1>10 DEF RequeueClear
  <2>2. Due(R) > 0  BY <2>1 DEF Places, DaemonPlace
  <2> QED  BY <1>6, <2>1, <2>2
<1> QED  BY <1>5, <1>7, <1>8, <1>9, <1>10 DEF Requeue

\* Every step keeps everybody's place.
LEMMA PlacesStep ==
  ASSUME TakingTurns, RingTypeOK, Places, [RingNext]_ringVars
  PROVE  Places'
<1>1. ASSUME NEW w \in Writer, Send(w) \/ Writing(w)  PROVE Places'
  BY <1>1, WriterPlaces
<1>2. Tick \/ Requeue => Places'  BY DaemonPlaces
<1>3. CASE UNCHANGED <<mc, dmc, dring, daemon_pc, wpc, tmp, slot, burst>>
  <2>1. \A r : Due(r)' = Due(r)  BY <1>3 DEF Due, Final
  <2>2. \A w \in Writer : OwnPlace(w)'  BY <1>3, <2>1 DEF Places, OwnPlace
  <2>3. \A r \in Ring : FreeRing(r)'  BY <1>3 DEF Places, FreeRing
  <2>4. DaemonPlace'  BY <1>3, <2>1 DEF Places, DaemonPlace, R
  <2> QED  BY <2>2, <2>3, <2>4 DEF Places
<1>4. ASSUME NEW x \in Reader, Reading(x)
      PROVE  UNCHANGED <<mc, dmc, dring, daemon_pc, wpc, tmp, slot, burst>>
  BY <1>4 DEF Reading, Read, Reset, ReadEnd, uvars, wvars, daemonVars
<1>5. UNCHANGED ringVars =>
        UNCHANGED <<mc, dmc, dring, daemon_pc, wpc, tmp, slot, burst>>
  BY DEF ringVars, uvars, wvars, daemonVars
<1> QED  BY <1>1, <1>2, <1>3, <1>4, <1>5 DEF RingNext

\* The types that the order needs: entries, their messages and the log's.
LEMMA ContentTypes ==
  ASSUME RingIInv
  PROVE  /\ uplink \in [Ring -> [Index -> Entry]] /\ log \in Seq(Msg)
         /\ \A r \in Ring : \A k \in Index : Live(r, k) =>
              /\ uplink[r][k].msg \in Msg /\ uplink[r][k].msg[1] \in Writer
              /\ uplink[r][k].msg[2] \in Nat
         /\ \A i \in 1 .. Len(log) :
              log[i] \in Msg /\ log[i][1] \in Writer /\ log[i][2] \in Nat
         /\ dmc \in [Ring -> Index]
         /\ \A r \in Ring : \A k \in Index : Ahead(r, k) \in Nat
         /\ \A r \in Ring : Due(r) \in Nat
<1>1. RingTypeOK /\ RingEntries  BY DEF RingIInv
<1>2. uplink \in [Ring -> [Index -> Entry]] /\ log \in Seq(Msg) /\ dmc \in [Ring -> Index]
  BY <1>1 DEF RingTypeOK, Entry, Index
<1>3. \A r \in Ring : \A k \in Index : Live(r, k) => uplink[r][k].msg \in Msg
  BY <1>1 DEF RingEntries, EntriesHold, Live
<1>4. \A i \in 1 .. Len(log) : log[i] \in Msg  BY <1>2
<1>5. \A r \in Ring : \A k \in Index : Gap(dmc[r], k) \in Index  BY <1>2, RoundIs
<1>6. \A r \in Ring : Due(r) \in Index  BY <1>1, RoundTypes
<1>7. Index \subseteq Nat  BY DEF Index
<1> QED  BY <1>2, <1>3, <1>4, <1>5, <1>6, <1>7, MsgParts DEF Ahead

\* Steps that change no entry, no index of the daemon's and not the log.
LEMMA IdleContents ==
  ASSUME RingIInv, Contents, UNCHANGED <<uplink, log, dmc>>,
         \A r \in Ring : Due(r)' \in Nat /\ Due(r)' >= Due(r),
         \A w \in Writer : wpc'[w] = "fill" => ~Live(RingOf[w], slot'[w]),
         \A w \in Writer : wpc[w] = "valid" => wpc'[w] = "valid" /\ slot'[w] = slot[w],
         UNCHANGED <<daemon_pc, dring>> \/ daemon_pc # "clear"
  PROVE  Contents'
<1>1. \A r, k : (Live(r, k)' <=> Live(r, k)) /\ Ahead(r, k)' = Ahead(r, k)
  BY DEF Live, Ahead
<1>2. Window'
  <2>1. \A r \in Ring : \A k \in Index : Ahead(r, k) \in Nat /\ Due(r) \in Nat
    BY ContentTypes
  <2> QED  BY <1>1, <2>1 DEF Contents, Window
<1>3. NotYet'  BY <1>1 DEF NotYet
<1>4. OwnRing' /\ ValidSoon' /\ InRingOrder'
  BY <1>1 DEF Contents, OwnRing, ValidSoon, InRingOrder
<1>5. NewerThanLog' /\ OrderKept'
  BY <1>1 DEF Contents, NewerThanLog, OrderKept, R
<1> QED  BY <1>2, <1>3, <1>4, <1>5 DEF Contents

\* What a writer adds is the last in its ring, and its newest.
LEMMA FillContents ==
  ASSUME TakingTurns, RingIInv, Places, Contents, NEW w \in Writer, Fill(w)
  PROVE  Contents'
<1> DEFINE r == RingOf[w]
           s == slot[w]
           n == <<w, sent[w]>>
           e == [msg |-> n, flags |-> Group(w)]
           Here(q, k) == q = r /\ k = s
<1>0. /\ r \in Ring /\ s \in Index /\ sent[w] \in Nat /\ dmc[r] \in Index
      /\ wpc \in [Writer -> {"idle", "store", "wrap", "fill", "valid", "post"}]
      /\ uplink \in [Ring -> [Index -> Entry]] /\ wpc[w] = "fill" /\ w \in Writer
  BY RoundTypes, ContentTypes DEF RingIInv, RingTypeOK, Fill
<1>1. /\ UNCHANGED <<mc, dmc, slot, log, daemon_pc, dring>>
      /\ uplink' = [uplink EXCEPT ![r][s] = e] /\ wpc' = [wpc EXCEPT ![w] = "valid"]
  BY DEF Fill, WGoto, daemonVars
<1>2. n[1] = w /\ n[2] = sent[w] /\ e.msg = n  OBVIOUS
<1>3. Due(r) = Gap(dmc[r], s) + 1
  <2>1. s = mc[r] /\ mc[r] < MaxUplink /\ Due(r) >= 1
    BY <1>0 DEF Places, OwnPlace
  <2>2. Final(r) = s
    <3>1. s \in Nat /\ MaxUplink \in Nat  BY <1>0, RoundTypes DEF Index, RingIInv
    <3> QED  BY ONLY <2>1, <3>1 DEF Final
  <2>3. Due(r) = Gap(dmc[r], After(s))  BY <2>2 DEF Due
  <2>4. Gap(dmc[r], s) + 1 # MaxUplink  BY <1>0, <2>1, <2>3, RoundWrap
  <2>5. Gap(dmc[r], After(s)) = Gap(dmc[r], s) + 1  BY <1>0, <2>4, RoundNext
  <2> QED  BY <2>3, <2>5
<1> HIDE DEF e, n, r, s
<1>4. /\ \A q \in Ring : \A k \in Index : ~Here(q, k) => uplink'[q][k] = uplink[q][k]
      /\ uplink'[r][s] = e
  BY ONLY <1>0, <1>1
<1>5. \A q, k : Ahead(q, k)' = Ahead(q, k) /\ Due(q)' = Due(q)
  BY <1>1 DEF Ahead, Due, Final
<1>6. \A q \in Ring : \A k \in Index :
        ~Here(q, k) /\ Live(q, k)' => Live(q, k) /\ uplink'[q][k] = uplink[q][k]
  BY <1>4 DEF Live
<1>7. \A v \in Writer : v # w => wpc'[v] = wpc[v] /\ RingOf[v] # r
  BY <1>0, <1>1 DEF TakingTurns, r
<1>8. wpc'[w] = "valid"  BY ONLY <1>0, <1>1
<1>9. Window'
  <2>1. Ahead(r, s) < Due(r)
    <3>1. Gap(dmc[r], s) \in Nat
      <4>1. Gap(dmc[r], s) \in Index  BY ONLY <1>0, RoundIs
      <4> QED  BY <4>1 DEF Index
    <3> QED  BY ONLY <1>3, <3>1 DEF Ahead
  <2> QED  BY <1>5, <1>6, <2>1 DEF Contents, Window
<1>10. NotYet'
  <2>1. ASSUME NEW v \in Writer, wpc'[v] = "fill"  PROVE ~Live(RingOf[v], slot[v])'
    <3>1. v # w  BY <1>8, <2>1
    <3>2. wpc[v] = "fill" /\ RingOf[v] # r  BY <1>7, <2>1, <3>1
    <3>3. RingOf[v] \in Ring /\ slot[v] \in Index  BY RoundTypes DEF RingIInv
    <3>4. ~Live(RingOf[v], slot[v])  BY <3>2 DEF Contents, NotYet
    <3>5. uplink'[RingOf[v]][slot[v]] = uplink[RingOf[v]][slot[v]]  BY <1>4, <3>2, <3>3
    <3> QED  BY <1>1, <3>4, <3>5 DEF Live
  <2> QED  BY <1>1, <2>1 DEF NotYet
<1>11. OwnRing'
  <2>1. RingOf[e.msg[1]] = r  BY <1>2 DEF r
  <2> QED  BY <1>4, <1>6, <2>1 DEF Contents, OwnRing
<1>12. ValidSoon'
  <2>1. ASSUME NEW q \in Ring, NEW k \in Index, ~Here(q, k), Live(q, k)'
        PROVE  \/ "valid" \in uplink'[q][k].flags
               \/ \E v \in Writer : wpc'[v] = "valid" /\ RingOf[v] = q /\ slot[v] = k
    <3>1. CASE "valid" \in uplink[q][k].flags  BY <1>6, <2>1, <3>1
    <3>2. ASSUME NEW v \in Writer, wpc[v] = "valid", RingOf[v] = q, slot[v] = k
          PROVE  wpc'[v] = "valid"
      BY <1>0, <1>7, <3>2
    <3> QED  BY <1>6, <2>1, <3>1, <3>2 DEF Contents, ValidSoon
  <2>2. \E v \in Writer : wpc'[v] = "valid" /\ RingOf[v] = r /\ slot[v] = s
    BY <1>8 DEF r, s
  <2> QED  BY <1>1, <2>1, <2>2 DEF ValidSoon
<1>13. \A q \in Ring : \A k \in Index :
         Live(q, k) /\ q = r => uplink[q][k].msg[2] < sent[w]
  <2>1. ASSUME NEW k \in Index, Live(r, k)  PROVE uplink[r][k].msg[2] < sent[w]
    <3>1. RingOf[uplink[r][k].msg[1]] = r /\ uplink[r][k].msg[1] \in Writer
      BY <1>0, <2>1, ContentTypes DEF Contents, OwnRing
    <3>2. uplink[r][k].msg[1] = w  BY <3>1 DEF TakingTurns, r
    <3>3. IsSent(uplink[r][k].msg)
      BY <1>0, <2>1 DEF RingIInv, OneMove, LiveIsSent
    <3> QED  BY <1>0, <3>2, <3>3 DEF IsSent, Composing
  <2> QED  BY <2>1
<1>14. InRingOrder'
  <2>1. \A k \in Index : Live(r, k) => Ahead(r, k) <= Ahead(r, s)
    <3>1. \A k \in Index : Ahead(r, k) \in Nat  BY <1>0, ContentTypes
    <3>2. \A k \in Index : Live(r, k) => Ahead(r, k) < Due(r)
      BY <1>0 DEF Contents, Window
    <3>3. Due(r) = Ahead(r, s) + 1  BY <1>3 DEF Ahead
    <3> QED  BY ONLY <1>0, <3>1, <3>2, <3>3
  <2>2. \A k \in Index : Ahead(r, k) \in Nat  BY <1>0, ContentTypes
  <2>3. ASSUME NEW q \in Ring, NEW k \in Index, NEW l \in Index,
               Live(q, k)', Live(q, l)', Ahead(q, k) < Ahead(q, l)
        PROVE  uplink'[q][k].msg[2] < uplink'[q][l].msg[2]
    <3>1. CASE ~Here(q, k) /\ ~Here(q, l)
      BY <1>6, <2>3, <3>1 DEF Contents, InRingOrder
    <3>2. CASE ~Here(q, k) /\ Here(q, l)
      BY <1>2, <1>4, <1>6, <1>13, <2>3, <3>2
    <3>3. CASE Here(q, k)
      <4>1. ~Here(q, l)
        <5>1. ~(Ahead(r, s) < Ahead(r, s))  BY <1>0, <2>2
        <5> QED  BY <2>3, <3>3, <5>1
      <4>2. Ahead(r, l) <= Ahead(r, s) /\ Ahead(r, s) < Ahead(r, l)
        BY <1>6, <2>1, <2>3, <3>3, <4>1
      <4>3. Ahead(r, l) \in Nat /\ Ahead(r, s) \in Nat  BY <1>0, <2>2
      <4> QED  BY ONLY <4>2, <4>3
    <3> QED  BY <3>1, <3>2, <3>3
  <2> QED  BY <1>5, <2>3 DEF InRingOrder
<1>15. NewerThanLog'
  <2>1. \A i \in 1 .. Len(log) : log[i][1] = w => log[i][2] < sent[w]
    BY <1>0 DEF RingIInv, OneMove, LogIsSent, IsSent, Composing
  <2>2. ASSUME NEW q \in Ring, NEW k \in Index, NEW i \in 1 .. Len(log),
               Live(q, k)', log[i][1] = uplink'[q][k].msg[1]
        PROVE  \/ log[i][2] < uplink'[q][k].msg[2]
               \/ daemon_pc = "clear" /\ q = R /\ k = dmc[R]
    <3>1. CASE Here(q, k)  BY <1>2, <1>4, <2>1, <2>2, <3>1
    <3>2. CASE ~Here(q, k)  BY <1>6, <2>2, <3>2 DEF Contents, NewerThanLog
    <3> QED  BY <3>1, <3>2
  <2>3. R' = R  BY <1>1 DEF R
  <2> QED  BY <1>1, <2>2, <2>3 DEF NewerThanLog
<1>16. OrderKept'  BY <1>1 DEF Contents, OrderKept
<1> QED  BY <1>9, <1>10, <1>11, <1>12, <1>14, <1>15, <1>16 DEF Contents

\* m_flags |= MVALID
LEMMA ValidContents ==
  ASSUME TakingTurns, RingIInv, Places, Contents, NEW w \in Writer, SetValid(w)
  PROVE  Contents'
<1> DEFINE r == RingOf[w]
           s == slot[w]
           e == uplink[r][s]
           g == Flagged(e, e.flags \cup {"valid"})
           Here(q, k) == q = r /\ k = s
<1>0. /\ r \in Ring /\ s \in Index /\ w \in Writer
      /\ uplink \in [Ring -> [Index -> Entry]]
      /\ wpc \in [Writer -> {"idle", "store", "wrap", "fill", "valid", "post"}]
  BY RoundTypes, ContentTypes DEF RingIInv, RingTypeOK
<1>1. /\ UNCHANGED <<mc, dmc, slot, log, daemon_pc, dring>> /\ wpc[w] = "valid"
      /\ uplink' = [uplink EXCEPT ![r][s] = g] /\ wpc' = [wpc EXCEPT ![w] = "post"]
  BY DEF SetValid, WGoto, daemonVars, Flagged
<1>2. g.msg = e.msg /\ g.flags = e.flags \cup {"valid"}
  <2>1. e \in Entry  BY ONLY <1>0
  <2>2. e.flags \cup {"valid"} \in SUBSET Flag  BY <2>1 DEF Entry, Flag
  <2> QED  BY <2>1, <2>2, FlaggedIs
<1> HIDE DEF g, r, s
<1>3. /\ \A q \in Ring : \A k \in Index : ~Here(q, k) => uplink'[q][k] = uplink[q][k]
      /\ uplink'[r][s] = g
  BY ONLY <1>0, <1>1
<1>4. \A q \in Ring : \A k \in Index :
        /\ uplink'[q][k].msg = uplink[q][k].msg
        /\ Live(q, k)' <=> Live(q, k)
        /\ "valid" \in uplink[q][k].flags => "valid" \in uplink'[q][k].flags
  BY <1>2, <1>3 DEF Live, GroupFlag
<1>5. \A q, k : Ahead(q, k)' = Ahead(q, k) /\ Due(q)' = Due(q) /\ R' = R
  BY <1>1 DEF Ahead, Due, Final, R
<1>6. Window' /\ OwnRing' /\ InRingOrder'
  BY <1>4, <1>5 DEF Contents, Window, OwnRing, InRingOrder
<1>7. NotYet'
  <2>1. \A v \in Writer : RingOf[v] \in Ring /\ slot[v] \in Index
    BY RoundTypes DEF RingIInv
  <2>2. \A v \in Writer : wpc'[v] = "fill" => wpc[v] = "fill"  BY ONLY <1>0, <1>1
  <2> QED  BY <1>1, <1>4, <2>1, <2>2 DEF Contents, NotYet
<1>8. ValidSoon'
  <2>1. "valid" \in uplink'[r][s].flags  BY <1>2, <1>3
  <2>2. \A v \in Writer : wpc[v] = "valid" /\ wpc'[v] # "valid" => v = w
    BY ONLY <1>0, <1>1
  <2>3. ASSUME NEW q \in Ring, NEW k \in Index, Live(q, k)
        PROVE  \/ "valid" \in uplink'[q][k].flags
               \/ \E v \in Writer : wpc'[v] = "valid" /\ RingOf[v] = q /\ slot[v] = k
    <3>1. CASE "valid" \in uplink[q][k].flags  BY <1>4, <3>1
    <3>2. ASSUME NEW v \in Writer, wpc[v] = "valid", RingOf[v] = q, slot[v] = k
          PROVE  wpc'[v] = "valid" \/ Here(q, k)
      BY <2>2, <3>2 DEF r, s
    <3> QED  BY <2>1, <2>3, <3>1, <3>2 DEF Contents, ValidSoon
  <2> QED  BY <1>1, <1>4, <2>3 DEF ValidSoon
<1>9. NewerThanLog' /\ OrderKept'
  BY <1>1, <1>4, <1>5 DEF Contents, NewerThanLog, OrderKept
<1> QED  BY <1>6, <1>7, <1>8, <1>9 DEF Contents

\* The entry that the daemon leaves behind is not live.
LEMMA AdvanceContents ==
  ASSUME RingIInv, Places, Contents, daemon_pc # "idle", daemon_pc' = "scan",
         mc' = mc, wpc' = wpc, log' = log, R' = R, Due(R) > 0,
         dmc' = [dmc EXCEPT ![R] = (@ + 1) % MaxUplink],
         uplink'[R][dmc[R]].flags \cap GroupFlag = {},
         \A r \in Ring : \A k \in Index :
           ~(r = R /\ k = dmc[R]) => uplink'[r][k] = uplink[r][k]
  PROVE  Contents'
<1>1. \A w \in Writer : wpc[w] = "idle"  BY WritersRest DEF RingIInv
<1>2. ASSUME NEW r \in Ring, NEW k \in Index, Live(r, k)'
      PROVE  /\ ~(r = R /\ k = dmc[R]) /\ Live(r, k) /\ uplink'[r][k] = uplink[r][k]
  BY <1>2 DEF Live
<1>3. /\ Due(R)' = Due(R) - 1
      /\ \A k \in Index \ {dmc[R]} : Gap(dmc'[R], k) = Ahead(R, k) - 1
      /\ \A r \in Ring \ {R} : dmc'[r] = dmc[r]
  BY Advance DEF RingIInv
<1>4. \A r \in Ring \ {R} : Due(r)' = Due(r) /\ \A k \in Index : Ahead(r, k)' = Ahead(r, k)
  BY <1>3 DEF Due, Final, Ahead
<1>5. \A k \in Index \ {dmc[R]} : Ahead(R, k)' = Ahead(R, k) - 1
  BY <1>3 DEF Ahead
<1>6. \A r \in Ring : \A k \in Index : Ahead(r, k) \in Nat /\ Due(r) \in Nat
  BY ContentTypes
<1>7. R \in Ring  BY RoundTypes DEF RingIInv
<1>8. Window'
  <2>1. ASSUME NEW r \in Ring, NEW k \in Index, Live(r, k)'  PROVE Ahead(r, k)' < Due(r)'
    <3>1. Ahead(r, k) < Due(r)  BY <1>2, <2>1 DEF Contents, Window
    <3>2. CASE r = R
      <4>1. Ahead(r, k)' = Ahead(r, k) - 1 /\ Due(r)' = Due(r) - 1
        BY <1>2, <1>3, <1>5, <2>1, <3>2
      <4> QED  BY <1>6, <3>1, <4>1
    <3>3. CASE r # R  BY <1>4, <3>1, <3>3
    <3> QED  BY <3>2, <3>3
  <2> QED  BY <2>1 DEF Window
<1>9. NotYet'  BY <1>1 DEF NotYet
<1>10. OwnRing'  BY <1>2 DEF Contents, OwnRing
<1>11. ValidSoon'  BY <1>1, <1>2 DEF Contents, ValidSoon
<1>12. InRingOrder'
  <2>1. ASSUME NEW r \in Ring, NEW k \in Index, NEW l \in Index,
               Live(r, k)', Live(r, l)', Ahead(r, k)' < Ahead(r, l)'
        PROVE  uplink'[r][k].msg[2] < uplink'[r][l].msg[2]
    <3>1. Ahead(r, k) < Ahead(r, l)
      <4>1. CASE r = R
        <5>1. Ahead(r, k)' = Ahead(r, k) - 1 /\ Ahead(r, l)' = Ahead(r, l) - 1
          BY <1>2, <1>5, <2>1, <4>1
        <5> QED  BY <1>6, <2>1, <5>1
      <4>2. CASE r # R  BY <1>4, <2>1, <4>2
      <4> QED  BY <4>1, <4>2
    <3> QED  BY <1>2, <2>1, <3>1 DEF Contents, InRingOrder
  <2> QED  BY <2>1 DEF InRingOrder
<1>13. NewerThanLog'
  BY <1>2 DEF Contents, NewerThanLog
<1>14. OrderKept'  BY DEF Contents, OrderKept
<1> QED  BY <1>8, <1>9, <1>10, <1>11, <1>12, <1>13, <1>14 DEF Contents

\* What the daemon copies is the oldest of its ring, and newer than what it copied.
LEMMA CopyContents ==
  ASSUME TakingTurns, RingIInv, Places, Contents, RequeueCopy
  PROVE  Contents'
<1> DEFINE c == dmc[R]
           m == uplink[R][c].msg
<1>0. R \in Ring /\ c \in Index /\ log \in Seq(Msg) /\ dmc \in [Ring -> Index]
  BY RoundTypes, ContentTypes DEF RingIInv
<1>1. /\ UNCHANGED <<mc, uplink, wpc, slot, dmc, dring>> /\ R' = R
      /\ daemon_pc = "copy" /\ daemon_pc' = "clear"
  BY DEF RequeueCopy, uvars, wvars, R
<1>2. m \in Msg  BY <1>1 DEF RingIInv, RingEntries, CurrentHolds
<1>3. log' = log \/ (Live(R, c) /\ log' = Append(log, m))
  BY DEF RequeueCopy, Deliverable, Live, GroupFlag
<1>4. \A q, k : (Live(q, k)' <=> Live(q, k)) /\ Ahead(q, k)' = Ahead(q, k) /\ Due(q)' = Due(q)
  BY <1>1 DEF Live, Ahead, Due, Final
<1>5. Window' /\ NotYet' /\ OwnRing' /\ ValidSoon' /\ InRingOrder'
  BY <1>1, <1>4 DEF Contents, Window, NotYet, OwnRing, ValidSoon, InRingOrder
<1> HIDE DEF m
<1>6. \A i \in 1 .. Len(log') :
        \/ i \in 1 .. Len(log) /\ log'[i] = log[i]
        \/ i = Len(log) + 1 /\ log'[i] = m /\ Live(R, c)
  BY ONLY <1>0, <1>2, <1>3
<1>7. \A r \in Ring : \A k \in Index : \A i \in 1 .. Len(log) :
        Live(r, k) /\ log[i][1] = uplink[r][k].msg[1] => log[i][2] < uplink[r][k].msg[2]
  BY <1>1 DEF Contents, NewerThanLog
<1>8. NewerThanLog'
  <2>1. ASSUME NEW r \in Ring, NEW k \in Index, Live(r, k), Live(R, c),
               m[1] = uplink[r][k].msg[1], ~(r = R /\ k = c)
        PROVE  m[2] < uplink[r][k].msg[2]
    <3>1. r = R /\ k # c  BY <1>0, <2>1 DEF Contents, OwnRing, m
    <3>2. Gap(c, c) = 0 /\ Gap(c, k) # 0 /\ Gap(c, k) \in Nat
      <4>1. c \in Index /\ k \in Index  BY <1>0
      <4>2. Gap(c, c) = 0 /\ Gap(c, k) # 0  BY <3>1, <4>1, RoundIs
      <4>3. Gap(c, k) \in Index  BY <4>1, RoundIs
      <4> QED  BY <4>2, <4>3 DEF Index
    <3>3. Ahead(R, c) < Ahead(R, k)  BY <3>2 DEF Ahead
    <3> QED  BY <1>0, <2>1, <3>1, <3>3 DEF Contents, InRingOrder, m
  <2>2. ASSUME NEW r \in Ring, NEW k \in Index, NEW i \in 1 .. Len(log'),
               Live(r, k), log'[i][1] = uplink[r][k].msg[1], ~(r = R /\ k = c)
        PROVE  log'[i][2] < uplink[r][k].msg[2]
    <3>1. CASE i \in 1 .. Len(log) /\ log'[i] = log[i]  BY <1>7, <2>2, <3>1
    <3>2. CASE log'[i] = m /\ Live(R, c)  BY <2>1, <2>2, <3>2
    <3> QED  BY <1>6, <3>1, <3>2
  <2> QED  BY <1>1, <1>4, <2>2 DEF NewerThanLog
<1>9. OrderKept'
  <2>1. ASSUME NEW i \in 1 .. Len(log), Live(R, c), log[i][1] = m[1]
        PROVE  log[i][2] < m[2]
    BY <1>0, <1>7, <2>1 DEF m
  <2>2. ASSUME NEW i \in 1 .. Len(log'), NEW j \in 1 .. Len(log'), i < j,
               log'[i][1] = log'[j][1]
        PROVE  log'[i][2] < log'[j][2]
    <3>1. i \in 1 .. Len(log) /\ log'[i] = log[i]
      <4>1. Len(log) \in Nat /\ i \in Nat /\ j \in Nat  BY <1>0, <1>2, <1>3
      <4>2. j <= Len(log) + 1  BY <1>6, <4>1
      <4>3. i # Len(log) + 1  BY ONLY <2>2, <4>1, <4>2
      <4> QED  BY <1>6, <4>3
    <3>2. CASE j \in 1 .. Len(log) /\ log'[j] = log[j]
      BY <2>2, <3>1, <3>2 DEF Contents, OrderKept
    <3>3. CASE log'[j] = m /\ Live(R, c)  BY <2>1, <2>2, <3>1, <3>3
    <3> QED  BY <1>6, <3>2, <3>3
  <2> QED  BY <2>2 DEF OrderKept
<1> QED  BY <1>5, <1>8, <1>9 DEF Contents

\* The contents are kept by whoever steps.
LEMMA ContentsStep ==
  ASSUME TakingTurns, RingIInv, Places, Contents, [RingNext]_ringVars
  PROVE  Contents'
<1>0. /\ RingTypeOK /\ R \in Ring
      /\ wpc \in [Writer -> {"idle", "store", "wrap", "fill", "valid", "post"}]
      /\ uplink \in [Ring -> [Index -> Entry]] /\ dmc \in [Ring -> Index]
      /\ slot \in [Writer -> Index]
      /\ \A w \in Writer : RingOf[w] \in Ring /\ slot[w] \in Index
      /\ \A r \in Ring : Due(r) \in Nat
  BY RoundTypes, ContentTypes DEF RingIInv
<1>1. NotYet  BY DEF Contents
<1>2. CASE /\ UNCHANGED <<uplink, log, dmc, mc, wpc, slot>>
           /\ UNCHANGED <<daemon_pc, dring>> \/ daemon_pc # "clear"
  <2>1. \A r \in Ring : Due(r)' = Due(r)  BY <1>2 DEF Due, Final
  <2>2. \A r \in Ring : Due(r)' \in Nat /\ Due(r)' >= Due(r)  BY <1>0, <2>1
  <2> QED  BY <1>1, <1>2, <2>2, IdleContents DEF NotYet
<1>3. ASSUME NEW w \in Writer, Send(w) \/ Post(w)  PROVE Contents'
  <2>1. /\ UNCHANGED <<uplink, log, dmc, mc, slot, daemon_pc, dring>>
        /\ wpc[w] \notin {"fill", "valid"}
        /\ \E l \in {"store", "idle"} : wpc' = [wpc EXCEPT ![w] = l]
    BY <1>3 DEF Send, Post, WGoto, uvars, daemonVars
  <2>2. \A r \in Ring : Due(r)' = Due(r)  BY <2>1 DEF Due, Final
  <2>3. \A r \in Ring : Due(r)' \in Nat /\ Due(r)' >= Due(r)  BY <1>0, <2>2
  <2>4. \A v \in Writer : /\ wpc'[v] = "fill" => wpc[v] = "fill"
                          /\ wpc[v] = "valid" => wpc'[v] = "valid"
    BY ONLY <1>0, <2>1
  <2> QED  BY <1>1, <2>1, <2>3, <2>4, IdleContents DEF NotYet
<1>4. ASSUME NEW w \in Writer, KickStore(w) \/ KickWrap(w)  PROVE Contents'
  <2>1. /\ UNCHANGED <<uplink, log, dmc, daemon_pc, dring>>
        /\ wpc[w] \notin {"fill", "valid"}
        /\ \E l : wpc' = [wpc EXCEPT ![w] = l]
        /\ slot' = slot \/ \E l : slot' = [slot EXCEPT ![w] = l]
        /\ mc' = mc \/ \E l : mc' = [mc EXCEPT ![RingOf[w]] = l]
    BY <1>4 DEF KickStore, KickWrap, WGoto, daemonVars
  <2>2. daemon_pc = "idle"
    <3>1. wpc[w] # "idle"  BY <1>4 DEF KickStore, KickWrap
    <3> QED  BY <3>1 DEF Places, OwnPlace
  <2>3. \/ Due(RingOf[w])' = Due(RingOf[w]) /\ wpc'[w] # "fill"
        \/ /\ Due(RingOf[w])' = Due(RingOf[w]) + 1 /\ slot'[w] \in Index
           /\ Gap(dmc[RingOf[w]], slot'[w]) = Due(RingOf[w])
    BY <1>0, <1>4, <2>2, Reserve DEF Places, TakingTurns
  <2>4. mc \in [Ring -> Nat]  BY RoundTypes, <1>0
  <2>5. \A r \in Ring \ {RingOf[w]} : Due(r)' = Due(r)
    <3>1. \A r \in Ring \ {RingOf[w]} : mc'[r] = mc[r]  BY ONLY <1>0, <2>1, <2>4
    <3> QED  BY <2>1, <3>1 DEF Due, Final
  <2>6. \A r \in Ring : Due(r)' \in Nat /\ Due(r)' >= Due(r)
    <3>1. RingOf[w] \in Ring  BY <1>0
    <3> QED  BY ONLY <1>0, <2>3, <2>5, <3>1
  <2>7. \A v \in Writer \ {w} : wpc'[v] = wpc[v] /\ slot'[v] = slot[v]
    BY ONLY <1>0, <2>1
  <2>8. wpc'[w] = "fill" => ~Live(RingOf[w], slot'[w])
    <3> SUFFICES ASSUME wpc'[w] = "fill", Live(RingOf[w], slot'[w])  PROVE FALSE
      OBVIOUS
    <3>1. slot'[w] \in Index /\ Ahead(RingOf[w], slot'[w]) = Due(RingOf[w])
      BY <2>3 DEF Ahead
    <3>2. Ahead(RingOf[w], slot'[w]) < Due(RingOf[w])
      BY <1>0, <3>1 DEF Contents, Window
    <3> QED  BY <1>0, <3>1, <3>2
  <2>9. \A v \in Writer : wpc'[v] = "fill" => ~Live(RingOf[v], slot'[v])
    BY <1>1, <2>7, <2>8 DEF NotYet
  <2>10. \A v \in Writer : wpc[v] = "valid" => wpc'[v] = "valid" /\ slot'[v] = slot[v]
    BY <2>1, <2>7
  <2> QED  BY <2>1, <2>6, <2>9, <2>10, IdleContents
<1>5. ASSUME NEW w \in Writer, Fill(w)  PROVE Contents'  BY <1>5, FillContents
<1>6. ASSUME NEW w \in Writer, SetValid(w)  PROVE Contents'  BY <1>6, ValidContents
<1>7. RequeueCopy => Contents'  BY CopyContents
<1>8. CASE Look /\ dmc' # dmc
  <2>1. /\ daemon_pc = "scan" /\ daemon_pc' = "scan" /\ "valid" \notin uplink[R][dmc[R]].flags
        /\ dmc' = [dmc EXCEPT ![R] = (@ + 1) % MaxUplink]
        /\ UNCHANGED <<uplink, mc, wpc, log, dring>>
    BY <1>8 DEF Look, uvars, wvars
  <2>2. R' = R  BY <2>1 DEF R
  <2>3. \A w \in Writer : wpc[w] = "idle"  BY <1>0, <2>1, WritersRest
  <2>4. Due(R) > 0
    <3>1. Due(R) # 0  BY <1>0, <1>8, <2>1, WritersRest DEF Look
    <3> QED  BY <1>0, <3>1
  <2>5. ~Live(R, dmc[R])
    <3>1. R \in Ring /\ dmc[R] \in Index  BY <1>0
    <3> QED  BY <2>1, <2>3, <3>1 DEF Contents, ValidSoon
  <2>6. uplink'[R][dmc[R]].flags \cap GroupFlag = {}  BY <2>1, <2>5 DEF Live
  <2> QED  BY <2>1, <2>2, <2>4, <2>6, AdvanceContents
<1>9. CASE RequeueClear
  <2> DEFINE g == Flagged(uplink[R][dmc[R]], {})
  <2>1. /\ daemon_pc = "clear" /\ daemon_pc' = "scan"
        /\ dmc' = [dmc EXCEPT ![R] = (@ + 1) % MaxUplink]
        /\ uplink' = [uplink EXCEPT ![R][dmc[R]] = g]
        /\ UNCHANGED <<mc, wpc, log, dring>>
    BY <1>9 DEF RequeueClear, wvars, Flagged
  <2>2. R' = R  BY <2>1 DEF R
  <2>3. Due(R) > 0  BY <2>1 DEF Places, DaemonPlace
  <2>4. dmc[R] \in Index  BY <1>0
  <2>5. g.flags = {}
    <3>1. uplink[R][dmc[R]] \in Entry  BY ONLY <1>0, <2>4
    <3> QED  BY <3>1, FlaggedIs
  <2> HIDE DEF g
  <2>6. /\ uplink'[R][dmc[R]] = g
        /\ \A r \in Ring : \A k \in Index :
             ~(r = R /\ k = dmc[R]) => uplink'[r][k] = uplink[r][k]
    BY ONLY <1>0, <2>1, <2>4
  <2>7. uplink'[R][dmc[R]].flags \cap GroupFlag = {}  BY <2>5, <2>6
  <2> QED  BY <2>1, <2>2, <2>3, <2>6, <2>7, AdvanceContents
<1>10. (Look /\ dmc' = dmc) \/ Tick \/ ScanEnd \/ RequeueKick =>
         /\ UNCHANGED <<uplink, log, dmc, mc, wpc, slot>> /\ daemon_pc # "clear"
  BY DEF Look, Tick, ScanEnd, RequeueKick, uvars, wvars
<1>11. ASSUME NEW x \in Reader, Reading(x)
       PROVE  UNCHANGED <<uplink, log, dmc, mc, wpc, slot, daemon_pc, dring>>
  BY <1>11 DEF Reading, Read, Reset, ReadEnd, uvars, wvars, daemonVars
<1>12. UNCHANGED ringVars =>
         UNCHANGED <<uplink, log, dmc, mc, wpc, slot, daemon_pc, dring>>
  BY DEF ringVars, uvars, wvars, daemonVars
<1> QED
  BY <1>2, <1>3, <1>4, <1>5, <1>6, <1>7, <1>8, <1>9, <1>10, <1>11, <1>12
  DEF RingNext, Writing, Requeue

\* Empty rings owe nothing.
LEMMA EmptyRings == ASSUME RingInit, RingTypeOK PROVE \A r \in Ring : Due(r) = 0
<1>1. \A r \in Ring : mc[r] = 0 /\ dmc[r] = 1  BY DEF RingInit
<1>2. MaxUplink \in Nat \ {0, 1}  BY RoundTypes
<1>3. \A r \in Ring : Final(r) = 0 /\ After(0) = 1
  BY ONLY <1>1, <1>2 DEF Final, After
<1>4. Gap(1, 1) = 0  BY ONLY <1>2 DEF Gap
<1> QED  BY <1>1, <1>3, <1>4 DEF Due

\* Empty rings are in order.
LEMMA OrderFirst == ASSUME RingInit, RingTypeOK PROVE Places /\ Contents
<1>1. \A w \in Writer : mc[RingOf[w]] = 0 /\ wpc[w] = "idle" /\ burst[w] = 0
  BY RingsAre DEF RingInit
<1>2. \A r \in Ring : mc[r] = 0 /\ dmc[r] = 1  BY DEF RingInit
<1>3. MaxUplink \in Nat \ {0, 1}  BY RoundTypes
<1>4. \A r \in Ring : Due(r) = 0  BY EmptyRings
<1>5. 0 < MaxUplink  BY <1>3
<1>6. Places
  BY <1>1, <1>2, <1>4, <1>5, RingsAre DEF Places, OwnPlace, FreeRing, DaemonPlace, RingInit
<1>7. \A r \in Ring : \A k \in Index : ~Live(r, k)
  BY DEF RingInit, Blank, Live, Index
<1>8. Contents
  BY <1>1, <1>7
  DEF Contents, Window, NotYet, OwnRing, ValidSoon, InRingOrder, NewerThanLog, OrderKept, RingInit
<1> QED  BY <1>6, <1>8

\* While each player has his own ring and writes at most MAXUPLINK - 1 messages
\* between two visits of the daemon, and calls are not cut short by one another,
\* do_message_requeue_all() moves the messages of every player in their order.
THEOREM OrderHolds == ASSUME TakingTurns PROVE RingSpec => []OrderKept
<1>1. RingInit => OrderIInv
  BY RingFirst, OrderFirst DEF OrderIInv, RingIInv
<1>2. OrderIInv /\ [RingNext]_ringVars => OrderIInv'
  BY RingStep, PlacesStep, ContentsStep DEF OrderIInv, RingIInv
<1>3. OrderIInv => OrderKept  BY DEF OrderIInv, Contents
<1> QED  BY <1>1, <1>2, <1>3, PTL DEF RingSpec

-----------------------------------------------------------------------------
(* Numbers on transmissions *)

\* A number is a round and what is sent of it,
LEMMA RoundOf ==
  ASSUME NEW W \in Nat \ {0}, NEW n \in Nat
  PROVE  /\ n \div W \in Nat /\ n % W \in 0 .. W - 1
         /\ n = (n \div W) * W + (n % W)
OBVIOUS

\* in one way only.
LEMMA RoundIsOne ==
  ASSUME NEW W \in Nat, NEW p \in Nat, NEW q \in Nat,
         NEW r \in 0 .. W - 1, NEW s \in 0 .. W - 1, p * W + r = q * W + s
  PROVE  p = q /\ r = s
<1>1. ASSUME NEW a \in Nat, NEW b \in Nat, NEW c \in 0 .. W - 1, NEW d \in 0 .. W - 1,
             a * W + c = b * W + d, a < b
      PROVE  FALSE
  <2>1. (a + 1) * W <= b * W  BY <1>1
  <2>2. (a + 1) * W = a * W + W  OBVIOUS
  <2>3. a * W \in Nat /\ b * W \in Nat  OBVIOUS
  <2> QED  BY <1>1, <2>1, <2>2, <2>3
<1>2. ~(p < q) /\ ~(q < p)  BY <1>1
<1>3. p = q  BY <1>2
<1>4. p * W \in Nat  OBVIOUS
<1> QED  BY <1>3, <1>4

\* What is sent of a number d further on: so much more, or a round less.
LEMMA FurtherOn ==
  ASSUME NEW W \in Nat \ {0}, NEW n \in Nat, NEW d \in 0 .. W - 1
  PROVE  /\ (n % W) + d < W => (n + d) % W = (n % W) + d
         /\ (n % W) + d >= W => (n + d) % W = (n % W) + d - W
         /\ n % W \in 0 .. W - 1 /\ n % W <= n
<1>1. PICK q \in Nat, r \in 0 .. W - 1 : n = q * W + r /\ r = n % W  BY RoundOf
<1>2. n + d \in Nat  OBVIOUS
<1>3. PICK p \in Nat, s \in 0 .. W - 1 : n + d = p * W + s /\ s = (n + d) % W
  BY <1>2, RoundOf
<1>4. q * W \in Nat /\ p * W \in Nat /\ (q + 1) * W = q * W + W  OBVIOUS
<1>5. r + d < W => s = r + d
  <2> SUFFICES ASSUME r + d < W PROVE s = r + d  OBVIOUS
  <2>1. PICK t \in 0 .. W - 1 : t = r + d  OBVIOUS
  <2>2. p * W + s = q * W + t  BY <1>1, <1>3, <1>4, <2>1
  <2>3. s = t  BY <2>2, RoundIsOne
  <2> QED  BY <2>1, <2>3
<1>6. r + d >= W => s = r + d - W
  <2> SUFFICES ASSUME r + d >= W PROVE s = r + d - W  OBVIOUS
  <2>1. PICK t \in 0 .. W - 1, m \in Nat : t = r + d - W /\ m = q + 1  OBVIOUS
  <2>2. m * W = q * W + W  BY <1>4, <2>1
  <2>3. p * W + s = m * W + t  BY <1>1, <1>3, <1>4, <2>1, <2>2
  <2>4. s = t  BY <2>3, RoundIsOne
  <2> QED  BY <2>1, <2>4
<1>7. r <= n  BY <1>1, <1>4
<1> QED  BY <1>1, <1>3, <1>5, <1>6, <1>7

\* What the receiver makes of it is a number with these low bits.
LEMMA RoundKept ==
  ASSUME NEW W \in Nat \ {0}, NEW q \in Nat, NEW r \in 0 .. W - 1
  PROVE  (q * W) + r \in Nat /\ ((q * W) + r) % W = r
<1>1. q * W \in Nat  OBVIOUS
<1>2. (q * W) + r \in Nat  BY <1>1
<1>3. PICK n \in Nat : n = (q * W) + r  BY <1>2
<1>4. PICK p \in Nat, s \in 0 .. W - 1 : n = p * W + s /\ s = n % W  BY RoundOf
<1>5. p * W + s = q * W + r  BY <1>3, <1>4
<1>6. s = r  BY <1>5, RoundIsOne
<1> QED  BY <1>2, <1>3, <1>4, <1>6

\* Of the numbers under way none is later than the last one sent, and but for
\* that one none is too late.
FlyingKept ==
  \A f \in flying : f[1] < seq_no /\ (seq_no <= f[1] + Late \/ f[1] + 1 = seq_no)

\* The receiver has not missed so many that it would miss a rollover.
NearNews == latest < seq_no /\ seq_no - latest <= Wrap - High

\* What the receiver compares with is the latest number; just after a rollover
\* also one of those before it, of the old round or of the new one.
ComparesLatest ==
  \/ sequence % Wrap = latest % Wrap
  \/ JustRolled /\ (sequence % Wrap > High \/ sequence % Wrap < latest % Wrap)

\* What is so of numbers as long as no rollover has been missed.
SeqIInv ==
  /\ SeqTypeOK /\ FlyingKept /\ NearNews /\ ComparesLatest
  /\ arrived < latest /\ ~JustRolled => drop_flag

\* The inductive invariant of numbers.
SeqKept == SeqTypeOK /\ (~missed => SeqIInv)

\* The limits, which SMT does not see in a set of constants.
LEMMA Limits ==
  /\ Wrap \in Nat \ {0} /\ High \in Nat /\ Low \in Nat /\ Late \in Nat /\ MaxSent \in Nat
  /\ High < Wrap /\ Late <= Wrap - High /\ Wrap - High + Late <= Low /\ Low + Late <= High
BY SequenceAssumption

\* The first number, and none, are numbers.
LEMMA Bounds == 1 \in 1 .. MaxSent + 1 /\ 0 \in 0 .. MaxSent /\ 0 \in Nat
<1>1. MaxSent \in Nat  BY Limits
<1> QED  BY <1>1

\* handleSequence() compares low bits, and takes over those of what it accepts.
LEMMA AcceptIs ==
  ASSUME sequence \in Nat, NEW new \in 0 .. Wrap - 1, Accept(new)
  PROVE  LET s == sequence % Wrap IN
         /\ s \in 0 .. Wrap - 1 /\ sequence' \in Nat /\ drop_flag' \in BOOLEAN
         /\ IF (s > High /\ new < Low) \/ new > s
            THEN sequence' % Wrap = new /\ ~drop_flag'
            ELSE sequence' = sequence /\ drop_flag'
<1>1. PICK q \in Nat, s \in 0 .. Wrap - 1 :
        q = sequence \div Wrap /\ s = sequence % Wrap /\ sequence = q * Wrap + s
  BY Limits, RoundOf
<1>2. sequence + Wrap \in Nat /\ Wrap \in Nat \ {0}  BY Limits
<1>3. PICK p \in Nat : p = (sequence + Wrap) \div Wrap  BY <1>2, RoundOf
<1>4. Epoch(sequence) = q * Wrap /\ Epoch(sequence + Wrap) = p * Wrap
  BY <1>1, <1>3 DEF Epoch
<1>5. /\ (q * Wrap) + new \in Nat /\ ((q * Wrap) + new) % Wrap = new
      /\ (p * Wrap) + new \in Nat /\ ((p * Wrap) + new) % Wrap = new
  BY <1>2, RoundKept
<1>6. q * Wrap \in Nat  BY <1>2
<1>7. (q * Wrap) + new > sequence <=> new > s  BY <1>1, <1>6
<1>8. CASE s > High /\ new < Low
  <2>1. sequence' = p * Wrap + new /\ ~drop_flag' /\ drop_flag' \in BOOLEAN
    BY <1>1, <1>4, <1>8 DEF Accept, Rolled, NextRound
  <2> QED  BY <1>1, <1>5, <1>8, <2>1
<1>9. CASE ~(s > High /\ new < Low) /\ new > s
  <2>1. sequence' = q * Wrap + new /\ ~drop_flag' /\ drop_flag' \in BOOLEAN
    BY <1>1, <1>4, <1>7, <1>9 DEF Accept, Rolled, NextRound
  <2> QED  BY <1>1, <1>5, <1>9, <2>1
<1>10. CASE ~(s > High /\ new < Low) /\ ~(new > s)
  <2>1. sequence' = sequence /\ drop_flag' /\ drop_flag' \in BOOLEAN
    BY <1>1, <1>4, <1>7, <1>10 DEF Accept, Rolled, NextRound
  <2> QED  BY <1>1, <1>10, <2>1
<1> QED  BY <1>8, <1>9, <1>10

\* The same of two numbers, and how far they are apart.
LEMMA ApartIs ==
  ASSUME NEW W \in Nat \ {0}, NEW m \in Nat, NEW n \in Nat, m <= n, n - m < W
  PROVE  /\ m % W \in 0 .. W - 1 /\ n % W \in 0 .. W - 1
         /\ m % W <= m /\ n % W <= n
         /\ \/ n % W = (m % W) + (n - m)
            \/ n % W = (m % W) + (n - m) - W /\ n >= W /\ n % W < n - m
               /\ (m % W) + (n - m) >= W
<1>1. PICK d \in 0 .. W - 1 : d = n - m /\ n = m + d  OBVIOUS
<1>2. 0 \in 0 .. W - 1  OBVIOUS
<1>3. PICK r \in 0 .. W - 1 : r = m % W /\ r <= m  BY <1>2, FurtherOn
<1>4. PICK s \in 0 .. W - 1 : s = n % W /\ s <= n  BY <1>2, FurtherOn
<1>5. /\ r + d < W => (m + d) % W = r + d
      /\ r + d >= W => (m + d) % W = r + d - W
  BY <1>3, FurtherOn
<1>6. (m + d) % W = s  BY <1>1, <1>4
<1>7. s = r + d \/ (s = r + d - W /\ n >= W /\ s < d /\ r + d >= W)
  BY <1>1, <1>3, <1>5, <1>6
<1> QED  BY <1>1, <1>3, <1>4, <1>7

\* A number that arrives, against the latest: what is sent of it.
LEMMA ArrivalIs ==
  ASSUME SeqIInv, NEW f \in flying
  PROVE  LET n == f[1]
             new == n % Wrap
             l == latest % Wrap
         IN /\ n \in 1 .. MaxSent /\ new \in 0 .. Wrap - 1 /\ l \in 0 .. Wrap - 1
            /\ n > latest => \/ new > l /\ new - l < Wrap - High
                             \/ l > High /\ new < Low /\ ~JustRolled
            /\ n < latest => \/ new < l /\ l - new < Late
                             \/ JustRolled /\ new > High
<1>1. PICK n \in 1 .. MaxSent : n = f[1]  BY DEF SeqIInv, SeqTypeOK
<1>2. PICK a \in 0 .. MaxSent : a = latest  BY DEF SeqIInv, SeqTypeOK
<1>3. seq_no \in Nat /\ n \in Nat /\ a \in Nat  BY Limits, <1>1, <1>2 DEF SeqIInv, SeqTypeOK
<1>4. /\ n < seq_no /\ (seq_no <= n + Late \/ n + 1 = seq_no)
      /\ a < seq_no /\ seq_no - a <= Wrap - High
  BY <1>1, <1>2 DEF SeqIInv, FlyingKept, NearNews
<1>5. ASSUME n > a
      PROVE  /\ n % Wrap \in 0 .. Wrap - 1 /\ a % Wrap \in 0 .. Wrap - 1
             /\ \/ n % Wrap > a % Wrap /\ (n % Wrap) - (a % Wrap) < Wrap - High
                \/ a % Wrap > High /\ n % Wrap < Low /\ a % Wrap >= Late
  <2>1. a <= n /\ n - a > 0 /\ n - a < Wrap - High /\ n - a < Wrap
    BY <1>3, <1>4, <1>5, Limits
  <2>a. Wrap \in Nat \ {0}  BY Limits
  <2>b. /\ n % Wrap \in 0 .. Wrap - 1 /\ a % Wrap \in 0 .. Wrap - 1
        /\ \/ n % Wrap = (a % Wrap) + (n - a)
           \/ n % Wrap = (a % Wrap) + (n - a) - Wrap /\ n >= Wrap /\ n % Wrap < n - a
              /\ (a % Wrap) + (n - a) >= Wrap
    BY <1>3, <2>1, <2>a, ApartIs
  <2>2. PICK r \in 0 .. Wrap - 1, s \in 0 .. Wrap - 1 :
          /\ r = a % Wrap /\ s = n % Wrap
          /\ \/ s = r + (n - a)
             \/ s = r + (n - a) - Wrap /\ s < n - a /\ r + (n - a) >= Wrap
    BY <2>b
  <2>3. \/ s > r /\ s - r < Wrap - High
        \/ r > High /\ s < Low /\ r >= Late
    BY <1>3, <2>1, <2>2, Limits
  <2> QED  BY <2>2, <2>3
<1>6. ASSUME n < a
      PROVE  /\ n % Wrap \in 0 .. Wrap - 1 /\ a % Wrap \in 0 .. Wrap - 1
             /\ \/ n % Wrap < a % Wrap /\ (a % Wrap) - (n % Wrap) < Late
                \/ a >= Wrap /\ a % Wrap < Late /\ n % Wrap > High
  <2>1. n <= a /\ a - n > 0 /\ a - n < Late /\ a - n < Wrap
    BY <1>3, <1>4, <1>6, Limits
  <2>a. Wrap \in Nat \ {0}  BY Limits
  <2>b. /\ n % Wrap \in 0 .. Wrap - 1 /\ a % Wrap \in 0 .. Wrap - 1
        /\ \/ a % Wrap = (n % Wrap) + (a - n)
           \/ a % Wrap = (n % Wrap) + (a - n) - Wrap /\ a >= Wrap /\ a % Wrap < a - n
              /\ (n % Wrap) + (a - n) >= Wrap
    BY <1>3, <2>1, <2>a, ApartIs
  <2>2. PICK r \in 0 .. Wrap - 1, s \in 0 .. Wrap - 1 :
          /\ r = n % Wrap /\ s = a % Wrap
          /\ \/ s = r + (a - n)
             \/ s = r + (a - n) - Wrap /\ a >= Wrap /\ s < a - n /\ r + (a - n) >= Wrap
    BY <2>b
  <2>3. \/ r < s /\ s - r < Late
        \/ a >= Wrap /\ s < Late /\ r > High
    BY <1>3, <2>1, <2>2, Limits
  <2> QED  BY <2>2, <2>3
<1>7. n % Wrap \in 0 .. Wrap - 1 /\ a % Wrap \in 0 .. Wrap - 1  BY <1>3, Limits, RoundOf
<1>8. n > a => \/ n % Wrap > a % Wrap /\ (n % Wrap) - (a % Wrap) < Wrap - High
               \/ a % Wrap > High /\ n % Wrap < Low /\ ~JustRolled
  <2> HAVE n > a
  <2>1. CASE a % Wrap >= Late
    <3>1. ~JustRolled  BY <1>2, <1>7, <2>1, Limits DEF JustRolled
    <3> QED  BY <1>5, <3>1
  <2>2. CASE ~(a % Wrap >= Late)  BY <1>5, <2>2
  <2> QED  BY <2>1, <2>2
<1>9. n < a => \/ n % Wrap < a % Wrap /\ (a % Wrap) - (n % Wrap) < Late
               \/ JustRolled /\ n % Wrap > High
  <2> HAVE n < a
  <2> QED  BY <1>2, <1>6 DEF JustRolled
<1> QED  BY <1>1, <1>2, <1>7, <1>8, <1>9

\* A transmission is heard when it is news, dropped when it is stale, and leaves
\* the receiver comparing with the latest.
LEMMA HandleSequenceStep ==
  ASSUME SeqIInv, NEW f \in flying, HandleSequence(f)
  PROVE  SeqIInv' /\ NewsIsHeard /\ StaleIsDropped
<1>1. PICK n \in 1 .. MaxSent : n = f[1]  BY DEF SeqIInv, SeqTypeOK
<1>2. PICK new \in 0 .. Wrap - 1, l \in 0 .. Wrap - 1 :
        /\ new = n % Wrap /\ l = latest % Wrap
        /\ n > latest => \/ new > l /\ new - l < Wrap - High
                         \/ l > High /\ new < Low /\ ~JustRolled
        /\ n < latest => \/ new < l /\ l - new < Late
                         \/ JustRolled /\ new > High
  BY <1>1, ArrivalIs
<1>3. /\ flying' = flying \ {f} /\ Accept(new) /\ arrived' = n /\ seq_no' = seq_no
      /\ missed' = missed
      /\ latest' = IF n > latest THEN n ELSE latest
  BY <1>1, <1>2 DEF HandleSequence
<1>4. /\ sequence \in Nat /\ latest \in 0 .. MaxSent /\ seq_no \in 1 .. MaxSent + 1
      /\ latest < seq_no /\ seq_no - latest <= Wrap - High
      /\ n < seq_no
  BY <1>1 DEF SeqIInv, SeqTypeOK, NearNews, FlyingKept
<1>5. PICK s \in 0 .. Wrap - 1 :
        /\ s = sequence % Wrap /\ sequence' \in Nat /\ drop_flag' \in BOOLEAN
        /\ IF (s > High /\ new < Low) \/ new > s
           THEN sequence' % Wrap = new /\ ~drop_flag'
           ELSE sequence' = sequence /\ drop_flag'
  BY <1>3, <1>4, AcceptIs
<1>6. s = l \/ (JustRolled /\ (s > High \/ s < l))
  BY <1>2, <1>5 DEF SeqIInv, ComparesLatest
<1>7. JustRolled => l < Late  BY <1>2 DEF JustRolled
<1>8. SeqTypeOK'
  BY <1>1, <1>3, <1>4, <1>5, Limits DEF SeqIInv, SeqTypeOK
<1>9. FlyingKept' /\ NearNews'
  BY <1>1, <1>3, <1>4, Limits DEF SeqIInv, FlyingKept, NearNews
<1>10. CASE n > latest
  <2>1. latest' = n  BY <1>3, <1>10
  <2>2. (s > High /\ new < Low) \/ new > s
    BY <1>2, <1>5, <1>6, <1>7, <1>10, Limits
  <2>3. sequence' % Wrap = new /\ ~drop_flag'  BY <1>5, <2>2
  <2>4. ComparesLatest'  BY <1>2, <2>1, <2>3 DEF ComparesLatest
  <2>5. ~(arrived' < latest')  BY <1>1, <1>3, <2>1
  <2> QED  BY <1>8, <1>9, <2>3, <2>4, <2>5 DEF SeqIInv, NewsIsHeard, StaleIsDropped
<1>11. CASE n = latest
  <2>1. latest' = latest /\ new = l  BY <1>1, <1>2, <1>3, <1>4, <1>11
  <2>2. IF s = l THEN sequence' = sequence ELSE sequence' % Wrap = l
    BY <1>2, <1>5, <1>6, <1>7, <2>1, Limits
  <2>3. ComparesLatest'  BY <1>2, <1>5, <2>1, <2>2 DEF ComparesLatest
  <2>4. ~(arrived' < latest')  BY <1>1, <1>3, <1>11, <2>1
  <2> QED  BY <1>8, <1>9, <2>1, <2>3, <2>4 DEF SeqIInv, NewsIsHeard, StaleIsDropped
<1>12. CASE n < latest
  <2>1. latest' = latest /\ (JustRolled' <=> JustRolled)
    BY <1>1, <1>3, <1>4, <1>12 DEF JustRolled
  <2>2. CASE ~JustRolled
    <3>1. s = l /\ new < l /\ l - new < Late  BY <1>2, <1>6, <1>12, <2>2
    <3>2. sequence' = sequence /\ drop_flag'  BY <1>2, <1>5, <3>1, Limits
    <3>3. ComparesLatest'  BY <1>2, <1>5, <2>1, <3>1, <3>2 DEF ComparesLatest
    <3> QED  BY <1>8, <1>9, <2>1, <3>2, <3>3 DEF SeqIInv, NewsIsHeard, StaleIsDropped
  <2>3. CASE JustRolled
    <3>1. ASSUME new > High PROVE ComparesLatest'
      <4>1. (s > High /\ new < Low) \/ new > s \/ s > High
        BY <1>2, <1>5, <1>6, <1>7, <2>3, <3>1, Limits
      <4>2. sequence' % Wrap = new \/ (sequence' = sequence /\ s > High)
        BY <1>5, <4>1
      <4>3. sequence' % Wrap > High  BY <1>5, <3>1, <4>2
      <4> QED  BY <1>2, <2>1, <2>3, <4>3 DEF ComparesLatest
    <3>2. ASSUME new < l PROVE ComparesLatest'
      <4>1. s = l \/ s < l \/ (s > High /\ new < Low)
        BY <1>2, <1>5, <1>6, <1>7, <2>3, <3>2, Limits
      <4>2. sequence' % Wrap = new \/ (sequence' = sequence /\ (s = l \/ s < l))
        BY <1>5, <4>1
      <4>3. sequence' % Wrap = l \/ sequence' % Wrap < l  BY <1>5, <3>2, <4>2
      <4> QED  BY <1>2, <2>1, <2>3, <4>3 DEF ComparesLatest
    <3>3. ComparesLatest'  BY <1>2, <1>12, <3>1, <3>2
    <3> QED  BY <1>8, <1>9, <2>1, <2>3, <3>3 DEF SeqIInv, NewsIsHeard, StaleIsDropped
  <2> QED  BY <2>2, <2>3
<1> QED  BY <1>1, <1>4, <1>10, <1>11, <1>12

\* The sender's part, the losses and a connection set up anew, while the
\* receiver misses no rollover.
LEMMA SeqStep ==
  ASSUME SeqIInv, [SeqNext]_seqVars, ~missed'
  PROVE  SeqIInv' /\ (UNCHANGED seqVars \/ (NewsIsHeard /\ StaleIsDropped))
<1>1. CASE AddSequence
  <2>1. /\ missed' \in BOOLEAN
        /\ seq_no <= MaxSent /\ seq_no' = seq_no + 1
        /\ seq_no - latest < Wrap - High - 1
        /\ UNCHANGED <<sequence, drop_flag, latest, arrived>>
    BY <1>1 DEF Connected, AddSequence
  <2>2. PICK copies \in {{1}, {1, 2}} :
          flying' = {f \in flying : f[1] + Late > seq_no} \cup ({seq_no} \X copies)
    BY <1>1 DEF AddSequence
  <2>3. SeqTypeOK'
    BY <2>1, <2>2, Limits DEF SeqIInv, SeqTypeOK
  <2>4. ASSUME NEW f \in flying'
        PROVE  f[1] < seq_no' /\ (seq_no' <= f[1] + Late \/ f[1] + 1 = seq_no')
    <3>1. CASE f \in flying /\ f[1] + Late > seq_no
      <4>1. f[1] < seq_no /\ f[1] \in Nat /\ seq_no \in Nat
        BY <3>1, Limits DEF SeqIInv, SeqTypeOK, FlyingKept
      <4> QED  BY <2>1, <3>1, <4>1, Limits
    <3>2. CASE f[1] = seq_no
      <4>1. seq_no \in Nat  BY Limits DEF SeqIInv, SeqTypeOK
      <4> QED  BY <2>1, <3>2, <4>1
    <3> QED  BY <2>2, <2>4, <3>1, <3>2
  <2>5. FlyingKept'  BY <2>4 DEF FlyingKept
  <2>6. NearNews'  BY <2>1, Limits DEF SeqIInv, SeqTypeOK, NearNews
  <2>7. ComparesLatest' /\ (arrived' < latest' /\ ~JustRolled' => drop_flag')
    BY <2>1 DEF SeqIInv, ComparesLatest, JustRolled
  <2> QED  BY <2>1, <2>3, <2>5, <2>6, <2>7 DEF SeqIInv, NewsIsHeard, StaleIsDropped
<1>2. CASE \E f \in flying : HandleSequence(f)  BY <1>2, HandleSequenceStep
<1>3. CASE LoseTransmission
  <2>1. /\ flying' \subseteq flying
        /\ UNCHANGED <<seq_no, sequence, drop_flag, missed, latest, arrived>>
    BY <1>3 DEF LoseTransmission
  <2> QED
    BY <2>1 DEF SeqIInv, SeqTypeOK, FlyingKept, NearNews, ComparesLatest, JustRolled,
                NewsIsHeard, StaleIsDropped
<1>4. CASE Reopen
  <2>1. /\ seq_no' = 1 /\ flying' = {} /\ sequence' = 0 /\ drop_flag' = FALSE
        /\ missed' = FALSE /\ latest' = 0 /\ arrived' = 0
    BY <1>4 DEF Reopen
  <2>a. SeqTypeOK'  BY <2>1, Bounds DEF SeqTypeOK
  <2>b. FlyingKept'  BY <2>1 DEF FlyingKept
  <2>2. NearNews'  BY <2>1, Limits DEF NearNews
  <2>3. ComparesLatest'  BY <2>1 DEF ComparesLatest
  <2> QED  BY <2>1, <2>a, <2>b, <2>2, <2>3 DEF SeqIInv, NewsIsHeard, StaleIsDropped
<1>5. CASE UNCHANGED seqVars
  BY <1>5 DEF seqVars, SeqIInv, SeqTypeOK, FlyingKept, NearNews, ComparesLatest, JustRolled
<1> QED  BY <1>1, <1>2, <1>3, <1>4, <1>5 DEF SeqNext

\* Types are kept, whatever is missed.
LEMMA SeqTypesStep ==
  ASSUME SeqTypeOK, [SeqNext]_seqVars
  PROVE  SeqTypeOK'
<1>1. CASE AddSequence
  <2>1. seq_no <= MaxSent /\ seq_no' = seq_no + 1 /\ seq_no \in 1 .. MaxSent
    BY <1>1, Limits DEF AddSequence, SeqTypeOK
  <2>2. seq_no' \in 1 .. MaxSent + 1  BY <2>1, Limits
  <2> QED  BY <1>1, <2>1, <2>2 DEF AddSequence, SeqTypeOK
<1>2. ASSUME NEW f \in flying, HandleSequence(f)  PROVE SeqTypeOK'
  <2>1. PICK n \in 1 .. MaxSent : n = f[1]  BY DEF SeqTypeOK
  <2>2. n % Wrap \in 0 .. Wrap - 1  BY Limits, RoundOf
  <2>3. /\ flying' = flying \ {f} /\ Accept(n % Wrap) /\ arrived' = n
        /\ UNCHANGED <<seq_no, missed>> /\ latest' \in {n, latest}
    BY <1>2, <2>1 DEF HandleSequence
  <2>4. sequence' \in Nat /\ drop_flag' \in BOOLEAN
    BY <2>2, <2>3, AcceptIs DEF SeqTypeOK
  <2> QED  BY <2>1, <2>3, <2>4, Limits DEF SeqTypeOK
<1>3. CASE LoseTransmission  BY <1>3 DEF LoseTransmission, SeqTypeOK
<1>4. CASE Reopen  BY <1>4, Bounds DEF Reopen, SeqTypeOK
<1>5. CASE UNCHANGED seqVars  BY <1>5 DEF seqVars, SeqTypeOK
<1> QED  BY <1>1, <1>2, <1>3, <1>4, <1>5 DEF SeqNext

\* Before anything is sent, and when UDP is set up anew, all is well.
LEMMA SeqFirst == SeqInit => SeqIInv
<1> SUFFICES ASSUME SeqInit PROVE SeqIInv  OBVIOUS
<1>1. SeqTypeOK  BY Bounds DEF SeqInit, SeqTypeOK
<1>2. FlyingKept  BY DEF SeqInit, FlyingKept
<1>3. NearNews  BY Limits DEF SeqInit, NearNews
<1>4. ComparesLatest  BY DEF SeqInit, ComparesLatest
<1> QED  BY <1>1, <1>2, <1>3, <1>4 DEF SeqIInv, SeqInit

\* A missed rollover stays missed until UDP is set up anew.
LEMMA SeqKeptStep ==
  ASSUME SeqKept, [SeqNext]_seqVars
  PROVE  SeqKept' /\ (UNCHANGED seqVars \/ (NewsIsHeard /\ StaleIsDropped))
<1>1. SeqTypeOK'  BY SeqTypesStep DEF SeqKept
<1>2. CASE missed'  BY <1>1, <1>2 DEF SeqKept, NewsIsHeard, StaleIsDropped
<1>3. CASE ~missed' /\ ~missed  BY <1>1, <1>3, SeqStep DEF SeqKept
<1>4. CASE ~missed' /\ missed
  <2>1. Reopen
    BY <1>4 DEF SeqNext, AddSequence, HandleSequence, LoseTransmission, seqVars
  <2>2. SeqInit'  BY <2>1 DEF Reopen, SeqInit
  <2>3. SeqIInv'  BY <2>2, SeqFirst, PTL
  <2>4. ~drop_flag' /\ ~(arrived' < latest')  BY <2>1 DEF Reopen
  <2> QED  BY <1>1, <2>3, <2>4 DEF SeqKept, NewsIsHeard, StaleIsDropped
<1>5. missed \in BOOLEAN /\ missed' \in BOOLEAN  BY <1>1 DEF SeqKept, SeqTypeOK
<1> QED  BY <1>2, <1>3, <1>4, <1>5

\* For every limit of lateness and rollover that leaves room, what is sent by
\* addSequence() and comes late, twice or not at all is sorted by
\* handleSequence(): news is heard, and what is late is dropped, as long as not
\* all numbers above High are lost in a row, and again when UDP is set up anew.
THEOREM SequenceHolds == SeqSpec => SequenceKept
<1>1. SeqInit => SeqKept  BY SeqFirst DEF SeqKept, SeqIInv
<1>2. SeqKept /\ [SeqNext]_seqVars => SeqKept'  BY SeqKeptStep
<1>3. SeqKept /\ [SeqNext]_seqVars => [NewsIsHeard /\ StaleIsDropped]_seqVars
  BY SeqKeptStep
<1>4. SeqKept => SeqTypeOK  BY DEF SeqKept
<1> QED  BY <1>1, <1>2, <1>3, <1>4, PTL DEF SeqSpec, SequenceKept

-----------------------------------------------------------------------------
(* What readers are given *)

\* But for being valid, an entry with flags has those of its sender's group.
Signed(e) == e.flags # {} => e.flags \ {"valid"} = Group(e.msg[1])
\* Every entry is signed; that of a writer who makes it valid has its group; the
\* daemon copies a valid one.
Signatures ==
  /\ \A r \in Ring : \A k \in Index : Signed(uplink[r][k])
  /\ \A w \in Writer : wpc[w] = "valid" => uplink[RingOf[w]][slot[w]].flags # {}
  /\ daemon_pc \in {"kick", "copy"} => "valid" \in uplink[R][dmc[R]].flags
\* No ring holds more than a writer may send between two ticks.
FewDue == \A r \in Ring : Due(r) <= MaxBurst

\* The message log[i] is in messages[], possibly turned into one to all.
Turned(i) == rpc[Target] = "reset" /\ reset[Target] = i % MaxMessage
Stands(i) ==
  messages[i % MaxMessage] =
    [msg |-> log[i], flags |-> {"valid"} \cup IF Turned(i) THEN {"all"} ELSE Group(log[i][1])]
\* messages[] holds the latest messages of the log.
Latest == /\ \A i \in 1 .. Len(log) : Len(log) < i + MaxMessage => Stands(i)
          /\ mc_current = (IF daemon_pc = "copy" THEN Len(log) + 1 ELSE Len(log)) % MaxMessage

\* The daemon cannot overtake somebody who has read n messages.
Room(n) == Len(log) + Due(R) <= n + dring * MaxBurst + (IF daemon_pc = "clear" THEN 1 ELSE 0)
\* A reader has read n messages of the log, the last of which he may have turned.
HasRead(x, n) ==
  /\ Len(log) < n + MaxMessage
  /\ msgCurrent[x] = (n + 1) % MaxMessage
  /\ got[x] = Given(log, x)[n]
  /\ daemon_pc = "idle" /\ rpc[x] = "idle" => n = Len(log)
  /\ daemon_pc # "idle" => rpc[x] = "idle" /\ Room(n)
  /\ rpc[x] = "reset" => /\ x = Target /\ n >= 1 /\ reset[x] = n % MaxMessage
                         /\ log[n][1] \in Ejected /\ Len(log) + 1 < n + MaxMessage
Readers == \A x \in Reader : \E n \in 0 .. Len(log) : HasRead(x, n)

\* Numbers less than a round apart with one residue are one.
LEMMA SameResidue ==
  ASSUME NEW W \in Nat \ {0}, NEW a \in Nat, NEW b \in Nat,
         a % W = b % W, a < b + W, b < a + W
  PROVE  a = b
<1>1. ASSUME NEW n \in Nat, NEW d \in 0 .. W - 1, (n + d) % W = n % W  PROVE d = 0
  <2>1. n % W \in 0 .. W - 1  BY FurtherOn
  <2>2. (n % W) + d < W => (n + d) % W = (n % W) + d  BY FurtherOn
  <2>3. (n % W) + d >= W => (n + d) % W = (n % W) + d - W  BY FurtherOn
  <2> DEFINE r == n % W
             s == (n + d) % W
  <2>4. r \in 0 .. W - 1 /\ s = r /\ (r + d < W => s = r + d) /\ (r + d >= W => s = r + d - W)
    BY <1>1, <2>1, <2>2, <2>3
  <2> HIDE DEF r, s
  <2> QED  BY ONLY <2>4, W \in Nat \ {0}, d \in 0 .. W - 1
<1>2. CASE a <= b
  <2>1. b - a \in 0 .. W - 1 /\ a + (b - a) = b  BY <1>2
  <2>2. b - a = 0  BY <1>1, <2>1
  <2> QED  BY <2>2
<1>3. CASE b < a
  <2>1. a - b \in 0 .. W - 1 /\ b + (a - b) = a  BY <1>3
  <2>2. a - b = 0  BY <1>1, <2>1
  <2> QED  BY <2>2
<1> QED  BY <1>2, <1>3

\* The residue of the next number.
LEMMA NextResidue ==
  ASSUME NEW W \in Nat \ {0, 1}, NEW n \in Nat
  PROVE  ((n % W) + 1) % W = (n + 1) % W
<1> DEFINE r == n % W
<1>1. 1 \in 0 .. W - 1 /\ r \in 0 .. W - 1  BY FurtherOn
<1>2. r + 1 < W => (n + 1) % W = r + 1  BY <1>1, FurtherOn
<1>3. r + 1 >= W => (n + 1) % W = r + 1 - W  BY <1>1, FurtherOn
<1> HIDE DEF r
<1>4. CASE r + 1 < W
  <2>1. (r + 1) % W = r + 1  BY ONLY <1>1, <1>4, W \in Nat \ {0, 1}
  <2> QED  BY <1>2, <1>4, <2>1 DEF r
<1>5. CASE r + 1 = W
  <2>1. W % W = 0  OBVIOUS
  <2>2. r + 1 - W = 0  BY <1>1, <1>5
  <2> QED  BY <1>3, <1>5, <2>1, <2>2 DEF r
<1> QED  BY <1>1, <1>4, <1>5

\* Given() has the recursion it is defined by.
LEMMA GivenIs ==
  ASSUME NEW s \in Seq(Msg), NEW x
  PROVE  \A n \in 0 .. Len(s) : Given(s, x)[n] =
           IF n = 0 THEN <<>>
           ELSE IF IsFor(s[n], x) THEN Append(Given(s, x)[n - 1], s[n]) ELSE Given(s, x)[n - 1]
<1> DEFINE Grown(g, n) == IF n = 0 THEN <<>>
                         ELSE IF IsFor(s[n], x) THEN Append(g[n - 1], s[n]) ELSE g[n - 1]
           IsGiven(g, j) == g = [n \in 0 .. j |-> Grown(g, n)]
           T == {j \in 0 .. Len(s) : ~\E g : IsGiven(g, j)}
<1>0. Len(s) \in Nat  OBVIOUS
<1>1. T = {}
  <2> SUFFICES ASSUME T # {} PROVE FALSE  OBVIOUS
  <2>1. T \in SUBSET Nat  BY <1>0
  <2>2. PICK j \in T : \A i \in T : j <= i
    <3> HIDE DEF T
    <3> QED  BY <2>1, LeastNumber
  <2>3. j \in 0 .. Len(s) /\ ~\E g : IsGiven(g, j)  OBVIOUS
  <2>4. CASE j = 0
    <3> DEFINE g == [n \in 0 .. 0 |-> <<>>]
    <3>1. \A n \in 0 .. 0 : n = 0  OBVIOUS
    <3>2. \A n \in 0 .. 0 : Grown(g, n) = <<>>  BY <3>1
    <3> HIDE DEF Grown
    <3>3. IsGiven(g, 0)  BY <3>2
    <3> QED  BY <2>3, <2>4, <3>3
  <2>5. CASE j > 0
    <3>1. j - 1 \in 0 .. Len(s) /\ ~(j <= j - 1)  BY <1>0, <2>3, <2>5
    <3>2. j - 1 \notin T  BY <2>2, <3>1
    <3>3. PICK h : IsGiven(h, j - 1)  BY <3>1, <3>2
    <3> DEFINE r == Grown(h, j)
               g == [n \in 0 .. j |-> IF n = j THEN r ELSE h[n]]
    <3> HIDE DEF T
    <3>4. ASSUME NEW n \in 0 .. j PROVE Grown(g, n) = Grown(h, n)
      <4>1. CASE n = 0  BY <4>1
      <4>2. CASE n > 0
        <5>1. n - 1 \in 0 .. j /\ n - 1 # j  BY <1>0, <2>3, <4>2
        <5>2. g[n - 1] = h[n - 1]  BY <5>1
        <5> HIDE DEF g
        <5> QED  BY <5>2
      <4>3. n = 0 \/ n > 0  BY <1>0, <2>3
      <4> QED  BY <4>1, <4>2, <4>3
    <3>5. ASSUME NEW n \in 0 .. j PROVE g[n] = Grown(h, n)
      <4>1. CASE n = j  BY <4>1
      <4>2. CASE n # j
        <5>1. n \in 0 .. j - 1  BY <1>0, <2>3, <4>2
        <5> HIDE DEF Grown
        <5> QED  BY <3>3, <4>2, <5>1
      <4> QED  BY <4>1, <4>2
    <3>6. IsGiven(g, j)
      <4> HIDE DEF Grown, r
      <4>1. \A n \in 0 .. j : g[n] = Grown(g, n)  BY <3>4, <3>5
      <4> QED  BY <4>1
    <3> QED  BY <2>3, <3>6
  <2> QED  BY <1>0, <2>3, <2>4, <2>5
<1>2. Len(s) \in 0 .. Len(s)  BY <1>0
<1>3. \E g : IsGiven(g, Len(s))
  <2>1. \A j \in 0 .. Len(s) : \E g : IsGiven(g, j)
    <3> HIDE DEF IsGiven
    <3> QED  BY <1>1
  <2> HIDE DEF IsGiven
  <2> QED  BY <1>2, <2>1
<1>4. IsGiven(Given(s, x), Len(s))  BY <1>3 DEF Given
<1> DEFINE h == Given(s, x)
<1>5. h = [n \in 0 .. Len(s) |-> Grown(h, n)]  BY <1>4
<1>6. \A n \in 0 .. Len(s) : h[n] = Grown(h, n)
  <2> HIDE DEF h, Grown
  <2> QED  BY ONLY <1>5
<1> QED  BY <1>6

\* What is given of the first messages is not changed by one more.
LEMMA GivenStays ==
  ASSUME NEW s \in Seq(Msg), NEW m \in Msg, NEW x, NEW n \in 0 .. Len(s)
  PROVE  Given(Append(s, m), x)[n] = Given(s, x)[n]
<1> DEFINE t == Append(s, m)
           T == {k \in 0 .. Len(s) : Given(t, x)[k] # Given(s, x)[k]}
<1>1. t \in Seq(Msg) /\ Len(t) = Len(s) + 1 /\ \A k \in 1 .. Len(s) : t[k] = s[k]  OBVIOUS
<1> HIDE DEF t
<1>2. ASSUME NEW k \in 0 .. Len(s), k # 0
      PROVE  /\ k - 1 \in 0 .. Len(s) /\ ~(k <= k - 1)
             /\ Given(t, x)[k] = IF IsFor(s[k], x) THEN Append(Given(t, x)[k - 1], s[k])
                                 ELSE Given(t, x)[k - 1]
             /\ Given(s, x)[k] = IF IsFor(s[k], x) THEN Append(Given(s, x)[k - 1], s[k])
                                 ELSE Given(s, x)[k - 1]
  <2>1. k \in 0 .. Len(t) /\ t[k] = s[k] /\ k - 1 \in 0 .. Len(s) /\ ~(k <= k - 1)
    BY <1>1, <1>2
  <2>2. Given(t, x)[k] = IF k = 0 THEN <<>> ELSE IF IsFor(t[k], x)
          THEN Append(Given(t, x)[k - 1], t[k]) ELSE Given(t, x)[k - 1]
    BY <1>1, <2>1, GivenIs
  <2>3. Given(s, x)[k] = IF k = 0 THEN <<>> ELSE IF IsFor(s[k], x)
          THEN Append(Given(s, x)[k - 1], s[k]) ELSE Given(s, x)[k - 1]
    BY GivenIs
  <2> QED  BY <1>2, <2>1, <2>2, <2>3
<1>3. Given(t, x)[0] = <<>> /\ Given(s, x)[0] = <<>>
  <2>1. 0 \in 0 .. Len(t) /\ 0 \in 0 .. Len(s)  BY <1>1
  <2> QED  BY <1>1, <2>1, GivenIs
<1>4. T = {}
  <2> SUFFICES ASSUME T # {} PROVE FALSE  OBVIOUS
  <2>1. T \in SUBSET Nat  OBVIOUS
  <2>2. PICK k \in T : \A i \in T : k <= i
    <3> HIDE DEF T
    <3> QED  BY <2>1, LeastNumber
  <2>3. k \in 0 .. Len(s) /\ Given(t, x)[k] # Given(s, x)[k]  OBVIOUS
  <2>4. k # 0  BY <1>3, <2>3
  <2>5. k - 1 \notin T  BY <1>2, <2>2, <2>3, <2>4
  <2>6. Given(t, x)[k - 1] = Given(s, x)[k - 1]  BY <1>2, <2>3, <2>4, <2>5
  <2> QED  BY <1>2, <2>3, <2>4, <2>6
<1> QED  BY <1>4 DEF t

\* One more message is given, if it is for him.
LEMMA GivenNext ==
  ASSUME NEW s \in Seq(Msg), NEW x, NEW n \in 0 .. Len(s), n # Len(s)
  PROVE  Given(s, x)[n + 1] = IF IsFor(s[n + 1], x) THEN Append(Given(s, x)[n], s[n + 1])
                              ELSE Given(s, x)[n]
<1>1. n + 1 \in 0 .. Len(s) /\ n + 1 # 0 /\ (n + 1) - 1 = n  OBVIOUS
<1>2. Given(s, x)[n + 1] = IF n + 1 = 0 THEN <<>> ELSE IF IsFor(s[n + 1], x)
        THEN Append(Given(s, x)[(n + 1) - 1], s[n + 1]) ELSE Given(s, x)[(n + 1) - 1]
  BY <1>1, GivenIs
<1> QED  BY <1>1, <1>2

\* A writer who is at work works while the daemon is not.
LEMMA WriterAlone ==
  ASSUME TakingTurns, Places, NEW w \in Writer, Send(w) \/ Writing(w)
  PROVE  daemon_pc = "idle" /\ daemon_pc' = "idle"
<1>1. daemon_pc = "idle"
  <2>1. Send(w) => daemon_pc = "idle"  BY DEF Send, TakingTurns
  <2>2. Writing(w) => wpc[w] # "idle"
    BY DEF Writing, KickStore, KickWrap, Fill, SetValid, Post
  <2> QED  BY <2>1, <2>2 DEF Places, OwnPlace
<1>2. daemon_pc' = daemon_pc
  BY DEF Send, Writing, KickStore, KickWrap, Fill, SetValid, Post, daemonVars
<1> QED  BY <1>1, <1>2

\* Flags are those of the sender's group, from the entry's first writer on.
LEMMA SignaturesStep ==
  ASSUME TakingTurns, RingTypeOK, Places, Signatures, [RingNext]_ringVars
  PROVE  Signatures'
<1>0. /\ uplink \in [Ring -> [Index -> Entry]] /\ dmc \in [Ring -> Index]
      /\ slot \in [Writer -> Index] /\ R \in Ring /\ (\A w \in Writer : RingOf[w] \in Ring)
      /\ wpc \in [Writer -> {"idle", "store", "wrap", "fill", "valid", "post"}]
  BY RingsAre DEF RingTypeOK, Entry, Index
<1>1. /\ \A r \in Ring : \A k \in Index : Signed(uplink[r][k])
      /\ \A w \in Writer : wpc[w] = "valid" => uplink[RingOf[w]][slot[w]].flags # {}
      /\ daemon_pc \in {"kick", "copy"} => "valid" \in uplink[R][dmc[R]].flags
  BY DEF Signatures
<1>2. ASSUME uplink' = uplink,
             \A w \in Writer : wpc'[w] = "valid" => wpc[w] = "valid" /\ slot'[w] = slot[w],
             daemon_pc' \in {"kick", "copy"} => "valid" \in uplink[R'][dmc'[R']].flags
      PROVE  Signatures'
  BY <1>1, <1>2 DEF Signatures, Signed
<1>3. ASSUME NEW w \in Writer, Send(w) \/ KickStore(w) \/ KickWrap(w) \/ Post(w)
      PROVE  Signatures'
  <2>1. /\ uplink' = uplink
        /\ \E l \in {"store", "wrap", "fill", "idle"} : wpc' = [wpc EXCEPT ![w] = l]
        /\ slot' = slot \/ (wpc[w] # "valid" /\ \E l : slot' = [slot EXCEPT ![w] = l])
    BY <1>3 DEF Send, KickStore, KickWrap, Post, WGoto, uvars
  <2>2. \A v \in Writer : wpc'[v] = "valid" => wpc[v] = "valid" /\ slot'[v] = slot[v]
    BY ONLY <1>0, <2>1
  <2>3. daemon_pc' = "idle"  BY <1>3, WriterAlone DEF Writing
  <2> QED  BY <1>2, <2>1, <2>2, <2>3
<1>4. ASSUME NEW w \in Writer, Fill(w)  PROVE Signatures'
  <2> DEFINE e == [msg |-> <<w, sent[w]>>, flags |-> Group(w)]
  <2>1. /\ uplink' = [uplink EXCEPT ![RingOf[w]][slot[w]] = e] /\ slot' = slot
        /\ wpc' = [wpc EXCEPT ![w] = "valid"]
    BY <1>4 DEF Fill, WGoto
  <2>2. Signed(e) /\ e.flags # {}  BY DEF Signed, Group
  <2> HIDE DEF e
  <2>3. w \in Writer  OBVIOUS
  <2>4. \A r \in Ring : \A k \in Index :
          uplink'[r][k] = IF r = RingOf[w] /\ k = slot[w] THEN e ELSE uplink[r][k]
    BY ONLY <1>0, <2>1, <2>3
  <2>5. \A r \in Ring : \A k \in Index : Signed(uplink[r][k])'
    BY <1>1, <2>2, <2>4 DEF Signed
  <2>6. \A v \in Writer \ {w} : wpc'[v] = wpc[v] /\ RingOf[v] # RingOf[w]
    BY <1>0, <2>1 DEF TakingTurns
  <2>7. \A v \in Writer : wpc'[v] = "valid" => uplink'[RingOf[v]][slot'[v]].flags # {}
    <3>1. \A v \in Writer : slot[v] \in Index /\ RingOf[v] \in Ring  BY <1>0
    <3> QED  BY <1>1, <2>1, <2>2, <2>4, <2>6, <3>1
  <2>8. daemon_pc' = "idle"  BY <1>4, WriterAlone DEF Writing
  <2> QED  BY <2>5, <2>7, <2>8 DEF Signatures
<1>5. ASSUME NEW w \in Writer, SetValid(w)  PROVE Signatures'
  <2> DEFINE e == uplink[RingOf[w]][slot[w]]
             g == Flagged(e, e.flags \cup {"valid"})
  <2>1. /\ uplink' = [uplink EXCEPT ![RingOf[w]][slot[w]] = g] /\ slot' = slot
        /\ wpc[w] = "valid" /\ wpc' = [wpc EXCEPT ![w] = "post"]
    BY <1>5 DEF SetValid, WGoto, Flagged
  <2>2. RingOf[w] \in Ring /\ slot[w] \in Index /\ e \in Entry  BY <1>0
  <2>3. e.flags # {} /\ Signed(e)  BY <1>1, <2>1, <2>2
  <2>4. g.msg = e.msg /\ g.flags = e.flags \cup {"valid"}
    <3>1. e.flags \cup {"valid"} \in SUBSET Flag  BY <2>2 DEF Entry, Flag
    <3> HIDE DEF e
    <3> QED  BY <2>2, <3>1, FlaggedIs
  <2>5. Signed(g) /\ g.flags # {}
    <3> HIDE DEF e, g
    <3> QED  BY <2>3, <2>4 DEF Signed
  <2> HIDE DEF g, e
  <2>6. w \in Writer  OBVIOUS
  <2>7. \A r \in Ring : \A k \in Index :
          uplink'[r][k] = IF r = RingOf[w] /\ k = slot[w] THEN g ELSE uplink[r][k]
    BY ONLY <1>0, <2>1, <2>6
  <2>8. \A r \in Ring : \A k \in Index : Signed(uplink[r][k])'
    BY <1>1, <2>5, <2>7 DEF Signed
  <2>9. \A v \in Writer : wpc'[v] = "valid" => wpc[v] = "valid" /\ RingOf[v] # RingOf[w]
    BY <1>0, <2>1 DEF TakingTurns
  <2>10. \A v \in Writer : wpc'[v] = "valid" => uplink'[RingOf[v]][slot'[v]].flags # {}
    <3>1. \A v \in Writer : slot[v] \in Index /\ RingOf[v] \in Ring  BY <1>0
    <3> QED  BY <1>1, <2>1, <2>7, <2>9, <3>1
  <2>11. daemon_pc' = "idle"  BY <1>5, WriterAlone DEF Writing
  <2> QED  BY <2>8, <2>10, <2>11 DEF Signatures
<1>6. ASSUME RequeueClear  PROVE Signatures'
  <2> DEFINE g == Flagged(uplink[R][dmc[R]], {})
  <2>1. /\ uplink' = [uplink EXCEPT ![R][dmc[R]] = g] /\ wpc' = wpc
        /\ daemon_pc = "clear" /\ daemon_pc' = "scan"
    BY <1>6 DEF RequeueClear, wvars, Flagged
  <2>2. g.flags = {}
    <3>1. dmc[R] \in Index  BY <1>0
    <3>2. uplink[R][dmc[R]] \in Entry  BY ONLY <1>0, <3>1
    <3> QED  BY <3>2, FlaggedIs
  <2> HIDE DEF g
  <2>3. \A r \in Ring : \A k \in Index : uplink'[r][k] \in {g, uplink[r][k]}
    BY ONLY <1>0, <2>1
  <2>4. \A r \in Ring : \A k \in Index : Signed(uplink[r][k])'
    BY <1>1, <2>2, <2>3 DEF Signed
  <2>5. \A w \in Writer : wpc[w] = "idle"  BY <2>1 DEF Places, OwnPlace
  <2> QED  BY <2>1, <2>4, <2>5 DEF Signatures
<1>7. ASSUME Tick \/ Look \/ ScanEnd \/ RequeueKick \/ RequeueCopy  PROVE Signatures'
  <2>1. UNCHANGED <<uplink, wpc, slot>>
    BY <1>7 DEF Tick, Look, ScanEnd, RequeueKick, RequeueCopy, uvars, wvars
  <2>2. daemon_pc' \in {"kick", "copy"} => "valid" \in uplink[R'][dmc'[R']].flags
    BY <1>1, <1>7 DEF Tick, Look, ScanEnd, RequeueKick, RequeueCopy, R
  <2> QED  BY <1>2, <2>1, <2>2
<1>8. ASSUME (\E x \in Reader : Reading(x)) \/ UNCHANGED ringVars  PROVE Signatures'
  <2>1. UNCHANGED <<uplink, wpc, slot, daemon_pc, dring, dmc>>
    BY <1>8 DEF Reading, Read, Reset, ReadEnd, ringVars, uvars, wvars, daemonVars
  <2> QED  BY <1>1, <1>2, <2>1 DEF R
<1> QED
  BY <1>3, <1>4, <1>5, <1>6, <1>7, <1>8 DEF RingNext, Writing, Requeue

\* Nobody sends more, so that no ring holds more.
LEMMA FewDueStep ==
  ASSUME TakingTurns, RingTypeOK, Places, FewDue, [RingNext]_ringVars
  PROVE  FewDue'
<1>0. /\ R \in Ring /\ (\A w \in Writer : RingOf[w] \in Ring) /\ MaxBurst \in Nat
      /\ mc \in [Ring -> Nat]
      /\ (\A w \in Writer : burst[w] \in 0 .. MaxBurst)
      /\ \A r \in Ring : Due(r) \in Nat
  BY RoundTypes DEF Index
<1>1. \A r \in Ring : Due(r) <= MaxBurst  BY DEF FewDue
<1>2. ASSUME UNCHANGED <<mc, dmc>>  PROVE FewDue'
  <2>1. \A r \in Ring : Due(r)' = Due(r)  BY <1>2 DEF Due, Final
  <2> QED  BY <1>1, <2>1 DEF FewDue
<1>3. ASSUME NEW w \in Writer, KickStore(w) \/ KickWrap(w)  PROVE FewDue'
  <2>1. daemon_pc = "idle"  BY <1>3, WriterAlone DEF Writing
  <2>2. Due(RingOf[w])' \in {Due(RingOf[w]), Due(RingOf[w]) + 1} /\ Due(RingOf[w]) + 1 <= burst[w]
    BY <1>3, <2>1, Reserve DEF Places, TakingTurns
  <2>3. /\ dmc' = dmc /\ \E l : mc' = [mc EXCEPT ![RingOf[w]] = l]
    BY <1>3 DEF KickStore, KickWrap, daemonVars
  <2>4. \A r \in Ring \ {RingOf[w]} : Due(r)' = Due(r)
    <3>1. \A r \in Ring \ {RingOf[w]} : mc'[r] = mc[r]  BY ONLY <1>0, <2>3
    <3> QED  BY <2>3, <3>1 DEF Due, Final
  <2>5. RingOf[w] \in Ring /\ burst[w] \in 0 .. MaxBurst  BY <1>0
  <2>6. Due(RingOf[w])' <= MaxBurst
    <3>1. Due(RingOf[w]) \in Nat  BY <1>0, <2>5
    <3> QED  BY <1>0, <2>2, <2>5, <3>1
  <2>7. \A r \in Ring : Due(r)' <= MaxBurst  BY <1>1, <2>4, <2>6
  <2> QED  BY <2>7 DEF FewDue
<1>4. ASSUME Look \/ RequeueClear  PROVE FewDue'
  <2>1. CASE dmc' = dmc
    <3>1. mc' = mc  BY <1>4 DEF Look, RequeueClear, uvars
    <3> QED  BY <1>2, <2>1, <3>1
  <2>2. CASE dmc' # dmc
    <3>1. /\ mc' = mc /\ dmc' = [dmc EXCEPT ![R] = (@ + 1) % MaxUplink] /\ dring' = dring
          /\ daemon_pc # "idle"
      BY <1>4, <2>2 DEF Look, RequeueClear, uvars
    <3>2. Due(R) > 0
      <4>1. RequeueClear => Due(R) > 0  BY DEF RequeueClear, Places, DaemonPlace
      <4>2. Look => Due(R) # 0  BY <3>1, WritersRest DEF Look
      <4> QED  BY <1>0, <1>4, <4>1, <4>2
    <3>3. R' = R  BY <3>1 DEF R
    <3>4. Due(R)' = Due(R) - 1 /\ \A r \in Ring \ {R} : dmc'[r] = dmc[r]
      BY <3>1, <3>2, <3>3, Advance
    <3>5. \A r \in Ring \ {R} : Due(r)' = Due(r)  BY <3>1, <3>4 DEF Due, Final
    <3>6. \A r \in Ring : Due(r)' <= Due(r)
      <4>1. \A r \in Ring : r = R => Due(r)' = Due(r) - 1  BY <3>3, <3>4
      <4> QED  BY <1>0, <3>5, <4>1
    <3>7. \A r \in Ring : Due(r)' \in Int
      <4>1. \A r \in Ring : r = R => Due(r)' = Due(r) - 1  BY <3>3, <3>4
      <4> QED  BY <1>0, <3>5, <4>1
    <3> QED  BY <1>0, <1>1, <3>6, <3>7 DEF FewDue
  <2> QED  BY <2>1, <2>2
<1>5. ASSUME NEW w \in Writer, Send(w) \/ Fill(w) \/ SetValid(w) \/ Post(w)
      PROVE  UNCHANGED <<mc, dmc>>
  BY <1>5 DEF Send, Fill, SetValid, Post, uvars, daemonVars
<1>6. Tick \/ ScanEnd \/ RequeueKick \/ RequeueCopy => UNCHANGED <<mc, dmc>>
  BY DEF Tick, ScanEnd, RequeueKick, RequeueCopy, uvars
<1>7. (\E x \in Reader : Reading(x)) \/ UNCHANGED ringVars => UNCHANGED <<mc, dmc>>
  BY DEF Reading, Read, Reset, ReadEnd, ringVars, uvars, daemonVars
<1> QED  BY <1>2, <1>3, <1>4, <1>5, <1>6, <1>7 DEF RingNext, Writing, Requeue

\* All rings together hold, between two ticks, fewer messages than messages[] has
\* entries: 64 and 75 in the code, which limits nobody's sending.
NotOvertaken == Len(RingSeq) * MaxBurst < MaxMessage

\* The types that following the log needs.
LEMMA FollowTypes ==
  ASSUME RingIInv
  PROVE  /\ log \in Seq(Msg) /\ Len(log) \in Nat /\ MaxMessage \in Nat \ {0, 1}
         /\ messages \in [0 .. MaxMessage - 1 -> Entry]
         /\ rpc \in [Reader -> {"idle", "read", "reset"}]
         /\ msgCurrent \in [Reader -> 0 .. MaxMessage - 1]
         /\ reset \in [Reader -> 0 .. MaxMessage - 1] /\ got \in [Reader -> Seq(Msg)]
         /\ Target \in Reader /\ R \in Ring /\ MaxBurst \in Nat
         /\ \A r \in Ring : Due(r) \in Nat
         /\ \A i \in 1 .. Len(log) : log[i] \in Msg
<1>1. RingTypeOK  BY DEF RingIInv
<1>2. /\ log \in Seq(Msg) /\ MaxMessage \in Nat \ {0, 1}
      /\ messages \in [0 .. MaxMessage - 1 -> Entry]
      /\ rpc \in [Reader -> {"idle", "read", "reset"}]
      /\ msgCurrent \in [Reader -> 0 .. MaxMessage - 1]
      /\ reset \in [Reader -> 0 .. MaxMessage - 1] /\ got \in [Reader -> Seq(Msg)]
      /\ Target \in Reader
  BY <1>1, MessageRingAssumption DEF RingTypeOK, Entry
<1>3. Len(log) \in Nat /\ \A i \in 1 .. Len(log) : log[i] \in Msg  BY ONLY <1>2
<1>4. R \in Ring /\ MaxBurst \in Nat  BY <1>1, RoundTypes
<1>5. \A r \in Ring : Due(r) \in Nat  BY ContentTypes
<1> QED  BY <1>2, <1>3, <1>4, <1>5

\* What the rings up to the daemon's may have held.
LEMMA SharesAre ==
  ASSUME NEW d \in Nat, NEW b \in Nat, NEW l \in Nat
  PROVE  /\ d * b \in Nat /\ (d + 1) * b = d * b + b /\ 1 * b = b
         /\ d <= l => d * b <= l * b
<1>1. ASSUME d <= l  PROVE d * b <= l * b
  <2>1. PICK c \in Nat : l = d + c
    <3>1. l - d \in Nat /\ l = d + (l - d)  BY <1>1
    <3> QED  BY <3>1
  <2>2. (d + c) * b = d * b + c * b  OBVIOUS
  <2>3. c * b \in Nat /\ d * b \in Nat  OBVIOUS
  <2> QED  BY <2>1, <2>2, <2>3
<1> QED  BY <1>1

\* messages[] is as it was, unless somebody writes there.
LEMMA LatestSame ==
  ASSUME Latest, UNCHANGED <<log, messages, mc_current>>,
         daemon_pc' = "copy" <=> daemon_pc = "copy",
         \A i : Turned(i)' = Turned(i)
  PROVE  Latest'
<1>1. \A i : Stands(i)' <=> Stands(i)  BY DEF Stands
<1> QED  BY <1>1 DEF Latest

\* A reader is where he was, while the daemon goes on.
LEMMA ReadersSame ==
  ASSUME Readers, UNCHANGED <<log, rvars>>,
         daemon_pc' = "idle" => daemon_pc = "idle",
         daemon_pc' # "idle" => daemon_pc # "idle" /\ \A n \in 0 .. Len(log) : Room(n) => Room(n)'
  PROVE  Readers'
<1>1. ASSUME NEW x \in Reader, NEW n \in 0 .. Len(log), HasRead(x, n)  PROVE HasRead(x, n)'
  BY <1>1 DEF HasRead, rvars
<1>2. Len(log)' = Len(log)  OBVIOUS
<1> QED  BY <1>1, <1>2 DEF Readers

\* While writers write, and in every step of the daemon but four, readers stay.
LEMMA FollowQuiet ==
  ASSUME TakingTurns, RingIInv, Places, Latest, Readers,
         \/ \E w \in Writer : Send(w) \/ Writing(w)
         \/ Look \/ RequeueClear \/ UNCHANGED ringVars
  PROVE  Latest' /\ Readers'
<1>0. RingTypeOK  BY DEF RingIInv
<1>1. UNCHANGED <<log, messages, mc_current, rvars>>
  BY DEF Send, Writing, KickStore, KickWrap, Fill, SetValid, Post, Look, RequeueClear,
         ringVars, mvars, daemonVars
<1>2. \A i : Turned(i)' = Turned(i)  BY <1>1 DEF Turned, rvars
<1>3. CASE \E w \in Writer : Send(w) \/ Writing(w)
  <2>1. daemon_pc = "idle" /\ daemon_pc' = "idle"  BY <1>3, WriterAlone
  <2> QED  BY <1>1, <1>2, <2>1, LatestSame, ReadersSame
<1>4. CASE UNCHANGED ringVars
  <2>1. UNCHANGED <<daemon_pc, dring, dmc, mc>>  BY <1>4 DEF ringVars, daemonVars, uvars
  <2>2. R' = R  BY <2>1 DEF R
  <2>3. Due(R)' = Due(R)  BY <2>1, <2>2 DEF Due, Final
  <2>4. \A n : Room(n) => Room(n)'  BY <1>1, <2>1, <2>3 DEF Room
  <2> QED  BY <1>1, <1>2, <2>1, <2>4, LatestSame, ReadersSame
<1>5. CASE Look \/ RequeueClear
  <2>1. /\ mc' = mc /\ dring' = dring /\ daemon_pc \in {"scan", "clear"}
        /\ daemon_pc' \in {"scan", "kick"}
        /\ dmc' = dmc \/ dmc' = [dmc EXCEPT ![R] = (@ + 1) % MaxUplink]
        /\ RequeueClear => dmc' = [dmc EXCEPT ![R] = (@ + 1) % MaxUplink]
        /\ Look => daemon_pc = "scan"
    BY <1>5 DEF Look, RequeueClear, uvars
  <2>2. Due(R) \in Nat /\ Due(R) > 0
    <3>1. RequeueClear => Due(R) > 0  BY DEF RequeueClear, Places, DaemonPlace
    <3>2. Look => Due(R) # 0  BY <1>0, <2>1, WritersRest DEF Look
    <3> QED  BY <1>5, <3>1, <3>2, FollowTypes
  <2>3. R' = R  BY <2>1 DEF R
  <2>4. dmc' = dmc => Due(R)' = Due(R)  BY <2>1, <2>3 DEF Due, Final
  <2>5. dmc' = [dmc EXCEPT ![R] = (@ + 1) % MaxUplink] => Due(R)' = Due(R) - 1
    BY <1>0, <2>1, <2>2, <2>3, Advance
  <2>6. ASSUME NEW n \in 0 .. Len(log), Room(n)  PROVE Room(n)'
    <3> DEFINE s == dring * MaxBurst
               d == Due(R)
    <3>1. Len(log) + d <= n + s + IF daemon_pc = "clear" THEN 1 ELSE 0  BY <2>6 DEF Room
    <3>2. dring \in Nat /\ MaxBurst \in Nat
      <4>1. dring \in 1 .. Len(RingSeq) /\ Len(RingSeq) \in Nat  BY <1>0, RingsAre DEF RingTypeOK
      <4> QED  BY <4>1, FollowTypes
    <3>3. s \in Nat  BY <3>2, SharesAre
    <3> HIDE DEF s, d
    <3>4. Len(log) \in Nat /\ d \in Nat  BY <2>2, FollowTypes DEF d
    <3>5. CASE RequeueClear
      <4>1. daemon_pc' # "clear" /\ Due(R)' = d - 1  BY <2>1, <2>5, <3>5 DEF d
      <4>2. Len(log) + (d - 1) <= n + s + 0  BY <3>1, <3>3, <3>4
      <4> QED  BY <1>1, <2>1, <4>1, <4>2 DEF Room, s
    <3>6. CASE Look
      <4>1. daemon_pc' # "clear" /\ daemon_pc # "clear" /\ Due(R)' \in {d, d - 1}
        BY <2>1, <2>4, <2>5, <3>6 DEF d
      <4>2. Len(log) + Due(R)' <= n + s + 0  BY <3>1, <3>3, <3>4, <4>1
      <4> QED  BY <1>1, <2>1, <4>1, <4>2 DEF Room, s
    <3> QED  BY <1>5, <3>5, <3>6
  <2> QED  BY <1>1, <1>2, <2>1, <2>6, LatestSame, ReadersSame
<1> QED  BY <1>3, <1>4, <1>5

\* The daemon's place as a number, and what the rings so far may have held.
LEMMA DaemonShare ==
  ASSUME RingIInv
  PROVE  /\ dring \in Nat \ {0} /\ dring <= Len(RingSeq) /\ Len(RingSeq) \in Nat
         /\ dring * MaxBurst \in Nat /\ (dring + 1) * MaxBurst = dring * MaxBurst + MaxBurst
         /\ dring * MaxBurst <= Len(RingSeq) * MaxBurst /\ Len(RingSeq) * MaxBurst \in Nat
<1>1. dring \in 1 .. Len(RingSeq) /\ Len(RingSeq) \in Nat /\ MaxBurst \in Nat
  BY RingsAre, FollowTypes DEF RingIInv, RingTypeOK
<1>2. dring \in Nat \ {0} /\ dring <= Len(RingSeq)  BY ONLY <1>1
<1> QED  BY <1>1, <1>2, SharesAre

\* When the daemon starts, every reader has read everything.
LEMMA FollowTick ==
  ASSUME TakingTurns, RingIInv, FewDue, Latest, Readers, Tick
  PROVE  Latest' /\ Readers'
<1>1. /\ UNCHANGED <<log, messages, mc_current, rvars>>
      /\ daemon_pc = "idle" /\ daemon_pc' = "scan" /\ dring' = 1
      /\ \A x \in Reader : rpc[x] = "idle"
      /\ UNCHANGED <<mc, dmc>>
  BY DEF Tick, TakingTurns, mvars, uvars
<1>2. \A i : Turned(i)' = Turned(i)  BY <1>1 DEF Turned, rvars
<1>3. Latest'  BY <1>1, <1>2, LatestSame
<1>4. R' \in Ring /\ MaxBurst \in Nat /\ Len(log) \in Nat
  <2>1. 1 \in 1 .. Len(RingSeq) /\ R' = RingSeq[1]
    <3>1. R' = RingSeq[1]  BY <1>1 DEF R
    <3>2. Len(RingSeq) \in Nat \ {0}  BY RingsAre
    <3> QED  BY <3>1, <3>2
  <2>2. R' \in Ring  BY <2>1 DEF Ring
  <2> QED  BY <2>2, FollowTypes
<1>5. Due(R)' \in Nat /\ Due(R)' <= MaxBurst
  <2>1. Due(R)' = Due(R')  BY <1>1 DEF Due, Final
  <2> QED  BY <1>4, <2>1, FollowTypes DEF FewDue
<1>6. ASSUME NEW x \in Reader  PROVE (\E n \in 0 .. Len(log) : HasRead(x, n))'
  <2>1. PICK n \in 0 .. Len(log) : HasRead(x, n)  BY DEF Readers
  <2>2. n = Len(log)  BY <1>1, <2>1 DEF HasRead
  <2>3. Room(n)'
    <3>1. dring' * MaxBurst = MaxBurst /\ daemon_pc' # "clear" /\ Len(log') = Len(log)
      BY <1>1, <1>4, SharesAre
    <3>2. Len(log) + Due(R)' <= n + MaxBurst + 0  BY <1>4, <1>5, <2>2
    <3> QED  BY <3>1, <3>2 DEF Room
  <2>4. HasRead(x, n)'  BY <1>1, <2>1, <2>3 DEF HasRead, rvars
  <2> QED  BY <1>1, <2>4
<1> QED  BY <1>3, <1>6 DEF Readers

\* At the end of a ring the next one has its share; after the last the readers start.
LEMMA FollowScanEnd ==
  ASSUME RingIInv, Places, FewDue, Latest, Readers, ScanEnd
  PROVE  Latest' /\ Readers'
<1>1. /\ UNCHANGED <<log, messages, mc_current, dmc, mc, msgCurrent, reset, got>>
      /\ daemon_pc = "scan" /\ dmc[R] = (mc[R] + 1) % MaxUplink
  BY DEF ScanEnd, uvars, mvars
<1>2. CASE dring < Len(RingSeq) /\ dring' = dring + 1 /\ UNCHANGED <<daemon_pc, rpc>>
  <2>1. \A i : Turned(i)' = Turned(i)  BY <1>1, <1>2 DEF Turned
  <2>2. Latest'  BY <1>1, <1>2, <2>1, LatestSame
  <2>3. Due(R) = 0  BY <1>1, WritersRest DEF RingIInv
  <2>4. Due(R)' \in Nat /\ Due(R)' <= MaxBurst
    <3>1. R' \in Ring
      <4>1. dring + 1 \in 1 .. Len(RingSeq)  BY <1>2, DaemonShare
      <4>2. R' = RingSeq[dring + 1]  BY <1>2 DEF R
      <4> QED  BY <4>1, <4>2 DEF Ring
    <3>2. Due(R)' = Due(R')  BY <1>1 DEF Due, Final
    <3> QED  BY <3>1, <3>2, FollowTypes DEF FewDue
  <2>5. ASSUME NEW n \in 0 .. Len(log), Room(n)  PROVE Room(n)'
    <3> DEFINE s == dring * MaxBurst
    <3>1. Len(log) + 0 <= n + s + 0  BY <1>1, <2>3, <2>5 DEF Room
    <3>2. s \in Nat /\ dring' * MaxBurst = s + MaxBurst  BY <1>2, DaemonShare
    <3> HIDE DEF s
    <3>3. Len(log) \in Nat /\ MaxBurst \in Nat  BY FollowTypes
    <3>4. Len(log) + Due(R)' <= n + (s + MaxBurst) + 0  BY <2>4, <3>1, <3>2, <3>3
    <3>5. Len(log') = Len(log) /\ daemon_pc' # "clear"  BY <1>1, <1>2
    <3> QED  BY <3>2, <3>4, <3>5 DEF Room
  <2> QED  BY <1>1, <1>2, <2>2, <2>5, ReadersSame DEF rvars
<1>3. CASE /\ daemon_pc' = "idle"
           /\ rpc' = [x \in Reader |-> IF rpc[x] = "idle" THEN "read" ELSE rpc[x]]
  <2>1. \A x \in Reader : rpc[x] = "idle"  BY <1>1 DEF Readers, HasRead
  <2>2. \A x \in Reader : rpc'[x] = "read"  BY <1>3, <2>1
  <2>3. \A i : Turned(i)' = Turned(i)
    <3>1. Target \in Reader  BY FollowTypes
    <3> QED  BY <2>1, <2>2, <3>1 DEF Turned
  <2>4. Latest'  BY <1>1, <1>3, <2>3, LatestSame
  <2>5. ASSUME NEW x \in Reader, NEW n \in 0 .. Len(log), HasRead(x, n)  PROVE HasRead(x, n)'
    BY <1>1, <1>3, <2>2, <2>5 DEF HasRead
  <2>6. Len(log') = Len(log)  BY <1>1
  <2> QED  BY <2>4, <2>5, <2>6 DEF Readers
<1> QED  BY <1>2, <1>3 DEF ScanEnd

\* do_message_next_daemon()
LEMMA FollowKick ==
  ASSUME RingIInv, Latest, Readers, RequeueKick
  PROVE  Latest' /\ Readers'
<1>1. /\ UNCHANGED <<log, messages, dmc, mc, dring, rvars>>
      /\ mc_current' = (mc_current + 1) % MaxMessage
      /\ daemon_pc = "kick" /\ daemon_pc' = "copy"
  BY DEF RequeueKick, uvars
<1>2. \A i : Turned(i)' = Turned(i)  BY <1>1 DEF Turned, rvars
<1>3. Latest'
  <2>1. mc_current = Len(log) % MaxMessage  BY <1>1 DEF Latest
  <2>2. mc_current' = (Len(log) + 1) % MaxMessage  BY <1>1, <2>1, FollowTypes, NextResidue
  <2>3. \A i : Stands(i)' <=> Stands(i)  BY <1>1, <1>2 DEF Stands
  <2> QED  BY <1>1, <2>2, <2>3 DEF Latest
<1>4. \A n : Room(n) => Room(n)'
  <2>1. R' = R  BY <1>1 DEF R
  <2>2. Due(R)' = Due(R)  BY <1>1, <2>1 DEF Due, Final
  <2> QED  BY <1>1, <2>2 DEF Room
<1> QED  BY <1>1, <1>3, <1>4, ReadersSame

\* What is copied is a message, of its sender's group.
LEMMA CopiedIs ==
  ASSUME RingIInv, Signatures, RequeueCopy
  PROVE  LET e == uplink[R][dmc[R]] IN
         /\ e.msg \in Msg /\ e = [msg |-> e.msg, flags |-> {"valid"} \cup Group(e.msg[1])]
         /\ log' = Append(log, e.msg)
<1> DEFINE e == uplink[R][dmc[R]]
<1>1. e \in Entry
  <2>1. uplink \in [Ring -> [Index -> Entry]] /\ R \in Ring /\ dmc[R] \in Index
    BY FollowTypes, ContentTypes
  <2> QED  BY ONLY <2>1
<1>2. "valid" \in e.flags /\ e.flags \ {"valid"} = Group(e.msg[1])
  <2>1. R \in Ring /\ dmc[R] \in Index  BY FollowTypes, ContentTypes
  <2>2. "valid" \in e.flags /\ Signed(e)  BY <2>1 DEF Signatures, RequeueCopy
  <2> QED  BY <2>2 DEF Signed
<1>3. e.msg \in Msg
  BY DEF RequeueCopy, RingIInv, RingEntries, CurrentHolds
<1>4. log' = IF Deliverable(e) THEN Append(log, e.msg) ELSE log  BY DEF RequeueCopy
<1> HIDE DEF e
<1>5. e.flags = {"valid"} \cup Group(e.msg[1])  BY <1>2
<1>6. Deliverable(e)  BY <1>2 DEF Deliverable, Group
<1>7. e = [msg |-> e.msg, flags |-> e.flags]  BY <1>1 DEF Entry
<1> QED  BY <1>3, <1>4, <1>5, <1>6, <1>7 DEF e

\* The copy takes the place of the oldest message, which every reader has read.
LEMMA FollowCopy ==
  ASSUME NotOvertaken, RingIInv, Places, Signatures, Latest, Readers, RequeueCopy
  PROVE  Latest' /\ Readers'
<1> DEFINE m == uplink[R][dmc[R]].msg
           L == Len(log)
           M == MaxMessage
           e == [msg |-> m, flags |-> {"valid"} \cup Group(m[1])]
<1>1. /\ UNCHANGED <<dmc, mc, dring, mc_current, rvars>>
      /\ daemon_pc = "copy" /\ daemon_pc' = "clear"
      /\ messages' = [messages EXCEPT ![mc_current] = e]
      /\ m \in Msg /\ log' = Append(log, m)
  BY CopiedIs DEF RequeueCopy, uvars
<1>2. L \in Nat /\ M \in Nat \ {0, 1} /\ mc_current = (L + 1) % M
      /\ messages \in [0 .. M - 1 -> Entry] /\ (L + 1) % M \in 0 .. M - 1
  <2>1. L \in Nat /\ M \in Nat \ {0, 1} /\ messages \in [0 .. M - 1 -> Entry]  BY FollowTypes
  <2>2. (L + 1) % M \in 0 .. M - 1
    <3>1. L + 1 \in Nat /\ M \in Nat \ {0}  BY <2>1
    <3> QED  BY ONLY <3>1, RingIndex
  <2> QED  BY <1>1, <2>1, <2>2 DEF Latest
<1> HIDE DEF m, M
<1>3. /\ Len(log') = L + 1 /\ log'[L + 1] = m
      /\ \A i \in 1 .. L : log'[i] = log[i]
  BY <1>1, FollowTypes
<1>4. \A x \in Reader : rpc[x] = "idle" /\ rpc'[x] = "idle"
  BY <1>1 DEF Readers, HasRead, rvars
<1>5. \A i : ~Turned(i) /\ ~Turned(i)'  BY <1>4, FollowTypes DEF Turned
<1>6. Latest'
  <2>1. ASSUME NEW i \in 1 .. L + 1, L + 1 < i + M  PROVE Stands(i)'
    <3>1. CASE i = L + 1
      <4>1. messages'[(L + 1) % M] = e  BY ONLY <1>1, <1>2
      <4> QED  BY <1>3, <1>5, <3>1, <4>1 DEF Stands, M
    <3>2. CASE i # L + 1
      <4>1. i \in 1 .. L /\ L < i + M /\ i < (L + 1) + M /\ i \in Nat  BY <1>2, <2>1, <3>2
      <4>2. i % M # (L + 1) % M
        <5> DEFINE k == L + 1
        <5>1. k \in Nat /\ k < i + M /\ i < k + M /\ i # k /\ M \in Nat \ {0}
          BY <1>2, <2>1, <3>2, <4>1
        <5> HIDE DEF k
        <5>2. i % M # k % M  BY ONLY <4>1, <5>1, SameResidue
        <5> QED  BY <5>2 DEF k
      <4>3. i % M \in 0 .. M - 1  BY <1>2, <4>1, RingIndex
      <4>4. messages'[i % M] = messages[i % M]  BY ONLY <1>1, <1>2, <4>2, <4>3
      <4>5. Stands(i)  BY <4>1 DEF Latest, M
      <4> QED  BY <1>3, <1>5, <4>1, <4>4, <4>5 DEF Stands, M
    <3> QED  BY <3>1, <3>2
  <2> QED  BY <1>1, <1>2, <1>3, <2>1 DEF Latest, M
<1>7. Due(R) \in Nat /\ Due(R) > 0 /\ Due(R)' = Due(R)
  <2>1. R' = R  BY <1>1 DEF R
  <2>2. Due(R)' = Due(R)  BY <1>1, <2>1 DEF Due, Final
  <2> QED  BY <1>1, <2>2, FollowTypes DEF Places, DaemonPlace
<1>8. ASSUME NEW x \in Reader  PROVE (\E n \in 0 .. Len(log) : HasRead(x, n))'
  <2>1. PICK n \in 0 .. L : HasRead(x, n)  BY DEF Readers
  <2> DEFINE s == dring * MaxBurst
  <2>2. L + Due(R) <= n + s + 0  BY <1>1, <2>1 DEF HasRead, Room
  <2>3. s \in Nat /\ s < M  BY DaemonShare, <1>2 DEF NotOvertaken, M
  <2> HIDE DEF s
  <2>4. L + 1 < n + M  BY <1>2, <1>7, <2>2, <2>3
  <2>5. Room(n)'
    <3>1. (L + 1) + Due(R)' <= n + s + 1  BY <1>2, <1>7, <2>2, <2>3
    <3> QED  BY <1>1, <1>3, <3>1 DEF Room, s
  <2>6. Given(log', x)[n] = Given(log, x)[n]
    <3>1. n \in 0 .. Len(log)  OBVIOUS
    <3> QED  BY <1>1, <3>1, FollowTypes, GivenStays
  <2>7. HasRead(x, n)'
    BY <1>1, <1>3, <1>4, <2>1, <2>4, <2>5, <2>6 DEF HasRead, rvars, M
  <2>8. n \in 0 .. Len(log')  BY <1>2, <1>3
  <2> QED  BY <2>7, <2>8
<1> QED  BY <1>6, <1>8 DEF Readers

\* Who has not been at a message yet reads it, and turns it if it ejects him.
LEMMA FollowRead ==
  ASSUME TakingTurns, RingIInv, Latest, Readers, NEW x \in Reader, Read(x)
  PROVE  Latest' /\ Readers'
<1> DEFINE L == Len(log)
           M == MaxMessage
           c == msgCurrent[x]
           e == messages[c]
<1>1. /\ rpc[x] = "read" /\ c # (mc_current + 1) % M /\ \A y \in Reader : rpc[y] # "reset"
      /\ UNCHANGED <<log, mc_current, daemon_pc>>
      /\ msgCurrent' = [msgCurrent EXCEPT ![x] = (c + 1) % M]
      /\ \/ /\ ForMe(x, e) /\ "indiv" \in e.flags
            /\ messages' = [messages EXCEPT ![c] = Flagged(e, {"valid", "all"})]
            /\ reset' = [reset EXCEPT ![x] = c] /\ rpc' = [rpc EXCEPT ![x] = "reset"]
         \/ ~(ForMe(x, e) /\ "indiv" \in e.flags) /\ UNCHANGED <<messages, reset, rpc>>
      /\ got' = IF ForMe(x, e) THEN [got EXCEPT ![x] = Append(@, e.msg)] ELSE got
  BY DEF Read, TakingTurns, daemonVars, Flagged
<1>2. PICK n \in 0 .. L : HasRead(x, n)  BY DEF Readers
<1>3. /\ daemon_pc = "idle" /\ daemon_pc' = "idle" /\ c = (n + 1) % M /\ L < n + M
      /\ got[x] = Given(log, x)[n]
  BY <1>1, <1>2 DEF HasRead
<1>4. /\ L \in Nat /\ M \in Nat \ {0, 1} /\ n \in Nat /\ n + 1 \in Nat
      /\ messages \in [0 .. M - 1 -> Entry]
      /\ rpc \in [Reader -> {"idle", "read", "reset"}]
      /\ msgCurrent \in [Reader -> 0 .. M - 1] /\ reset \in [Reader -> 0 .. M - 1]
      /\ got \in [Reader -> Seq(Msg)] /\ Target \in Reader /\ c \in 0 .. M - 1
  BY FollowTypes
<1>5. n # L /\ n + 1 \in 1 .. L
  <2>1. mc_current = L % M  BY <1>3 DEF Latest
  <2>2. ((L % M) + 1) % M = (L + 1) % M  BY <1>4, NextResidue
  <2>3. n # L  BY <1>1, <1>3, <2>1, <2>2
  <2> QED  BY <1>4, <2>3
<1> DEFINE m == log[n + 1]
<1>6. \A i : ~Turned(i)  BY <1>1, <1>4 DEF Turned
<1>7. e = [msg |-> m, flags |-> {"valid"} \cup Group(m[1])]
  <2>1. L < (n + 1) + M  BY <1>3, <1>4
  <2>2. Stands(n + 1)  BY <1>5, <2>1 DEF Latest
  <2> QED  BY <1>3, <1>6, <2>2 DEF Stands
<1>8. /\ ForMe(x, e) <=> IsFor(m, x)
      /\ "indiv" \in e.flags <=> m[1] \in Ejected /\ e.msg = m
      /\ e.msg = m
  <2> HIDE DEF e, m
  <2> QED  BY <1>7 DEF ForMe, IsFor, Group
<1>9. got'[x] = Given(log, x)[n + 1] /\ \A y \in Reader \ {x} : got'[y] = got[y]
  <2>1. Given(log, x)[n + 1] = IF IsFor(m, x) THEN Append(got[x], m) ELSE got[x]
    BY <1>3, <1>5, FollowTypes, GivenNext
  <2>2. got' = IF IsFor(m, x) THEN [got EXCEPT ![x] = Append(@, m)] ELSE got
    BY <1>1, <1>8
  <2> HIDE DEF m
  <2> QED  BY <1>4, <2>1, <2>2
<1>10. msgCurrent'[x] = (n + 1 + 1) % M /\ \A y \in Reader \ {x} : msgCurrent'[y] = msgCurrent[y]
  <2>1. (c + 1) % M = (n + 1 + 1) % M  BY <1>3, <1>4, NextResidue
  <2> HIDE DEF M, c
  <2> QED  BY <1>1, <1>4, <2>1 DEF M
<1>11. /\ rpc'[x] \in {"read", "reset"}
       /\ rpc'[x] = "reset" => x = Target /\ m[1] \in Ejected /\ reset'[x] = (n + 1) % M
       /\ \A y \in Reader \ {x} : rpc'[y] = rpc[y] /\ reset'[y] = reset[y]
  <2>1. CASE UNCHANGED <<messages, reset, rpc>>  BY <1>1, <2>1
  <2>2. CASE /\ ForMe(x, e) /\ "indiv" \in e.flags
             /\ reset' = [reset EXCEPT ![x] = c] /\ rpc' = [rpc EXCEPT ![x] = "reset"]
    <3>1. m[1] \in Ejected /\ x = Target  BY <1>8, <2>2 DEF IsFor
    <3> HIDE DEF m, c, e
    <3> QED  BY <1>3, <1>4, <2>2, <3>1
  <2> QED  BY <1>1, <2>1, <2>2
<1>12. Latest'
  <2>1. CASE UNCHANGED <<messages, reset, rpc>>
    <3>1. \A i : Turned(i)' = Turned(i)  BY <2>1 DEF Turned
    <3> QED  BY <1>1, <1>3, <2>1, <3>1, LatestSame
  <2>2. CASE /\ ForMe(x, e) /\ "indiv" \in e.flags
             /\ messages' = [messages EXCEPT ![c] = Flagged(e, {"valid", "all"})]
             /\ reset' = [reset EXCEPT ![x] = c] /\ rpc' = [rpc EXCEPT ![x] = "reset"]
    <3>1. x = Target /\ rpc'[Target] = "reset" /\ reset'[Target] = c
      <4>1. x = Target  BY <1>8, <2>2 DEF IsFor
      <4> HIDE DEF c, e
      <4> QED  BY <1>4, <2>2, <4>1
    <3>2. ASSUME NEW i \in 1 .. L, L < i + M  PROVE Stands(i)'
      <4>1. CASE i = n + 1
        <5>1. Turned(i)'  BY <1>3, <3>1, <4>1 DEF Turned
        <5>2. messages'[c] = Flagged(e, {"valid", "all"})
          <6> HIDE DEF e, c
          <6> QED  BY <1>4, <2>2
        <5>3. Flagged(e, {"valid", "all"}) = [msg |-> m, flags |-> {"valid"} \cup {"all"}]
          <6> DEFINE f == {"valid"} \cup Group(m[1])
          <6>1. e = [msg |-> m, flags |-> f]  BY <1>7
          <6>2. {"valid"} \cup {"all"} = {"valid", "all"}  OBVIOUS
          <6> HIDE DEF e, m, f
          <6>3. Flagged(e, {"valid", "all"}) = [msg |-> m, flags |-> {"valid", "all"}]
            BY ONLY <6>1 DEF Flagged
          <6> QED  BY <6>2, <6>3
        <5> QED  BY <1>1, <1>3, <4>1, <5>1, <5>2, <5>3 DEF Stands
      <4>2. CASE i # n + 1
        <5> DEFINE k == n + 1
        <5>1. /\ i \in Nat /\ k \in Nat /\ i < k + M /\ k < i + M /\ i # k
              /\ M \in Nat \ {0}
          BY <1>2, <1>3, <1>4, <1>5, <3>2, <4>2
        <5> HIDE DEF k
        <5>2. i % M # k % M  BY ONLY <5>1, SameResidue
        <5>3. i % M # c  BY <1>3, <5>2 DEF k
        <5>4. i % M \in 0 .. M - 1  BY <1>4, <5>1, RingIndex
        <5>5. ~Turned(i)'  BY <3>1, <5>3 DEF Turned
        <5>6. messages'[i % M] = messages[i % M]
          <6> HIDE DEF e, c
          <6> QED  BY <1>4, <2>2, <5>3, <5>4
        <5>7. Stands(i)  BY <3>2 DEF Latest
        <5> QED  BY <1>1, <1>6, <5>5, <5>6, <5>7 DEF Stands
      <4> QED  BY <4>1, <4>2
    <3> QED  BY <1>1, <3>2 DEF Latest
  <2> QED  BY <1>1, <2>1, <2>2
<1>13. ASSUME NEW y \in Reader  PROVE (\E k \in 0 .. Len(log) : HasRead(y, k))'
  <2>1. CASE y = x
    <3>1. L < (n + 1) + M /\ L + 1 < (n + 1) + M /\ n + 1 >= 1 /\ n + 1 \in 0 .. L
      BY <1>3, <1>4, <1>5
    <3>2. HasRead(x, n + 1)'
      BY <1>1, <1>3, <1>9, <1>10, <1>11, <3>1 DEF HasRead
    <3> QED  BY <1>1, <2>1, <3>1, <3>2
  <2>2. CASE y # x
    <3>1. PICK k \in 0 .. L : HasRead(y, k)  BY DEF Readers
    <3>2. HasRead(y, k)'
      BY <1>1, <1>3, <1>9, <1>10, <1>11, <2>2, <3>1 DEF HasRead
    <3> QED  BY <1>1, <3>1, <3>2
  <2> QED  BY <2>1, <2>2
<1> QED  BY <1>12, <1>13 DEF Readers

\* An entry that was turned is turned back before anybody else comes to it.
LEMMA FollowReset ==
  ASSUME RingIInv, Latest, Readers, NEW x \in Reader, Reset(x)
  PROVE  Latest' /\ Readers'
<1> DEFINE L == Len(log)
           M == MaxMessage
<1>1. PICK n \in 0 .. L : HasRead(x, n)  BY DEF Readers
<1>2. /\ rpc[x] = "reset" /\ rpc' = [rpc EXCEPT ![x] = "read"]
      /\ UNCHANGED <<log, mc_current, daemon_pc, msgCurrent, reset, got>>
      /\ messages' = [messages EXCEPT ![reset[x]].flags = (@ \ {"all"}) \cup {"indiv"}]
  BY DEF Reset, daemonVars
<1>3. /\ daemon_pc = "idle" /\ x = Target /\ n >= 1 /\ reset[x] = n % M
      /\ log[n][1] \in Ejected /\ L + 1 < n + M
  BY <1>1, <1>2 DEF HasRead
<1>4. /\ L \in Nat /\ M \in Nat \ {0, 1} /\ n \in Nat /\ n \in 1 .. L
      /\ messages \in [0 .. M - 1 -> Entry]
      /\ rpc \in [Reader -> {"idle", "read", "reset"}] /\ n % M \in 0 .. M - 1
  <2>0. /\ L \in Nat /\ M \in Nat \ {0, 1} /\ messages \in [0 .. M - 1 -> Entry]
        /\ rpc \in [Reader -> {"idle", "read", "reset"}]
    BY FollowTypes
  <2>1. n \in Nat /\ n \in 1 .. L  BY ONLY <1>3, <2>0, n \in 0 .. L
  <2>2. n % M \in 0 .. M - 1  BY <2>0, <2>1, RingIndex
  <2> QED  BY <2>0, <2>1, <2>2
<1>5. rpc'[x] = "read" /\ \A y \in Reader \ {x} : rpc'[y] = rpc[y]  BY <1>2, <1>4
<1>6. \A i : ~Turned(i)'  BY <1>3, <1>5 DEF Turned
<1>7. ASSUME NEW i \in 1 .. L, L < i + M  PROVE Stands(i)'
  <2>1. Stands(i)  BY <1>7 DEF Latest
  <2>2. CASE i = n
    <3> DEFINE e == messages[n % M]
    <3>1. e = [msg |-> log[n], flags |-> {"valid"} \cup {"all"}]
      <4>1. Turned(n)  BY <1>2, <1>3 DEF Turned
      <4> QED  BY <2>1, <2>2, <4>1 DEF Stands
    <3>2. messages'[n % M] = [e EXCEPT !.flags = (e.flags \ {"all"}) \cup {"indiv"}]
      <4> DEFINE k == n % M
      <4>1. messages' = [messages EXCEPT ![k].flags = (@ \ {"all"}) \cup {"indiv"}]
        BY <1>2, <1>3
      <4>2. k \in 0 .. M - 1  BY <1>4
      <4> HIDE DEF k
      <4>3. messages'[k] =
              [messages[k] EXCEPT !.flags = (messages[k].flags \ {"all"}) \cup {"indiv"}]
        BY ONLY <1>4, <4>1, <4>2
      <4> QED  BY <4>3 DEF k
    <3> HIDE DEF e
    <3>3. messages'[n % M] = [msg |-> log[n], flags |-> {"valid"} \cup Group(log[n][1])]
      <4>1. e.flags = {"valid", "all"} /\ e.msg = log[n]  BY <3>1
      <4>2. (e.flags \ {"all"}) \cup {"indiv"} = {"valid", "indiv"}  BY <4>1
      <4>3. Group(log[n][1]) = {"indiv"}  BY <1>3 DEF Group
      <4> QED  BY <3>1, <3>2, <4>2, <4>3
    <3> QED  BY <1>2, <1>6, <2>2, <3>3 DEF Stands
  <2>3. CASE i # n
    <3>1. /\ i \in Nat /\ n \in Nat /\ i < n + M /\ n < i + M /\ i # n /\ M \in Nat \ {0}
      BY <1>3, <1>4, <1>7, <2>3
    <3>2. i % M # n % M  BY ONLY <3>1, SameResidue
    <3>3. i % M \in 0 .. M - 1  BY <3>1, RingIndex
    <3>4. ~Turned(i)  BY <1>3, <3>2 DEF Turned
    <3>5. messages'[i % M] = messages[i % M]
      <4> DEFINE k == n % M
                 j == i % M
      <4>1. /\ messages' = [messages EXCEPT ![k].flags = (@ \ {"all"}) \cup {"indiv"}]
            /\ j # k /\ j \in 0 .. M - 1
        BY <1>2, <1>3, <3>2, <3>3
      <4> HIDE DEF k, j
      <4>2. messages'[j] = messages[j]  BY ONLY <1>4, <4>1
      <4> QED  BY <4>2 DEF j
    <3> QED  BY <1>2, <1>6, <2>1, <3>4, <3>5 DEF Stands
  <2> QED  BY <2>2, <2>3
<1>8. Latest'  BY <1>2, <1>7 DEF Latest
<1>9. ASSUME NEW y \in Reader, NEW k \in 0 .. L, HasRead(y, k)  PROVE HasRead(y, k)'
  <2>1. daemon_pc = "idle" /\ daemon_pc' = "idle"  BY <1>2, <1>3
  <2>2. rpc'[y] = rpc[y] \/ (y = x /\ rpc'[y] = "read" /\ rpc[y] = "reset")
    BY <1>2, <1>5
  <2> QED  BY <1>2, <1>9, <2>1, <2>2 DEF HasRead
<1> QED  BY <1>2, <1>8, <1>9 DEF Readers

\* Who comes to the end has read everything.
LEMMA FollowReadEnd ==
  ASSUME RingIInv, Latest, Readers, NEW x \in Reader, ReadEnd(x)
  PROVE  Latest' /\ Readers'
<1> DEFINE L == Len(log)
           M == MaxMessage
<1>1. /\ rpc[x] = "read" /\ rpc' = [rpc EXCEPT ![x] = "idle"]
      /\ msgCurrent[x] = (mc_current + 1) % M
      /\ UNCHANGED <<log, messages, mc_current, daemon_pc, msgCurrent, reset, got>>
  BY DEF ReadEnd, mvars, daemonVars
<1>2. L \in Nat /\ M \in Nat \ {0, 1} /\ Target \in Reader
      /\ rpc \in [Reader -> {"idle", "read", "reset"}]
  BY FollowTypes
<1>3. rpc'[x] = "idle" /\ \A y \in Reader \ {x} : rpc'[y] = rpc[y]  BY <1>1, <1>2
<1>4. \A i : Turned(i)' = Turned(i)  BY <1>1, <1>2, <1>3 DEF Turned
<1>5. Latest'  BY <1>1, <1>4, LatestSame
<1>6. daemon_pc = "idle"
  <2>1. PICK n \in 0 .. L : HasRead(x, n)  BY DEF Readers
  <2> QED  BY <1>1, <2>1 DEF HasRead
<1>7. ASSUME NEW n \in 0 .. L, HasRead(x, n)  PROVE n = L
  <2>1. mc_current = L % M /\ ((L % M) + 1) % M = (L + 1) % M
    BY <1>2, <1>6, NextResidue DEF Latest
  <2> DEFINE a == n + 1
             b == L + 1
  <2>2. a % M = b % M  BY <1>1, <1>7, <2>1 DEF HasRead
  <2>3. L < n + M  BY <1>7 DEF HasRead
  <2>4. a \in Nat /\ b \in Nat /\ a < b + M /\ b < a + M /\ M \in Nat \ {0}
    BY <1>2, <2>3
  <2> HIDE DEF a, b
  <2>5. a = b  BY ONLY <2>2, <2>4, SameResidue
  <2> QED  BY <1>2, <2>5 DEF a, b
<1>8. ASSUME NEW y \in Reader, NEW n \in 0 .. L, HasRead(y, n)  PROVE HasRead(y, n)'
  <2>1. rpc'[y] = rpc[y] \/ (y = x /\ rpc'[y] = "idle" /\ n = L)
    BY <1>3, <1>7, <1>8
  <2> QED  BY <1>1, <1>6, <1>8, <2>1 DEF HasRead
<1> QED  BY <1>1, <1>5, <1>8 DEF Readers

\* A step of anybody keeps what the readers and messages[] hold.
LEMMA FollowStep ==
  ASSUME TakingTurns, NotOvertaken, OrderIInv, Signatures, FewDue, Latest, Readers,
         [RingNext]_ringVars
  PROVE  Latest' /\ Readers'
<1>0. RingIInv /\ Places  BY DEF OrderIInv
<1>1. ASSUME NEW w \in Writer, Send(w) \/ Writing(w)  PROVE Latest' /\ Readers'
  BY <1>0, <1>1, FollowQuiet
<1>2. Look \/ RequeueClear \/ UNCHANGED ringVars => Latest' /\ Readers'
  BY <1>0, FollowQuiet
<1>3. Tick => Latest' /\ Readers'  BY <1>0, FollowTick
<1>4. ScanEnd => Latest' /\ Readers'  BY <1>0, FollowScanEnd
<1>5. RequeueKick => Latest' /\ Readers'  BY <1>0, FollowKick
<1>6. RequeueCopy => Latest' /\ Readers'  BY <1>0, FollowCopy
<1>7. ASSUME NEW x \in Reader, Reading(x)  PROVE Latest' /\ Readers'
  BY <1>0, <1>7, FollowRead, FollowReset, FollowReadEnd DEF Reading
<1> QED  BY <1>1, <1>2, <1>3, <1>4, <1>5, <1>6, <1>7 DEF RingNext, Requeue

\* Nobody has sent, requeued or read anything.
LEMMA FollowFirst ==
  ASSUME RingInit, RingIInv  PROVE Signatures /\ FewDue /\ Latest /\ Readers
<1>1. \A r \in Ring : Due(r) = 0  BY EmptyRings DEF RingIInv
<1>2. FewDue  BY <1>1, FollowTypes DEF FewDue
<1>3. Signatures
  <2>1. \A r \in Ring : \A k \in Index : uplink[r][k].flags = {}
    BY DEF RingInit, Blank, Index
  <2> QED  BY <2>1 DEF Signatures, Signed, RingInit
<1>4. log = <<>> /\ Len(log) = 0 /\ MaxMessage \in Nat \ {0, 1}
  BY FollowTypes DEF RingInit
<1>5. 0 % MaxMessage = 0 /\ (0 + 1) % MaxMessage = 1  BY ONLY <1>4
<1>6. Latest  BY <1>4, <1>5 DEF Latest, RingInit
<1>7. ASSUME NEW x \in Reader  PROVE HasRead(x, 0)
  <2>1. 0 \in 0 .. Len(log)  BY <1>4
  <2>2. Given(log, x)[0] = <<>>  BY <2>1, FollowTypes, GivenIs
  <2>3. Len(log) < 0 + MaxMessage  BY <1>4
  <2> QED  BY <1>4, <1>5, <2>2, <2>3 DEF HasRead, RingInit
<1>8. 0 \in 0 .. Len(log)  BY <1>4
<1> QED  BY <1>2, <1>3, <1>6, <1>7, <1>8 DEF Readers

\* The inductive invariant of the readers.
FollowIInv == OrderIInv /\ Signatures /\ FewDue /\ Latest /\ Readers

\* While calls are not cut short by one another, each player has his own ring, and all
\* together write fewer messages between two visits of the daemon than messages[] has
\* entries (MAXMESSAGE), what updateMessages() has given to a process are the messages
\* for its player up to some point of the log, all of them, once, in order, and no
\* others, though one that ejects somebody is turned into one to all for a moment.
THEOREM FollowHolds == ASSUME TakingTurns, NotOvertaken PROVE RingSpec => []ReadersFollow
<1>1. RingInit => FollowIInv
  BY RingFirst, OrderFirst, FollowFirst DEF FollowIInv, OrderIInv, RingIInv
<1>2. FollowIInv /\ [RingNext]_ringVars => FollowIInv'
  <2> SUFFICES ASSUME FollowIInv, [RingNext]_ringVars  PROVE FollowIInv'
    OBVIOUS
  <2>1. RingIInv /\ RingTypeOK /\ Places /\ Contents
    BY DEF FollowIInv, OrderIInv, RingIInv
  <2>2. OrderIInv'  BY <2>1, RingStep, PlacesStep, ContentsStep DEF OrderIInv
  <2>3. Signatures'  BY <2>1, SignaturesStep DEF FollowIInv
  <2>4. FewDue'  BY <2>1, FewDueStep DEF FollowIInv
  <2>5. Latest' /\ Readers'  BY FollowStep DEF FollowIInv
  <2> QED  BY <2>2, <2>3, <2>4, <2>5 DEF FollowIInv
<1>3. FollowIInv => ReadersFollow  BY DEF FollowIInv, Readers, HasRead, ReadersFollow
<1> QED  BY <1>1, <1>2, <1>3, PTL DEF RingSpec
=============================================================================
