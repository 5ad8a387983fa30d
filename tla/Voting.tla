------------------------------- MODULE Voting -------------------------------
(***************************************************************************)
(* Votes to eject a player (do_vote() in gencmds.c, the handler in         *)
(* ntscmds.c).  Each voter's ntserv stores its own vote in shared memory,  *)
(* counts the votes of its team, and if there are enough takes them back   *)
(* and ejects; nothing is locked.  Meanwhile players leave their slots and *)
(* others take them, whose enter() clears the votes against the slot.      *)
(*                                                                         *)
(* Votes are about one slot, Accused.  A player needs seconds to log in,   *)
(* so nobody enters between the steps of a vote; anybody may leave.        *)
(***************************************************************************)
EXTENDS Integers, FiniteSets

CONSTANTS
  VSlot,      \* player slots
  Accused,    \* the slot voted about
  MinPass,    \* minpass
  Persons     \* players of the accused slot, one after the other

ASSUME VotingAssumption ==
  /\ IsFiniteSet(VSlot) /\ Accused \in VSlot
  /\ MinPass \in Nat /\ Persons \in Nat /\ Persons > 1

VTeam == {"ours", "theirs"}

VARIABLES
  v_status,   \* p_status
  v_team,     \* p_team
  ballot,     \* voting[]: 0, -1, or the age of the vote
  against,    \* history: whom the ballot was cast against
  person,     \* history: who is in the accused slot
  voter,      \* do_vote() in a process
  gone,       \* history: teams that somebody left or joined since they last counted
  unjust      \* history: somebody was ejected for another's votes

voteVars == <<v_status, v_team, ballot, against, person, voter, gone, unjust>>

\* Younger than the frequency and the expiry time, older than the first,
\* older than both.
Cast == {"fresh", "late"}
IdleVoter == [step |-> "none", of |-> {}, whom |-> 0]

VoteTypeOK ==
  /\ v_status \in [VSlot -> {"PFREE", "POUTFIT", "PALIVE", "PEXPLODE"}]
  /\ v_team \in [VSlot -> VTeam \cup {"NOBODY"}]
  /\ ballot \in [VSlot -> Cast \cup {"zero", "reset", "expired"}]
  /\ against \in [VSlot -> 0 .. Persons - 1] /\ person \in 0 .. Persons - 1
  /\ voter \in [VSlot -> [step : {"none", "count", "reset", "act"},
                          of : SUBSET VSlot, whom : 0 .. Persons - 1]]
  /\ gone \subseteq VTeam /\ unjust \in BOOLEAN

VoteInit ==
  /\ v_status = [s \in VSlot |-> "PALIVE"]
  /\ v_team = [s \in VSlot |-> "ours"]
  /\ ballot = [s \in VSlot |-> "zero"]
  /\ against = [s \in VSlot |-> 0] /\ person = 0
  /\ voter = [s \in VSlot |-> IdleVoter]
  /\ gone = {} /\ unjust = FALSE

NoVote == \A s \in VSlot : voter[s].step = "none"

-----------------------------------------------------------------------------
(* do_vote() *)

\* The vote is stored, unless the last one is too recent.  "Sorry, you can't
\* eject yourself" comes only now: that vote is in, and is not counted yet.
StoreVote(s) ==
  /\ v_status[s] = "PALIVE" /\ voter[s] = IdleVoter
  /\ v_status[Accused] # "PFREE" /\ ballot[s] # "fresh"
  /\ ballot' = [ballot EXCEPT ![s] = "fresh"]
  /\ against' = [against EXCEPT ![s] = person]
  /\ voter' = IF s = Accused THEN voter
              ELSE [voter EXCEPT ![s] = [@ EXCEPT !.step = "count"]]
  /\ UNCHANGED <<v_status, v_team, person, gone, unjust>>

Electors(s) == {u \in VSlot : v_status[u] # "PFREE" /\ v_team[u] = v_team[s]}
Ayes(s)     == {u \in Electors(s) : ballot[u] \in Cast}
\* "The Votes Passes".
Passes(s) ==
  /\ Cardinality(Ayes(s)) >= MinPass
  /\ Cardinality(Electors(s)) \div 2 + 1 <= Cardinality(Ayes(s))

CountVotes(s) ==
  /\ voter[s].step = "count"
  /\ voter' = [voter EXCEPT ![s] = IF Passes(s)
                  THEN [step |-> "reset", of |-> Ayes(s), whom |-> person]
                  ELSE IdleVoter]
  /\ gone' = gone \ {v_team[s]}
  /\ UNCHANGED <<v_status, v_team, ballot, against, person, unjust>>

\* Mutant: votes that have done their work are kept.
ResetVotesNot(s) ==
  /\ voter[s].step = "reset"
  /\ voter' = [voter EXCEPT ![s] = [@ EXCEPT !.step = "act"]]
  /\ UNCHANGED <<v_status, v_team, ballot, against, person, gone, unjust>>

\* "Reset the Votes for this item since it passed".
ResetVotes(s) ==
  /\ voter[s].step = "reset"
  /\ ballot' = [u \in VSlot |-> "reset"]
  /\ voter' = [voter EXCEPT ![s] = [@ EXCEPT !.step = "act"]]
  /\ UNCHANGED <<v_status, v_team, against, person, gone, unjust>>

\* do_player_eject() and eject_player(), of a player of the voter's team.
Ejects(s) == v_status[Accused] # "PFREE" /\ v_team[Accused] = v_team[s]
EjectPlayer(s) ==
  /\ voter[s].step = "act"
  /\ \/ /\ Ejects(s)
        /\ v_status' = [v_status EXCEPT ![Accused] = "PEXPLODE"]
        /\ unjust' = (unjust \/ person # voter[s].whom
                             \/ \E u \in voter[s].of : against[u] # person)
     \/ ~Ejects(s) /\ UNCHANGED <<v_status, unjust>>
  /\ voter' = [voter EXCEPT ![s] = IdleVoter]
  /\ UNCHANGED <<v_team, ballot, against, person, gone>>

\* Time passes: 120 seconds to the next vote, 300 until one expires.
Ages(s) ==
  /\ ballot[s] \in Cast
  /\ ballot' = [ballot EXCEPT ![s] = IF @ = "fresh" THEN "late" ELSE "expired"]
  /\ UNCHANGED <<v_status, v_team, against, person, voter, gone, unjust>>

-----------------------------------------------------------------------------
(* Players come and go *)

\* freeslot(): the slot's own votes are cleared.
VoterLeaves(s) ==
  /\ v_status[s] # "PFREE" /\ voter[s] = IdleVoter
  /\ v_status' = [v_status EXCEPT ![s] = "PFREE"]
  /\ ballot' = [ballot EXCEPT ![s] = "zero"]
  /\ gone' = gone \cup ({v_team[s]} \cap VTeam)
  /\ UNCHANGED <<v_team, against, person, voter, unjust>>

\* An ejected player who is not disconnected, or one who was killed.
Explodes(s) ==
  /\ v_status[s] \in {"PALIVE", "PEXPLODE"} /\ voter[s] = IdleVoter
  /\ v_status' = [v_status EXCEPT ![s] = "POUTFIT"]
  /\ UNCHANGED <<v_team, ballot, against, person, voter, gone, unjust>>

\* Mutant: the newcomer gets the team of the slot's last occupant.
LogsInTeam(s) ==
  /\ NoVote /\ v_status[s] = "PFREE"
  /\ v_status' = [v_status EXCEPT ![s] = "POUTFIT"]
  /\ ballot' = [ballot EXCEPT ![s] = "zero"]
  /\ person' = IF s = Accused THEN (person + 1) % Persons ELSE person
  /\ UNCHANGED <<v_team, against, voter, gone, unjust>>

\* pickslot(): of no team yet.
LogsIn(s) ==
  /\ NoVote /\ v_status[s] = "PFREE"
  /\ v_status' = [v_status EXCEPT ![s] = "POUTFIT"]
  /\ v_team' = [v_team EXCEPT ![s] = "NOBODY"]
  /\ ballot' = [ballot EXCEPT ![s] = "zero"]
  /\ person' = IF s = Accused THEN (person + 1) % Persons ELSE person
  /\ UNCHANGED <<against, voter, gone, unjust>>

\* enter(), which clears the votes against the slot.
Enters(s, t) ==
  /\ NoVote /\ v_status[s] = "POUTFIT"
  /\ v_status' = [v_status EXCEPT ![s] = "PALIVE"]
  /\ v_team' = [v_team EXCEPT ![s] = t]
  /\ ballot' = IF s = Accused THEN [u \in VSlot |-> "reset"] ELSE ballot
  /\ gone' = gone \cup ({v_team[s], t} \cap VTeam)
  /\ UNCHANGED <<against, person, voter, unjust>>

Votes == \E s \in VSlot : CountVotes(s) \/ ResetVotes(s) \/ EjectPlayer(s)
VoteNext ==
  \/ Votes
  \/ \E s \in VSlot : \/ StoreVote(s) \/ Ages(s)
                      \/ VoterLeaves(s) \/ Explodes(s) \/ LogsIn(s)
                      \/ \E t \in VTeam : Enters(s, t)

VoteSpec == VoteInit /\ [][VoteNext]_voteVars

-----------------------------------------------------------------------------
(* Properties *)

\* Nobody is ejected for votes against the last occupant of the slot ("to
\* avoid inheriting this slot's last occupant's escaped fate"), neither after
\* enter(), which clears them, nor before it, when the newcomer has no team.
EjectIsEarned == ~unjust

\* The accused apart, whose own vote do_vote() stores and counts with the next
\* one, but does not count at once, there are votes enough in the team of s.
OthersSuffice(s) ==
  LET n == Cardinality(Ayes(s) \ {Accused}) IN
  n >= MinPass /\ Cardinality(Electors(s)) \div 2 + 1 <= n

\* A majority is not overlooked, however votes of several processes overlap:
\* as long as nobody leaves or enters, the others' votes that are enough have been
\* counted together by the last of these voters, who has acted on them.
MajorityActs ==
  NoVote => \A s \in VSlot : v_status[s] = "PALIVE" /\ v_team[s] \notin gone
                              => ~OthersSuffice(s)

\* Votes are counted against the person they were cast against, and enough of
\* them are acted upon.
VoteInv ==
  VoteTypeOK /\ EjectIsEarned /\ MajorityActs
=============================================================================
