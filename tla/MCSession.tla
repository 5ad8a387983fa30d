----------------------------- MODULE MCSession -----------------------------
(***************************************************************************)
(* What players send and are sent, for TLC: messages of two tools, votes,  *)
(* updates and sequence numbers; and their records in the player file.     *)
(* They share no variable, so a behaviour is one of one of them: "part"    *)
(* says which, and stays.                                                  *)
(***************************************************************************)
EXTENDS MessageRing, Voting, Updates, Sequence, Register, TLC

CONSTANTS fed, rom, one, two
VARIABLE part

\* Two tools that share the out-of-band ring.
Tools     == {"s", "t"}
Client    == {"a"}
Rings     == <<"oob">>
ToolRings == [x \in Tools |-> "oob"]
SendsOf   == [x \in Tools |-> IF x = "s" THEN 2 ELSE 1]

\* Two people, one of whom has two names, want the same one.
SecretOf == <<"u", "v">>
KnowsOf  == <<{"m", "n"}, {"m"}>>

\* Teams, and what there is to know of a planet: either is as good as the other.
TwoTeams  == {fed, rom}
TwoStates == {one, two}
Symmetry  == Permutations(TwoTeams) \cup Permutations(TwoStates)

sessionVars == <<ringVars, voteVars, updVars, seqVars, regVars, part>>

SessionInit ==
  /\ part \in {"messages", "vote", "updates", "sequence", "register"}
  /\ RingInit /\ VoteInit /\ UpdInit /\ SeqInit /\ RegInit

SessionNext ==
  /\ UNCHANGED part
  /\ \/ /\ part = "messages" /\ RingNext
        /\ UNCHANGED <<voteVars, updVars, seqVars, regVars>>
     \/ /\ part = "vote" /\ VoteNext
        /\ UNCHANGED <<ringVars, updVars, seqVars, regVars>>
     \/ /\ part = "updates" /\ UpdNext
        /\ UNCHANGED <<ringVars, voteVars, seqVars, regVars>>
     \/ /\ part = "sequence" /\ SeqNext
        /\ UNCHANGED <<ringVars, voteVars, updVars, regVars>>
     \/ /\ part = "register" /\ RegNext
        /\ UNCHANGED <<ringVars, voteVars, updVars, seqVars>>

SessionSpec == SessionInit /\ [][SessionNext]_sessionVars
=============================================================================
