------------------------------ MODULE InlSetup ------------------------------
(***************************************************************************)
(* What the two captains of a league game agree on before it starts: the   *)
(* commands they send to the INL robot (robots/inlcomm.c), who picks which *)
(* race, the terms of the game, a draft, a new galaxy, and the start.      *)
(*                                                                         *)
(* The robot handles one command at a time.  The terms stand for the time  *)
(* and the starting armies, which are settled alike.  The game itself is   *)
(* in InlGame: here it is under way until it is over or restarted.         *)
(***************************************************************************)
EXTENDS Integers, FiniteSets

CONSTANTS
  InlSide,    \* the indices into sides[] that captains choose from
  InlTerm     \* the terms they ask for; the least is what reset_inl() sets

ASSUME InlSetupAssumption ==
  /\ InlSide \subseteq 0 .. 3
  /\ InlTerm \subseteq Nat /\ InlTerm # {} /\ IsFiniteSet(InlTerm)

InlTeam == {"HOME", "AWAY"}
OtherTeam(t) == CHOOSE u \in InlTeam : u # t

NOT_CHOOSEN == -1
RELINQUISH  == -2
Diagonal(c) == (c + 2) % 4

DefaultTerm == CHOOSE m \in InlTerm : \A n \in InlTerm : m <= n

SetupFlag == {"T_START", "T_RESETGALAXY", "T_DRAFT", "T_SIDELOCKED"}

VARIABLES
  change,       \* inl_stat.change: things can be changed
  s_draft,      \* S_DRAFT of inl_stat.flags
  set_flags,    \* inl_teams[].flags, as far as they matter before the game
  side_index,   \* inl_teams[].side_index
  asked,        \* inl_teams[].time and start_armies
  agreed,       \* inl_stat.time and start_armies
  gu_draft      \* GU_INL_DRAFTING and GU_INL_DRAFTED of status->gameup

setupVars == <<change, s_draft, set_flags, side_index, asked, agreed, gu_draft>>

SetupTypeOK ==
  /\ change \in BOOLEAN /\ s_draft \in BOOLEAN
  /\ set_flags \in [InlTeam -> SUBSET SetupFlag]
  /\ side_index \in [InlTeam -> InlSide \cup {NOT_CHOOSEN, RELINQUISH}]
  /\ asked \in [InlTeam -> InlTerm] /\ agreed \in InlTerm
  /\ gu_draft \subseteq {"GU_INL_DRAFTING", "GU_INL_DRAFTED"}

\* reset_inl(): what it sets.
ResetInl ==
  /\ change' = TRUE
  /\ s_draft' = FALSE
  /\ set_flags' = [t \in InlTeam |-> {}]
  /\ side_index' = [t \in InlTeam |-> NOT_CHOOSEN]
  /\ asked' = [t \in InlTeam |-> DefaultTerm]
  /\ agreed' = DefaultTerm

SetupInit ==
  /\ change = TRUE
  /\ s_draft = FALSE
  /\ set_flags = [t \in InlTeam |-> {}]
  /\ side_index = [t \in InlTeam |-> NOT_CHOOSEN]
  /\ asked = [t \in InlTeam |-> DefaultTerm]
  /\ agreed = DefaultTerm
  /\ gu_draft = {}

Asks(t, f)  == [set_flags EXCEPT ![t] = @ \cup {f}]

-----------------------------------------------------------------------------
(* Races *)

\* do_pickside() with "PASS": of the away team only.
Pass ==
  /\ change
  /\ "T_SIDELOCKED" \notin set_flags["AWAY"]
  /\ side_index' = [side_index EXCEPT !["AWAY"] = RELINQUISH]
  /\ UNCHANGED <<change, s_draft, set_flags, asked, agreed, gu_draft>>

MayPick(t) ==
  /\ change
  /\ "T_SIDELOCKED" \notin set_flags[t]
  /\ t = "HOME" => side_index["AWAY"] # NOT_CHOOSEN

\* Mutant: only the same race is refused.
PickSideDiagonal(t, c) ==
  /\ MayPick(t)
  /\ c # side_index[OtherTeam(t)]
  /\ side_index' = [side_index EXCEPT ![t] = c]
  /\ UNCHANGED <<change, s_draft, set_flags, asked, agreed, gu_draft>>

\* do_pickside() with a race: neither the other team's nor the one diagonal
\* to it, and then the other team may not choose again.
PickSide(t, c) ==
  /\ MayPick(t)
  /\ LET o == side_index[OtherTeam(t)] IN
     \/ /\ o < 0
        /\ UNCHANGED set_flags
     \/ /\ o >= 0 /\ c # o /\ c # Diagonal(o)
        /\ set_flags' = Asks(OtherTeam(t), "T_SIDELOCKED")
  /\ side_index' = [side_index EXCEPT ![t] = c]
  /\ UNCHANGED <<change, s_draft, asked, agreed, gu_draft>>

-----------------------------------------------------------------------------
(* Terms, draft, galaxy *)

\* do_gametime() and do_army(): terms are agreed when both have asked for
\* the same.
GameTime(t, n) ==
  /\ change
  /\ asked' = [asked EXCEPT ![t] = n]
  /\ agreed' = IF asked[OtherTeam(t)] = n THEN n ELSE agreed
  /\ UNCHANGED <<change, s_draft, set_flags, side_index, gu_draft>>

\* do_draft(): when both ask, inl_draft_begin().
DoDraft(t) ==
  /\ change
  /\ LET asks == Asks(t, "T_DRAFT") IN
     IF \A u \in InlTeam : "T_DRAFT" \in asks[u]
     THEN /\ set_flags' = [u \in InlTeam |-> asks[u] \ {"T_DRAFT"}]
          /\ s_draft' = TRUE
          /\ gu_draft' = {"GU_INL_DRAFTING"}
     ELSE /\ set_flags' = asks
          /\ UNCHANGED <<s_draft, gu_draft>>
  /\ UNCHANGED <<change, side_index, asked, agreed>>

\* do_resetgalaxy(): when both ask, all flags of both teams are cleared.
DoResetGalaxy(t) ==
  /\ change
  /\ LET asks == Asks(t, "T_RESETGALAXY") IN
     set_flags' = IF \A u \in InlTeam : "T_RESETGALAXY" \in asks[u]
                  THEN [u \in InlTeam |-> {}] ELSE asks
  /\ UNCHANGED <<change, s_draft, side_index, asked, agreed, gu_draft>>

-----------------------------------------------------------------------------
(* Start and end *)

\* Mutant: a draft does not keep captains from starting.
NeverDraft == FALSE

\* A draft that is over is forgotten when a captain wants to start.
StillDraft == s_draft /\ "GU_INL_DRAFTING" \in gu_draft

MayStart(t) == change /\ ~StillDraft /\ side_index[t] >= 0

\* Mutant: the terms of the two teams are not compared.
DoStartAnyTerms(t) ==
  /\ MayStart(t)
  /\ s_draft' = FALSE
  /\ set_flags' = Asks(t, "T_START")
  /\ change' = ~(\A u \in InlTeam : "T_START" \in set_flags'[u])
  /\ UNCHANGED <<side_index, asked, agreed, gu_draft>>

\* do_start(): when both have asked and the terms are the same the flags are
\* cleared and start_countdown() begins the game.
DoStart(t) ==
  /\ MayStart(t)
  /\ s_draft' = FALSE
  /\ LET asks  == Asks(t, "T_START")
         begin == /\ \A u \in InlTeam : "T_START" \in asks[u]
                  /\ asked["HOME"] = asked["AWAY"]
     IN  /\ set_flags' = IF begin THEN [u \in InlTeam |-> asks[u] \ {"T_START"}]
                         ELSE asks
         /\ change' = ~begin
  /\ UNCHANGED <<side_index, asked, agreed, gu_draft>>

\* The message that refuses a start during a draft, after the same test.
DoStartRefused(t) ==
  /\ change /\ s_draft /\ ~StillDraft /\ side_index[t] < 0
  /\ s_draft' = FALSE
  /\ UNCHANGED <<change, set_flags, side_index, asked, agreed, gu_draft>>

\* The game is over, or both captains restart it: reset_inl().  The flag
\* GU_INL_DRAFTED stays.
GameOver == ~change /\ ResetInl /\ UNCHANGED gu_draft

\* The daemon ends the draft: inl_draft_done(), then inl_draft_end().
DraftDone ==
  /\ gu_draft = {"GU_INL_DRAFTING"}
  /\ gu_draft' = gu_draft \cup {"GU_INL_DRAFTED"}
  /\ UNCHANGED <<change, s_draft, set_flags, side_index, asked, agreed>>
DraftEnd ==
  /\ gu_draft = {"GU_INL_DRAFTING", "GU_INL_DRAFTED"}
  /\ gu_draft' = {"GU_INL_DRAFTED"}
  /\ UNCHANGED <<change, s_draft, set_flags, side_index, asked, agreed>>

SetupNext ==
  \/ \E t \in InlTeam : \/ \E c \in InlSide : PickSide(t, c)
                        \/ \E n \in InlTerm : GameTime(t, n)
                        \/ DoDraft(t) \/ DoResetGalaxy(t)
                        \/ DoStart(t) \/ DoStartRefused(t)
  \/ Pass \/ GameOver \/ DraftDone \/ DraftEnd

SetupSpec == SetupInit /\ [][SetupNext]_setupVars

-----------------------------------------------------------------------------
(* Properties *)

\* Whatever is picked, passed, locked and unlocked by a new galaxy in which
\* order: two teams that both have a race never have the same race or races
\* that face each other diagonally ("Cannot choose diagonal race").
SidesApart ==
  LET h == side_index["HOME"] a == side_index["AWAY"]
  IN  h >= 0 /\ a >= 0 => h # a /\ h # Diagonal(a)

\* A game that has started is played under the terms both captains asked for,
\* although each may have asked for others before and after.
TermsAgreed ==
  ~change => asked["HOME"] = agreed /\ asked["AWAY"] = agreed

\* Nobody is drafted during a game: a start is refused until the daemon has
\* brought the draft to its end, and a draft is refused after the start.
NoDraftInGame == ~change => "GU_INL_DRAFTING" \notin gu_draft

\* What do_start() makes of the captains' commands is what both have chosen: the
\* sides, the terms and the players.
SetupInv ==
  SetupTypeOK /\ SidesApart /\ TermsAgreed /\ NoDraftInGame
=============================================================================
