---------------------------- MODULE LeagueProofs ----------------------------
(***************************************************************************)
(* Proofs about what leads to a game and ends it: the terms the captains   *)
(* of a league game agree on (InlSetup), the flags of the game (InlGame),  *)
(* tournament mode (Tournament) and the draft (Draft), for any races,      *)
(* terms, fuses, lengths of a game, teams, quorum and number of players.   *)
(***************************************************************************)
EXTENDS InlSetup, InlGame, Tournament, Draft, FiniteSetTheorems,
        WellFoundedInduction, TLAPS

-----------------------------------------------------------------------------
(* InlSetup *)

\* Terms that both captains have asked for are agreed, started or not.
TermsMet == asked["HOME"] = asked["AWAY"] => agreed = asked["HOME"]

\* The robot knows of every draft that the daemon has not ended.
DraftKnown == "GU_INL_DRAFTING" \in gu_draft => s_draft

\* The inductive invariant of the time before a game.
SetupIInv ==
  SetupTypeOK /\ SidesApart /\ TermsAgreed /\ NoDraftInGame /\ TermsMet /\ DraftKnown

\* The team that is not t, of two.
LEMMA TheOther ==
  /\ InlTeam = {"HOME", "AWAY"}
  /\ OtherTeam("HOME") = "AWAY" /\ OtherTeam("AWAY") = "HOME"
BY DEF InlTeam, OtherTeam

\* A set of numbers that is not empty has a least one.
LEMMA LeastOne ==
  ASSUME NEW S, S \subseteq Nat, S # {}
  PROVE  \E m \in S : \A n \in S : m <= n
<1>1. PICK m \in S : \A n \in S : <<n, m>> \notin OpToRel(<, Nat)
  BY WFMin, NatLessThanWellFounded
<1>2. \A n \in S : ~(n < m)  BY <1>1, Zenon DEF OpToRel
<1> QED  BY <1>2

\* The least of the terms is one of them.
LEMMA DefaultIsTerm == DefaultTerm \in InlTerm
<1>1. \E m \in InlTerm : \A n \in InlTerm : m <= n
  BY InlSetupAssumption, LeastOne
<1> QED  BY <1>1 DEF DefaultTerm

\* Who faces whom diagonally is mutual.
LEMMA DiagonalMutual ==
  ASSUME NEW c \in 0 .. 3, NEW d \in 0 .. 3, d # Diagonal(c) PROVE c # Diagonal(d)
BY DEF Diagonal

\* A side is a race, or a negative number.
LEMMA SideType ==
  ASSUME SetupTypeOK, NEW t \in InlTeam
  PROVE  /\ side_index[t] \in Int
         /\ side_index[t] >= 0 => side_index[t] \in 0 .. 3
<1>1. InlSide \subseteq 0 .. 3  BY InlSetupAssumption
<1>2. side_index[t] \in InlSide \/ side_index[t] = -1 \/ side_index[t] = -2
  BY DEF SetupTypeOK, NOT_CHOOSEN, RELINQUISH
<1>3. CASE side_index[t] \in InlSide
  <2>1. side_index[t] \in 0 .. 3  BY <1>1, <1>3
  <2> QED  BY <2>1
<1>4. CASE side_index[t] = -1 \/ side_index[t] = -2
  BY <1>4
<1> QED  BY <1>2, <1>3, <1>4

\* It holds when the robot starts.
LEMMA SetupFirst == SetupInit => SetupIInv
  <1> SUFFICES ASSUME SetupInit PROVE SetupIInv  OBVIOUS
  <1>1. ~(-1 >= 0)  OBVIOUS
  <1> QED  BY <1>1, TheOther, DefaultIsTerm
  DEF SetupInit, SetupIInv, SetupTypeOK, SidesApart, TermsAgreed, NoDraftInGame,
      TermsMet, DraftKnown, NOT_CHOOSEN

\* Every command of a captain and every frame of the daemon keep it.
LEMMA SetupStep == ASSUME SetupIInv, [SetupNext]_setupVars PROVE SetupIInv'
<1> USE TheOther DEF SetupIInv, SetupTypeOK, TermsAgreed, NoDraftInGame, TermsMet,
                     DraftKnown, SetupFlag, Asks
<1>1. ASSUME NEW t \in InlTeam, NEW c \in InlSide, PickSide(t, c) PROVE SetupIInv'
  <2>1. /\ side_index' = [side_index EXCEPT ![t] = c]
        /\ UNCHANGED <<change, s_draft, asked, agreed, gu_draft>>
        /\ set_flags' \in [InlTeam -> SUBSET SetupFlag]
    BY <1>1 DEF PickSide
  <2>2. SidesApart'
    <3>0. /\ OtherTeam(t) \in InlTeam
          /\ c \in 0 .. 3
          /\ side_index[OtherTeam(t)] \in Int
          /\ side_index[OtherTeam(t)] >= 0 => side_index[OtherTeam(t)] \in 0 .. 3
      <4>1. OtherTeam(t) \in InlTeam  OBVIOUS
      <4> QED  BY <4>1, SideType, InlSetupAssumption
    <3>1. CASE side_index[OtherTeam(t)] < 0
      BY <2>1, <3>0, <3>1 DEF SidesApart
    <3>2. CASE side_index[OtherTeam(t)] >= 0
      <4>1. /\ c # side_index[OtherTeam(t)]
            /\ c # Diagonal(side_index[OtherTeam(t)])
        BY <1>1, <3>0, <3>2 DEF PickSide
      <4>2. side_index[OtherTeam(t)] # Diagonal(c)
        BY <3>0, <3>2, <4>1, DiagonalMutual
      <4> QED  BY <2>1, <3>0, <4>1, <4>2 DEF SidesApart
    <3> QED  BY <3>0, <3>1, <3>2
  <2> QED  BY <2>1, <2>2
<1>2. ASSUME NEW t \in InlTeam, NEW n \in InlTerm, GameTime(t, n) PROVE SetupIInv'
  BY <1>2 DEF GameTime, SidesApart
<1>3. ASSUME NEW t \in InlTeam, DoDraft(t) PROVE SetupIInv'
  <2>1. set_flags' \in [InlTeam -> SUBSET SetupFlag]
    BY <1>3 DEF DoDraft
  <2>2. CASE s_draft' = TRUE /\ gu_draft' = {"GU_INL_DRAFTING"}
    BY <1>3, <2>1, <2>2 DEF DoDraft, SidesApart
  <2>3. CASE UNCHANGED <<s_draft, gu_draft>>
    BY <1>3, <2>1, <2>3 DEF DoDraft, SidesApart
  <2> QED  BY <1>3, <2>2, <2>3 DEF DoDraft
<1>4. ASSUME NEW t \in InlTeam, DoResetGalaxy(t) PROVE SetupIInv'
  BY <1>4 DEF DoResetGalaxy, SidesApart
<1>5. ASSUME NEW t \in InlTeam, DoStart(t) PROVE SetupIInv'
  BY <1>5 DEF DoStart, MayStart, StillDraft, SidesApart
<1>6. ASSUME NEW t \in InlTeam, DoStartRefused(t) PROVE SetupIInv'
  BY <1>6 DEF DoStartRefused, StillDraft, SidesApart
<1>7. CASE Pass
  BY <1>7 DEF Pass, SidesApart, RELINQUISH
<1>8. CASE GameOver
  <2>1. ~(-1 >= 0)  OBVIOUS
  <2>2. /\ change' = TRUE /\ s_draft' = FALSE
        /\ set_flags' = [t \in InlTeam |-> {}]
        /\ side_index' = [t \in InlTeam |-> -1]
        /\ asked' = [t \in InlTeam |-> DefaultTerm]
        /\ agreed' = DefaultTerm
        /\ gu_draft' = gu_draft /\ "GU_INL_DRAFTING" \notin gu_draft
    BY <1>8 DEF GameOver, ResetInl, NOT_CHOOSEN
  <2> QED  BY <2>1, <2>2, DefaultIsTerm DEF SidesApart, NOT_CHOOSEN
<1>9. CASE DraftDone
  BY <1>9 DEF DraftDone, SidesApart
<1>10. CASE DraftEnd
  BY <1>10 DEF DraftEnd, SidesApart
<1>11. CASE UNCHANGED setupVars
  BY <1>11 DEF setupVars, SidesApart
<1> QED
  BY <1>1, <1>2, <1>3, <1>4, <1>5, <1>6, <1>7, <1>8, <1>9, <1>10, <1>11 DEF SetupNext

\* What do_start() makes of the captains' commands is what both have chosen,
\* for any set of races and terms.
THEOREM SetupHolds == SetupSpec => []SetupInv
<1>1. SetupIInv /\ [SetupNext]_setupVars => SetupIInv'  BY SetupStep
<1>2. SetupIInv => SetupInv  BY DEF SetupIInv, SetupInv
<1> QED  BY <1>1, <1>2, SetupFirst, PTL DEF SetupSpec

-----------------------------------------------------------------------------
(* InlGame *)

\* Before a game there is nothing else: no countdown, pause, timeout or clock.
PregameAlone == "S_PREGAME" \in s_flags => s_flags = {"S_PREGAME"}

\* Nothing else goes on in the countdown to the start, unlike in the one after
\* a pause, behind which the game may be under way.
StartAlone ==
  "S_COUNTDOWN" \in s_flags /\ cd_action = "start_tourney"
    => s_flags = {"S_COUNTDOWN"}

\* Overtime follows regulation and never starts twice, and the clock shows no
\* more than what has been given.
ClockBounded ==
  /\ ~({"S_TOURNEY", "S_OVERTIME"} \subseteq s_flags)
  /\ clock <= Regulation + extra * ExtraTime
                + (IF "S_OVERTIME" \in s_flags THEN Overtime ELSE 0)

\* The inductive invariant of a game.
GameIInv ==
  /\ GameTypeOK /\ PauseAgrees /\ TimeoutAgrees
  /\ PregameAlone /\ StartAlone /\ ClockBounded

\* What the cycles of extra time add up to.
LEMMA ExtraAddsUp ==
  ASSUME NEW n \in 0 .. MaxExtra
  PROVE  /\ n * ExtraTime \in Nat
         /\ n * ExtraTime <= MaxExtra * ExtraTime
         /\ (n + 1) * ExtraTime = n * ExtraTime + ExtraTime
<1>1. MaxExtra \in Nat /\ ExtraTime \in Nat  BY InlGameAssumption
<1>2. PICK m \in Nat : MaxExtra = n + m
  <2>1. MaxExtra - n \in Nat /\ MaxExtra = n + (MaxExtra - n)  BY <1>1
  <2> QED  BY <2>1
<1>3. m * ExtraTime \in Nat /\ n * ExtraTime \in Nat  BY <1>1, <1>2
<1>4. (n + m) * ExtraTime = n * ExtraTime + m * ExtraTime  BY <1>1, <1>2
<1> QED  BY <1>1, <1>2, <1>3, <1>4

\* A clock that is within what has been given is within what may be given.
LEMMA ClockInRange ==
  ASSUME NEW n \in 0 .. MaxExtra, NEW c \in Nat, NEW o \in {0, Overtime},
         c <= Regulation + n * ExtraTime + o
  PROVE  c \in 0 .. Regulation + Overtime + MaxExtra * ExtraTime
<1>1. /\ n * ExtraTime \in Nat /\ MaxExtra * ExtraTime \in Nat
      /\ n * ExtraTime <= MaxExtra * ExtraTime
  <2>1. MaxExtra \in 0 .. MaxExtra  BY InlGameAssumption
  <2> QED  BY <2>1, ExtraAddsUp
<1>2. Regulation \in Nat /\ Overtime \in Nat  BY InlGameAssumption
<1> DEFINE x == n * ExtraTime  y == MaxExtra * ExtraTime
<1>3. x \in Nat /\ y \in Nat /\ x <= y /\ c <= Regulation + x + o
  BY <1>1
<1> HIDE DEF x, y
<1>4. c \in 0 .. Regulation + Overtime + y
  BY <1>2, <1>3
<1> QED  BY <1>4 DEF y

\* The clock after the robot has set it to 0 or to regulation time.
LEMMA ClockSet ==
  ASSUME NEW n \in 0 .. MaxExtra, NEW c \in {0, Regulation}
  PROVE  /\ c <= Regulation + n * ExtraTime + 0
         /\ c \in 0 .. Regulation + Overtime + MaxExtra * ExtraTime
<1> DEFINE x == n * ExtraTime
<1>1. x \in Nat  BY ExtraAddsUp
<1>2. Regulation \in Nat /\ c \in Nat  BY InlGameAssumption
<1> HIDE DEF x
<1>3. c <= Regulation + x + 0  BY <1>1, <1>2
<1>4. c <= Regulation + n * ExtraTime + 0  BY <1>3 DEF x
<1> QED  BY <1>2, <1>4, ClockInRange

\* It holds as a game begins.
LEMMA GameFirst == GameInit => GameIInv
BY InlGameAssumption, ClockSet
DEF GameInit, GameIInv, GameTypeOK, PauseAgrees, TimeoutAgrees, PregameAlone,
    StartAlone, ClockBounded, SFlag, TFlag, GameTeam

\* The end of a game, which leaves the countdown that was under way behind.
LEMMA ResetGameKeeps ==
  ASSUME GameIInv, ResetGame, phase' \in {"countdown", "commands", "clock"}
  PROVE  GameIInv'
BY InlGameAssumption, ClockSet
DEF ResetGame, GameIInv, GameTypeOK, PauseAgrees, TimeoutAgrees, PregameAlone,
    StartAlone, ClockBounded, SFlag, TFlag, GameTeam

\* do_pause() with teams' flags that differ in T_PAUSE only.
LEMMA PauseKeeps ==
  ASSUME GameIInv, InGame, NEW f \in [GameTeam -> SUBSET TFlag], PauseOrGoOn(f),
         \A t \in GameTeam : "T_TIMEOUT" \in f[t] <=> "T_TIMEOUT" \in t_flags[t]
  PROVE  GameIInv'
<1> USE InlGameAssumption DEF GameIInv
<1>1. /\ t_flags' = f /\ UNCHANGED <<tmout, clock, extra, phase>>
      /\ s_flags' \in {s_flags, s_flags \cup {"S_FREEZE"}, s_flags \cup {"S_COUNTDOWN"}}
  BY DEF PauseOrGoOn
<1>2. GameTypeOK'
  <2>1. gameup' \subseteq {"GU_PAUSED", "GU_PRACTICE"}
    BY DEF PauseOrGoOn, GameTypeOK
  <2>2. cd_left' \in 0 .. StartFuse + PauseFuse
        /\ cd_action' \in {"start_tourney", "end_pause"}
    BY DEF PauseOrGoOn, GameTypeOK
  <2> QED  BY <1>1, <2>1, <2>2 DEF GameTypeOK, SFlag
<1>3. TimeoutAgrees'
  BY <1>1 DEF TimeoutAgrees
<1>4. PauseAgrees'
  BY <1>1 DEF PauseOrGoOn, PauseAgrees, InGame, Listens
<1>5. PregameAlone' /\ StartAlone'
  BY <1>1 DEF PauseOrGoOn, PregameAlone, StartAlone, InGame, Listens
<1>6. ClockBounded'
  BY <1>1 DEF ClockBounded
<1> QED  BY <1>2, <1>3, <1>4, <1>5, <1>6

\* Every frame of inlmove(), with the commands in it, keeps it.
LEMMA GameStep == ASSUME GameIInv, [GameNext]_gameVars PROVE GameIInv'
<1> USE InlGameAssumption DEF GameIInv
<1>1. CASE Countdown
  <2>1. /\ phase' = "commands" /\ UNCHANGED <<t_flags, tmout, cd_action, extra>>
    BY <1>1 DEF Countdown
  <2>2. CASE cd_left' = cd_left - 1 /\ cd_left > 0 /\ UNCHANGED <<s_flags, gameup, clock>>
    BY <2>1, <2>2 DEF GameTypeOK, PauseAgrees, TimeoutAgrees, PregameAlone,
                      StartAlone, ClockBounded
  <2>3. CASE /\ "S_COUNTDOWN" \in s_flags /\ cd_action = "start_tourney"
             /\ StartTourney /\ UNCHANGED cd_left
    <3>1. /\ s_flags = {"S_COUNTDOWN"} /\ s_flags' = {"S_TOURNEY"}
          /\ gameup' = gameup \ {"GU_PRACTICE"} /\ clock' = Regulation
      BY <2>3 DEF StartTourney, StartAlone
    <3> QED  BY <2>1, <2>3, <3>1, ClockSet
             DEF GameTypeOK, PauseAgrees, TimeoutAgrees, PregameAlone, StartAlone,
                 ClockBounded, SFlag
  <2>4. CASE /\ "S_COUNTDOWN" \in s_flags /\ cd_action = "end_pause"
             /\ EndPause /\ UNCHANGED cd_left
    BY <2>1, <2>4 DEF EndPause, GameTypeOK, PauseAgrees, TimeoutAgrees, PregameAlone,
                      StartAlone, ClockBounded, SFlag
  <2>5. CASE UNCHANGED <<s_flags, gameup, clock, cd_left>>
    BY <2>1, <2>5 DEF GameTypeOK, PauseAgrees, TimeoutAgrees, PregameAlone,
                      StartAlone, ClockBounded
  <2> QED  BY <1>1, <2>2, <2>3, <2>4, <2>5 DEF Countdown
<1>2. CASE StartCountdown
  <2>1. /\ s_flags = {"S_PREGAME"} /\ s_flags' = {"S_COUNTDOWN"}
        /\ cd_left' = StartFuse /\ cd_action' = "start_tourney"
        /\ UNCHANGED <<t_flags, tmout, clock, extra, gameup, phase>>
    BY <1>2 DEF StartCountdown, PregameAlone
  <2> QED  BY <2>1 DEF GameTypeOK, PauseAgrees, TimeoutAgrees, PregameAlone,
                       StartAlone, ClockBounded, SFlag
<1>3. CASE DoPauseNow
  <2>1. [u \in GameTeam |-> t_flags[u] \cup {"T_PAUSE"}] \in [GameTeam -> SUBSET TFlag]
    BY DEF GameTypeOK, TFlag
  <2> QED  BY <1>3, <2>1, PauseKeeps DEF DoPauseNow
<1>4. ASSUME NEW t \in GameTeam, DoPause(t) PROVE GameIInv'
  <2>1. [t_flags EXCEPT ![t] = @ \cup {"T_PAUSE"}] \in [GameTeam -> SUBSET TFlag]
    BY DEF GameTypeOK, TFlag
  <2>2. \A u \in GameTeam : "T_TIMEOUT" \in [t_flags EXCEPT ![t] = @ \cup {"T_PAUSE"}][u]
                             <=> "T_TIMEOUT" \in t_flags[u]
    BY DEF GameTypeOK
  <2> QED  BY <1>4, <2>1, <2>2, PauseKeeps DEF DoPause
<1>5. ASSUME NEW t \in GameTeam, DoContinue(t) PROVE GameIInv'
  <2>1. [t_flags EXCEPT ![t] = @ \ {"T_PAUSE"}] \in [GameTeam -> SUBSET TFlag]
    BY DEF GameTypeOK, TFlag
  <2>2. \A u \in GameTeam : "T_TIMEOUT" \in [t_flags EXCEPT ![t] = @ \ {"T_PAUSE"}][u]
                             <=> "T_TIMEOUT" \in t_flags[u]
    BY DEF GameTypeOK
  <2> QED  BY <1>5, <2>1, <2>2, PauseKeeps DEF DoContinue
<1>6. ASSUME NEW t \in GameTeam, DoRestart(t) PROVE GameIInv'
  <2>1. CASE ResetGame
    BY <1>6, <2>1, ResetGameKeeps DEF DoRestart, GameTypeOK
  <2>2. CASE /\ t_flags' = [t_flags EXCEPT ![t] = @ \cup {"T_RESTART"}]
             /\ UNCHANGED <<s_flags, tmout, cd_left, cd_action, clock, extra, gameup, phase>>
    BY <2>2 DEF GameTypeOK, PauseAgrees, TimeoutAgrees, PregameAlone, StartAlone,
                ClockBounded, TFlag
  <2> QED  BY <1>6, <2>1, <2>2 DEF DoRestart
<1>7. ASSUME NEW t \in GameTeam, CancelTimeout(t) PROVE GameIInv'
  <2>1. GameTypeOK'
    BY <1>7 DEF CancelTimeout, GameTypeOK, TimeoutAgrees, SFlag, TFlag
  <2>2. TimeoutAgrees'
    BY <1>7 DEF CancelTimeout, GameTypeOK, TimeoutAgrees
  <2> QED  BY <1>7, <2>1, <2>2 DEF CancelTimeout, InGame, Listens, PauseAgrees,
              PregameAlone, StartAlone, ClockBounded
<1>8. ASSUME NEW t \in GameTeam, CallTimeout(t) PROVE GameIInv'
  <2>1. GameTypeOK'
    BY <1>8 DEF CallTimeout, GameTypeOK, SFlag, TFlag
  <2>2. TimeoutAgrees'
    BY <1>8 DEF CallTimeout, GameTypeOK, TimeoutAgrees
  <2> QED  BY <1>8, <2>1, <2>2 DEF CallTimeout, InGame, Listens, PauseAgrees,
              PregameAlone, StartAlone, ClockBounded
<1>9. CASE ClockStands
  BY <1>9 DEF ClockStands, GameTypeOK, PauseAgrees, TimeoutAgrees, PregameAlone,
              StartAlone, ClockBounded
<1>10. CASE ClockRuns
  <2>1. /\ phase' = "clock" /\ clock' \in Nat /\ clock' <= clock
        /\ UNCHANGED <<tmout, cd_left, cd_action, extra>>
        /\ s_flags \cap {"S_TOURNEY", "S_OVERTIME"} # {}
    BY <1>10 DEF ClockRuns, GameTypeOK
  <2>2. CASE Freeze
    BY <2>1, <2>2 DEF Freeze, GameTypeOK, PauseAgrees, TimeoutAgrees, PregameAlone,
              StartAlone, ClockBounded, SFlag, TFlag, GameTeam
  <2>3. CASE UNCHANGED <<s_flags, t_flags, gameup>>
    BY <2>1, <2>3 DEF GameTypeOK, PauseAgrees, TimeoutAgrees, PregameAlone,
              StartAlone, ClockBounded
  <2> QED  BY <1>10, <2>2, <2>3 DEF ClockRuns
<1>11. CASE EndTourney
  <2>1. phase' = "countdown"
    BY <1>11 DEF EndTourney
  <2>2. CASE ResetGame
    BY <2>1, <2>2, ResetGameKeeps
  <2>3. CASE MoreExtra
    <3>1. /\ extra' = extra + 1 /\ extra' \in 0 .. MaxExtra
          /\ clock' = clock + ExtraTime
          /\ UNCHANGED <<s_flags, t_flags, tmout, gameup, cd_left, cd_action>>
          /\ "S_OVERTIME" \notin s_flags
      BY <2>3 DEF MoreExtra, GameTypeOK, ClockBounded
    <3>2. clock' \in Nat /\ clock' <= Regulation + extra' * ExtraTime + 0
      <4> DEFINE x == extra * ExtraTime  y == extra' * ExtraTime
      <4>1. x \in Nat /\ y = x + ExtraTime  BY <3>1, ExtraAddsUp DEF GameTypeOK
      <4>2. clock \in Nat /\ clock <= Regulation + x + 0
        BY <3>1 DEF ClockBounded, GameTypeOK
      <4> HIDE DEF x, y
      <4>3. clock' \in Nat /\ clock' <= Regulation + y + 0  BY <3>1, <4>1, <4>2
      <4> QED  BY <4>3 DEF y
    <3>3. clock' \in 0 .. Regulation + Overtime + MaxExtra * ExtraTime
      BY <3>1, <3>2, ClockInRange
    <3> QED  BY <2>1, <3>1, <3>2, <3>3
             DEF GameTypeOK, PauseAgrees, TimeoutAgrees, PregameAlone, StartAlone,
                 ClockBounded
  <2>4. CASE IntoOvertime
    <3>1. /\ extra \in 0 .. MaxExtra /\ extra' = extra /\ clock' = clock + Overtime
          /\ "S_OVERTIME" \in s_flags' /\ "S_TOURNEY" \notin s_flags'
          /\ "S_OVERTIME" \notin s_flags
      BY <2>4 DEF IntoOvertime, GameTypeOK, ClockBounded
    <3>2. clock' \in Nat /\ clock' <= Regulation + extra' * ExtraTime + Overtime
      <4> DEFINE x == extra * ExtraTime
      <4>1. x \in Nat  BY <3>1, ExtraAddsUp
      <4>2. clock \in Nat /\ clock <= Regulation + x + 0
        BY <3>1 DEF ClockBounded, GameTypeOK
      <4> HIDE DEF x
      <4>3. clock' \in Nat /\ clock' <= Regulation + x + Overtime  BY <3>1, <4>1, <4>2
      <4> QED  BY <3>1, <4>3 DEF x
    <3>3. clock' \in 0 .. Regulation + Overtime + MaxExtra * ExtraTime
      BY <3>1, <3>2, ClockInRange
    <3> QED  BY <2>1, <2>4, <3>1, <3>2, <3>3
    DEF IntoOvertime, GameTypeOK, PauseAgrees, TimeoutAgrees, PregameAlone,
        StartAlone, ClockBounded, SFlag
  <2>5. CASE NoWinner
    BY <2>1, <2>5, ResetGameKeeps DEF NoWinner
  <2> QED  BY <1>11, <2>2, <2>3, <2>4, <2>5 DEF EndTourney
<1>12. CASE PlayOn
  BY <1>12 DEF PlayOn, GameTypeOK, PauseAgrees, TimeoutAgrees, PregameAlone,
               StartAlone, ClockBounded
<1>13. CASE UNCHANGED gameVars
  BY <1>13 DEF gameVars, GameTypeOK, PauseAgrees, TimeoutAgrees, PregameAlone,
               StartAlone, ClockBounded
<1> QED
  BY <1>1, <1>2, <1>3, <1>4, <1>5, <1>6, <1>7, <1>8, <1>9, <1>10, <1>11, <1>12, <1>13
  DEF GameNext, Command, Clock

\* The flags of the robot, of its teams and of the daemon agree at every step
\* of every frame, for any lengths of the game, its countdowns and extra time.
THEOREM GameHolds == GameSpec => []GameInv
<1>1. GameIInv /\ [GameNext]_gameVars => GameIInv'  BY GameStep
<1>2. GameIInv => GameInv  BY DEF GameIInv, GameInv
<1> QED  BY <1>1, <1>2, GameFirst, PTL DEF GameSpec

-----------------------------------------------------------------------------
(* Tournament *)

\* The last test found the opponents of a tournament that begins or goes on.
OpponentsFound == ts \in {"TS_BEGIN", "TS_TOURNAMENT"} => held[1]

\* The inductive invariant of the tournament machine: nothing need be added
\* to what is checked.
TournIInv == TournTypeOK /\ TournIsHeld /\ ToldInTurn /\ OpponentsFound

\* The members of S that fewer than two others precede, as is_tournament_mode()
\* stores them, are two if S has two, and one or none otherwise.
FirstTwo(S) == {t \in S : Cardinality({u \in S : u < t}) < 2}

\* Of two or more quorate teams the first two are two.
LEMMA FirstTwoOfMany ==
  ASSUME NEW S, S \subseteq Nat, IsFiniteSet(S), Cardinality(S) > 1
  PROVE  IsFiniteSet(FirstTwo(S)) /\ Cardinality(FirstTwo(S)) = 2
<1>1. S # {}  BY FS_EmptySet
<1>2. PICK a \in S : \A n \in S : a <= n  BY <1>1, LeastOne
<1>3. S \ {a} # {}
  <2>1. CASE S = {a}  BY <2>1, FS_Singleton
  <2> QED  BY <1>2, <2>1
<1>4. PICK b \in S \ {a} : \A n \in S \ {a} : b <= n
  <2>1. S \ {a} \subseteq Nat  OBVIOUS
  <2> HIDE <1>2
  <2> QED  BY <1>3, <2>1, LeastOne
<1>5. a \in Nat /\ b \in Nat /\ a < b  BY <1>2, <1>4
<1>6. {u \in S : u < a} = {}
  <2>1. \A u \in S : ~(u < a)  BY <1>2, <1>5
  <2> QED  BY <2>1
<1>7. {u \in S : u < b} = {a}
  <2>1. \A u \in S \ {a} : ~(u < b)  BY <1>4, <1>5
  <2> QED  BY <1>2, <1>5, <2>1
<1>8. a \in FirstTwo(S)  BY <1>2, <1>6, FS_EmptySet DEF FirstTwo
<1>9. b \in FirstTwo(S)
  <2>1. Cardinality({a}) = 1  BY FS_Singleton
  <2> QED  BY <1>4, <1>7, <2>1 DEF FirstTwo
<1>10. IsFiniteSet({a, b}) /\ Cardinality({a, b}) = 2
  <2>1. IsFiniteSet({a}) /\ Cardinality({a}) = 1  BY FS_Singleton
  <2>2. b \notin {a} /\ {a} \cup {b} = {a, b}  BY <1>4
  <2>3. /\ IsFiniteSet({a} \cup {b})
        /\ Cardinality({a} \cup {b}) = 1 + 1
    BY <2>1, <2>2, FS_AddElement
  <2> QED  BY <2>2, <2>3
<1>11. ASSUME NEW t \in S, t # a, t # b PROVE t \notin FirstTwo(S)
  <2> DEFINE P == {u \in S : u < t}
  <2>1. t \in Nat /\ b <= t  BY <1>4, <1>11
  <2>2. {a, b} \subseteq P  BY <1>2, <1>4, <1>5, <1>11, <2>1
  <2>3. IsFiniteSet(P)
    <3>1. P \subseteq S  OBVIOUS
    <3> QED  BY <3>1, FS_Subset
  <2>4. Cardinality(P) >= 2 /\ Cardinality(P) \in Nat
    BY <1>10, <2>2, <2>3, FS_Subset, FS_CardinalityType
  <2> QED  BY <2>4 DEF FirstTwo
<1>12. FirstTwo(S) = {a, b}
  <2>1. FirstTwo(S) \subseteq S  BY DEF FirstTwo
  <2> QED  BY <1>8, <1>9, <1>11, <2>1
<1> QED  BY <1>10, <1>12

\* Of fewer there are no two.
LEMMA FirstTwoOfFew ==
  ASSUME NEW S, IsFiniteSet(S), ~(Cardinality(S) > 1)
  PROVE  IsFiniteSet(FirstTwo(S)) /\ Cardinality(FirstTwo(S)) \in {0, 1}
<1>1. FirstTwo(S) \subseteq S  BY DEF FirstTwo
<1>2. /\ IsFiniteSet(FirstTwo(S))
      /\ Cardinality(FirstTwo(S)) <= Cardinality(S)
  BY <1>1, FS_Subset
<1>3. Cardinality(S) \in Nat /\ Cardinality(FirstTwo(S)) \in Nat
  BY <1>2, FS_CardinalityType
<1> QED  BY <1>2, <1>3

\* What one test stores: at most two teams of those in play, two exactly if the
\* test finds a tournament.
LEMMA TestsStore ==
  ASSUME Tests
  PROVE  /\ quorum' \subseteq TTeam /\ Cardinality(quorum') <= 2
         /\ held'[1] = IsTournamentMode /\ held'[2] = held[1]
         /\ held'[1] <=> Cardinality(quorum') = 2
<1>1. quorum' = FirstTwo(Ready) /\ held' = <<IsTournamentMode, held[1]>>
  BY DEF Tests, FirstTwo
<1>2. Ready \subseteq TTeam /\ FirstTwo(Ready) \subseteq Ready
  BY DEF Ready, FirstTwo
<1>3. Ready \subseteq Nat /\ IsFiniteSet(Ready)
  <2>1. Ready \subseteq {1, 2, 4, 8}  BY <1>2, TournamentAssumption
  <2>2. IsFiniteSet({1, 2, 4, 8})
    <3>0. 0 \in Int /\ 8 \in Int  OBVIOUS
    <3>1. IsFiniteSet(0 .. 8)  BY <3>0, FS_Interval, Zenon
    <3>2. {1, 2, 4, 8} \subseteq 0 .. 8  OBVIOUS
    <3> QED  BY <3>1, <3>2, FS_Subset
  <2>3. Ready \subseteq Nat  BY <2>1
  <2> QED  BY <2>1, <2>2, <2>3, FS_Subset
<1>4. CASE IsTournamentMode
  <2>1. Cardinality(quorum') = 2
    BY <1>1, <1>3, <1>4, FirstTwoOfMany DEF IsTournamentMode
  <2> QED  BY <1>1, <1>2, <1>4, <2>1
<1>5. CASE ~IsTournamentMode
  <2>1. Cardinality(quorum') \in {0, 1}
    BY <1>1, <1>3, <1>5, FirstTwoOfFew DEF IsTournamentMode
  <2> QED  BY <1>1, <1>2, <1>5, <2>1
<1> QED  BY <1>4, <1>5

\* There is no tournament when the daemon starts.
LEMMA TournFirst == TournInit => TournIInv
<1>1. Cardinality({}) = 0  BY FS_EmptySet
<1> SUFFICES ASSUME TournInit PROVE TournIInv  OBVIOUS
<1>2. held \in [1 .. 2 -> BOOLEAN] /\ ~held[1]
  <2>1. ASSUME NEW a \in BOOLEAN, NEW b \in BOOLEAN, held = <<a, b>>
        PROVE  held \in [1 .. 2 -> BOOLEAN] /\ held[1] = a
    BY <2>1
  <2>2. held = <<FALSE, FALSE>>  BY DEF TournInit
  <2> QED  BY <2>1, <2>2
<1>3. ts = "TS_PICKUP" /\ tourn = FALSE /\ said = 0 /\ quorum = {}
  BY DEF TournInit
<1>4. crew \in [TTeam -> 0 .. TeamSize]  BY TournamentAssumption DEF TournInit
<1>5. Cardinality(quorum) <= 2 /\ Cardinality(quorum) # 2  BY <1>1, <1>3
<1>6. {check_scum, scummers, inl_mode} \subseteq BOOLEAN
  BY Zenon DEF TournInit
<1>7. TournTypeOK
  <2>1. tourn \in BOOLEAN /\ quorum \subseteq TTeam  BY <1>3, Zenon
  <2>2. said \in -1 .. 1
    <3>1. said = 0  BY <1>3, Zenon
    <3> QED  BY <3>1
  <2>3. ts \in {"TS_PICKUP", "TS_SCUMMERS", "TS_BEGIN", "TS_TOURNAMENT"}
    BY <1>3
  <2> QED  BY <1>2, <1>4, <1>5, <1>6, <2>1, <2>2, <2>3, Zenon DEF TournTypeOK
<1> QED  BY <1>2, <1>3, <1>5, <1>7
         DEF TournIInv, TournIsHeld, ToldInTurn, OpponentsFound

\* Every frame of the machine, and every change of players between frames,
\* keeps it.
LEMMA TournStep == ASSUME TournIInv, [TournNext]_tournVars PROVE TournIInv'
<1> USE DEF TournIInv
<1>1. CASE TournFrame
  <2>1. Tests /\ UNCHANGED <<crew, check_scum, scummers, inl_mode>>
    BY <1>1 DEF TournFrame, FramePickup, FrameScummers, FrameTournament
  <2>2. /\ quorum' \subseteq TTeam /\ Cardinality(quorum') <= 2
        /\ held'[1] = IsTournamentMode /\ held'[2] = held[1]
        /\ held'[1] <=> Cardinality(quorum') = 2
    BY <2>1, TestsStore
  <2>3. held' \in [1 .. 2 -> BOOLEAN]
    <3>1. IsTournamentMode \in BOOLEAN /\ held[1] \in BOOLEAN
      BY DEF IsTournamentMode, TournTypeOK
    <3>2. held' = <<IsTournamentMode, held[1]>>  BY <2>1 DEF Tests
    <3> HIDE DEF IsTournamentMode
    <3> QED  BY <3>1, <3>2
  <2>4. CASE FramePickup
    BY <2>1, <2>2, <2>3, <2>4
    DEF FramePickup, TournTypeOK, TournIsHeld, ToldInTurn, OpponentsFound
  <2>5. CASE FrameScummers
    BY <2>1, <2>2, <2>3, <2>5
    DEF FrameScummers, TournTypeOK, TournIsHeld, ToldInTurn, OpponentsFound
  <2>6. CASE FrameTournament
    BY <2>1, <2>2, <2>3, <2>6
    DEF FrameTournament, TournTypeOK, TournIsHeld, ToldInTurn, OpponentsFound
  <2> QED  BY <1>1, <2>4, <2>5, <2>6 DEF TournFrame
<1>2. CASE Options
  BY <1>2 DEF Options, TournTypeOK, TournIsHeld, ToldInTurn, OpponentsFound
<1>3. ASSUME NEW t \in TTeam, NEW n \in 0 .. TeamSize, Musters(t, n)
      PROVE  TournIInv'
  BY <1>3 DEF Musters, TournTypeOK, TournIsHeld, ToldInTurn, OpponentsFound
<1>4. CASE UNCHANGED tournVars
  BY <1>4 DEF tournVars, TournTypeOK, TournIsHeld, ToldInTurn, OpponentsFound
<1> QED  BY <1>1, <1>2, <1>3, <1>4 DEF TournNext

\* Statistics count only while there are opponents, up to the frame that
\* notices, and every tournament is announced once and ended once, for any
\* teams in play and any number of players that make a quorum.
THEOREM TournHolds == TournSpec => []TournInv
<1>1. TournIInv /\ [TournNext]_tournVars => TournIInv'  BY TournStep
<1>2. TournIInv => TournInv  BY DEF TournIInv, TournInv
<1> QED  BY <1>1, <1>2, TournFirst, PTL DEF TournSpec

-----------------------------------------------------------------------------
(* Draft *)

\* The places of captains, and the kinds of selections and arrivals in progress.
Placed   == {"CAPTAIN_UP", "CAPTAIN_DOWN"}
Picking  == {NoPick} \cup [step : {"down", "pick", "mark"}, k : Seat, j : Seat,
                           pass : BOOLEAN]
Arriving == {NoArrival} \cup [who : Seat, store : Placed]

\* Whom inl_draft_next() and inl_draft_team_to_captain() take for captains.
Staff == {q \in Seat : Involved(q) /\ p_inl_captain[q]}

\* Types, with the records of what is in progress.
DraftTypes ==
  /\ DraftTypeOK
  /\ pick \in [Seat -> Picking] /\ arriving \in Arriving
  /\ drafting <=> inl_draft # "OFF"

\* Only who is in the pool or on the way to it has no team, and only while the
\* pool is there, unless selected between the two stores of joining it.  A player is in the queue of its team, a captain even when dead.
TeamsKept ==
  /\ \A q \in Seat : /\ d_status[q] = "PALIVE" /\ d_team[q] = "NOBODY"
                     /\ q \notin snatched
                     => /\ p_inl_draft[q] \in {"MOVING_TO_POOL", "POOLED"}
                        /\ inl_draft = "MOVING_TO_POOL"
  /\ \A q \in Seat : /\ d_status[q] = "PALIVE" \/ p_inl_captain[q]
                     => d_team[q] = d_side[q] \/ (d_team[q] = "NOBODY" /\ ~p_inl_captain[q])
  /\ \A q \in Seat : d_status[q] = "PALIVE" /\ p_inl_draft[q] \in Placed
                     => d_team[q] # "NOBODY"

\* Who picks has a team, and who is picked is no captain, is in the draft and
\* gets a team before leaving the pool.
PicksKept ==
  \A q \in Seat : pick[q] # NoPick =>
    /\ d_team[pick[q].k] \in DTeam
    /\ inl_draft = "MOVING_TO_POOL" => p_inl_draft[pick[q].k] # "OFF"
    /\ ~pick[q].pass =>
         /\ ~p_inl_captain[pick[q].j]
         /\ inl_draft = "MOVING_TO_POOL" => p_inl_draft[pick[q].j] # "OFF"
    /\ pick[q].step \in {"pick", "mark"} => ~pick[q].pass
    /\ pick[q].step = "mark" /\ pick[q].j \notin snatched => d_team[pick[q].j] \in DTeam

\* Who joins the pool is alive and no captain, picks nobody, and is picked by
\* nobody until the second store, unless the history says so.
JoinKept ==
  joining # NoOne =>
    /\ joining \in Seat /\ d_status[joining] = "PALIVE" /\ ~p_inl_captain[joining]
    /\ inl_draft = "MOVING_TO_POOL" /\ p_inl_draft[joining] \notin Placed
    /\ p_inl_draft[joining] # "OFF"
    /\ \A q \in Seat : pick[q] # NoPick => pick[q].k # joining
    /\ joining \notin snatched =>
         /\ p_inl_draft[joining] = "MOVING_TO_POOL"
         /\ \A q \in Seat : pick[q] # NoPick /\ ~pick[q].pass => pick[q].j # joining

\* Who arrives is a captain and alive.
ArrivalKept ==
  arriving # NoArrival => /\ p_inl_captain[arriving.who]
                          /\ d_status[arriving.who] = "PALIVE"

\* Unless a captain was deposed, the flags agree with the teams' records, and
\* only captains have a captain's place or pick.
CaptainsKept ==
  ~deposed => /\ \A q \in Staff : captain[d_team[q]] = q
              /\ \A q \in Seat : d_status[q] = "PALIVE" /\ p_inl_draft[q] \in Placed
                                 => p_inl_captain[q]
              /\ \A q \in Seat : pick[q] # NoPick => pick[q].k \in Staff

\* Unless the history says so, there is one selection or arrival at a time.
OneAtATime ==
  ~raced => \A q \in Seat : pick[q] # NoPick =>
              arriving = NoArrival /\ \A p \in Seat \ {q} : pick[p] = NoPick

\* A captain other than k has the pick.
UpBut(k) == \E a \in Staff \ {k} : p_inl_draft[a] = "CAPTAIN_UP"

\* Two captains never both wait, and whoever is about to has another one up.
OneIsUp ==
  ~raced /\ ~deposed =>
    /\ \A a, b \in Staff :
         p_inl_draft[a] = "CAPTAIN_DOWN" /\ p_inl_draft[b] = "CAPTAIN_DOWN" => a = b
    /\ arriving.store = "CAPTAIN_DOWN" => UpBut(arriving.who)
    /\ \A q \in Seat : pick[q].step = "down" => UpBut(pick[q].k)

\* No process is in the middle of a selection.
NobodyPicks == \A q \in Seat : pick[q] = NoPick
\* The team that is ahead waits, or the other one is picking.
Behind(t) ==
  /\ NobodyPicks => \A a \in Staff : d_team[a] = t => p_inl_draft[a] = "CAPTAIN_DOWN"
  /\ \A q \in Seat : pick[q] # NoPick => d_team[pick[q].k] # t

\* The count is of one stage after the other, and of a draft without a loss.
LeadKept ==
  lead # Uncounted =>
    /\ ~raced /\ lead \in -1 .. 1
    /\ inl_draft = "OFF" => /\ NobodyBusy /\ lead = 0
                            /\ \A q \in Seat : p_inl_draft[q] = "OFF"
    /\ inl_draft # "OFF" => ~deposed /\ \A q \in Staff : d_status[q] = "PALIVE"
    /\ inl_draft = "MOVING_TO_HOME" =>
         /\ NobodyBusy
         /\ \A q \in Seat : d_status[q] = "PALIVE"
                            => p_inl_draft[q] \in {"OFF", "MOVING_TO_HOME", "END"}
    /\ inl_draft = "MOVING_TO_POOL" =>
         /\ lead = 1 => Behind("FED")
         /\ lead = -1 => Behind("ROM")
         /\ \A q \in Seat : pick[q].step \in {"pick", "mark"}
                            => p_inl_draft[pick[q].k] = "CAPTAIN_DOWN"
         /\ arriving # NoArrival => p_inl_draft[arriving.who] \notin Placed

\* The inductive invariant.
DraftIInv ==
  /\ DraftTypes /\ TeamsKept /\ PicksKept /\ JoinKept /\ ArrivalKept
  /\ CaptainsKept /\ OneAtATime /\ OneIsUp /\ LeadKept

-----------------------------------------------------------------------------

\* The first of some players is one of them.
LEMMA FirstIsOne ==
  ASSUME NEW S, S \subseteq Seat, S # {}  PROVE FirstOf(S) \in S
<1>1. S \subseteq Nat  BY DraftAssumption DEF Seat
<1>2. \E q \in S : \A r \in S : q <= r  BY <1>1, LeastOne
<1> QED  BY <1>2 DEF FirstOf

\* The slots are numbers, 0 and 1 among them.
LEMMA SeatsAre == Seat \subseteq Nat /\ 0 \in Seat /\ 1 \in Seat /\ -1 \notin Seat
BY DraftAssumption DEF Seat

\* The captains that draft.c looks for are such players.
LEMMA CaptainsAre ==
  ASSUME NEW k \in Seat, NEW t
  PROVE  /\ Others(k) = Staff \ {k}
         /\ Others(k) # {} => FirstOf(Others(k)) \in Staff \ {k}
         /\ CaptainsOf(t) = {q \in Staff : d_team[q] = t /\ p_inl_draft[q] \in Placed}
         /\ CaptainsOf(t) # {} => FirstOf(CaptainsOf(t)) \in CaptainsOf(t)
BY FirstIsOne DEF Others, Staff, CaptainsOf, Placed

\* What a pick in progress and an arrival in progress are.
LEMMA BusyAre ==
  ASSUME DraftTypes
  PROVE  /\ \A q \in Seat : pick[q] # NoPick =>
              pick[q] \in [step : {"down", "pick", "mark"}, k : Seat, j : Seat,
                          pass : BOOLEAN]
         /\ NoPick.step = "none" /\ NoArrival.store = "OFF" /\ NoArrival.who = -1
         /\ \A q \in Seat : pick[q].step = "none" <=> pick[q] = NoPick
         /\ arriving # NoArrival => arriving \in [who : Seat, store : Placed]
BY SeatsAre DEF DraftTypes, Picking, Arriving, NoPick, NoArrival, Placed

\* Before the draft all of it holds.
LEMMA DraftFirst == DraftInit => DraftIInv
<1> SUFFICES ASSUME DraftInit PROVE DraftIInv  OBVIOUS
<1> USE DEF DraftInit
<1>1. \A q \in Seat : q % 2 \in {0, 1}  BY SeatsAre
<1>2. 0 % 2 = 0 /\ 1 % 2 = 1  OBVIOUS
<1>3. NobodyBusy  BY DEF NobodyBusy
<1>4. DraftTypes
  <2>1. captain \in [DTeam -> Seat \cup {-1}]  BY SeatsAre DEF DTeam
  <2>2. d_side \in [Seat -> DTeam] /\ d_team \in [Seat -> DTeam \cup {"NOBODY"}]
    BY DEF DTeam
  <2>3. p_inl_captain \in [Seat -> BOOLEAN]  OBVIOUS
  <2>4. pick \in [Seat -> Picking] /\ arriving \in Arriving  BY DEF Picking, Arriving
  <2>5. /\ arriving.who = -1 /\ arriving.store = "OFF"
        /\ \A q \in Seat : pick[q].step = "none" /\ pick[q].k = 0 /\ pick[q].j = 0
    BY DEF NoPick, NoArrival
  <2>6. /\ d_status \in [Seat -> {"PFREE", "POUTFIT", "PALIVE"}]
        /\ p_inl_draft \in [Seat -> Drafts]
        /\ turnover \in 0 .. MaxTurnover
    BY DraftAssumption DEF Drafts
  <2>7. /\ inl_draft = "OFF" /\ drafting = FALSE /\ raced = FALSE /\ deposed = FALSE
        /\ lead = 0 /\ joining = NoOne /\ snatched = {}
    OBVIOUS
  <2>8. lead \in -2 .. 2 \cup {Uncounted}  BY ONLY <2>7
  <2>9. DraftTypeOK
    BY ONLY <2>1, <2>2, <2>3, <2>5, <2>6, <2>7, <2>8, SeatsAre DEF DraftTypeOK, NoOne
  <2> QED  BY ONLY <2>4, <2>7, <2>9 DEF DraftTypes
<1>5. TeamsKept /\ PicksKept /\ JoinKept /\ ArrivalKept /\ OneAtATime
  BY <1>1 DEF TeamsKept, PicksKept, JoinKept, ArrivalKept, OneAtATime
<1>6. \A q \in Staff : q = 0 \/ q = 1
  <2> SUFFICES ASSUME NEW q \in Staff PROVE q = 0 \/ q = 1  OBVIOUS
  <2>1. q \in Seat /\ p_inl_captain[q]  BY DEF Staff
  <2>2. p_inl_captain = [p \in Seat |-> p < 2]  OBVIOUS
  <2>3. q < 2  BY <2>1, <2>2, Zenon
  <2>4. q \in Nat  BY <2>1, SeatsAre
  <2> QED  BY ONLY <2>3, <2>4
<1>7. CaptainsKept
  <2>1. \A q \in Staff : captain[d_team[q]] = q
    BY <1>2, <1>6, SeatsAre DEF DTeam
  <2> QED  BY <2>1 DEF CaptainsKept, Placed
<1>8. OneIsUp  BY SeatsAre DEF OneIsUp, NoArrival, NoPick, Staff
<1>9. LeadKept  BY <1>3 DEF LeadKept, Uncounted
<1> QED  BY <1>4, <1>5, <1>7, <1>8, <1>9 DEF DraftIInv

\* The steps of the draft.
LEMMA DraftSteps ==
  ASSUME DraftNext
  PROVE  \/ \E q \in Seat : \/ Joins(q) \/ Arrival(q) \/ CaptainArrives(q)
                            \/ Enter(q) \/ Leave(q) \/ SelectDown(q) \/ DraftPick(q)
                            \/ DraftMark(q) \/ DieInDraft(q)
         \/ \E q, j \in Seat : SelectPass(q, j) \/ Delegate(q, j)
         \/ \E q, j, k \in Seat : SelectPick(q, k, j)
         \/ \E t \in DTeam, q \in Seat : DoCaptain(t, q) \/ DoUncaptain(t, q) \/ Login(q, t)
         \/ \E t \in DTeam : PlayerMaint(t)
         \/ JoinsTeam \/ CaptainPlaced \/ Done \/ End \/ Begin
BY DEF DraftNext, DraftUpdate, Outfit, Process, Captains

\* A selection is of somebody with the pick, or for a captain who has it.
LEMMA SelectIs ==
  ASSUME DraftIInv, NEW q \in Seat, NEW j \in Seat,
         SelectPass(q, j) \/ \E k \in Seat : SelectPick(q, k, j)
  PROVE  \E k \in Seat, pass \in BOOLEAN :
           /\ Select(q, k, j, pass)
           /\ p_inl_draft[k] = "CAPTAIN_UP" /\ d_team[k] \in DTeam
           /\ ~deposed => k \in Staff
           /\ ~pass => /\ ~p_inl_captain[j]
                       /\ p_inl_draft[j] \in {"MOVING_TO_POOL", "POOLED"}
           /\ d_status[q] = "PALIVE" /\ p_inl_draft[q] \in {"CAPTAIN_UP", "PICKED_SELECTOR"}
<1>1. ASSUME p_inl_draft[q] = "CAPTAIN_UP", d_status[q] = "PALIVE"
      PROVE  d_team[q] \in DTeam /\ (~deposed => q \in Staff)
  BY <1>1 DEF DraftIInv, DraftTypes, DraftTypeOK, TeamsKept, CaptainsKept, Staff,
              Involved, Placed
<1>2. CASE SelectPass(q, j)  BY <1>1, <1>2 DEF SelectPass, Select
<1>3. ASSUME NEW k \in Seat, SelectPick(q, k, j)
      PROVE  /\ Select(q, k, j, FALSE) /\ p_inl_draft[k] = "CAPTAIN_UP"
             /\ d_team[k] \in DTeam /\ (~deposed => k \in Staff)
             /\ p_inl_draft[j] \in {"MOVING_TO_POOL", "POOLED"}
             /\ ~p_inl_captain[j] /\ d_status[q] = "PALIVE"
             /\ p_inl_draft[q] \in {"CAPTAIN_UP", "PICKED_SELECTOR"}
  <2>1. /\ Select(q, k, j, FALSE) /\ ~p_inl_captain[j] /\ d_status[q] = "PALIVE"
        /\ Picks(q, k) /\ p_inl_draft[j] \in {"MOVING_TO_POOL", "POOLED"}
    BY <1>3 DEF SelectPick, Select
  <2>2. CASE p_inl_draft[q] = "CAPTAIN_UP" /\ k = q  BY <1>1, <2>1, <2>2
  <2>3. CASE /\ p_inl_draft[q] = "PICKED_SELECTOR"
             /\ CaptainsOf(d_team[q]) # {} /\ k = FirstOf(CaptainsOf(d_team[q]))
             /\ p_inl_draft[k] = "CAPTAIN_UP"
    <3>1. k \in Staff  BY <2>3, CaptainsAre
    <3>2. d_team[k] \in DTeam
      BY <3>1 DEF DraftIInv, DraftTypes, DraftTypeOK, TeamsKept, Staff
    <3> QED  BY <2>1, <2>3, <3>1, <3>2
  <2> QED  BY <2>1, <2>2, <2>3 DEF Picks
<1> QED  BY <1>2, <1>3

\* What a selection in progress stores: a captain's place, a player's team, and
\* the player's place.
LEMMA ProcessIs ==
  ASSUME DraftIInv, NEW q \in Seat, SelectDown(q) \/ DraftPick(q) \/ DraftMark(q)
  PROVE  /\ pick[q] # NoPick
         /\ pick[q] \in [step : {"down", "pick", "mark"}, k : Seat, j : Seat, pass : BOOLEAN]
         /\ \/ pick' = [pick EXCEPT ![q] = NoPick]
            \/ /\ pick' = [pick EXCEPT ![q] = [@ EXCEPT !.step = "pick"]]
               /\ SelectDown(q) /\ ~pick[q].pass
            \/ /\ pick' = [pick EXCEPT ![q] = [@ EXCEPT !.step = "mark"]]
               /\ DraftPick(q) /\ ~pick[q].pass
         /\ ~SelectDown(q) => /\ ~pick[q].pass /\ ~p_inl_captain[pick[q].j]
BY BusyAre DEF DraftIInv, SelectDown, DraftPick, DraftMark, PicksKept

\* Nobody's selection is in progress when nobody is busy.
LEMMA NotBusy ==
  ASSUME DraftIInv, NobodyBusy
  PROVE  /\ arriving = NoArrival /\ NobodyPicks
         /\ \A q \in Seat : pick[q].step = "none"
         /\ arriving.store = "OFF"
BY DEF NobodyBusy, NobodyPicks, NoPick, NoArrival

\* What is typed of a pick or an arrival follows from the kinds there are.
LEMMA BusyTypes ==
  ASSUME NEW P \in [Seat -> Picking], NEW a \in Arriving
  PROVE  /\ \A q \in Seat : P[q].step \in {"none", "down", "pick", "mark"}
                            /\ P[q].k \in Seat /\ P[q].j \in Seat
         /\ a.who \in Seat \cup {-1}
         /\ a.store \in {"OFF", "CAPTAIN_UP", "CAPTAIN_DOWN"}
<1>1. \A x \in Picking : x.step \in {"none", "down", "pick", "mark"} /\ x.k \in Seat /\ x.j \in Seat
  BY SeatsAre DEF Picking, NoPick
<1> QED  BY <1>1 DEF Arriving, NoArrival, Placed

\* Types are kept by every step.
LEMMA DraftTypesStep ==
  ASSUME DraftIInv, DraftNext
  PROVE  DraftTypes'
<1> DEFINE Busy == pick \in [Seat -> Picking] /\ arriving \in Arriving
           Counts == /\ lead \in -2 .. 2 \cup {Uncounted} /\ turnover \in 0 .. MaxTurnover
                     /\ raced \in BOOLEAN /\ deposed \in BOOLEAN
                     /\ joining \in Seat \cup {NoOne} /\ snatched \subseteq Seat
           Stage == /\ inl_draft \in {"OFF", "MOVING_TO_POOL", "MOVING_TO_HOME"}
                    /\ drafting \in BOOLEAN /\ (drafting <=> inl_draft # "OFF")
           Players == /\ d_status \in [Seat -> {"PFREE", "POUTFIT", "PALIVE"}]
                      /\ p_inl_draft \in [Seat -> Drafts]
                      /\ d_team \in [Seat -> DTeam \cup {"NOBODY"}]
                      /\ d_side \in [Seat -> DTeam]
                      /\ p_inl_captain \in [Seat -> BOOLEAN]
                      /\ captain \in [DTeam -> Seat \cup {-1}]
<1>0. Busy /\ Counts /\ Stage /\ Players  BY DEF DraftIInv, DraftTypes, DraftTypeOK
<1>00. Uncounted = 9 /\ 0 \in -2 .. 2  BY DEF Uncounted
<1>1. ASSUME NEW q \in Seat, Joins(q) \/ Arrival(q)
      PROVE  Busy' /\ Counts' /\ Stage' /\ Players'
  <2>1. \A s \in DOMAIN ArrivalFrom : ArrivalFrom[s] \in Drafts
    BY DEF ArrivalFrom, Drafts
  <2>2. Players'
    BY <1>0, <1>1, <2>1 DEF Joins, Arrival, Drafts
  <2> QED  BY <1>0, <1>1, <2>2 DEF Joins, Arrival
<1>2. ASSUME NEW q \in Seat, CaptainArrives(q)
      PROVE  Busy' /\ Counts' /\ Stage' /\ Players'
  <2>1. arriving' \in Arriving  BY <1>2 DEF CaptainArrives, NextUp, Arriving, Placed
  <2>2. Counts'  BY <1>0, <1>00, <1>2 DEF CaptainArrives, Overlaps
  <2> QED  BY <1>0, <1>2, <2>1, <2>2 DEF CaptainArrives
<1>3. ASSUME NEW q \in Seat, Enter(q) \/ Leave(q) \/ DieInDraft(q)
      PROVE  Busy' /\ Counts' /\ Stage' /\ Players'
  <2>1. Counts'  BY <1>0, <1>00, <1>3, DraftAssumption DEF Enter, Leave, DieInDraft
  <2>2. Players'  BY <1>0, <1>3 DEF Enter, Leave, DieInDraft, Drafts
  <2> QED  BY <1>0, <1>3, <2>1, <2>2 DEF Enter, Leave, DieInDraft
<1>4. ASSUME NEW q \in Seat, SelectDown(q) \/ DraftPick(q) \/ DraftMark(q)
      PROVE  Busy' /\ Counts' /\ Stage' /\ Players'
  <2>1. pick' \in [Seat -> Picking]  BY <1>0, <1>4, ProcessIs DEF Picking
  <2>2. pick[q].k \in Seat /\ pick[q].j \in Seat  BY <1>4, ProcessIs
  <2>3. Players'
    <3>1. CASE SelectDown(q)  BY <1>0, <2>2, <3>1 DEF SelectDown, Drafts
    <3>2. CASE DraftPick(q)
      <4>1. d_team[pick[q].k] \in DTeam \cup {"NOBODY"}  BY <1>0, <2>2
      <4> QED  BY <1>0, <2>2, <3>2, <4>1 DEF DraftPick, Drafts
    <3>3. CASE DraftMark(q)  BY <1>0, <2>2, <3>3 DEF DraftMark, Drafts
    <3> QED  BY <1>4, <3>1, <3>2, <3>3
  <2>4. lead' \in -2 .. 2 \cup {Uncounted}
    <3>1. LeadKept /\ (lead # Uncounted => lead \in -1 .. 1)
      BY DEF DraftIInv, LeadKept
    <3>2. Turn(pick[q].k) \in -2 .. 2 \cup {Uncounted}
      BY <1>00, <3>1 DEF Turn
    <3> QED  BY <1>0, <1>4, <3>2 DEF SelectDown, DraftPick, DraftMark
  <2> QED  BY <1>0, <1>4, <2>1, <2>3, <2>4 DEF SelectDown, DraftPick, DraftMark
<1>5. ASSUME NEW q \in Seat, NEW k \in Seat, NEW j \in Seat, NEW pass \in BOOLEAN,
             Select(q, k, j, pass)
      PROVE  Busy' /\ Counts' /\ Stage' /\ Players'
  <2>1. pick' \in [Seat -> Picking]  BY <1>0, <1>5 DEF Select, Picking
  <2>2. FirstOf(Others(k)) \in Seat  BY <1>5, CaptainsAre DEF Select, Staff
  <2>3. Players'  BY <1>0, <1>5, <2>2 DEF Select, Drafts
  <2>4. Counts'  BY <1>0, <1>00, <1>5 DEF Select, Overlaps
  <2> QED  BY <1>0, <1>5, <2>1, <2>3, <2>4 DEF Select
<1>6. ASSUME NEW q \in Seat, NEW j \in Seat, Delegate(q, j)
      PROVE  Busy' /\ Counts' /\ Stage' /\ Players'
  <2>1. Players'  BY <1>0, <1>6 DEF Delegate, Drafts
  <2> QED  BY <1>0, <1>6, <2>1 DEF Delegate
<1>7. ASSUME NEW t \in DTeam, NEW q \in Seat,
             DoCaptain(t, q) \/ DoUncaptain(t, q) \/ Login(q, t)
      PROVE  Busy' /\ Counts' /\ Stage' /\ Players'
  <2>1. CASE DoCaptain(t, q)
    <3>1. Counts'  BY <1>0, <1>00, <2>1 DEF DoCaptain
    <3>2. Players'
      <4>1. captain' \in [DTeam -> Seat \cup {-1}]  BY <1>0, <2>1 DEF DoCaptain
      <4>2. p_inl_captain' \in [Seat -> BOOLEAN]  BY <1>0, <2>1 DEF DoCaptain
      <4>3. UNCHANGED <<d_status, p_inl_draft, d_team, d_side>>
        BY <2>1 DEF DoCaptain
      <4> QED  BY ONLY <1>0, <4>1, <4>2, <4>3
    <3>3. Busy' /\ Stage'  BY <1>0, <2>1 DEF DoCaptain
    <3> QED  BY ONLY <3>1, <3>2, <3>3
  <2>2. CASE DoUncaptain(t, q)
    <3>1. Counts'  BY <1>0, <1>00, <2>2, DraftAssumption DEF DoUncaptain
    <3>2. Players'  BY <1>0, <2>2, SeatsAre DEF DoUncaptain
    <3>3. Busy' /\ Stage'  BY <1>0, <2>2 DEF DoUncaptain
    <3> QED  BY ONLY <3>1, <3>2, <3>3
  <2>3. CASE Login(q, t)
    <3>1. Counts'  BY <1>0, <1>00, <2>3, DraftAssumption DEF Login
    <3>2. Players'  BY <1>0, <2>3 DEF Login
    <3>3. Busy' /\ Stage'  BY <1>0, <2>3 DEF Login
    <3> QED  BY ONLY <3>1, <3>2, <3>3
  <2> QED  BY <1>7, <2>1, <2>2, <2>3
<1>8. ASSUME NEW t \in DTeam, PlayerMaint(t)
      PROVE  Busy' /\ Counts' /\ Stage' /\ Players'
  BY <1>0, <1>8 DEF PlayerMaint
<1>9. ASSUME CaptainPlaced  PROVE Busy' /\ Counts' /\ Stage' /\ Players'
  <2>1. arriving.who \in Seat /\ arriving.store \in Drafts
    BY <1>9, BusyAre DEF CaptainPlaced, Drafts, Placed, DraftIInv
  <2>2. Busy'  BY <1>0, <1>9 DEF CaptainPlaced, Arriving
  <2>3. Players'  BY <1>0, <1>9, <2>1 DEF CaptainPlaced
  <2>4. Counts' /\ Stage'  BY <1>0, <1>9 DEF CaptainPlaced
  <2> QED  BY ONLY <2>2, <2>3, <2>4
<1>10. ASSUME Done \/ End  PROVE Busy' /\ Counts' /\ Stage' /\ Players'
  <2>1. Players'  BY <1>0, <1>10 DEF Done, End, Drafts
  <2>2. Counts'  BY <1>0, <1>00, <1>10 DEF Done, End, Overlaps
  <2>3. Stage'  BY <1>0, <1>10 DEF Done, End
  <2>4. Busy'  BY <1>0, <1>10 DEF Done, End
  <2> QED  BY ONLY <2>1, <2>2, <2>3, <2>4
<1>11. ASSUME Begin  PROVE Busy' /\ Counts' /\ Stage' /\ Players'
  <2>1. Players'  BY <1>0, <1>11 DEF Begin, Drafts
  <2>2. Counts'  BY <1>0, <1>00, <1>11 DEF Begin
  <2>3. Busy'  BY <1>0, <1>11 DEF Begin
  <2>4. Stage'  BY <1>11 DEF Begin
  <2> QED  BY ONLY <2>1, <2>2, <2>3, <2>4
<1>14. ASSUME JoinsTeam  PROVE Busy' /\ Counts' /\ Stage' /\ Players'
  <2>1. Players'  BY <1>0, <1>14 DEF JoinsTeam
  <2>2. Counts'  BY <1>0, <1>14 DEF JoinsTeam
  <2>3. Busy' /\ Stage'  BY <1>0, <1>14 DEF JoinsTeam
  <2> QED  BY ONLY <2>1, <2>2, <2>3
<1>12. Busy' /\ Counts' /\ Stage' /\ Players'
  <2> HIDE DEF Busy, Counts, Stage, Players
  <2> QED
    BY <1>1, <1>2, <1>3, <1>4, <1>5, <1>6, <1>7, <1>8, <1>9, <1>10, <1>11, <1>14,
       DraftSteps, SelectIs
<1>13. \A P \in [Seat -> Picking], a \in Arriving :
         /\ \A q \in Seat : P[q].step \in {"none", "down", "pick", "mark"}
                            /\ P[q].k \in Seat /\ P[q].j \in Seat
         /\ a.who \in Seat \cup {-1}
         /\ a.store \in {"OFF", "CAPTAIN_UP", "CAPTAIN_DOWN"}
  BY BusyTypes
<1> QED  BY <1>12, <1>13 DEF DraftTypes, DraftTypeOK

\* The types that the next steps keep needing.
LEMMA DraftTyped ==
  ASSUME DraftIInv
  PROVE  /\ p_inl_draft \in [Seat -> Drafts] /\ p_inl_captain \in [Seat -> BOOLEAN]
         /\ d_team \in [Seat -> DTeam \cup {"NOBODY"}] /\ d_side \in [Seat -> DTeam]
         /\ d_status \in [Seat -> {"PFREE", "POUTFIT", "PALIVE"}]
         /\ captain \in [DTeam -> Seat \cup {-1}] /\ pick \in [Seat -> Picking]
         /\ raced \in BOOLEAN /\ "NOBODY" \notin DTeam
         /\ joining \in Seat \cup {NoOne}
BY DEF DraftIInv, DraftTypes, DraftTypeOK, DTeam

\* Nobody but the pool loses a team, and a team and its queue change together.
LEMMA TeamsStep ==
  ASSUME DraftIInv, DraftNext
  PROVE  TeamsKept'
<1> USE DEF TeamsKept, Placed
<1>0. TeamsKept  BY DEF DraftIInv
<1>00. ASSUME JoinsTeam  PROVE TeamsKept'
  <2>1. /\ joining \in Seat /\ ~p_inl_captain[joining]
        /\ p_inl_draft[joining] \notin Placed
        /\ joining \notin snatched => /\ p_inl_draft[joining] = "MOVING_TO_POOL"
                                      /\ inl_draft = "MOVING_TO_POOL"
    BY <1>00 DEF JoinsTeam, DraftIInv, JoinKept
  <2> QED  BY <1>0, <1>00, <2>1, DraftTyped DEF JoinsTeam
<1>1. ASSUME NEW q \in Seat, Joins(q) \/ Arrival(q)  PROVE TeamsKept'
  <2>1. CASE Joins(q)  BY <1>0, <2>1, DraftTyped DEF Joins
  <2>2. CASE Arrival(q)
    <3>1. p_inl_draft[q] = "MOVING_TO_POOL" => ArrivalFrom[p_inl_draft[q]] = "POOLED"
      BY DEF ArrivalFrom
    <3>2. p_inl_draft[q] = "MOVING_TO_POOL" \/ p_inl_draft[q] # "POOLED"
      BY <2>2 DEF Arrival, ArrivalFrom
    <3> QED  BY <1>0, <2>2, <3>1, <3>2, DraftTyped DEF Arrival, ArrivalFrom
  <2> QED  BY <1>1, <2>1, <2>2
<1>2. ASSUME NEW q \in Seat, CaptainArrives(q)  PROVE TeamsKept'
  BY <1>0, <1>2 DEF CaptainArrives
<1>3. ASSUME NEW q \in Seat, Enter(q) \/ Leave(q) \/ DieInDraft(q)  PROVE TeamsKept'
  BY <1>0, <1>3, DraftTyped DEF Enter, Leave, DieInDraft
<1>4. ASSUME NEW q \in Seat, SelectDown(q) \/ DraftPick(q) \/ DraftMark(q)
      PROVE  TeamsKept'
  <2> DEFINE j == pick[q].j
             t == d_team[pick[q].k]
  <2>1. /\ pick[q].k \in Seat /\ j \in Seat /\ t \in DTeam
        /\ ~SelectDown(q) => ~p_inl_captain[j]
        /\ DraftMark(q) /\ j \notin snatched => d_team[j] \in DTeam
    BY <1>4, ProcessIs DEF DraftIInv, PicksKept, DraftMark
  <2>2. CASE SelectDown(q)  BY <1>0, <2>1, <2>2, DraftTyped DEF SelectDown
  <2>3. CASE DraftPick(q)
    <3>1. /\ d_team' = [d_team EXCEPT ![j] = t]
          /\ d_side' = IF t \in DTeam /\ d_team[j] # t
                       THEN [d_side EXCEPT ![j] = t] ELSE d_side
          /\ UNCHANGED <<d_status, p_inl_draft, p_inl_captain, inl_draft, snatched>>
      BY <2>3 DEF DraftPick
    <3>2. j \in Seat /\ t \in DTeam  BY <2>1
    <3> HIDE DEF j, t
    <3> QED  BY <1>0, <3>1, <3>2, DraftTyped
  <2>4. CASE DraftMark(q)
    <3>1. /\ p_inl_draft' = [p_inl_draft EXCEPT ![j] = "MOVING_TO_PICK"]
          /\ UNCHANGED <<d_status, d_team, d_side, p_inl_captain, inl_draft, snatched>>
      BY <2>4 DEF DraftMark
    <3>2. j \in Seat /\ (j \notin snatched => d_team[j] # "NOBODY")
      BY <2>1, <2>4, DraftTyped
    <3> HIDE DEF j
    <3> QED  BY <1>0, <3>1, <3>2, DraftTyped
  <2> QED  BY <1>4, <2>2, <2>3, <2>4
<1>5. ASSUME NEW q \in Seat, NEW k \in Seat, NEW j \in Seat, NEW pass \in BOOLEAN,
             Select(q, k, j, pass)
      PROVE  TeamsKept'
  <2>1. FirstOf(Others(k)) \in Staff  BY <1>5, CaptainsAre DEF Select
  <2> QED  BY <1>0, <1>5, <2>1, DraftTyped DEF Select, Staff
<1>6. ASSUME NEW q \in Seat, NEW j \in Seat, Delegate(q, j)  PROVE TeamsKept'
  BY <1>0, <1>6, DraftTyped DEF Delegate
<1>7. ASSUME NEW t \in DTeam, NEW q \in Seat,
             DoCaptain(t, q) \/ DoUncaptain(t, q) \/ Login(q, t)
      PROVE  TeamsKept'
  BY <1>0, <1>7, DraftTyped DEF DoCaptain, DoUncaptain, Login, IsCaptain
<1>8. ASSUME NEW t \in DTeam, PlayerMaint(t)  PROVE TeamsKept'
  BY <1>0, <1>8 DEF PlayerMaint
<1>9. ASSUME CaptainPlaced  PROVE TeamsKept'
  <2>1. arriving.who \in Seat /\ p_inl_captain[arriving.who]
    BY <1>9, BusyAre DEF CaptainPlaced, DraftIInv, ArrivalKept
  <2> QED  BY <1>0, <1>9, <2>1, DraftTyped DEF CaptainPlaced
<1>10. ASSUME Done \/ End  PROVE TeamsKept'
  <2>1. CASE Done
    <3>1. \A q \in Seat : d_status[q] = "PALIVE" /\ q \notin snatched
                         => d_team[q] # "NOBODY"
      BY <1>0, <2>1 DEF Done, PoolEmpty, Pool, Involved
    <3> QED  BY <1>0, <2>1, <3>1 DEF Done
  <2>2. CASE End  BY <1>0, <2>2 DEF End
  <2> QED  BY <1>10, <2>1, <2>2
<1>11. ASSUME Begin  PROVE TeamsKept'
  BY <1>0, <1>11, DraftTyped DEF Begin, Involved
<1> QED
  BY <1>1, <1>2, <1>3, <1>4, <1>5, <1>6, <1>7, <1>8, <1>9, <1>10, <1>11, <1>00,
     DraftSteps, SelectIs

\* What a selection goes by is not taken from it while it is in progress.
LEMMA PicksStep ==
  ASSUME DraftIInv, DraftNext
  PROVE  PicksKept'
<1> USE DEF PicksKept
<1>0. PicksKept  BY DEF DraftIInv
<1>01. \A q \in Seat : pick[q] # NoPick => pick[q].k \in Seat /\ pick[q].j \in Seat
  BY BusyAre DEF DraftIInv
<1>02. ASSUME JoinsTeam  PROVE PicksKept'
  <2>1. /\ joining \in Seat
        /\ \A q \in Seat : pick[q] # NoPick =>
             /\ pick[q].k # joining
             /\ ~pick[q].pass /\ joining \notin snatched => pick[q].j # joining
    BY <1>02 DEF JoinsTeam, DraftIInv, JoinKept
  <2>2. \A q \in Seat : pick[q] # NoPick =>
          /\ d_team'[pick[q].k] = d_team[pick[q].k]
          /\ ~pick[q].pass /\ pick[q].j \notin snatched
             => d_team'[pick[q].j] = d_team[pick[q].j]
    BY <1>01, <1>02, <2>1, DraftTyped DEF JoinsTeam
  <2>3. UNCHANGED <<p_inl_draft, p_inl_captain, pick, inl_draft, snatched>>
    BY <1>02 DEF JoinsTeam
  <2> QED  BY <1>0, <1>01, <2>2, <2>3
<1>1. ASSUME NEW q \in Seat, Joins(q) \/ Arrival(q)  PROVE PicksKept'
  <2>1. \A s \in DOMAIN ArrivalFrom : ArrivalFrom[s] # "OFF"  BY DEF ArrivalFrom
  <2> QED  BY <1>0, <1>01, <1>1, <2>1, DraftTyped DEF Joins, Arrival
<1>2. ASSUME NEW q \in Seat, CaptainArrives(q)  PROVE PicksKept'
  BY <1>0, <1>2 DEF CaptainArrives
<1>3. ASSUME NobodyBusy, pick' = pick  PROVE PicksKept'
  BY <1>3, NotBusy DEF NobodyPicks
<1>4. ASSUME NEW q \in Seat, SelectDown(q) \/ DraftPick(q) \/ DraftMark(q)
      PROVE  PicksKept'
  <2>1. /\ pick[q] # NoPick /\ pick[q].k \in Seat /\ pick[q].j \in Seat
        /\ d_team[pick[q].k] \in DTeam
    BY <1>4, ProcessIs DEF DraftIInv
  <2>2. \A p \in Seat : p # q => pick'[p] = pick[p]
    BY <1>4, ProcessIs, DraftTyped
  <2>3. \A k \in Seat : /\ d_team[k] \in DTeam => d_team'[k] \in DTeam
                        /\ p_inl_draft[k] # "OFF" => p_inl_draft'[k] # "OFF"
    <3>1. CASE SelectDown(q)  BY <2>1, <3>1, DraftTyped DEF SelectDown
    <3>2. CASE DraftPick(q)  BY <2>1, <3>2, DraftTyped DEF DraftPick
    <3>3. CASE DraftMark(q)  BY <2>1, <3>3, DraftTyped DEF DraftMark
    <3> QED  BY <1>4, <3>1, <3>2, <3>3
  <2>4. UNCHANGED <<inl_draft, p_inl_captain, snatched>>
    BY <1>4 DEF SelectDown, DraftPick, DraftMark
  <2>5. \/ pick'[q] = NoPick
        \/ /\ pick'[q].k = pick[q].k /\ pick'[q].j = pick[q].j
           /\ pick'[q].pass = pick[q].pass /\ ~pick[q].pass
           /\ pick'[q].step = "mark" => d_team'[pick[q].j] \in DTeam
    <3>1. DraftPick(q) => d_team'[pick[q].j] \in DTeam
      BY <2>1, DraftTyped DEF DraftPick
    <3> QED  BY <1>4, <3>1, ProcessIs, DraftTyped
  <2> HIDE DEF PicksKept
  <2>6. \A p \in Seat : pick'[p] # NoPick =>
          /\ pick[p] # NoPick /\ pick'[p].k = pick[p].k /\ pick'[p].j = pick[p].j
          /\ pick'[p].pass = pick[p].pass /\ pick'[p].k \in Seat /\ pick'[p].j \in Seat
          /\ pick'[p].step \in {"pick", "mark"} => ~pick[p].pass
          /\ pick'[p].step = "mark" /\ pick[p].j \notin snatched
             => d_team'[pick[p].j] \in DTeam
    BY <1>0, <1>01, <2>1, <2>2, <2>3, <2>5 DEF PicksKept
  <2> QED  BY <1>0, <1>01, <2>3, <2>4, <2>6 DEF PicksKept
<1>5. ASSUME NEW q \in Seat, NEW k \in Seat, NEW j \in Seat, NEW pass \in BOOLEAN,
             Select(q, k, j, pass), d_team[k] \in DTeam, p_inl_draft[k] = "CAPTAIN_UP",
             ~pass => ~p_inl_captain[j] /\ p_inl_draft[j] # "OFF"
      PROVE  PicksKept'
  <2>1. FirstOf(Others(k)) \in Seat  BY <1>5, CaptainsAre DEF Select, Staff
  <2>2. \A p \in Seat :
          pick'[p] = IF p = q THEN [step |-> "down", k |-> k, j |-> j, pass |-> pass]
                     ELSE pick[p]
    BY <1>5, DraftTyped DEF Select
  <2>3. /\ \A p \in Seat : p_inl_draft[p] # "OFF" => p_inl_draft'[p] # "OFF"
        /\ UNCHANGED <<d_team, inl_draft, p_inl_captain>> /\ snatched \subseteq snatched'
    BY <1>5, <2>1, DraftTyped DEF Select
  <2> QED  BY <1>0, <1>01, <1>5, <2>2, <2>3
<1>6. ASSUME NEW q \in Seat, NEW j \in Seat, Delegate(q, j)  PROVE PicksKept'
  BY <1>0, <1>01, <1>6, DraftTyped DEF Delegate
<1>7. ASSUME NEW t \in DTeam, PlayerMaint(t)  PROVE PicksKept'
  BY <1>0, <1>7 DEF PlayerMaint
<1>8. ASSUME CaptainPlaced  PROVE PicksKept'
  <2>1. arriving.who \in Seat /\ arriving.store # "OFF"
    BY <1>8, BusyAre DEF CaptainPlaced, DraftIInv, Placed
  <2> QED  BY <1>0, <1>01, <1>8, <2>1, DraftTyped DEF CaptainPlaced
<1>9. ASSUME Done \/ End  PROVE PicksKept'
  BY <1>0, <1>01, <1>9 DEF Done, End
<1>10. ASSUME NEW q \in Seat, Enter(q) \/ Leave(q) \/ DieInDraft(q)  PROVE PicksKept'
  BY <1>3, <1>10 DEF Enter, Leave, DieInDraft, DraftIdle
<1>11. ASSUME NEW t \in DTeam, NEW q \in Seat,
              DoCaptain(t, q) \/ DoUncaptain(t, q) \/ Login(q, t)
       PROVE  PicksKept'
  BY <1>3, <1>11 DEF DoCaptain, DoUncaptain, Login, DraftIdle
<1>12. ASSUME Begin  PROVE PicksKept'  BY <1>3, <1>12 DEF Begin, DraftIdle
<1>13. ASSUME NEW q \in Seat, NEW j \in Seat,
              SelectPass(q, j) \/ \E k \in Seat : SelectPick(q, k, j)
       PROVE  PicksKept'
  BY <1>5, <1>13, SelectIs
<1> QED
  BY <1>02, <1>1, <1>2, <1>4, <1>6, <1>7, <1>8, <1>9, <1>10, <1>11, <1>12, <1>13, DraftSteps

\* Who joins stays out of selections until the second store, or is in the history.
LEMMA JoinStep ==
  ASSUME DraftIInv, DraftNext
  PROVE  JoinKept'
<1> USE DEF JoinKept
<1>0. JoinKept /\ PicksKept  BY DEF DraftIInv
<1>01. /\ \A q \in Seat : pick[q] # NoPick => pick[q].k \in Seat /\ pick[q].j \in Seat
       /\ "CAPTAIN_UP" \in Placed /\ "CAPTAIN_DOWN" \in Placed
       /\ {"OFF", "MOVING_TO_POOL", "MOVING_TO_PICK", "PICKED", "PICKED_SELECTOR"}
          \cap Placed = {}
  BY BusyAre DEF DraftIInv, Placed
<1>1. ASSUME joining' = NoOne  PROVE JoinKept'  BY <1>1
<1>2. ASSUME NEW q \in Seat, Joins(q)  PROVE JoinKept'
  <2>1. CASE p_inl_captain[q]  BY <1>1, <1>2, <2>1 DEF Joins
  <2>2. CASE ~p_inl_captain[q]
    <3>1. /\ joining' = q /\ d_status'[q] = "PALIVE" /\ ~p_inl_captain'[q]
          /\ inl_draft' = "MOVING_TO_POOL" /\ pick' = pick
          /\ p_inl_draft'[q] = "MOVING_TO_POOL"
      BY <1>2, <2>2, DraftTyped DEF Joins
    <3>2. \A p \in Seat : pick[p] # NoPick => pick[p].k # q /\ (~pick[p].pass => pick[p].j # q)
      BY <1>0, <1>2 DEF Joins, PicksKept
    <3> QED  BY <1>01, <3>1, <3>2
  <2> QED  BY <2>1, <2>2
<1>3. ASSUME UNCHANGED <<joining, snatched, d_status, inl_draft>>,
             joining # NoOne => ~p_inl_captain'[joining],
             joining # NoOne => \/ p_inl_draft'[joining] = p_inl_draft[joining]
                                 \/ /\ p_inl_draft'[joining] \notin Placed \cup {"OFF"}
                                    /\ p_inl_draft[joining] # "MOVING_TO_POOL",
             \A q \in Seat : pick'[q] # NoPick =>
               /\ pick[q] # NoPick /\ pick'[q].k = pick[q].k /\ pick'[q].j = pick[q].j
               /\ pick'[q].pass = pick[q].pass
      PROVE  JoinKept'
  BY <1>0, <1>3
<1>4. ASSUME NEW q \in Seat, SelectDown(q) \/ DraftPick(q) \/ DraftMark(q)
      PROVE  JoinKept'
  <2>1. SUFFICES ASSUME joining # NoOne, joining' = joining  PROVE JoinKept'
    BY <1>1, <1>4 DEF SelectDown, DraftPick, DraftMark
  <2>2. /\ pick[q] # NoPick /\ pick[q].k \in Seat /\ pick[q].j \in Seat
        /\ joining \in Seat /\ pick[q].k # joining
        /\ ~SelectDown(q) => ~pick[q].pass
    BY <1>0, <1>4, <2>1, ProcessIs
  <2>3. \A p \in Seat : pick'[p] # NoPick =>
          /\ pick[p] # NoPick /\ pick'[p].k = pick[p].k /\ pick'[p].j = pick[p].j
          /\ pick'[p].pass = pick[p].pass
    <3>1. \A p \in Seat : p # q => pick'[p] = pick[p]
      BY <1>4, ProcessIs, DraftTyped
    <3>2. pick'[q] # NoPick => /\ pick'[q].k = pick[q].k /\ pick'[q].j = pick[q].j
                               /\ pick'[q].pass = pick[q].pass
      BY <1>4, ProcessIs, DraftTyped
    <3> QED  BY <2>2, <3>1, <3>2
  <2>4. UNCHANGED <<snatched, d_status, inl_draft, p_inl_captain>>
    BY <1>4 DEF SelectDown, DraftPick, DraftMark
  <2>5. CASE SelectDown(q) \/ DraftPick(q)
    <3>1. p_inl_draft'[joining] = p_inl_draft[joining]
      BY <2>2, <2>5, DraftTyped DEF SelectDown, DraftPick
    <3> QED  BY <1>0, <2>1, <2>3, <2>4, <3>1
  <2>6. CASE DraftMark(q)
    <3>1. p_inl_draft'[joining] = p_inl_draft[joining]
          \/ (joining = pick[q].j /\ p_inl_draft'[joining] = "MOVING_TO_PICK")
      BY <2>2, <2>6, DraftTyped DEF DraftMark
    <3>2. ~pick[q].pass  BY <2>6, ProcessIs DEF SelectDown, DraftMark
    <3> QED  BY <1>0, <1>01, <2>1, <2>2, <2>3, <2>4, <3>1, <3>2
  <2> QED  BY <1>4, <2>5, <2>6
<1>5. ASSUME NEW q \in Seat, NEW k \in Seat, NEW j \in Seat, NEW pass \in BOOLEAN,
             Select(q, k, j, pass), p_inl_draft[k] = "CAPTAIN_UP"
      PROVE  JoinKept'
  <2> DEFINE f == FirstOf(Others(k))
  <2>1. SUFFICES ASSUME joining # NoOne  PROVE JoinKept'
    BY <1>1, <1>5 DEF Select
  <2>2. f \in Seat /\ p_inl_captain[f]  BY <1>5, CaptainsAre DEF Select, Staff
  <2>3. /\ joining \in Seat /\ f # joining /\ k # joining
    BY <1>0, <1>01, <1>5, <2>1, <2>2
  <2>4. /\ UNCHANGED <<joining, d_status, inl_draft, p_inl_captain>>
        /\ p_inl_draft'[joining] = p_inl_draft[joining]
        /\ snatched \subseteq snatched' /\ (j = joining => joining \in snatched')
    BY <1>5, <2>2, <2>3, DraftTyped DEF Select
  <2>5. \A p \in Seat :
          pick'[p] = IF p = q THEN [step |-> "down", k |-> k, j |-> j, pass |-> pass]
                     ELSE pick[p]
    BY <1>5, DraftTyped DEF Select
  <2> HIDE DEF f
  <2> QED  BY <1>0, <2>1, <2>3, <2>4, <2>5
<1>6. ASSUME NEW q \in Seat, NEW j \in Seat, Delegate(q, j)  PROVE JoinKept'
  <2>1. joining # NoOne =>
          \/ p_inl_draft'[joining] = p_inl_draft[joining]
          \/ /\ p_inl_draft'[joining] \in {"PICKED", "PICKED_SELECTOR"}
             /\ p_inl_draft[joining] # "MOVING_TO_POOL"
    BY <1>0, <1>6, DraftTyped DEF Delegate
  <2> QED  BY <1>0, <1>01, <1>3, <1>6, <2>1 DEF Delegate
<1>7. ASSUME NEW t \in DTeam, PlayerMaint(t)  PROVE JoinKept'
  BY <1>0, <1>3, <1>7 DEF PlayerMaint
<1>8. ASSUME CaptainPlaced  PROVE JoinKept'
  <2>1. arriving.who \in Seat /\ p_inl_captain[arriving.who]
    BY <1>8, BusyAre DEF CaptainPlaced, DraftIInv, ArrivalKept
  <2> QED  BY <1>0, <1>3, <1>8, <2>1, DraftTyped DEF CaptainPlaced
<1>9. ASSUME NEW q \in Seat, NEW j \in Seat,
             SelectPass(q, j) \/ \E k \in Seat : SelectPick(q, k, j)
      PROVE  JoinKept'
  BY <1>5, <1>9, SelectIs
<1>10. ASSUME NEW q \in Seat,
              Arrival(q) \/ CaptainArrives(q) \/ Enter(q) \/ Leave(q) \/ DieInDraft(q)
       PROVE  JoinKept'
  BY <1>1, <1>10 DEF Arrival, CaptainArrives, Enter, Leave, DieInDraft, DraftIdle
<1>11. ASSUME NEW t \in DTeam, NEW q \in Seat,
              DoCaptain(t, q) \/ DoUncaptain(t, q) \/ Login(q, t)
       PROVE  JoinKept'
  BY <1>1, <1>11 DEF DoCaptain, DoUncaptain, Login, DraftIdle
<1>12. ASSUME JoinsTeam \/ Done \/ End \/ Begin  PROVE JoinKept'
  BY <1>1, <1>12 DEF JoinsTeam, Done, End, Begin, DraftIdle
<1> QED
  BY <1>2, <1>4, <1>6, <1>7, <1>8, <1>9, <1>10, <1>11, <1>12, DraftSteps

\* A captain who arrives stays a captain, and alive, until placed.
LEMMA ArrivalStep ==
  ASSUME DraftIInv, DraftNext
  PROVE  ArrivalKept'
<1> USE DEF ArrivalKept
<1>0. ArrivalKept  BY DEF DraftIInv
<1>1. ASSUME NEW q \in Seat, CaptainArrives(q)  PROVE ArrivalKept'
  BY <1>1 DEF CaptainArrives
<1>2. ASSUME NobodyBusy, arriving' = arriving  PROVE ArrivalKept'
  BY <1>2, NotBusy
<1>3. ASSUME arriving' = arriving, p_inl_captain' = p_inl_captain, d_status' = d_status
      PROVE  ArrivalKept'
  BY <1>0, <1>3
<1>4. ASSUME CaptainPlaced  PROVE ArrivalKept'  BY <1>4 DEF CaptainPlaced
<1>5. ASSUME NEW q \in Seat, NEW j \in Seat,
             SelectPass(q, j) \/ \E k \in Seat : SelectPick(q, k, j)
      PROVE  ArrivalKept'
  BY <1>3, <1>5, SelectIs DEF Select
<1> QED
  BY <1>1, <1>2, <1>3, <1>4, <1>5, DraftSteps
     DEF Begin, Enter, Leave, DieInDraft, DoCaptain, DoUncaptain, Login, Joins, Arrival,
         SelectDown, DraftPick, DraftMark, JoinsTeam, Delegate, PlayerMaint, Done,
         End, DraftIdle

\* Flags and records change together unless a captain is deposed.
LEMMA CaptainsStep ==
  ASSUME DraftIInv, DraftNext
  PROVE  CaptainsKept'
<1> USE DEF CaptainsKept, Staff, Involved
<1>0. CaptainsKept /\ TeamsKept  BY DEF DraftIInv
<1>01. /\ \A q \in Seat : pick[q] # NoPick => pick[q].k \in Seat /\ pick[q].j \in Seat
       /\ "CAPTAIN_UP" \in Placed /\ "CAPTAIN_DOWN" \in Placed
       /\ {"OFF", "MOVING_TO_POOL", "MOVING_TO_PICK", "MOVING_TO_HOME", "POOLED",
           "PICKED", "END", "PICKED_SELECTOR"} \cap Placed = {}
  BY BusyAre DEF DraftIInv, Placed
<1>02. ASSUME JoinsTeam  PROVE CaptainsKept'
  <2>1. joining \in Seat /\ ~p_inl_captain[joining]
    BY <1>02 DEF JoinsTeam, DraftIInv, JoinKept
  <2>2. \A p \in Seat : p_inl_captain[p] => d_team'[p] = d_team[p]
    BY <1>02, <2>1, DraftTyped DEF JoinsTeam
  <2> QED  BY <1>0, <1>02, <2>2 DEF JoinsTeam
<1>1. ASSUME NEW q \in Seat, Joins(q) \/ Arrival(q)  PROVE CaptainsKept'
  <2>1. \A s \in DOMAIN ArrivalFrom : ArrivalFrom[s] \notin Placed
    BY <1>01 DEF ArrivalFrom
  <2>2. \A p \in Seat : p_inl_draft'[p] \in Placed => p_inl_draft'[p] = p_inl_draft[p]
    BY <1>01, <1>1, <2>1, DraftTyped DEF Joins, Arrival
  <2>3. /\ \A p \in Seat : p_inl_captain[p] => d_team'[p] = d_team[p]
        /\ UNCHANGED <<d_status, p_inl_captain, captain, pick, deposed>>
    BY <1>1, DraftTyped DEF Joins, Arrival
  <2> QED  BY <1>0, <2>2, <2>3
<1>2. ASSUME NEW q \in Seat, CaptainArrives(q)  PROVE CaptainsKept'
  BY <1>0, <1>2 DEF CaptainArrives
<1>3. ASSUME NEW q \in Seat, Enter(q) \/ Leave(q) \/ DieInDraft(q)  PROVE CaptainsKept'
  <2>1. \A p \in Seat : pick'[p] = NoPick
    BY <1>3, NotBusy DEF Enter, Leave, DieInDraft, NobodyPicks, DraftIdle
  <2>2. CASE Enter(q)
    <3>1. \A p \in Seat : p_inl_captain[p] => d_team'[p] = d_team[p]
      BY <1>0, <2>2, DraftTyped DEF Enter, TeamsKept
    <3>2. \A p \in Seat \ {q} : d_status'[p] = d_status[p] /\ p_inl_draft'[p] = p_inl_draft[p]
      BY <2>2, DraftTyped DEF Enter
    <3>3. p_inl_draft'[q] = "OFF"  BY <2>2, DraftTyped DEF Enter
    <3> QED  BY <1>0, <1>01, <2>1, <2>2, <3>1, <3>2, <3>3 DEF Enter
  <2>3. CASE Leave(q) \/ DieInDraft(q)
    BY <1>0, <2>1, <2>3, DraftTyped DEF Leave, DieInDraft
  <2> QED  BY <1>3, <2>2, <2>3
<1>4. ASSUME NEW q \in Seat, SelectDown(q) \/ DraftPick(q) \/ DraftMark(q)
      PROVE  CaptainsKept'
  <2>1. pick[q] # NoPick /\ pick[q].k \in Seat /\ pick[q].j \in Seat
    BY <1>4, ProcessIs DEF DraftIInv
  <2>2. \A p \in Seat : pick'[p] # NoPick => pick[p] # NoPick /\ pick'[p].k = pick[p].k
    BY <1>4, <2>1, ProcessIs, DraftTyped
  <2>3. UNCHANGED <<d_status, p_inl_captain, captain, deposed>>
    BY <1>4 DEF SelectDown, DraftPick, DraftMark
  <2>4. \A p \in Seat : p_inl_captain[p] => d_team'[p] = d_team[p]
    <3>1. ~SelectDown(q) => ~p_inl_captain[pick[q].j]  BY <1>4, ProcessIs
    <3> QED  BY <1>4, <2>1, <3>1, DraftTyped DEF SelectDown, DraftPick, DraftMark
  <2>5. \A p \in Seat : p_inl_draft'[p] \in Placed =>
                          p_inl_draft[p] \in Placed \/ p = pick[q].k
    BY <1>01, <1>4, <2>1, DraftTyped DEF SelectDown, DraftPick, DraftMark
  <2> QED  BY <1>0, <2>1, <2>2, <2>3, <2>4, <2>5
<1>5. ASSUME NEW q \in Seat, NEW k \in Seat, NEW j \in Seat, NEW pass \in BOOLEAN,
             Select(q, k, j, pass), ~deposed => k \in Staff
      PROVE  CaptainsKept'
  <2> DEFINE f == FirstOf(Others(k))
  <2>1. f \in Seat /\ p_inl_captain[f]  BY <1>5, CaptainsAre DEF Select
  <2>2. \A p \in Seat : pick'[p] # NoPick =>
                          pick'[p].k = k \/ (pick[p] # NoPick /\ pick'[p].k = pick[p].k)
    BY <1>5, DraftTyped DEF Select
  <2>3. UNCHANGED <<d_status, p_inl_captain, captain, deposed, d_team>>
    BY <1>5 DEF Select
  <2>4. \A p \in Seat : p # f => p_inl_draft'[p] = p_inl_draft[p]
    BY <1>5, <2>1, DraftTyped DEF Select
  <2> HIDE DEF f
  <2> QED  BY <1>0, <1>5, <2>1, <2>2, <2>3, <2>4
<1>6. ASSUME NEW q \in Seat, NEW j \in Seat, Delegate(q, j)  PROVE CaptainsKept'
  BY <1>0, <1>01, <1>6, DraftTyped DEF Delegate
<1>7. ASSUME NEW t \in DTeam, NEW q \in Seat,
             DoCaptain(t, q) \/ DoUncaptain(t, q) \/ Login(q, t)
      PROVE  CaptainsKept'
  <2>1. \A p \in Seat : pick'[p] = NoPick
    BY <1>7, NotBusy DEF DoCaptain, DoUncaptain, Login, NobodyPicks, DraftIdle
  <2>2. CASE DoCaptain(t, q)
    <3>1. SUFFICES ASSUME ~deposed, captain[t] = -1  PROVE CaptainsKept'
      BY <2>2 DEF DoCaptain
    <3>2. /\ captain' = [captain EXCEPT ![t] = q]
          /\ p_inl_captain' = [p_inl_captain EXCEPT ![q] = TRUE]
          /\ UNCHANGED <<d_status, d_team, p_inl_draft>> /\ d_team[q] = t
      BY <2>2, <3>1, SeatsAre DEF DoCaptain
    <3>3. \A p \in Staff : captain[d_team[p]] = p /\ d_team[p] \in DTeam /\ d_team[p] # t
      BY <1>0, <3>1, DraftTyped, SeatsAre DEF TeamsKept
    <3>4. \A p \in Staff' : p = q \/ p \in Staff  BY <3>2, DraftTyped
    <3>5. \A p \in Staff' : captain'[d_team'[p]] = p
      BY <3>2, <3>3, <3>4, DraftTyped
    <3>6. \A p \in Seat : p_inl_captain[p] => p_inl_captain'[p]  BY <3>2, DraftTyped
    <3> QED  BY <1>0, <2>1, <3>1, <3>2, <3>5, <3>6
  <2>3. CASE DoUncaptain(t, q)  BY <2>3 DEF DoUncaptain
  <2>4. CASE Login(q, t)  BY <1>0, <2>1, <2>4, DraftTyped DEF Login
  <2> QED  BY <1>7, <2>2, <2>3, <2>4
<1>8. ASSUME NEW t \in DTeam, PlayerMaint(t)  PROVE CaptainsKept'
  BY <1>0, <1>8, DraftTyped DEF PlayerMaint, TeamsKept
<1>9. ASSUME CaptainPlaced  PROVE CaptainsKept'
  <2>1. arriving.who \in Seat /\ p_inl_captain[arriving.who]
    BY <1>9, BusyAre DEF CaptainPlaced, DraftIInv, ArrivalKept
  <2> QED  BY <1>0, <1>9, <2>1, DraftTyped DEF CaptainPlaced
<1>10. ASSUME Done \/ End  PROVE CaptainsKept'
  BY <1>0, <1>01, <1>10, DraftTyped DEF Done, End
<1>11. ASSUME Begin  PROVE CaptainsKept'
  BY <1>0, <1>01, <1>11, DraftTyped DEF Begin
<1> QED
  BY <1>1, <1>2, <1>3, <1>4, <1>5, <1>6, <1>7, <1>8, <1>9, <1>10, <1>11, <1>02,
     DraftSteps, SelectIs

\* The history notices a second selection or arrival.
LEMMA OneAtATimeStep ==
  ASSUME DraftIInv, DraftNext
  PROVE  OneAtATime'
<1> USE DEF OneAtATime
<1>0. OneAtATime  BY DEF DraftIInv
<1>1. ASSUME NobodyBusy, pick' = pick  PROVE OneAtATime'
  BY <1>1, NotBusy DEF NobodyPicks
<1>2. ASSUME pick' = pick, arriving' = arriving, raced' = raced  PROVE OneAtATime'
  BY <1>0, <1>2
<1>3. ASSUME NEW q \in Seat, CaptainArrives(q)  PROVE OneAtATime'
  BY <1>1, <1>3 DEF CaptainArrives, Overlaps
<1>4. ASSUME NEW q \in Seat, SelectDown(q) \/ DraftPick(q) \/ DraftMark(q)
      PROVE  OneAtATime'
  <2>1. \A p \in Seat : pick'[p] # NoPick => pick[p] # NoPick
    BY <1>4, ProcessIs, DraftTyped
  <2> QED  BY <1>0, <1>4, <2>1 DEF SelectDown, DraftPick, DraftMark
<1>5. ASSUME NEW q \in Seat, NEW k \in Seat, NEW j \in Seat, NEW pass \in BOOLEAN,
             Select(q, k, j, pass)
      PROVE  OneAtATime'
  BY <1>5, NotBusy, DraftTyped DEF Select, Overlaps, NobodyPicks
<1>6. ASSUME CaptainPlaced  PROVE OneAtATime'  BY <1>0, <1>6 DEF CaptainPlaced
<1>7. ASSUME Done \/ End  PROVE OneAtATime'
  BY <1>1, <1>7 DEF Done, End, Overlaps
<1>8. ASSUME NEW q \in Seat,
             \/ Joins(q) \/ Arrival(q) \/ Enter(q) \/ Leave(q) \/ DieInDraft(q)
             \/ JoinsTeam \/ \E j \in Seat : Delegate(q, j)
             \/ \E t \in DTeam : \/ DoCaptain(t, q) \/ DoUncaptain(t, q) \/ Login(q, t)
                                \/ PlayerMaint(t)
      PROVE  OneAtATime'
  BY <1>2, <1>8 DEF Joins, Arrival, Enter, Leave, DieInDraft, Delegate, DoCaptain,
                    DoUncaptain, Login, PlayerMaint, JoinsTeam
<1>9. ASSUME Begin  PROVE OneAtATime'  BY <1>1, <1>9 DEF Begin, DraftIdle
<1>10. Seat # {}  BY SeatsAre
<1> QED
  BY <1>3, <1>4, <1>5, <1>6, <1>7, <1>8, <1>9, <1>10, DraftSteps, SelectIs

\* A team has one captain, unless one was deposed: of three, two are the same.
LEMMA TwoCaptains ==
  ASSUME DraftIInv, ~deposed
  PROVE  /\ \A a, b \in Staff : d_team[a] = d_team[b] => a = b
         /\ \A a, b, k \in Staff : a # k /\ b # k => a = b
         /\ \A a \in Staff : d_team[a] \in DTeam
<1>1. \A a \in Staff : captain[d_team[a]] = a /\ d_team[a] \in DTeam
  BY DraftTyped DEF DraftIInv, CaptainsKept, TeamsKept, Staff
<1> QED  BY <1>1 DEF DTeam

\* The captain who waits is always seen by one who has the pick.
LEMMA OneIsUpStep ==
  ASSUME DraftIInv, DraftNext
  PROVE  OneIsUp'
<1> USE DEF OneIsUp, UpBut
<1>0. OneIsUp /\ CaptainsKept  BY DEF DraftIInv
<1>01. /\ \A q \in Seat : pick[q] # NoPick =>
            pick[q].k \in Seat /\ (~deposed => pick[q].k \in Staff)
       /\ NoPick.step = "none" /\ NoArrival.store = "OFF" /\ Staff \subseteq Seat
  BY BusyAre DEF DraftIInv, CaptainsKept, Staff
<1>1. ASSUME NobodyBusy, pick' = pick, arriving' = arriving,
             ~raced' /\ ~deposed' => \/ ~raced /\ ~deposed
                                     \/ \A a \in Staff' : p_inl_draft'[a] # "CAPTAIN_DOWN",
             \A a \in Staff' : p_inl_draft'[a] = "CAPTAIN_DOWN"
                               => a \in Staff /\ p_inl_draft[a] = "CAPTAIN_DOWN"
      PROVE  OneIsUp'
  BY <1>0, <1>1, NotBusy
<1>2. ASSUME UNCHANGED <<Staff, pick, arriving, raced, deposed>>,
             \A a \in Staff : p_inl_draft'[a] = "CAPTAIN_DOWN"
                              => p_inl_draft[a] = "CAPTAIN_DOWN",
             \A a \in Staff : p_inl_draft[a] = "CAPTAIN_UP"
                              => p_inl_draft'[a] = "CAPTAIN_UP"
      PROVE  OneIsUp'
  BY <1>0, <1>2
<1>02. ASSUME JoinsTeam  PROVE OneIsUp'
  BY <1>2, <1>02 DEF JoinsTeam, Staff, Involved
<1>3. ASSUME NEW q \in Seat, Joins(q) \/ Arrival(q)  PROVE OneIsUp'
  <2>1. \A s \in DOMAIN ArrivalFrom : ArrivalFrom[s] # "CAPTAIN_DOWN" /\ s # "CAPTAIN_UP"
    BY DEF ArrivalFrom
  <2>2. UNCHANGED <<Staff, pick, arriving, raced, deposed>>
    BY <1>3 DEF Joins, Arrival, Staff, Involved
  <2>3. \A a \in Staff : /\ p_inl_draft'[a] = "CAPTAIN_DOWN" => p_inl_draft[a] = "CAPTAIN_DOWN"
                         /\ p_inl_draft[a] = "CAPTAIN_UP" => p_inl_draft'[a] = "CAPTAIN_UP"
    BY <1>01, <1>3, <2>1, DraftTyped DEF Joins, Arrival
  <2> QED  BY <1>2, <2>2, <2>3
<1>4. ASSUME NEW q \in Seat, CaptainArrives(q)  PROVE OneIsUp'
  <2>1. SUFFICES ASSUME ~raced', ~deposed'  PROVE OneIsUp'  OBVIOUS
  <2>2. ~raced /\ ~deposed /\ NobodyBusy  BY <1>4, <2>1 DEF CaptainArrives, Overlaps
  <2>3. /\ UNCHANGED <<p_inl_draft, pick, Staff>>
        /\ arriving'.who = q /\ arriving'.store = NextUp(q) /\ q \in Staff
    BY <1>4 DEF CaptainArrives, Staff, Involved
  <2>4. ASSUME NextUp(q) = "CAPTAIN_DOWN"  PROVE UpBut(q)
    <3> DEFINE t == IF d_team[q] = "ROM" THEN "FED" ELSE "ROM"
               a == FirstOf(CaptainsOf(t))
    <3>1. CaptainsOf(t) # {} /\ p_inl_draft[a] = "CAPTAIN_UP"
      BY <2>4 DEF NextUp
    <3>2. a \in Staff /\ d_team[a] = t
      <4>1. a \in CaptainsOf(t)  BY <2>3, <3>1, CaptainsAre, Zenon DEF Staff
      <4> QED  BY <2>3, <4>1, CaptainsAre DEF Staff
    <3>3. a # q  BY <3>2
    <3> QED  BY <3>1, <3>2, <3>3
  <2> QED  BY <1>0, <2>2, <2>3, <2>4, NotBusy
<1>5. ASSUME NEW q \in Seat, Enter(q) \/ Leave(q) \/ DieInDraft(q)  PROVE OneIsUp'
  <2>1. \A a \in Staff' : p_inl_draft'[a] = "CAPTAIN_DOWN"
                          => a \in Staff /\ p_inl_draft[a] = "CAPTAIN_DOWN"
    BY <1>5, DraftTyped DEF Enter, Leave, DieInDraft, Staff, Involved
  <2> QED  BY <1>1, <1>5, <2>1 DEF Enter, Leave, DieInDraft, DraftIdle
<1>6. ASSUME NEW q \in Seat, SelectDown(q) \/ DraftPick(q) \/ DraftMark(q)
      PROVE  OneIsUp'
  <2>1. SUFFICES ASSUME ~raced', ~deposed'  PROVE OneIsUp'  OBVIOUS
  <2>2. ~raced /\ ~deposed /\ UNCHANGED <<arriving, Staff>>
    BY <1>6, <2>1 DEF SelectDown, DraftPick, DraftMark, Staff, Involved
  <2>3. pick[q] # NoPick /\ pick[q].k \in Staff /\ pick[q].j \in Seat
    BY <1>01, <1>6, <2>2, ProcessIs
  <2>4. arriving = NoArrival /\ \A p \in Seat \ {q} : pick[p] = NoPick
    BY <2>2, <2>3 DEF DraftIInv, OneAtATime
  <2>5. \A p \in Seat : pick'[p].step # "down"
    BY <1>01, <1>6, <2>4, ProcessIs, DraftTyped
  <2>6. CASE SelectDown(q)
    <3> DEFINE k == pick[q].k
    <3>1. PICK a \in Staff \ {k} : p_inl_draft[a] = "CAPTAIN_UP"
      BY <1>0, <2>2, <2>6 DEF SelectDown
    <3>2. \A b \in Staff : b = k \/ b = a  BY <2>2, <2>3, <3>1, TwoCaptains
    <3>3. p_inl_draft'[a] = "CAPTAIN_UP"
      BY <1>01, <2>6, <3>1, DraftTyped DEF SelectDown
    <3> HIDE DEF k
    <3> QED  BY <1>01, <2>2, <2>4, <2>5, <3>2, <3>3
  <2>7. CASE DraftPick(q) \/ DraftMark(q)
    <3>1. \A a \in Staff : p_inl_draft'[a] = "CAPTAIN_DOWN" => p_inl_draft[a] = "CAPTAIN_DOWN"
      BY <1>01, <2>3, <2>7, DraftTyped DEF DraftPick, DraftMark
    <3> QED  BY <1>0, <1>01, <2>2, <2>4, <2>5, <3>1
  <2> QED  BY <1>6, <2>6, <2>7
<1>7. ASSUME NEW q \in Seat, NEW k \in Seat, NEW j \in Seat, NEW pass \in BOOLEAN,
             Select(q, k, j, pass), ~deposed => k \in Staff
      PROVE  OneIsUp'
  <2> DEFINE f == FirstOf(Others(k))
  <2>1. SUFFICES ASSUME ~raced', ~deposed'  PROVE OneIsUp'  OBVIOUS
  <2>2. /\ ~raced /\ ~deposed /\ NobodyBusy /\ UNCHANGED <<arriving, Staff>>
        /\ p_inl_draft' = [p_inl_draft EXCEPT ![f] = "CAPTAIN_UP"]
        /\ pick' = [pick EXCEPT ![q] = [step |-> "down", k |-> k, j |-> j, pass |-> pass]]
    BY <1>7, <2>1 DEF Select, Overlaps, Staff, Involved
  <2>3. f \in Staff \ {k}  BY <1>7, CaptainsAre DEF Select
  <2> HIDE DEF f
  <2>4. \A p \in Seat : pick'[p].step = "down" => pick'[p].k = k
    BY <2>2, NotBusy, DraftTyped DEF NobodyPicks
  <2>5. p_inl_draft'[f] = "CAPTAIN_UP"  BY <1>01, <2>2, <2>3, DraftTyped
  <2>6. \A a \in Staff : p_inl_draft'[a] = "CAPTAIN_DOWN" => p_inl_draft[a] = "CAPTAIN_DOWN"
    BY <1>01, <2>2, <2>3, DraftTyped
  <2> QED  BY <1>0, <2>2, <2>3, <2>4, <2>5, <2>6, NotBusy
<1>8. ASSUME NEW q \in Seat, NEW j \in Seat, Delegate(q, j)  PROVE OneIsUp'
  <2>1. UNCHANGED <<Staff, pick, arriving, raced, deposed>>
    BY <1>8 DEF Delegate, Staff, Involved
  <2> QED  BY <1>01, <1>2, <1>8, <2>1, DraftTyped DEF Delegate
<1>9. ASSUME NEW t \in DTeam, NEW q \in Seat,
             DoCaptain(t, q) \/ DoUncaptain(t, q) \/ Login(q, t)
      PROVE  OneIsUp'
  <2>1. CASE DoUncaptain(t, q)  BY <2>1 DEF DoUncaptain
  <2>2. CASE DoCaptain(t, q)
    <3>1. SUFFICES ASSUME ~deposed  PROVE OneIsUp'  BY <2>2 DEF DoCaptain
    <3>2. \A a \in Staff' : p_inl_draft'[a] = "CAPTAIN_DOWN"
                            => a \in Staff /\ p_inl_draft[a] = "CAPTAIN_DOWN"
      BY <1>0, <2>2, <3>1, DraftTyped DEF DoCaptain, CaptainsKept, Staff, Involved, Placed
    <3> QED  BY <1>1, <2>2, <3>1, <3>2 DEF DoCaptain, DraftIdle
  <2>3. CASE Login(q, t)
    <3>1. \A a \in Staff' : p_inl_draft'[a] = "CAPTAIN_DOWN"
                            => a \in Staff /\ p_inl_draft[a] = "CAPTAIN_DOWN"
      BY <2>3, DraftTyped DEF Login, Staff, Involved
    <3> QED  BY <1>1, <2>3, <3>1 DEF Login, DraftIdle
  <2> QED  BY <1>9, <2>1, <2>2, <2>3
<1>10. ASSUME NEW t \in DTeam, PlayerMaint(t)  PROVE OneIsUp'
  BY <1>2, <1>10 DEF PlayerMaint, Staff, Involved
<1>11. ASSUME CaptainPlaced  PROVE OneIsUp'
  <2> DEFINE w == arriving.who
  <2>1. SUFFICES ASSUME ~raced', ~deposed'  PROVE OneIsUp'  OBVIOUS
  <2>2. /\ ~raced /\ ~deposed /\ UNCHANGED <<pick, Staff>> /\ arriving # NoArrival
        /\ p_inl_draft' = [p_inl_draft EXCEPT ![w] = arriving.store]
        /\ arriving' = NoArrival
    BY <1>11, <2>1 DEF CaptainPlaced, Staff, Involved
  <2>3. w \in Staff
    BY <2>2, BusyAre DEF DraftIInv, ArrivalKept, Staff, Involved
  <2>4. \A p \in Seat : pick[p] = NoPick
    BY <2>2 DEF DraftIInv, OneAtATime
  <2>5. ASSUME arriving.store = "CAPTAIN_DOWN"
        PROVE  \A a, b \in Staff :
                 p_inl_draft'[a] = "CAPTAIN_DOWN" /\ p_inl_draft'[b] = "CAPTAIN_DOWN" => a = b
    <3>1. PICK c \in Staff \ {w} : p_inl_draft[c] = "CAPTAIN_UP"
      BY <1>0, <2>2, <2>5
    <3>2. \A b \in Staff : b = w \/ b = c  BY <2>2, <2>3, <3>1, TwoCaptains
    <3>3. p_inl_draft'[c] = "CAPTAIN_UP"  BY <1>01, <2>2, <3>1, DraftTyped
    <3> HIDE DEF w
    <3> QED  BY <3>2, <3>3
  <2> HIDE DEF w
  <2> QED  BY <1>0, <1>01, <2>2, <2>3, <2>4, <2>5, DraftTyped
<1>12. ASSUME Done \/ End  PROVE OneIsUp'
  BY <1>1, <1>12 DEF Done, End, Overlaps, Staff, Involved
<1>13. ASSUME Begin  PROVE OneIsUp'
  <2>1. \A a \in Staff' : p_inl_draft'[a] # "CAPTAIN_DOWN"
    BY <1>13 DEF Begin, Staff, Involved
  <2> QED  BY <1>1, <1>13, <2>1 DEF Begin, DraftIdle
<1> QED
  BY <1>02, <1>3, <1>4, <1>5, <1>6, <1>7, <1>8, <1>9, <1>10, <1>11, <1>12, <1>13,
     DraftSteps, SelectIs

\* What the count says of the stages before, in and after the pool.
Quiet == NobodyBusy /\ lead = 0 /\ \A q \in Seat : p_inl_draft[q] = "OFF"
Homeward ==
  /\ NobodyBusy
  /\ \A q \in Seat : d_status[q] = "PALIVE"
                     => p_inl_draft[q] \in {"OFF", "MOVING_TO_HOME", "END"}
InTurn ==
  /\ lead = 1 => Behind("FED")
  /\ lead = -1 => Behind("ROM")
  /\ \A q \in Seat : pick[q].step \in {"pick", "mark"}
                     => p_inl_draft[pick[q].k] = "CAPTAIN_DOWN"
  /\ arriving # NoArrival => p_inl_draft[arriving.who] \notin Placed

\* The count in terms of these.
LEMMA LeadIs ==
  LeadKept <=> (lead # Uncounted =>
                  /\ ~raced /\ lead \in -1 .. 1
                  /\ inl_draft = "OFF" => Quiet
                  /\ inl_draft # "OFF" => ~deposed /\ \A q \in Staff : d_status[q] = "PALIVE"
                  /\ inl_draft = "MOVING_TO_HOME" => Homeward
                  /\ inl_draft = "MOVING_TO_POOL" => InTurn)
BY DEF LeadKept, Quiet, Homeward, InTurn

\* The count and its stage stay what they are, and who waits goes on waiting.
LEMMA InTurnSame ==
  ASSUME InTurn, lead' = lead, pick' = pick, Staff' \subseteq Staff, arriving' = NoArrival,
         \A a \in Staff' : d_team'[a] = d_team[a],
         \A a \in Seat : p_inl_draft[a] = "CAPTAIN_DOWN" => p_inl_draft'[a] = "CAPTAIN_DOWN",
         \A q \in Seat : pick[q] # NoPick =>
           pick[q].k \in Seat
           /\ (d_team'[pick[q].k] = d_team[pick[q].k] \/ d_team'[pick[q].k] = "NOBODY"),
         NoPick.step = "none"
  PROVE  InTurn'
<1>1. \A t \in {"FED", "ROM"} : Behind(t) => Behind(t)'
  <2> SUFFICES ASSUME NEW t \in {"FED", "ROM"}, Behind(t)  PROVE Behind(t)'  OBVIOUS
  <2>1. ASSUME NobodyPicks', NEW a \in Staff', d_team'[a] = t
        PROVE  p_inl_draft'[a] = "CAPTAIN_DOWN"
    <3>1. NobodyPicks /\ a \in Staff /\ a \in Seat /\ d_team[a] = t
      BY <2>1 DEF NobodyPicks, Staff
    <3> QED  BY <3>1 DEF Behind
  <2>2. ASSUME NEW q \in Seat, pick'[q] # NoPick  PROVE d_team'[pick'[q].k] # t
    BY <2>2 DEF Behind
  <2> QED  BY <2>1, <2>2 DEF Behind
<1>2. ASSUME NEW q \in Seat, pick'[q].step \in {"pick", "mark"}
      PROVE  p_inl_draft'[pick'[q].k] = "CAPTAIN_DOWN"
  BY <1>2 DEF InTurn
<1> QED  BY <1>1, <1>2 DEF InTurn

\* Only in the pool is anybody busy that is counted, or has a captain's place.
LEMMA OnlyInPool ==
  ASSUME DraftIInv, lead # Uncounted
  PROVE  /\ ~NobodyBusy => inl_draft = "MOVING_TO_POOL"
         /\ \A q \in Seat : /\ d_status[q] = "PALIVE"
                            /\ p_inl_draft[q] \notin {"OFF", "MOVING_TO_HOME", "END"}
                            => inl_draft = "MOVING_TO_POOL"
         /\ ~raced /\ lead \in -1 .. 1
         /\ inl_draft # "OFF" => ~deposed
BY DEF DraftIInv, DraftTypes, DraftTypeOK, LeadKept

\* The team that is ahead gets its next turn after the other one.
LEMMA LeadStep ==
  ASSUME DraftIInv, DraftNext
  PROVE  LeadKept'
<1> DEFINE Stays == inl_draft # "OFF" => ~deposed /\ \A q \in Staff : d_status[q] = "PALIVE"
<1>0. lead # Uncounted =>
        /\ ~raced /\ lead \in -1 .. 1
        /\ inl_draft = "OFF" => Quiet
        /\ Stays
        /\ inl_draft = "MOVING_TO_HOME" => Homeward
        /\ inl_draft = "MOVING_TO_POOL" => InTurn
  BY LeadIs DEF DraftIInv
<1>00. ASSUME lead' # Uncounted =>
                /\ ~raced' /\ lead' \in -1 .. 1
                /\ inl_draft' = "OFF" => Quiet'
                /\ Stays'
                /\ inl_draft' = "MOVING_TO_HOME" => Homeward'
                /\ inl_draft' = "MOVING_TO_POOL" => InTurn'
       PROVE  LeadKept'
  BY <1>00 DEF LeadKept, Quiet, Homeward, InTurn
<1>01. /\ \A q \in Seat : pick[q] # NoPick => pick[q].k \in Seat /\ pick[q].j \in Seat
       /\ NoPick.step = "none" /\ NoArrival.store = "OFF" /\ Staff \subseteq Seat
       /\ 0 \in -1 .. 1 /\ 0 # Uncounted
  BY BusyAre DEF DraftIInv, Staff, Uncounted
<1>02. ASSUME JoinsTeam  PROVE LeadKept'
  <2>1. SUFFICES ASSUME lead' # Uncounted  PROVE LeadKept'  BY DEF LeadKept
  <2>2. /\ joining \in Seat /\ ~p_inl_captain[joining]
        /\ inl_draft = "MOVING_TO_POOL"
        /\ \A p \in Seat : pick[p] # NoPick => pick[p].k # joining
    BY <1>02 DEF JoinsTeam, DraftIInv, JoinKept
  <2>3. /\ UNCHANGED <<d_status, p_inl_draft, inl_draft, pick, arriving, raced, lead,
                       deposed, Staff>>
        /\ \A p \in Seat : p # joining => d_team'[p] = d_team[p]
    BY <1>02, DraftTyped DEF JoinsTeam, Staff, Involved
  <2>4. InTurn  BY <1>0, <2>1, <2>2, <2>3
  <2>5. InTurn'
    <3>1. joining \notin Staff  BY <2>2 DEF Staff
    <3>2. \A u \in {"FED", "ROM"} : Behind(u) => Behind(u)'
      BY <1>01, <2>2, <2>3, <3>1 DEF Behind, NobodyPicks
    <3> QED  BY <2>3, <2>4, <3>2 DEF InTurn
  <2> QED  BY <1>0, <1>00, <2>1, <2>2, <2>3, <2>5
<1>1. ASSUME NEW q \in Seat, Joins(q) \/ Arrival(q)  PROVE LeadKept'
  <2>1. SUFFICES ASSUME lead' # Uncounted  PROVE LeadKept'  BY DEF LeadKept
  <2>2. /\ UNCHANGED <<d_status, p_inl_captain, captain, inl_draft, drafting, pick,
                       arriving, raced, lead, deposed>>
        /\ drafting /\ arriving = NoArrival /\ d_status[q] = "PALIVE"
        /\ p_inl_draft[q] \in {"OFF", "MOVING_TO_POOL", "MOVING_TO_PICK", "MOVING_TO_HOME"}
        /\ p_inl_draft[q] = "MOVING_TO_HOME" => p_inl_draft'[q] = "END"
        /\ p_inl_draft[q] = "OFF" => inl_draft = "MOVING_TO_POOL"
        /\ \A p \in Seat : p # q => p_inl_draft'[p] = p_inl_draft[p]
        /\ \A p \in Seat : d_team'[p] = d_team[p]
                           \/ (~p_inl_captain[p] /\ d_team'[p] = "NOBODY")
    BY <1>1, DraftTyped DEF Joins, Arrival, ArrivalFrom
  <2>3. Staff' = Staff  BY <2>2 DEF Staff, Involved
  <2>4. inl_draft # "OFF"  BY <2>2 DEF DraftIInv, DraftTypes
  <2>5. ASSUME inl_draft = "MOVING_TO_HOME"  PROVE Homeward'
    BY <1>0, <2>1, <2>2, <2>5 DEF Homeward, NobodyBusy
  <2>6. ASSUME inl_draft = "MOVING_TO_POOL"  PROVE InTurn'
    <3>1. /\ InTurn /\ lead' = lead /\ pick' = pick
          /\ Staff' \subseteq Staff /\ arriving' = NoArrival
      BY <1>0, <2>1, <2>2, <2>3, <2>6
    <3>2. \A a \in Staff' : d_team'[a] = d_team[a]  BY <2>2, <2>3 DEF Staff
    <3>3. \A a \in Seat : p_inl_draft[a] = "CAPTAIN_DOWN" => p_inl_draft'[a] = "CAPTAIN_DOWN"
      BY <2>2
    <3>4. \A p \in Seat : pick[p] # NoPick =>
            pick[p].k \in Seat
            /\ (d_team'[pick[p].k] = d_team[pick[p].k] \/ d_team'[pick[p].k] = "NOBODY")
      BY <1>01, <2>2
    <3> QED  BY <1>01, <3>1, <3>2, <3>3, <3>4, InTurnSame
  <2> QED  BY <1>0, <1>00, <2>1, <2>2, <2>3, <2>4, <2>5, <2>6
<1>2. ASSUME NEW q \in Seat, CaptainArrives(q)  PROVE LeadKept'
  <2>1. SUFFICES ASSUME lead' # Uncounted  PROVE LeadKept'  BY DEF LeadKept
  <2>2. /\ NobodyBusy /\ lead' = lead /\ raced' = raced
        /\ UNCHANGED <<d_status, p_inl_draft, d_team, inl_draft, pick, deposed, Staff>>
        /\ arriving'.who = q
    BY <1>2, <2>1, DraftTyped DEF CaptainArrives, Overlaps, Staff, Involved
  <2>3. inl_draft = "MOVING_TO_POOL" /\ p_inl_draft[q] \notin Placed
    BY <1>2, <2>1, <2>2, OnlyInPool DEF CaptainArrives, Placed
  <2>4. InTurn'
    <3>1. InTurn  BY <1>0, <2>1, <2>2, <2>3
    <3>2. Behind("FED")' = Behind("FED") /\ Behind("ROM")' = Behind("ROM")
      BY <2>2 DEF Behind, NobodyPicks
    <3> QED  BY <2>2, <2>3, <3>1, <3>2 DEF InTurn
  <2> QED  BY <1>0, <1>00, <2>1, <2>2, <2>3, <2>4
<1>3. ASSUME NEW q \in Seat, Enter(q) \/ Leave(q) \/ DieInDraft(q)  PROVE LeadKept'
  <2>1. SUFFICES ASSUME lead' # Uncounted  PROVE LeadKept'  BY DEF LeadKept
  <2>2. /\ NobodyBusy /\ lead' = lead
        /\ UNCHANGED <<inl_draft, pick, arriving, raced, deposed, p_inl_captain>>
        /\ \A p \in Seat : p # q => /\ p_inl_draft'[p] = p_inl_draft[p]
                                    /\ d_team'[p] = d_team[p] /\ d_status'[p] = d_status[p]
        /\ \/ d_status'[q] # "PALIVE" /\ p_inl_draft'[q] = p_inl_draft[q]
           \/ d_status'[q] = "PALIVE" /\ p_inl_draft'[q] = "OFF"
        /\ d_status[q] = "PALIVE" => ~p_inl_captain[q]
        /\ d_status[q] # "PFREE"
    <3>1. CASE Enter(q)  BY <3>1, DraftTyped DEF Enter, DraftIdle
    <3>2. CASE Leave(q)  BY <3>2, DraftTyped DEF Leave, DraftIdle
    <3>3. CASE DieInDraft(q)  BY <2>1, <3>3, DraftTyped DEF DieInDraft, DraftIdle
    <3> QED  BY <1>3, <3>1, <3>2, <3>3
  <2>3. NobodyBusy'  BY <2>2 DEF NobodyBusy
  <2>4. inl_draft = "OFF" => Quiet'  BY <1>0, <2>1, <2>2, <2>3 DEF Quiet
  <2>5. inl_draft = "MOVING_TO_HOME" => Homeward'
    BY <1>0, <2>1, <2>2, <2>3 DEF Homeward
  <2>6. ASSUME inl_draft # "OFF"  PROVE q \notin Staff /\ q \notin Staff' /\ Staff' = Staff
    BY <1>0, <2>1, <2>2, <2>6 DEF Staff, Involved
  <2>7. Stays'  BY <1>0, <2>1, <2>2, <2>6 DEF Staff
  <2>8. ASSUME inl_draft = "MOVING_TO_POOL"  PROVE InTurn'
    <3>1. InTurn /\ q \notin Staff /\ Staff' = Staff  BY <1>0, <2>1, <2>2, <2>6, <2>8
    <3>2. \A t \in {"FED", "ROM"} : Behind(t) => Behind(t)'
      BY <1>01, <2>2, <3>1, NotBusy DEF Behind, NobodyPicks
    <3> QED  BY <1>01, <2>2, <3>1, <3>2, NotBusy DEF InTurn
  <2> QED  BY <1>0, <1>00, <2>1, <2>2, <2>4, <2>5, <2>7, <2>8
<1>4. ASSUME NEW q \in Seat, SelectDown(q) \/ DraftPick(q) \/ DraftMark(q)
      PROVE  LeadKept'
  <2>1. SUFFICES ASSUME lead' # Uncounted  PROVE LeadKept'  BY DEF LeadKept
  <2> DEFINE k == pick[q].k
             t == d_team[k]
  <2>2. pick[q] # NoPick /\ pick[q].j \in Seat /\ k \in Seat /\ pick[q].pass \in BOOLEAN
    BY <1>4, ProcessIs
  <2>3. UNCHANGED <<d_status, p_inl_captain, inl_draft, arriving, raced, deposed, Staff>>
    BY <1>4 DEF SelectDown, DraftPick, DraftMark, Staff, Involved
  <2>4. lead # Uncounted  BY <1>4, <2>1 DEF SelectDown, DraftPick, DraftMark, Turn
  <2>5. inl_draft = "MOVING_TO_POOL" /\ ~deposed /\ ~raced /\ InTurn
    BY <1>0, <2>2, <2>4, OnlyInPool DEF NobodyBusy
  <2>6. k \in Staff /\ t \in DTeam /\ \A a \in Staff : d_team[a] = t => a = k
    BY <2>2, <2>5, TwoCaptains DEF DraftIInv, CaptainsKept
  <2>7. arriving = NoArrival /\ \A p \in Seat \ {q} : pick[p] = NoPick
    BY <2>2, <2>5 DEF DraftIInv, OneAtATime
  <2>8. lead = 1 => t # "FED"  BY <2>2, <2>5 DEF InTurn, Behind
  <2>9. lead = -1 => t # "ROM"  BY <2>2, <2>5 DEF InTurn, Behind
  <2>10. lead \in -1 .. 1  BY <1>0, <2>4
  <2>11. /\ p_inl_draft'[k] = "CAPTAIN_DOWN"
         /\ \A a \in Staff : d_team'[a] = d_team[a]
    <3>1. CASE SelectDown(q)  BY <1>01, <2>2, <3>1, DraftTyped DEF SelectDown
    <3>2. CASE ~SelectDown(q)
      <4>1. ~p_inl_captain[pick[q].j]  BY <1>4, <3>2, ProcessIs
      <4>2. pick[q].j \notin Staff  BY <4>1 DEF Staff
      <4>3. p_inl_draft[k] = "CAPTAIN_DOWN"  BY <1>4, <2>5, <3>2 DEF InTurn, DraftPick, DraftMark
      <4> QED  BY <1>01, <1>4, <2>2, <2>6, <3>2, <4>2, <4>3, DraftTyped DEF DraftPick, DraftMark
    <3> QED  BY <1>4, <3>1, <3>2
  <2>12. Stays'  BY <1>0, <2>3, <2>4
  <2>13. CASE lead' = lead /\ pick'[q] # NoPick
    <3>1. pick'[q].k = k /\ \A p \in Seat \ {q} : pick'[p] = NoPick
      BY <1>4, <2>2, <2>7, <2>13, ProcessIs, DraftTyped
    <3>2. d_team'[k] = t  BY <2>6, <2>11
    <3>3. ~NobodyPicks'  BY <2>13 DEF NobodyPicks
    <3> HIDE DEF k, t
    <3>4. \A u \in {"FED", "ROM"} : t # u => Behind(u)'
      BY <3>1, <3>2, <3>3 DEF Behind
    <3>5. InTurn'
      BY <1>01, <2>3, <2>7, <2>8, <2>9, <2>11, <2>13, <3>1, <3>4 DEF InTurn
    <3> QED  BY <1>00, <2>3, <2>5, <2>10, <2>12, <2>13, <3>5
  <2>14. CASE lead' = Turn(k) /\ pick'[q] = NoPick
    <3>1. \A p \in Seat : pick'[p] = NoPick
      BY <1>4, <2>7, <2>14, ProcessIs, DraftTyped
    <3>2. lead' = IF t = "FED" THEN lead + 1 ELSE lead - 1
      BY <2>4, <2>14 DEF Turn
    <3>3. lead' \in -1 .. 1 /\ (lead' = 1 => t = "FED") /\ (lead' = -1 => t = "ROM")
      <4>1. t = "FED" \/ t = "ROM"  BY <2>6 DEF DTeam
      <4> HIDE DEF t
      <4> QED  BY ONLY <2>8, <2>9, <2>10, <3>2, <4>1
    <3>4. ASSUME NEW u, u = t  PROVE Behind(u)'
      <4>1. ASSUME NEW a \in Staff', d_team'[a] = u  PROVE p_inl_draft'[a] = "CAPTAIN_DOWN"
        BY <2>3, <2>6, <2>11, <3>4, <4>1
      <4> QED  BY <3>1, <4>1 DEF Behind
    <3>5. InTurn'
      <4> HIDE DEF t
      <4> QED  BY <1>01, <2>3, <2>7, <3>1, <3>3, <3>4 DEF InTurn
    <3> QED  BY <1>00, <2>3, <2>5, <2>12, <3>3, <3>5
  <2> QED
    <3>1. CASE SelectDown(q) /\ ~pick[q].pass
      <4>1. pick'[q].step = "pick" /\ lead' = lead
        BY <1>4, <3>1, ProcessIs, DraftTyped DEF SelectDown
      <4> QED  BY <1>01, <2>13, <4>1
    <3>2. CASE DraftPick(q)
      <4>1. pick'[q].step = "mark" /\ lead' = lead
        BY <2>2, <3>2, DraftTyped DEF DraftPick
      <4> QED  BY <1>01, <2>13, <4>1
    <3>3. CASE DraftMark(q) \/ (SelectDown(q) /\ pick[q].pass)
      BY <1>4, <2>14, <3>3, DraftTyped DEF SelectDown, DraftMark
    <3> QED  BY <1>4, <3>1, <3>2, <3>3
<1>5. ASSUME NEW q \in Seat, NEW k \in Seat, NEW j \in Seat, NEW pass \in BOOLEAN,
             Select(q, k, j, pass), p_inl_draft[k] = "CAPTAIN_UP", ~deposed => k \in Staff,
             d_status[q] = "PALIVE", p_inl_draft[q] \in {"CAPTAIN_UP", "PICKED_SELECTOR"}
      PROVE  LeadKept'
  <2>1. SUFFICES ASSUME lead' # Uncounted  PROVE LeadKept'  BY DEF LeadKept
  <2>2. /\ NobodyBusy /\ lead' = lead /\ raced' = raced
        /\ UNCHANGED <<d_status, d_team, inl_draft, arriving, deposed, Staff>>
        /\ pick' = [pick EXCEPT ![q] = [step |-> "down", k |-> k, j |-> j, pass |-> pass]]
    BY <1>5, <2>1, DraftTyped DEF Select, Overlaps, Staff, Involved
  <2>3. inl_draft = "MOVING_TO_POOL"  BY <1>5, <2>1, <2>2, OnlyInPool
  <2>4. InTurn /\ k \in Staff  BY <1>0, <1>5, <2>1, <2>2, <2>3, OnlyInPool
  <2>5. \A p \in Seat : IF p = q THEN /\ pick'[p].k = k /\ pick'[p].step = "down"
                        ELSE pick'[p] = NoPick
    BY <2>2, NotBusy, DraftTyped DEF NobodyPicks
  <2>6. ~NobodyPicks'  BY <1>01, <2>5 DEF NobodyPicks
  <2>7. \A u \in {"FED", "ROM"} : Behind(u) => Behind(u)'
    BY <1>5, <2>2, <2>4, <2>5, <2>6, NotBusy DEF Behind
  <2>8. InTurn'  BY <1>01, <2>2, <2>4, <2>5, <2>7, NotBusy DEF InTurn
  <2> QED  BY <1>0, <1>00, <2>1, <2>2, <2>3, <2>8
<1>6. ASSUME NEW q \in Seat, NEW j \in Seat, Delegate(q, j)  PROVE LeadKept'
  <2>1. SUFFICES ASSUME lead' # Uncounted  PROVE LeadKept'  BY DEF LeadKept
  <2>2. /\ UNCHANGED <<d_status, d_team, inl_draft, pick, arriving, raced, lead,
                       deposed, Staff>>
        /\ \A p \in Seat : p_inl_draft'[p] = p_inl_draft[p]
                           \/ (p_inl_draft[p] \notin Placed /\ p_inl_draft'[p] \notin Placed)
    BY <1>6, DraftTyped DEF Delegate, Staff, Involved, Placed
  <2>3. inl_draft = "MOVING_TO_POOL"  BY <1>6, <2>1, <2>2, OnlyInPool DEF Delegate
  <2>4. InTurn  BY <1>0, <2>1, <2>2, <2>3
  <2>5. InTurn'
    <3>1. arriving # NoArrival => arriving.who \in Seat  BY BusyAre DEF DraftIInv
    <3>2. \A u \in {"FED", "ROM"} : Behind(u) => Behind(u)'
      BY <1>01, <2>2 DEF Behind, NobodyPicks, Placed
    <3> QED  BY <1>01, <2>2, <2>4, <3>1, <3>2 DEF InTurn, Placed
  <2> QED  BY <1>0, <1>00, <2>1, <2>2, <2>3, <2>5
<1>7. ASSUME NEW t \in DTeam, NEW q \in Seat, Login(q, t)  PROVE LeadKept'
  <2>1. SUFFICES ASSUME lead' # Uncounted  PROVE LeadKept'  BY DEF LeadKept
  <2>2. /\ NobodyBusy /\ UNCHANGED <<d_team, inl_draft, pick, arriving, raced, lead,
                                     p_inl_draft, deposed>>
        /\ Staff' = Staff /\ q \notin Staff /\ d_status'[q] = "POUTFIT"
        /\ \A p \in Seat : p # q => d_status'[p] = d_status[p]
    BY <1>7, DraftTyped DEF Login, Staff, Involved, DraftIdle
  <2>3. Quiet' = Quiet /\ InTurn' = InTurn
    BY <2>2 DEF Quiet, InTurn, NobodyBusy, Behind, NobodyPicks
  <2>4. Homeward => Homeward'  BY <2>2 DEF Homeward, NobodyBusy
  <2>5. Stays => Stays'  BY <1>01, <2>2
  <2> QED  BY <1>0, <1>00, <2>1, <2>2, <2>3, <2>4, <2>5
<1>8. ASSUME NEW t \in DTeam, PlayerMaint(t)  PROVE LeadKept'
  BY <1>8 DEF PlayerMaint, DraftIInv, LeadKept, Behind, NobodyPicks, Staff, Involved,
              NobodyBusy
<1>9. ASSUME CaptainPlaced  PROVE LeadKept'
  <2> DEFINE w == arriving.who
  <2>1. SUFFICES ASSUME lead' # Uncounted  PROVE LeadKept'  BY DEF LeadKept
  <2>2. /\ arriving # NoArrival /\ arriving' = NoArrival
        /\ UNCHANGED <<d_status, d_team, inl_draft, pick, raced, lead, deposed, Staff>>
        /\ p_inl_draft' = [p_inl_draft EXCEPT ![w] = arriving.store]
    BY <1>9 DEF CaptainPlaced, Staff, Involved
  <2>3. inl_draft = "MOVING_TO_POOL"  BY <2>1, <2>2, OnlyInPool DEF NobodyBusy
  <2>4. InTurn /\ p_inl_draft[w] \notin Placed  BY <1>0, <2>1, <2>2, <2>3 DEF InTurn
  <2>5. \A a \in Seat : p_inl_draft[a] = "CAPTAIN_DOWN" => p_inl_draft'[a] = "CAPTAIN_DOWN"
    BY <2>2, <2>4, DraftTyped DEF Placed
  <2>6. \A q \in Seat : pick[q] # NoPick => pick[q].k \in Seat  BY <1>01
  <2>7. InTurn'
    <3> HIDE DEF w
    <3> QED  BY <1>01, <2>2, <2>4, <2>5, <2>6, InTurnSame
  <2> QED  BY <1>0, <1>00, <2>1, <2>2, <2>3, <2>7
<1>10. ASSUME Done  PROVE LeadKept'
  <2>1. SUFFICES ASSUME lead' # Uncounted  PROVE LeadKept'  BY DEF LeadKept
  <2>2. /\ NobodyBusy /\ lead' = lead /\ raced' = raced /\ inl_draft' = "MOVING_TO_HOME"
        /\ UNCHANGED <<d_status, pick, arriving, deposed, Staff>> /\ inl_draft # "OFF"
        /\ \A q \in Seat : d_status[q] = "PALIVE" => p_inl_draft'[q] = "MOVING_TO_HOME"
    BY <1>10, <2>1, DraftTyped DEF Done, Overlaps, Staff, Involved
  <2>3. Homeward'  BY <2>2 DEF Homeward, NobodyBusy
  <2> QED  BY <1>0, <1>00, <2>1, <2>2, <2>3
<1>11. ASSUME End  PROVE LeadKept'
  <2>1. SUFFICES ASSUME lead' # Uncounted  PROVE LeadKept'  BY DEF LeadKept
  <2>2. /\ NobodyBusy /\ lead' = 0 /\ ~raced' /\ inl_draft' = "OFF"
        /\ UNCHANGED <<pick, arriving>> /\ \A q \in Seat : p_inl_draft'[q] = "OFF"
    BY <1>11, <2>1 DEF End
  <2>3. Quiet'  BY <2>2 DEF Quiet, NobodyBusy
  <2> QED  BY <1>00, <1>01, <2>2, <2>3
<1>12. ASSUME Begin  PROVE LeadKept'
  <2>1. SUFFICES ASSUME lead' # Uncounted  PROVE LeadKept'  BY DEF LeadKept
  <2>2. /\ NobodyBusy /\ lead' = 0 /\ ~raced' /\ inl_draft' = "MOVING_TO_POOL"
        /\ ~deposed /\ UNCHANGED <<d_status, pick, arriving, deposed>>
    BY <1>12, <2>1 DEF Begin, DraftIdle
  <2>3. Staff' = Staff  BY <1>12 DEF Begin, Staff, Involved
  <2>4. \A q \in Staff : d_status[q] = "PALIVE"
    <3>1. \A q \in Staff : captain[d_team[q]] = q /\ d_team[q] \in DTeam
      BY <2>2, TwoCaptains DEF DraftIInv, CaptainsKept
    <3> QED  BY <1>12, <3>1 DEF Begin, IsCaptain
  <2>5. InTurn'  BY <1>01, <2>2, NotBusy DEF InTurn, NobodyBusy
  <2> QED  BY <1>00, <1>01, <2>2, <2>3, <2>4, <2>5
<1>13. ASSUME NEW t \in DTeam, NEW q \in Seat, DoCaptain(t, q) \/ DoUncaptain(t, q)
       PROVE  LeadKept'
  BY <1>13 DEF DoCaptain, DoUncaptain, LeadKept
<1> QED
  BY <1>02, <1>1, <1>2, <1>3, <1>4, <1>5, <1>6, <1>7, <1>8, <1>9, <1>10, <1>11, <1>12, <1>13,
     DraftSteps, SelectIs

\* Every step keeps all of it.
LEMMA DraftStep == DraftIInv /\ [DraftNext]_draftVars => DraftIInv'
<1>1. ASSUME DraftIInv, DraftNext  PROVE DraftIInv'
  <2>1. DraftTypes' /\ TeamsKept' /\ PicksKept' /\ JoinKept' /\ ArrivalKept'
    BY <1>1, DraftTypesStep, TeamsStep, PicksStep, JoinStep, ArrivalStep
  <2>2. CaptainsKept' /\ OneAtATime' /\ OneIsUp' /\ LeadKept'
    BY <1>1, CaptainsStep, OneAtATimeStep, OneIsUpStep, LeadStep
  <2> QED  BY <2>1, <2>2 DEF DraftIInv
<1>2. ASSUME DraftIInv, UNCHANGED draftVars  PROVE DraftIInv'
  <2>1. /\ DraftTypes' = DraftTypes /\ TeamsKept' = TeamsKept /\ PicksKept' = PicksKept
        /\ JoinKept' = JoinKept /\ ArrivalKept' = ArrivalKept
        /\ CaptainsKept' = CaptainsKept
    BY <1>2 DEF draftVars, DraftTypes, DraftTypeOK, TeamsKept, PicksKept, JoinKept,
                ArrivalKept, CaptainsKept, Staff, Involved
  <2>2. OneAtATime' = OneAtATime /\ OneIsUp' = OneIsUp /\ LeadKept' = LeadKept
    BY <1>2 DEF draftVars, OneAtATime, OneIsUp, UpBut, LeadKept, Behind, NobodyPicks,
                NobodyBusy, Staff, Involved
  <2> QED  BY <1>2, <2>1, <2>2 DEF DraftIInv
<1> QED  BY <1>1, <1>2

\* A draft of any number of players, however often they die, leave, join and
\* resign: everybody drafted has a team (inl_draft_pick), unless selected between
\* the two stores of joining the pool (inl_draft_assign_to_pool), the captains pick in turn
\* (inl_draft_next), and of two who have taken their places one has the pick.
THEOREM DraftHolds == DraftSpec => []DraftInv
<1>1. DraftIInv => DraftInv
  <2> SUFFICES ASSUME DraftIInv PROVE DraftInv  OBVIOUS
  <2>1. DraftTypeOK  BY DEF DraftIInv, DraftTypes
  <2>2. DraftedHaveTeam
    BY DraftTyped DEF DraftIInv, TeamsKept, DraftedHaveTeam, Drafted
  <2>3. TurnsAlternate  BY DEF DraftIInv, LeadKept, TurnsAlternate
  <2>4. SomebodyIsUp
    BY DEF DraftIInv, OneIsUp, SomebodyIsUp, Staff, Involved
  <2> QED  BY <2>1, <2>2, <2>3, <2>4 DEF DraftInv
<1> QED  BY <1>1, DraftFirst, DraftStep, PTL DEF DraftSpec
=============================================================================
