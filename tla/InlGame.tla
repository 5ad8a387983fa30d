------------------------------ MODULE InlGame ------------------------------
(***************************************************************************)
(* A league game under the INL robot (robots/inl.c, inlcomm.c): the one    *)
(* minute countdown, regulation time, extra time and overtime, pauses,     *)
(* timeouts and restarts.  One frame of inlmove() is three steps: the      *)
(* countdown, the commands that captains have sent (none is listened to    *)
(* during a countdown), and the game clock.                                *)
(*                                                                         *)
(* The score, and whether ships are calm enough for a timeout, are free.   *)
(***************************************************************************)
EXTENDS Integers, FiniteSets

CONSTANTS
  StartFuse,  \* frames of the countdown to the start
  PauseFuse,  \* frames of the countdown after a pause
  Regulation, \* inl_stat.time, in frames
  Overtime,   \* inl_stat.overtime, in frames
  ExtraTime,  \* frames of one cycle of extra time
  MaxExtra    \* cycles of extra time

ASSUME InlGameAssumption ==
  {StartFuse, PauseFuse, Regulation, Overtime, ExtraTime, MaxExtra}
    \subseteq Nat \ {0}

GameTeam == {"HOME", "AWAY"}
SFlag    == {"S_PREGAME", "S_COUNTDOWN", "S_TOURNEY", "S_OVERTIME", "S_FREEZE",
             "S_TMOUT"}
TFlag    == {"T_PAUSE", "T_RESTART", "T_TIMEOUT"}

VARIABLES
  s_flags,    \* inl_stat.flags
  t_flags,    \* inl_teams[].flags
  tmout,      \* inl_teams[].tmout: timeouts left
  cd_left,    \* inl_countdown.end - inl_stat.ticks
  cd_action,  \* inl_countdown.action
  clock,      \* inl_game.end - inl_stat.game_ticks
  extra,      \* inl_stat.extratime, in cycles
  gameup,     \* GU_PAUSED and GU_PRACTICE of status->gameup
  phase       \* where inlmove() is in the frame

gameVars == <<s_flags, t_flags, tmout, cd_left, cd_action, clock, extra, gameup,
              phase>>

GameTypeOK ==
  /\ s_flags \subseteq SFlag
  /\ t_flags \in [GameTeam -> SUBSET TFlag]
  /\ tmout \in [GameTeam -> {0, 1}]
  /\ cd_left \in 0 .. StartFuse + PauseFuse
  /\ cd_action \in {"start_tourney", "end_pause"}
  /\ clock \in 0 .. Regulation + Overtime + MaxExtra * ExtraTime
  /\ extra \in 0 .. MaxExtra
  /\ gameup \subseteq {"GU_PAUSED", "GU_PRACTICE"}
  /\ phase \in {"countdown", "commands", "clock"}

GameInit ==
  /\ s_flags = {"S_PREGAME"}
  /\ t_flags = [t \in GameTeam |-> {}]
  /\ tmout = [t \in GameTeam |-> 1]
  /\ cd_left = 0 /\ cd_action = "start_tourney"
  /\ clock = 0 /\ extra = 0
  /\ gameup = {"GU_PRACTICE"}
  /\ phase = "countdown"

\* Mutant: the robot forgets to lift the pause.
ResetGamePaused ==
  /\ s_flags' = {"S_PREGAME"}
  /\ t_flags' = [t \in GameTeam |-> {}]
  /\ tmout' = [t \in GameTeam |-> 1]
  /\ gameup' = gameup \cup {"GU_PRACTICE"}
  /\ clock' = 0
  /\ UNCHANGED <<cd_left, cd_action, extra>>

\* reset_inl(), which does not set extratime.
ResetGame ==
  /\ s_flags' = {"S_PREGAME"}
  /\ t_flags' = [t \in GameTeam |-> {}]
  /\ tmout' = [t \in GameTeam |-> 1]
  /\ gameup' = {"GU_PRACTICE"}
  /\ clock' = 0
  /\ UNCHANGED <<cd_left, cd_action, extra>>

-----------------------------------------------------------------------------
(* The countdown *)

\* start_tourney().
StartTourney ==
  /\ s_flags' = (s_flags \cup {"S_TOURNEY"}) \ {"S_PREGAME", "S_COUNTDOWN"}
  /\ gameup' = gameup \ {"GU_PRACTICE"}
  /\ clock' = Regulation

\* Mutant: the pause goes on behind the countdown.
EndPauseFrozen ==
  /\ s_flags' = s_flags \ {"S_COUNTDOWN"}
  /\ gameup' = gameup \ {"GU_PRACTICE", "GU_PAUSED"}
  /\ UNCHANGED clock

\* end_pause().
EndPause ==
  /\ s_flags' = s_flags \ {"S_FREEZE", "S_COUNTDOWN"}
  /\ gameup' = gameup \ {"GU_PRACTICE", "GU_PAUSED"}
  /\ UNCHANGED clock

\* player_maint(), then countdown() if there is one.
Countdown ==
  /\ phase = "countdown"
  /\ phase' = "commands"
  /\ \/ /\ "S_COUNTDOWN" \in s_flags /\ cd_left > 0
        /\ cd_left' = cd_left - 1
        /\ UNCHANGED <<s_flags, gameup, clock>>
     \/ /\ "S_COUNTDOWN" \in s_flags /\ cd_left = 0
        /\ \/ cd_action = "start_tourney" /\ StartTourney
           \/ cd_action = "end_pause" /\ EndPause
        /\ UNCHANGED cd_left
     \/ /\ "S_COUNTDOWN" \notin s_flags
        /\ UNCHANGED <<s_flags, gameup, clock, cd_left>>
  /\ UNCHANGED <<t_flags, tmout, cd_action, extra>>

-----------------------------------------------------------------------------
(* Commands *)

\* checkmess() listens.
Listens == phase = "commands" /\ "S_COUNTDOWN" \notin s_flags
InGame  == Listens /\ "S_PREGAME" \notin s_flags

\* start_countdown(), once the captains agree (InlSetup).
StartCountdown ==
  /\ Listens /\ "S_PREGAME" \in s_flags
  /\ s_flags' = {"S_COUNTDOWN"}
  /\ cd_left' = StartFuse /\ cd_action' = "start_tourney"
  /\ UNCHANGED <<t_flags, tmout, clock, extra, gameup, phase>>

\* inl_freeze().
Freeze ==
  /\ t_flags' = [t \in GameTeam |-> (t_flags[t] \ {"T_TIMEOUT"}) \cup {"T_PAUSE"}]
  /\ s_flags' = (s_flags \ {"S_TMOUT"}) \cup {"S_FREEZE"}
  /\ gameup' = {"GU_PRACTICE", "GU_PAUSED"}

\* The end of do_pause(), with the teams' flags f.
PauseOrGoOn(f) ==
  /\ t_flags' = f
  /\ \/ /\ \A t \in GameTeam : "T_PAUSE" \in f[t]
        /\ s_flags' = s_flags \cup {"S_FREEZE"}
        /\ gameup' = {"GU_PRACTICE", "GU_PAUSED"}
        /\ UNCHANGED <<cd_left, cd_action>>
     \/ /\ \A t \in GameTeam : "T_PAUSE" \notin f[t]
        /\ s_flags' = s_flags \cup {"S_COUNTDOWN"}
        /\ cd_left' = PauseFuse /\ cd_action' = "end_pause"
        /\ UNCHANGED gameup
     \/ /\ \E t, u \in GameTeam : "T_PAUSE" \in f[t] /\ "T_PAUSE" \notin f[u]
        /\ UNCHANGED <<s_flags, gameup, cd_left, cd_action>>
  /\ UNCHANGED <<tmout, clock, extra, phase>>

\* do_pause(): PAUSE, PAUSENOW and CONTINUE.
DoPause(t)    == InGame /\ PauseOrGoOn([t_flags EXCEPT ![t] = @ \cup {"T_PAUSE"}])
DoPauseNow    == InGame /\ PauseOrGoOn([u \in GameTeam |-> t_flags[u] \cup {"T_PAUSE"}])
DoContinue(t) ==
  /\ InGame /\ "T_PAUSE" \in t_flags[t]
  /\ PauseOrGoOn([t_flags EXCEPT ![t] = @ \ {"T_PAUSE"}])

\* do_restart().
DoRestart(t) ==
  /\ InGame
  /\ LET asks == [t_flags EXCEPT ![t] = @ \cup {"T_RESTART"}] IN
     \/ /\ \A u \in GameTeam : "T_RESTART" \in asks[u]
        /\ ResetGame
     \/ /\ \E u \in GameTeam : "T_RESTART" \notin asks[u]
        /\ t_flags' = asks
        /\ UNCHANGED <<s_flags, tmout, cd_left, cd_action, clock, extra, gameup>>
  /\ UNCHANGED phase

\* Mutant: a timeout that is taken back is taken back for both teams.
CancelTimeoutForBoth(t) ==
  /\ InGame /\ "T_TIMEOUT" \in t_flags[t]
  /\ t_flags' = [t_flags EXCEPT ![t] = @ \ {"T_TIMEOUT"}]
  /\ tmout' = [tmout EXCEPT ![t] = @ + 1]
  /\ s_flags' = s_flags \ {"S_TMOUT"}
  /\ UNCHANGED <<cd_left, cd_action, clock, extra, gameup, phase>>

\* do_timeout(): a second request takes the first one back.
CancelTimeout(t) ==
  /\ InGame /\ "T_TIMEOUT" \in t_flags[t]
  /\ t_flags' = [t_flags EXCEPT ![t] = @ \ {"T_TIMEOUT"}]
  /\ tmout' = [tmout EXCEPT ![t] = @ + 1]
  /\ s_flags' = IF \E u \in GameTeam \ {t} : "T_TIMEOUT" \in t_flags[u]
                THEN s_flags ELSE s_flags \ {"S_TMOUT"}
  /\ UNCHANGED <<cd_left, cd_action, clock, extra, gameup, phase>>

\* do_timeout(): a request, if any is left.
CallTimeout(t) ==
  /\ InGame /\ "T_TIMEOUT" \notin t_flags[t] /\ tmout[t] > 0
  /\ t_flags' = [t_flags EXCEPT ![t] = @ \cup {"T_TIMEOUT"}]
  /\ tmout' = [tmout EXCEPT ![t] = @ - 1]
  /\ s_flags' = s_flags \cup {"S_TMOUT"}
  /\ UNCHANGED <<cd_left, cd_action, clock, extra, gameup, phase>>

Command ==
  \/ StartCountdown \/ DoPauseNow
  \/ \E t \in GameTeam : DoPause(t) \/ DoContinue(t) \/ DoRestart(t)
                           \/ CancelTimeout(t) \/ CallTimeout(t)

-----------------------------------------------------------------------------
(* The clock *)

\* "return" before game_ticks is counted.
ClockStands ==
  /\ phase = "commands"
  /\ s_flags \cap {"S_TOURNEY", "S_OVERTIME"} = {} \/ "S_FREEZE" \in s_flags
  /\ phase' = "countdown"
  /\ UNCHANGED <<s_flags, t_flags, tmout, cd_left, cd_action, clock, extra, gameup>>

\* game_ticks++, and a timeout that is due freezes the game.
ClockRuns ==
  /\ phase = "commands"
  /\ s_flags \cap {"S_TOURNEY", "S_OVERTIME"} # {} /\ "S_FREEZE" \notin s_flags
  /\ phase' = "clock"
  /\ clock' = IF clock > 0 THEN clock - 1 ELSE 0
  /\ \/ "S_TMOUT" \in s_flags /\ Freeze
     \/ UNCHANGED <<s_flags, t_flags, gameup>>
  /\ UNCHANGED <<tmout, cd_left, cd_action, extra>>

\* end_tourney() with nobody ahead by enough.  In regulation it goes into
\* extra time, as long as there is any, if planets and score disagree, and
\* otherwise into overtime; in overtime it ends when time has run out.
MoreExtra ==
  /\ "S_TOURNEY" \in s_flags /\ extra < MaxExtra
  /\ extra' = extra + 1
  /\ clock' = clock + ExtraTime
  /\ UNCHANGED <<s_flags, t_flags, tmout, gameup, cd_left, cd_action>>
IntoOvertime ==
  /\ "S_TOURNEY" \in s_flags
  /\ s_flags' = (s_flags \ {"S_TOURNEY", "S_COUNTDOWN"}) \cup {"S_OVERTIME"}
  /\ clock' = clock + Overtime
  /\ UNCHANGED <<t_flags, tmout, gameup, cd_left, cd_action, extra>>
\* Mutant: overtime that runs out without a winner begins again.
NoWinnerAgain ==
  /\ "S_OVERTIME" \in s_flags /\ clock = 0
  /\ clock' = Overtime
  /\ UNCHANGED <<s_flags, t_flags, tmout, gameup, cd_left, cd_action, extra>>
NoWinner == "S_OVERTIME" \in s_flags /\ clock = 0 /\ ResetGame

\* It is called when time has run out, in overtime at every frame between
\* seconds, and after a genocide: somebody has won, or not.
EndTourney ==
  /\ phase = "clock"
  /\ ResetGame \/ MoreExtra \/ IntoOvertime \/ NoWinner
  /\ phase' = "countdown"

\* The frame ends without a call of end_tourney() that changes anything.
PlayOn ==
  /\ phase = "clock" /\ clock > 0
  /\ phase' = "countdown"
  /\ UNCHANGED <<s_flags, t_flags, tmout, cd_left, cd_action, clock, extra, gameup>>

Clock == ClockStands \/ ClockRuns \/ EndTourney \/ PlayOn

GameNext == Countdown \/ Command \/ Clock

\* The robot runs a frame at every alarm; captains need not do anything.
GameFair == WF_gameVars(Countdown) /\ WF_gameVars(Clock)

GameSpec == GameInit /\ [][GameNext]_gameVars /\ GameFair

-----------------------------------------------------------------------------
(* Properties *)

\* The robot and the daemon agree on whether the game is paused, and players
\* practise before the game and in a pause only, whichever of captain,
\* timeout, restart and end of the game comes first.
PauseAgrees ==
  /\ "S_FREEZE" \in s_flags <=> "GU_PAUSED" \in gameup
  /\ "S_FREEZE" \in s_flags => "S_PREGAME" \notin s_flags
  /\ (s_flags \cap {"S_TOURNEY", "S_OVERTIME"} # {} /\ "GU_PRACTICE" \in gameup)
       => "S_FREEZE" \in s_flags

\* A timeout is pending exactly while a team has called one, and no team gets
\* a second one by taking it back, freezing or playing on.
TimeoutAgrees ==
  /\ "S_TMOUT" \in s_flags <=> \E t \in GameTeam : "T_TIMEOUT" \in t_flags[t]
  /\ \A t \in GameTeam : "T_TIMEOUT" \in t_flags[t] => tmout[t] = 0

\* The flags of the robot, those of its teams and status->gameup agree.
GameInv ==
  GameTypeOK /\ PauseAgrees /\ TimeoutAgrees

\* The captains get a hearing again after every countdown, and a game that is
\* not paused comes to an end.
GameEnds ==
  /\ ("S_COUNTDOWN" \in s_flags) ~> ("S_COUNTDOWN" \notin s_flags)
  /\ (s_flags \cap {"S_TOURNEY", "S_OVERTIME"} # {})
       ~> (s_flags \cap {"S_PREGAME", "S_FREEZE"} # {})
=============================================================================
