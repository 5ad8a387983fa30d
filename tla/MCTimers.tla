------------------------------ MODULE MCTimers ------------------------------
(***************************************************************************)
(* What runs on timers and must come to an end, for TLC: the orders of a   *)
(* ship, its phaser, the connection of its client, the tournament state,   *)
(* the clock of a league game, and its draft.  They share no variable, so  *)
(* a behaviour is one of one of them: "part" says which, and stays.        *)
(***************************************************************************)
EXTENDS Helm, Phaser, Connection, Tournament, InlGame, Draft

VARIABLE part

Victims == {"v", "w"}

timersVars == <<helmVars, phVars, connVars, tournVars, gameVars, draftVars, part>>

TimersInit ==
  /\ part \in {"helm", "phaser", "connection", "tournament", "inl", "draft"}
  /\ HelmInit /\ PhInit /\ ConnInit /\ TournInit /\ GameInit /\ DraftInit
  /\ part # "phaser" => ph_target = "v" /\ s_phaserfuse = 2
  /\ part # "connection" => allowed
  /\ part # "tournament" => ~inl_mode

TimersNext ==
  /\ UNCHANGED part
  /\ \/ /\ part = "helm" /\ HelmNext
        /\ UNCHANGED <<phVars, connVars, tournVars, gameVars, draftVars>>
     \/ /\ part = "phaser" /\ PhNext
        /\ UNCHANGED <<helmVars, connVars, tournVars, gameVars, draftVars>>
     \/ /\ part = "connection" /\ ConnNext
        /\ UNCHANGED <<helmVars, phVars, tournVars, gameVars, draftVars>>
     \/ /\ part = "tournament" /\ TournNext
        /\ UNCHANGED <<helmVars, phVars, connVars, gameVars, draftVars>>
     \/ /\ part = "inl" /\ GameNext
        /\ UNCHANGED <<helmVars, phVars, connVars, tournVars, draftVars>>
     \/ /\ part = "draft" /\ DraftNext
        /\ UNCHANGED <<helmVars, phVars, connVars, tournVars, gameVars>>

\* HelmFair, ConnFair, that of TournSpec, GameFair and DraftFair, each
\* for its own part.
TimersFair ==
  /\ WF_helmVars(part = "helm" /\ (Frame \/ SelfDestruct))
  /\ WF_helmVars(part = "helm" /\ UpdateTwarp)
  /\ WF_helmVars(part = "helm" /\ TimerFlags)
  /\ WF_connVars(part = "connection" /\ SrvStep)
  /\ SF_connVars(part = "connection" /\ FindsTcp)
  /\ WF_connVars(part = "connection" /\ SrvFlush)
  /\ WF_connVars(part = "connection" /\ Deliver)
  /\ WF_connVars(part = "connection" /\ SwitchTimeout)
  /\ WF_tournVars(part = "tournament" /\ TournFrame)
  /\ WF_gameVars(part = "inl" /\ Countdown)
  /\ WF_gameVars(part = "inl" /\ Clock)
  /\ WF_draftVars(part = "draft" /\ DraftUpdate)
  /\ WF_draftVars(part = "draft" /\ Process)
  /\ SF_draftVars(part = "draft" /\ Outfit)

TimersSpec == TimersInit /\ [][TimersNext]_timersVars /\ TimersFair
=============================================================================
