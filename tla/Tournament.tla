----------------------------- MODULE Tournament -----------------------------
(***************************************************************************)
(* Tournament mode: the state machine ts at the head of move() in the      *)
(* daemon.  While status->tourn is set, statistics count and empires       *)
(* surrender.  Players come and go between frames, and the administrator   *)
(* changes what the sysdef file says.                                      *)
(***************************************************************************)
EXTENDS Integers, FiniteSets

CONSTANTS
  TTeam,        \* the teams in play, as the bits FED, ROM, KLI and ORI
  TournPlayers, \* tournplayers: players of a team with a quorum
  TeamSize      \* slots of a team

ASSUME TournamentAssumption ==
  /\ TTeam \subseteq {1, 2, 4, 8}
  /\ TournPlayers \in Nat \ {0} /\ TeamSize \in Nat

VARIABLES
  ts,           \* the state of the machine
  tourn,        \* status->tourn
  crew,         \* the players of a team who count, from the slots
  quorum,       \* context->quorum: two teams, or less
  check_scum,   \* the option: look for players who play for two teams
  scummers,     \* such players are there
  inl_mode,     \* a league server
  said,         \* political_begin() not yet followed by political_end()
  held          \* history: what the last two frames found, latest first

tournVars == <<ts, tourn, crew, quorum, check_scum, scummers, inl_mode, said, held>>

TournTypeOK ==
  /\ ts \in {"TS_PICKUP", "TS_SCUMMERS", "TS_BEGIN", "TS_TOURNAMENT"}
  /\ tourn \in BOOLEAN /\ said \in -1 .. 1
  /\ crew \in [TTeam -> 0 .. TeamSize]
  /\ quorum \subseteq TTeam /\ Cardinality(quorum) <= 2
  /\ {check_scum, scummers, inl_mode} \subseteq BOOLEAN
  /\ held \in [1 .. 2 -> BOOLEAN]

TournInit ==
  /\ ts = "TS_PICKUP" /\ tourn = FALSE /\ said = 0
  /\ crew = [t \in TTeam |-> 0]
  /\ quorum = {}
  /\ check_scum = FALSE /\ scummers = FALSE /\ inl_mode \in BOOLEAN
  /\ held = <<FALSE, FALSE>>

-----------------------------------------------------------------------------

\* is_tournament_mode().
Ready == {t \in TTeam : crew[t] >= TournPlayers}
IsTournamentMode == Cardinality(Ready) > 1

\* Every case below tests once, which stores the first two teams and the
\* result.
Tests ==
  /\ quorum' = {t \in Ready : Cardinality({u \in Ready : u < t}) < 2}
  /\ held' = <<IsTournamentMode, held[1]>>

\* check_scummers().
Scum == check_scum /\ scummers

FramePickup ==
  /\ ts = "TS_PICKUP" /\ Tests
  /\ tourn' = FALSE
  /\ ts' = IF ~IsTournamentMode THEN ts
           ELSE IF Scum /\ ~inl_mode THEN "TS_SCUMMERS" ELSE "TS_BEGIN"
  /\ UNCHANGED said

FrameScummers ==
  /\ ts = "TS_SCUMMERS" /\ Tests
  /\ tourn' = FALSE
  /\ ts' = IF ~IsTournamentMode THEN "TS_PICKUP"
           ELSE IF Scum THEN ts ELSE "TS_BEGIN"
  /\ UNCHANGED said

\* Mutant: the war goes on when a team is no longer there.
FrameTournamentOn ==
  /\ ts \in {"TS_BEGIN", "TS_TOURNAMENT"} /\ Tests
  /\ tourn' = TRUE
  /\ ts' = "TS_TOURNAMENT"
  /\ said' = IF ts = "TS_BEGIN" THEN said + 1 ELSE said

\* Mutant: TS_BEGIN tests for itself and says nothing at the end.
FrameTournamentSilent ==
  /\ ts \in {"TS_BEGIN", "TS_TOURNAMENT"} /\ Tests
  /\ tourn' = TRUE
  /\ ts' = IF IsTournamentMode THEN "TS_TOURNAMENT" ELSE "TS_PICKUP"
  /\ said' = IF ts = "TS_BEGIN" THEN said + 1
             ELSE IF IsTournamentMode THEN said ELSE said - 1

\* TS_BEGIN falls through to TS_TOURNAMENT and that to TS_END, which leaves
\* tourn set until the next frame.
FrameTournament ==
  /\ ts \in {"TS_BEGIN", "TS_TOURNAMENT"} /\ Tests
  /\ tourn' = TRUE
  /\ ts' = IF IsTournamentMode THEN "TS_TOURNAMENT" ELSE "TS_PICKUP"
  /\ LET begun == IF ts = "TS_BEGIN" THEN said + 1 ELSE said
     IN  said' = IF IsTournamentMode THEN begun ELSE begun - 1

TournFrame ==
  /\ FramePickup \/ FrameScummers \/ FrameTournament
  /\ UNCHANGED <<crew, check_scum, scummers, inl_mode>>

\* A player joins a team or leaves it.
Musters(t, n) ==
  /\ n \in 0 .. TeamSize /\ n \in {crew[t] - 1, crew[t] + 1}
  /\ crew' = [crew EXCEPT ![t] = n]
  /\ UNCHANGED <<ts, tourn, quorum, check_scum, scummers, inl_mode, said, held>>

\* update_sys_defaults(), and players of one address in two teams.
Options ==
  /\ \/ check_scum' = ~check_scum /\ UNCHANGED scummers
     \/ scummers' = ~scummers /\ UNCHANGED check_scum
  /\ UNCHANGED <<ts, tourn, crew, quorum, inl_mode, said, held>>

TournNext ==
  \/ TournFrame \/ Options
  \/ \E t \in TTeam, n \in 0 .. TeamSize : Musters(t, n)

TournSpec == TournInit /\ [][TournNext]_tournVars /\ WF_tournVars(TournFrame)

-----------------------------------------------------------------------------
(* Properties *)

\* Statistics never count without opponents for longer than the frame that
\* notices: TS_BEGIN does not test again what TS_PICKUP found a frame before,
\* and TS_END leaves the flag to TS_PICKUP.  The opponents are known.
TournIsHeld == /\ tourn => held[1] \/ held[2]
               /\ held[1] <=> Cardinality(quorum) = 2

\* The players are told of the beginning and of the end of every tournament,
\* in turn, also of one that ends in the frame in which it begins.
ToldInTurn == said = IF ts = "TS_TOURNAMENT" THEN 1 ELSE 0

\* tourn, the teams and the announcements of move() tell of the same tournament.
TournInv ==
  TournTypeOK /\ TournIsHeld /\ ToldInTurn

\* Two teams that have a quorum, and keep it, get a tournament unless the
\* scum check stops it, and it ends when they are gone.
TournComes ==
  /\ (IsTournamentMode /\ ~Scum) ~> (tourn \/ ~IsTournamentMode \/ Scum)
  /\ ~IsTournamentMode ~> (~tourn \/ IsTournamentMode)
=============================================================================
