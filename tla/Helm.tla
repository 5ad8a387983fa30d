-------------------------------- MODULE Helm --------------------------------
(***************************************************************************)
(* The orders a captain gives to one ship and what the ship then does by   *)
(* itself: the packet gate of doRead() (ntserv/socket.c), the handlers of  *)
(* interface.c, orbit.c and transwarp.c, auto_features() (redraw.c) and    *)
(* setflag() (input.c), which run on every update of the ntserv, and the   *)
(* daemon's frame for the ship (daemon.c).                                 *)
(*                                                                         *)
(* While the ship reprograms for war, refits or transwarps, its packets    *)
(* are ignored: only auto_features() and the timers give control back.     *)
(* Distance, fuel and the outcome of a fight are free; speed is stopped,   *)
(* slow enough to dock (warp 2), or fast.                                  *)
(***************************************************************************)
EXTENDS Integers, FiniteSets

CONSTANTS
  WarDelay,     \* frames until the battle computers are reprogrammed
  RefitDelay,   \* frames until a refit is over
  DestDelay,    \* frames until a self destruct
  EtempLimit    \* frames of transwarp until the engines are critical

ASSUME HelmAssumption ==
  /\ WarDelay \in Nat \ {0} /\ RefitDelay \in Nat \ {0}
  /\ DestDelay \in Nat \ {0} /\ EtempLimit \in Nat \ {0}

\* The orders that exclude each other, and the flags that close the gate.
Job  == {"PFSHIELD", "PFREPAIR", "PFBOMB", "PFBEAMUP", "PFBEAMDOWN"}
Gate == {"PFWAR", "PFREFITTING", "PFTWARP"}
HelmFlag == Job \cup Gate \cup {"PFCLOAK", "PFORBIT", "PFDOCK", "PFPLOCK",
                                "PFPLLOCK", "PFSELFDEST"}
Work  == {"PFBOMB", "PFBEAMUP", "PFBEAMDOWN"}
Berth == {"PFORBIT", "PFDOCK"}

VARIABLES
  me_status,    \* me->p_status: "PALIVE" or "PEXPLODE"
  me_flags,     \* me->p_flags
  me_speed,     \* me->p_speed: 0 stopped, 1 at most warp 2, 2 faster
  me_etemp,     \* me->p_etemp, in frames of transwarp
  war_left,     \* delay - me->p_updates
  refit_left,   \* rdelay - me->p_updates
  dest_left,    \* me->p_selfdest - me->p_updates
  target        \* players[me->p_playerl]: "base", "other" or "dead"

helmVars == <<me_status, me_flags, me_speed, me_etemp, war_left, refit_left,
              dest_left, target>>
timers   == <<war_left, refit_left, dest_left>>

HelmTypeOK ==
  /\ me_status \in {"PALIVE", "PEXPLODE"}
  /\ me_flags \subseteq HelmFlag
  /\ me_speed \in 0 .. 2
  /\ me_etemp \in 0 .. EtempLimit
  /\ war_left \in 0 .. WarDelay
  /\ refit_left \in 0 .. RefitDelay
  /\ dest_left \in 0 .. DestDelay
  /\ target \in {"base", "other", "dead"}

\* enter().
HelmInit ==
  /\ me_status = "PALIVE"
  /\ me_flags = {"PFSHIELD"}
  /\ me_speed = 0
  /\ me_etemp = 0
  /\ war_left = 0 /\ refit_left = 0 /\ dest_left = 0
  /\ target = "other"

On(flag) == flag \in me_flags

-----------------------------------------------------------------------------
(* Packets *)

\* doRead() passes a packet on only while the gate is open.
Accepts == me_status = "PALIVE" /\ me_flags \cap Gate = {}

\* A packet that is passed on cancels a self destruct first.
Packet(flags) ==
  /\ Accepts
  /\ me_flags' = flags \ {"PFSELFDEST"}
  /\ UNCHANGED <<me_status, me_etemp>>

\* An order that only changes flags.
Order(flags) == Packet(flags) /\ UNCHANGED <<me_speed, timers, target>>

\* set_speed(): the flags.
SpeedFlags(f) == f \ ({"PFREPAIR"} \cup Work \cup Berth)

\* set_course(): the flags.
CourseFlags(f) == f \ (Work \cup Berth)

SetSpeed(s) ==
  /\ Packet(SpeedFlags(me_flags))
  /\ me_speed' = s
  /\ UNCHANGED <<timers, target>>

\* handleDirReq(): a course ends the locks.
SetCourse == Order(CourseFlags(me_flags) \ {"PFPLOCK", "PFPLLOCK"})

\* Mutant: shields come up over the work in hand.
ShieldUpOnly == Order(me_flags \cup {"PFSHIELD"})

ShieldUp   == Order((me_flags \ Job) \cup {"PFSHIELD"})
ShieldDown == Order(me_flags \ {"PFSHIELD"})

\* bomb_planet(): in orbit of a planet of an enemy.
BombPlanet == On("PFORBIT") /\ Order((me_flags \ Job) \cup {"PFBOMB"})

\* beam_up() and beam_down(), with the planet or the base of the team.
BeamUp   == me_flags \cap Berth # {} /\ Order((me_flags \ Job) \cup {"PFBEAMUP"})
BeamDown == me_flags \cap Berth # {} /\ Order((me_flags \ Job) \cup {"PFBEAMDOWN"})

\* The same packets with state 0.
WorkOff == Order(me_flags \ {"PFBOMB"}) \/ Order(me_flags \ {"PFBEAMUP", "PFBEAMDOWN"})

\* repair(): locks end, too.
Repair == Order((me_flags \ (Job \cup {"PFPLOCK", "PFPLLOCK"})) \cup {"PFREPAIR"})
RepairOff == Order(me_flags \ {"PFREPAIR"})

CloakOn  == Order(me_flags \cup {"PFCLOAK"})
CloakOff == Order(me_flags \ {"PFCLOAK"})

\* lock_planet(), and lock_player() on a live player.
LockPlanet == Order((me_flags \ ({"PFPLOCK", "PFORBIT"} \cup Work)) \cup {"PFPLLOCK"})
LockPlayer(t) ==
  /\ t # "dead"
  /\ Packet((me_flags \ ({"PFPLLOCK", "PFORBIT"} \cup Work)) \cup {"PFPLOCK"})
  /\ target' = t
  /\ UNCHANGED <<me_speed, timers>>

\* handleOrbitReq() with state 0.
OrbitOff == Order(me_flags \ Berth)

-----------------------------------------------------------------------------
(* orbit() *)

\* What orbit() can do to the flags f: it is refused (another beam, nothing
\* in range, or already in a berth), dock() fails, dock() succeeds, or the
\* ship enters orbit.  A ship that is still in transwarp would have to refit.
Unlocked(f) == f \ {"PFPLOCK", "PFPLLOCK"}
AfterTwarp(f) ==
  IF "PFTWARP" \in f THEN (f \ {"PFTWARP"}) \cup {"PFREFITTING"} ELSE f

OrbitOutcome(f) ==
  LET failed == AfterTwarp(Unlocked(f))
      docked == AfterTwarp(Unlocked(f) \cup {"PFDOCK"})
      orbits == Unlocked(f) \cup {"PFORBIT"}
  IN  {f} \cup (IF f \cap Berth # {} THEN {} ELSE {failed, docked, orbits})

\* The flags and the speed after orbit().
Orbits(f, s, g) ==
  /\ g \in OrbitOutcome(f)
  /\ me_flags' = g
  /\ me_speed' = IF g \cap Berth # {} /\ g # f THEN 0 ELSE s
  /\ refit_left' = IF "PFREFITTING" \in g \ f THEN RefitDelay ELSE refit_left

\* handleOrbitReq(): not above warp 2.
Orbit ==
  /\ Accepts
  /\ me_speed < 2
  /\ \E g \in OrbitOutcome(me_flags \ {"PFSELFDEST"}) :
       Orbits(me_flags \ {"PFSELFDEST"}, me_speed, g)
  /\ UNCHANGED <<me_status, me_etemp, war_left, dest_left, target>>

-----------------------------------------------------------------------------
(* War, refit, transwarp, self destruct *)

\* declare_war() on a new team.  It leaves a base that is now hostile.
DeclaresWar ==
  /\ \E f \in {me_flags, me_flags \ {"PFDOCK"}} : Packet(f \cup {"PFWAR"})
  /\ war_left' = WarDelay
  /\ UNCHANGED <<me_speed, refit_left, dest_left, target>>

\* do_refit() in a berth of the team.
DoRefit ==
  /\ me_flags \cap Berth # {}
  /\ Packet(me_flags \cup {"PFREFITTING"})
  /\ refit_left' = RefitDelay
  /\ UNCHANGED <<me_speed, war_left, dest_left, target>>

\* Mutant: a transwarp is started without a lock on the base.
TranswarpUnlocked ==
  /\ target = "base"
  /\ me_speed < 2
  /\ me_flags \cap {"PFREPAIR", "PFCLOAK", "PFORBIT"} = {}
  /\ Packet((SpeedFlags(me_flags) \ {"PFPLLOCK"}) \cup {"PFSHIELD", "PFTWARP"})
  /\ me_speed' = 1
  /\ UNCHANGED <<timers, target>>

\* handleTranswarp(): locked on a base that takes us, at warp 2 or less, not
\* in repair, cloaked or in orbit, with cool engines.
Transwarp ==
  /\ On("PFPLOCK") /\ target = "base"
  /\ me_speed < 2
  /\ me_flags \cap {"PFREPAIR", "PFCLOAK", "PFORBIT"} = {}
  /\ Packet((SpeedFlags(me_flags) \ {"PFPLLOCK"})
              \cup {"PFSHIELD", "PFTWARP", "PFPLOCK"})
  /\ me_speed' = 1
  /\ UNCHANGED <<timers, target>>

\* handleQuitReq().
Quit ==
  /\ Accepts
  /\ me_flags' = me_flags \cup {"PFSELFDEST"}
  /\ dest_left' = DestDelay
  /\ UNCHANGED <<me_status, me_speed, me_etemp, war_left, refit_left, target>>

Orders ==
  \/ \E s \in 0 .. 2 : SetSpeed(s)
  \/ SetCourse \/ ShieldUp \/ ShieldDown
  \/ BombPlanet \/ BeamUp \/ BeamDown \/ WorkOff
  \/ Repair \/ RepairOff \/ CloakOn \/ CloakOff
  \/ LockPlanet \/ (\E t \in {"base", "other"} : LockPlayer(t))
  \/ Orbit \/ OrbitOff \/ DeclaresWar \/ DoRefit \/ Transwarp \/ Quit

-----------------------------------------------------------------------------
(* The update of the ntserv: auto_features(), then the timers *)

\* Work that is done, or cannot go on, ends; so does a repair.
Finished(f) == {f \ done : done \in SUBSET (f \cap (Work \cup {"PFREPAIR"}))}

\* The base is gone, or was turned in, or the engines are critical.
TwarpFails == target # "base" \/ me_etemp >= EtempLimit

\* Mutant: only the war timer is looked at.
TimersOutWarOnly(f) == IF war_left = 0 THEN f \ {"PFWAR"} ELSE f

\* setflag() clears the flags of the timers that have run out.
TimersOut(f) ==
  f \ ((IF war_left = 0 THEN {"PFWAR"} ELSE {})
         \cup (IF refit_left = 0 THEN {"PFREFITTING"} ELSE {}))

\* Transwarp: it fails (fuel may run low at any time), arrives and tries to
\* dock, or goes on.
UpdateTwarp ==
  /\ me_status = "PALIVE" /\ On("PFTWARP") /\ On("PFPLOCK")
  /\ \/ /\ LET lost == IF target = "dead" THEN {"PFPLOCK"} ELSE {}
           IN  me_flags' = SpeedFlags(me_flags) \ ({"PFTWARP"} \cup lost)
        /\ me_speed' = 2
        /\ UNCHANGED refit_left
     \/ /\ ~TwarpFails
        /\ LET f == me_flags \ {"PFTWARP", "PFPLOCK"}
           IN  \E g \in OrbitOutcome(f) : Orbits(f, 1, g)
     \/ /\ ~TwarpFails
        /\ UNCHANGED <<me_flags, me_speed, refit_left>>
  /\ UNCHANGED <<me_status, me_etemp, war_left, dest_left, target>>

\* A lock steers the ship, slows it down near a planet or a base, and ends in
\* orbit().  A lock on a dead player is dropped, but a base that is one still
\* slows the ship down.
UpdateLocks ==
  /\ me_status = "PALIVE" /\ ~On("PFTWARP")
  /\ On("PFPLOCK") \/ On("PFPLLOCK")
  /\ \E f \in Finished(me_flags) :
       LET kept  == IF target = "dead" THEN f \ {"PFPLOCK"} ELSE f
           nears == "PFPLLOCK" \in f \/ ("PFPLOCK" \in f /\ target # "other")
       IN  \/ /\ kept \cap {"PFPLOCK", "PFPLLOCK"} = {}
              /\ me_flags' = kept
              /\ UNCHANGED <<me_speed, refit_left>>
           \/ /\ kept \cap {"PFPLOCK", "PFPLLOCK"} # {}
              /\ me_flags' = CourseFlags(kept)
              /\ UNCHANGED <<me_speed, refit_left>>
           \/ /\ nears /\ me_speed = 2
              /\ me_speed' \in {1, 2}
              /\ me_flags' = SpeedFlags(kept)
              /\ UNCHANGED refit_left
           \/ /\ nears /\ me_speed < 2
              /\ \E g \in OrbitOutcome(Unlocked(kept)) :
                   Orbits(Unlocked(kept), me_speed, g)
  /\ UNCHANGED <<me_status, me_etemp, war_left, dest_left, target>>

\* Without a lock.
UpdateFree ==
  /\ me_status = "PALIVE" /\ ~On("PFTWARP")
  /\ ~On("PFPLOCK") /\ ~On("PFPLLOCK")
  /\ me_flags' \in Finished(me_flags)
  /\ UNCHANGED <<me_status, me_speed, me_etemp, timers, target>>

\* "me->p_updates > delay" and "> rdelay", before packets and after updates.
TimerFlags ==
  /\ me_status = "PALIVE"
  /\ me_flags' = TimersOut(me_flags)
  /\ UNCHANGED <<me_status, me_speed, me_etemp, timers, target>>

-----------------------------------------------------------------------------
(* The daemon and the other players *)

\* One frame less to wait.
CountDown(n) == IF n > 0 THEN n - 1 ELSE 0

\* udplayers_palive() and udtwarp(): p_updates counts, the timers run.  Out
\* of fuel the cloak drops.  Transwarp heats the engines, rest cools them.
Frame ==
  /\ me_status = "PALIVE"
  /\ ~(On("PFSELFDEST") /\ dest_left = 0)
  /\ war_left' = CountDown(war_left)
  /\ refit_left' = CountDown(refit_left)
  /\ dest_left' = CountDown(dest_left)
  /\ IF On("PFTWARP")
     THEN /\ me_etemp' = IF me_etemp < EtempLimit THEN me_etemp + 1 ELSE me_etemp
          /\ me_speed' = 2
     ELSE me_etemp' = CountDown(me_etemp) /\ UNCHANGED me_speed
  /\ me_flags' \in {me_flags, me_flags \ {"PFCLOAK"}}
  /\ UNCHANGED <<me_status, target>>

\* udplayers_palive_self_destruct().
SelfDestruct ==
  /\ me_status = "PALIVE"
  /\ On("PFSELFDEST") /\ dest_left = 0
  /\ me_status' = "PEXPLODE"
  /\ me_flags' = me_flags \ {"PFSELFDEST"}
  /\ UNCHANGED <<me_speed, me_etemp, timers, target>>

\* Shot, or ghostbusted.
Dies ==
  /\ me_status = "PALIVE"
  /\ me_status' = "PEXPLODE"
  /\ UNCHANGED <<me_flags, me_speed, me_etemp, timers, target>>

\* Another ship's beam, or the base, takes the ship out of its berth; the
\* orders of the captain stay.
Dislodged ==
  /\ me_flags \cap Berth # {}
  /\ me_flags' = me_flags \ Berth
  /\ UNCHANGED <<me_status, me_speed, me_etemp, timers, target>>

\* orbit_release_by_planet(), and the parade after a conquest.
Evicted ==
  /\ On("PFORBIT")
  /\ me_flags' = me_flags \ (Work \cup {"PFORBIT"})
  /\ UNCHANGED <<me_status, me_speed, me_etemp, timers, target>>
Parade ==
  /\ me_flags' = me_flags \ (Work \cup {"PFCLOAK", "PFREPAIR", "PFORBIT"})
  /\ UNCHANGED <<me_status, me_speed, me_etemp, timers, target>>

\* The player it is locked on dies, or turns in its base.
TargetChanges ==
  /\ On("PFPLOCK")
  /\ target' \in {"dead", "other"} \ {target}
  /\ UNCHANGED <<me_status, me_flags, me_speed, me_etemp, timers>>

\* death() and enter().
HelmReenter ==
  /\ me_status = "PEXPLODE"
  /\ me_status' = "PALIVE"
  /\ me_flags' = {"PFSHIELD"}
  /\ me_speed' = 0 /\ me_etemp' = 0
  /\ war_left' = 0
  /\ UNCHANGED <<refit_left, dest_left, target>>

Update == UpdateTwarp \/ UpdateLocks \/ UpdateFree

HelmNext ==
  \/ Orders \/ Update \/ TimerFlags
  \/ Frame \/ SelfDestruct \/ Dies
  \/ Dislodged \/ Evicted \/ Parade \/ TargetChanges \/ HelmReenter

\* The daemon's frames and the updates it signals do not stop.
HelmFair ==
  /\ WF_helmVars(Frame \/ SelfDestruct)
  /\ WF_helmVars(UpdateTwarp)
  /\ WF_helmVars(TimerFlags)

HelmSpec == HelmInit /\ [][HelmNext]_helmVars /\ HelmFair

-----------------------------------------------------------------------------
(* Properties *)

\* Shields, repair, bombing and beaming exclude each other, whatever the
\* order of packets, updates and frames.
OneJob == Cardinality(me_flags \cap Job) <= 1

\* A ship in transwarp is locked on its base, has its shields up, and is not
\* docked, in orbit or in repair: auto_features() ends a transwarp only while
\* PFPLOCK is set, and dock() says a ship in transwarp "should never happen".
TwarpIsLocked ==
  On("PFTWARP") =>
    /\ On("PFPLOCK") /\ On("PFSHIELD")
    /\ me_flags \cap {"PFDOCK", "PFORBIT", "PFREPAIR", "PFPLLOCK"} = {}

\* The flags of a ship, set by packets, orbit(), auto_features() and the daemon,
\* are never in conflict.
HelmInv ==
  HelmTypeOK /\ OneJob /\ TwarpIsLocked

\* A captain whose packets are ignored gets control back, or the ship dies:
\* the timers run out, and a transwarp arrives or overheats.
ControlReturns ==
  (me_flags \cap Gate # {}) ~> (me_flags \cap Gate = {} \/ me_status # "PALIVE")
=============================================================================
