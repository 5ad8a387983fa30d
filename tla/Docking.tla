------------------------------ MODULE Docking ------------------------------
(***************************************************************************)
(* The docking bays of starbases (ntserv/bay.c) and everything that fills  *)
(* and empties them: orbit requests (orbit.c), speed and course, locks,    *)
(* tractor beams, war declarations and refits (interface.c, socket.c),     *)
(* ejection (ntscmds.c), entry (enter.c), and the daemon's explosions,     *)
(* tractor frames and paused ghostbusting (daemon.c).                      *)
(*                                                                         *)
(* A docking is recorded three times in shared memory: PFDOCK and the pair *)
(* p_dock_with, p_dock_bay of the ship, and the entry in p_bays of the     *)
(* base.  A handler is one action, except dock(), which looks for a bay,   *)
(* sets PFDOCK and claims the bay in three steps, between which any other  *)
(* process may run.  Distances are free: any base, victim or planet may be *)
(* in range at any time.                                                   *)
(***************************************************************************)
EXTENDS Integers, FiniteSets

CONSTANTS
  Captain,    \* player numbers
  BaseSlot,   \* bound: the players that may command a starbase
  NUMBAYS,    \* docking bays of a base
  Side,       \* the teams
  p_team,     \* the team of each player
  BeamSlot,   \* bound: the players that use their tractor beam
  Ward,       \* bound: the players whose docking permission is changed
  Warrior,    \* bound: the players that declare war
  MayTear     \* another actor may run between the steps of dock()

VACANT == -1
Bay    == 0 .. NUMBAYS - 1

ASSUME DockAssumption ==
  /\ Captain \subseteq Nat /\ 0 \in Captain /\ IsFiniteSet(Captain)
  /\ BaseSlot \subseteq Captain
  /\ BeamSlot \subseteq Captain /\ Ward \subseteq Captain /\ Warrior \subseteq Captain
  /\ NUMBAYS \in Nat \ {0}
  /\ p_team \in [Captain -> Side]
  /\ MayTear \in BOOLEAN

DockStatus == {"PALIVE", "PEXPLODE", "POUTFIT"}
DockFlag   == {"PFDOCK", "PFORBIT", "PFDOCKOK"}

VARIABLES
  p_status,     \* players[p].p_status; POUTFIT stands for PDEAD and PFREE too
  p_type,       \* players[p].p_ship.s_type: "SHIP" or "STARBASE"
  p_flags,      \* players[p].p_flags, as the set of its bits
  p_candock,    \* players[p].p_candock
  p_war,        \* players[p].p_war, as the set of its teams
  p_tractor,    \* players[p].p_tractor if PFTRACT is set, else VACANT
  p_dock_with,  \* players[p].p_dock_with
  p_dock_bay,   \* players[p].p_dock_bay
  p_bays,       \* players[p].p_bays[]
  docking,      \* dock() in progress: the step, the base and the bay it took
  refused,      \* history: the dock() that was last refused for want of a bay
  torn          \* history: dock() was interrupted, or a ghost left in a pause

moorings == <<p_flags, p_bays>>
dockVars == <<p_status, p_type, p_flags, p_candock, p_war, p_tractor,
              p_dock_with, p_dock_bay, p_bays, docking, refused, torn>>

Idle  == [step |-> "idle", base |-> VACANT, bay |-> VACANT]
NotRefused == [ship |-> VACANT, base |-> VACANT]

DockTypeOK ==
  /\ p_status \in [Captain -> DockStatus]
  /\ p_type \in [Captain -> {"SHIP", "STARBASE"}]
  /\ p_flags \in [Captain -> SUBSET DockFlag]
  /\ p_candock \in [Captain -> BOOLEAN]
  /\ p_war \in [Captain -> SUBSET Side]
  /\ p_tractor \in [Captain -> Captain \cup {VACANT}]
  /\ p_dock_with \in [Captain -> Captain]
  /\ p_dock_bay \in [Captain -> Bay]
  /\ p_bays \in [Captain -> [Bay -> Captain \cup {VACANT}]]
  /\ docking \in [Captain -> [step : {"idle", "flag", "claim"},
                             base : Captain \cup {VACANT},
                             bay : Bay \cup {VACANT}]]
  /\ refused \in [ship : Captain \cup {VACANT}, base : Captain \cup {VACANT}]
  /\ torn \in BOOLEAN

DockInit ==
  /\ p_status = [p \in Captain |-> "POUTFIT"]
  /\ p_type = [p \in Captain |-> "SHIP"]
  /\ p_flags = [p \in Captain |-> {}]
  /\ p_candock = [p \in Captain |-> TRUE]
  /\ p_war = [p \in Captain |-> {}]
  /\ p_tractor = [p \in Captain |-> VACANT]
  /\ p_dock_with = [p \in Captain |-> 0]
  /\ p_dock_bay = [p \in Captain |-> 0]
  /\ p_bays = [p \in Captain |-> [b \in Bay |-> VACANT]]
  /\ docking = [p \in Captain |-> Idle]
  /\ refused = NotRefused
  /\ torn = FALSE

dockAlive(p) == p_status[p] = "PALIVE"
Has(p, flag) == flag \in p_flags[p]
MidDock(p)   == docking[p].step # "idle"

\* Every step but the next step of a dock() in progress: such a step tears
\* the dock() it interrupts.
Whole ==
  /\ MayTear \/ \A p \in Captain : ~MidDock(p)
  /\ torn' = (torn \/ \E p \in Captain : MidDock(p))
  /\ refused' = NotRefused

\* Handlers run in the ntserv of p: p is alive and not inside dock().
Handler(p) == dockAlive(p) /\ ~MidDock(p) /\ Whole /\ UNCHANGED docking

-----------------------------------------------------------------------------
(* bay.c.  The operations read and write the flags f of all players and    *)
(* the bays b of all bases: they map a record of the two to a record.      *)

Moorings == [f |-> p_flags, b |-> p_bays]

\* bay_release(): the bay is vacated whoever is in it.
BayRelease(m, p) ==
  IF "PFDOCK" \notin m.f[p] THEN m
  ELSE [m EXCEPT !.f[p] = @ \ {"PFDOCK"},
                 !.b[p_dock_with[p]][p_dock_bay[p]] = VACANT]

\* Mutant: the ships are left docked.
BayReleaseAllKeepsShips(m, base) ==
  [m EXCEPT !.b[base] = [i \in Bay |-> VACANT]]

\* bay_release_all().
BayReleaseAll(m, base) ==
  [f |-> [p \in Captain |-> IF \E i \in Bay : m.b[base][i] = p
                           THEN m.f[p] \ {"PFDOCK"} ELSE m.f[p]],
   b |-> [m.b EXCEPT ![base] = [i \in Bay |-> VACANT]]]

\* bay_init().
BayInit(b, p) == [b EXCEPT ![p] = [i \in Bay |-> VACANT]]

\* Mutant: the bays are not checked.
BayBelieved(base, i) == TRUE

\* What bay_consistency_check() asks of a bay that is not vacant.
BayIsTrue(base, i) ==
  LET ship == p_bays[base][i]
  IN  /\ Has(ship, "PFDOCK")
      /\ p_dock_with[ship] = base
      /\ p_dock_bay[ship] = i

\* bay_consistency_check(): the bays of the base afterwards.
CheckedBays(base) ==
  [i \in Bay |-> IF p_bays[base][i] = VACANT \/ ~BayIsTrue(base, i)
                 THEN VACANT ELSE p_bays[base][i]]

\* The flags and bays become those of m, then p loses and gains some flags.
Moor(m) == p_flags' = m.f /\ p_bays' = m.b
BeamOff(p) == p_tractor' = [p_tractor EXCEPT ![p] = VACANT]
Strip(m, p, lost) == [m EXCEPT !.f[p] = @ \ lost]
Raise(m, p, won)  == [m EXCEPT !.f[p] = @ \cup won]

-----------------------------------------------------------------------------
(* orbit() and dock() *)

\* The players that hold p with a tractor or pressor beam.
BeamHolders(p) ==
  {j \in Captain : dockAlive(j) /\ p_tractor[j] = p}

Lowest(S) == CHOOSE j \in S : \A k \in S : j <= k

\* friendlyPlayer().
FriendlyPlayer(p, base) ==
  /\ p_team[base] \notin p_war[p]
  /\ p_team[p] \notin p_war[base]

\* What dock() asks before it looks for a bay.
MayDock(p, base) ==
  /\ FriendlyPlayer(p, base)
  /\ p_candock[p]
  /\ p_type[p] # "STARBASE"
  /\ Has(base, "PFDOCKOK")

\* Held by more than one beam, by a ship, or by one base that is out of
\* DOCKDIST: orbit() does nothing, but it has let go of a base it met first.
OrbitHeld(p) ==
  /\ Handler(p)
  /\ BeamHolders(p) # {}
  /\ p_flags' = IF p_type[Lowest(BeamHolders(p))] = "STARBASE"
                THEN [p_flags EXCEPT ![p] = @ \ {"PFDOCK", "PFORBIT"}]
                ELSE p_flags
  /\ UNCHANGED <<p_status, p_type, p_candock, p_war, p_tractor, p_dock_with,
                 p_dock_bay, p_bays>>

\* The base that dock() is called for: the one that holds p, or any live
\* base in range when p is neither docked nor in orbit.
DockTarget(p, base) ==
  /\ base # p
  /\ dockAlive(base) /\ p_type[base] = "STARBASE"
  /\ \/ BeamHolders(p) = {base}
     \/ /\ BeamHolders(p) = {}
        /\ p_type[p] # "STARBASE"
        /\ p_flags[p] \cap {"PFDOCK", "PFORBIT"} = {}

\* dock() fails: orbit() has cleared PFDOCK and PFORBIT if the base holds p,
\* de_lock() clears the beams.
DockFails(p, base) ==
  /\ Handler(p)
  /\ DockTarget(p, base)
  /\ ~MayDock(p, base)
  /\ p_flags' = [p_flags EXCEPT ![p] = @ \ {"PFDOCK", "PFORBIT"}]
  /\ BeamOff(p)
  /\ UNCHANGED <<p_status, p_type, p_candock, p_war, p_dock_with,
                 p_dock_bay, p_bays>>

\* The flags when orbit() calls dock(): a base that holds p makes it let go.
HeldFlags(p) ==
  IF BeamHolders(p) = {} THEN p_flags
  ELSE [p_flags EXCEPT ![p] = @ \ {"PFDOCK", "PFORBIT"}]

\* bay_consistency_check() as bay_closest() runs it: after orbit() cleared the
\* flags of a held ship, so the bay that ship was in is vacant too.
BaysSeen(p, base) ==
  [i \in Bay |-> IF BeamHolders(p) # {} /\ p_bays[base][i] = p
                 THEN VACANT ELSE CheckedBays(base)[i]]

\* bay_closest() returns a vacant bay: any may be the closest.
DockLooks(p, base) ==
  /\ Whole /\ dockAlive(p) /\ ~MidDock(p)
  /\ DockTarget(p, base)
  /\ MayDock(p, base)
  /\ \E i \in Bay :
       /\ BaysSeen(p, base)[i] = VACANT
       /\ docking' = [docking EXCEPT
            ![p] = [step |-> "flag", base |-> base, bay |-> i]]
  /\ p_bays' = [p_bays EXCEPT ![base] = BaysSeen(p, base)]
  /\ p_flags' = HeldFlags(p)
  /\ UNCHANGED <<p_status, p_type, p_candock, p_war, p_tractor, p_dock_with,
                 p_dock_bay>>

\* bay_closest() returns -1.
DockRefused(p, base) ==
  /\ MayTear \/ \A q \in Captain : ~MidDock(q)
  /\ torn' = (torn \/ \E q \in Captain : MidDock(q))
  /\ dockAlive(p) /\ ~MidDock(p)
  /\ DockTarget(p, base)
  /\ MayDock(p, base)
  /\ \A i \in Bay : BaysSeen(p, base)[i] # VACANT
  /\ refused' = [ship |-> p, base |-> base]
  /\ p_bays' = [p_bays EXCEPT ![base] = BaysSeen(p, base)]
  /\ p_flags' = HeldFlags(p)
  /\ BeamOff(p)
  /\ UNCHANGED <<p_status, p_type, p_candock, p_war, p_dock_with,
                 p_dock_bay, docking>>

\* The steps of a dock() that has a bay: only another dock() in progress
\* tears it.
DockStep(p, step, next) ==
  /\ docking[p].step = step
  /\ docking' = [docking EXCEPT ![p] = next]
  /\ torn' = (torn \/ \E q \in Captain \ {p} : MidDock(q))
  /\ refused' = NotRefused
  /\ UNCHANGED <<p_status, p_type, p_candock, p_war>>

\* "me->p_flags |= PFDOCK".
DockFlags(p) ==
  /\ DockStep(p, "flag", [docking[p] EXCEPT !.step = "claim"])
  /\ p_flags' = [p_flags EXCEPT ![p] = @ \cup {"PFDOCK"}]
  /\ BeamOff(p)
  /\ UNCHANGED <<p_dock_with, p_dock_bay, p_bays>>

\* Mutant: the bay of the base is not marked.
DockClaimsNothing(p) ==
  /\ DockStep(p, "claim", Idle)
  /\ p_dock_with' = [p_dock_with EXCEPT ![p] = docking[p].base]
  /\ p_dock_bay' = [p_dock_bay EXCEPT ![p] = docking[p].bay]
  /\ UNCHANGED <<p_flags, p_bays, p_tractor>>

\* bay_claim().
DockClaims(p) ==
  /\ DockStep(p, "claim", Idle)
  /\ p_dock_with' = [p_dock_with EXCEPT ![p] = docking[p].base]
  /\ p_dock_bay' = [p_dock_bay EXCEPT ![p] = docking[p].bay]
  /\ p_bays' = [p_bays EXCEPT ![docking[p].base][docking[p].bay] = p]
  /\ UNCHANGED <<p_flags, p_tractor>>

\* Mutant: a docked ship may go into orbit.
OrbitPlanetDocked(p) ==
  /\ Handler(p)
  /\ BeamHolders(p) = {}
  /\ ~Has(p, "PFORBIT")
  /\ p_flags' = [p_flags EXCEPT ![p] = @ \cup {"PFORBIT"}]
  /\ BeamOff(p)
  /\ UNCHANGED <<p_status, p_type, p_candock, p_war, p_dock_with,
                 p_dock_bay, p_bays>>

\* No base in range, but a planet.
OrbitPlanet(p) ==
  /\ Handler(p)
  /\ BeamHolders(p) = {}
  /\ p_flags[p] \cap {"PFDOCK", "PFORBIT"} = {}
  /\ p_flags' = [p_flags EXCEPT ![p] = @ \cup {"PFORBIT"}]
  /\ BeamOff(p)
  /\ UNCHANGED <<p_status, p_type, p_candock, p_war, p_dock_with,
                 p_dock_bay, p_bays>>

-----------------------------------------------------------------------------
(* The other handlers of a ship *)

\* set_speed(), set_course(), orbit off, and the start of a transwarp.
Undock(p) ==
  /\ Handler(p)
  /\ Moor(Strip(BayRelease(Moorings, p), p, {"PFORBIT"}))
  /\ UNCHANGED <<p_status, p_type, p_candock, p_war, p_tractor, p_dock_with,
                 p_dock_bay>>

\* lock_planet() and lock_player(): out of orbit, but still docked.
LockCourse(p) ==
  /\ Handler(p)
  /\ Moor(Strip(Moorings, p, {"PFORBIT"}))
  /\ UNCHANGED <<p_status, p_type, p_candock, p_war, p_tractor, p_dock_with,
                 p_dock_bay>>

\* handleTractorReq(), handleRepressReq(): p and its victim let go of
\* whatever they hold on to.  The victim need not be alive.
Tractor(p, victim) ==
  /\ Handler(p)
  /\ victim # p
  /\ p \in BeamSlot
  /\ Moor(Strip(Strip(BayRelease(BayRelease(Moorings, victim), p),
                      victim, {"PFORBIT"}), p, {"PFORBIT"}))
  /\ p_tractor' = [p_tractor EXCEPT ![p] = victim]
  /\ UNCHANGED <<p_status, p_type, p_candock, p_war, p_dock_with, p_dock_bay>>

\* The same packets with state 0.
TractorOff(p) ==
  /\ Handler(p)
  /\ p_tractor[p] # VACANT
  /\ BeamOff(p)
  /\ UNCHANGED <<p_status, p_type, p_flags, p_candock, p_war, p_dock_with,
                 p_dock_bay, p_bays>>

\* handleDockingReq().
DockPermission(p, on) ==
  /\ Handler(p)
  /\ p_type[p] = "STARBASE"
  /\ Moor(IF on THEN Raise(Moorings, p, {"PFDOCKOK"})
          ELSE BayReleaseAll(Strip(Moorings, p, {"PFDOCKOK"}), p))
  /\ UNCHANGED <<p_status, p_type, p_candock, p_war, p_tractor, p_dock_with,
                 p_dock_bay>>

\* do_dock(): the base allows or forbids one player; a docked one stays.
DockAllow(p, victim, on) ==
  /\ Handler(p)
  /\ p_type[p] = "STARBASE"
  /\ victim \in Ward /\ p_candock[victim] # on
  /\ p_candock' = [p_candock EXCEPT ![victim] = on]
  /\ UNCHANGED <<p_status, p_type, p_flags, p_war, p_tractor, p_dock_with,
                 p_dock_bay, p_bays>>

\* declare_war(): p leaves a base that is now hostile, and a base lets go of
\* the ships that are now hostile.
DeclareWar(p, mask) ==
  /\ Handler(p)
  /\ p \in Warrior /\ mask # p_war[p]
  /\ LET own   == IF /\ Has(p, "PFDOCK")
                     /\ p_team[p_dock_with[p]] \in mask
                  THEN BayRelease(Moorings, p) ELSE Moorings
         foes  == {q \in Captain : /\ p_type[p] = "STARBASE"
                                  /\ p_team[q] \in mask
                                  /\ \E i \in Bay : own.b[p][i] = q}
     IN  /\ p_flags' = [q \in Captain |->
              IF q \in foes THEN own.f[q] \ {"PFDOCK"} ELSE own.f[q]]
         /\ p_bays' = [q \in Captain |-> [i \in Bay |->
              IF \E s \in foes : /\ "PFDOCK" \in own.f[s]
                                 /\ p_dock_with[s] = q
                                 /\ p_dock_bay[s] = i
              THEN VACANT ELSE own.b[q][i]]]
  /\ p_war' = [p_war EXCEPT ![p] = mask]
  /\ UNCHANGED <<p_status, p_type, p_candock, p_tractor, p_dock_with,
                 p_dock_bay>>

\* do_refit(): in orbit of the home planet, or docked with a base of the
\* team to any other ship.  A base bumps its ships.
Refit(p, type) ==
  /\ Handler(p)
  /\ \/ Has(p, "PFORBIT")
     \/ /\ ~Has(p, "PFORBIT") /\ Has(p, "PFDOCK")
        /\ type # "STARBASE"
        /\ p_team[p_dock_with[p]] = p_team[p]
  /\ type = "STARBASE" =>
       /\ p \in BaseSlot
       /\ ~\E q \in Captain \ {p} : /\ dockAlive(q)
                                   /\ p_team[q] = p_team[p]
                                   /\ p_type[q] = "STARBASE"
  /\ LET bumped == IF p_type[p] = "STARBASE"
                   THEN Raise(BayReleaseAll(Moorings, p), p, {"PFDOCKOK"})
                   ELSE Moorings
     IN  Moor(IF type = "STARBASE"
              THEN Raise([bumped EXCEPT !.b = BayInit(bumped.b, p)],
                         p, {"PFDOCKOK"})
              ELSE bumped)
  /\ p_type' = [p_type EXCEPT ![p] = type]
  /\ UNCHANGED <<p_status, p_candock, p_war, p_tractor, p_dock_with,
                 p_dock_bay>>

\* eject_player(), run by the daemon: the victim explodes like a base.
Eject(p) ==
  /\ Whole
  /\ dockAlive(p)
  /\ Moor(BayRelease(Moorings, p))
  /\ p_type' = [p_type EXCEPT ![p] = "STARBASE"]
  /\ p_status' = [p_status EXCEPT ![p] = "PEXPLODE"]
  /\ UNCHANGED <<p_candock, p_war, p_tractor, p_dock_with, p_dock_bay, docking>>

-----------------------------------------------------------------------------
(* The daemon, and the start and end of a ship *)

\* p_explosion(): shot, ghostbusted or self destructed.
DockExplode(p) ==
  /\ Whole
  /\ dockAlive(p)
  /\ p_status' = [p_status EXCEPT ![p] = "PEXPLODE"]
  /\ UNCHANGED <<p_type, p_flags, p_candock, p_war, p_tractor, p_dock_with,
                 p_dock_bay, p_bays, docking>>

\* udplayers_pexplode_bays().
ExplodeBays(p) ==
  LET m == BayRelease(Moorings, p)
  IN  IF p_type[p] = "STARBASE" THEN BayReleaseAll(m, p) ELSE m

\* A frame of udplayers_pexplode(): the explosion may be over.  The process
\* is past a dock() it was in, since an explosion lasts many frames, unless
\* it was killed inside it.
DockPexplode(p, over) ==
  /\ Whole
  /\ p_status[p] = "PEXPLODE"
  /\ over => ~MidDock(p)
  /\ Moor(Strip(ExplodeBays(p), p, {"PFORBIT"}))
  /\ p_status' = [p_status EXCEPT ![p] = IF over THEN "POUTFIT" ELSE @]
  /\ UNCHANGED <<p_type, p_candock, p_war, p_tractor, p_dock_with, p_dock_bay,
                 docking>>

\* udplayers_palive_tractor(): the beam has its victim, or ends.
DockTractorFrame(p, works) ==
  LET victim == p_tractor[p]
  IN  /\ Whole
      /\ dockAlive(p)
      /\ victim # VACANT
      /\ works => /\ dockAlive(victim)
                  /\ p_flags[p] \cap {"PFORBIT", "PFDOCK"} = {}
                  /\ ~Has(victim, "PFDOCK")
      /\ IF works THEN Moor(Strip(Moorings, victim, {"PFORBIT"})) /\ UNCHANGED p_tractor
         ELSE BeamOff(p) /\ UNCHANGED moorings
      /\ UNCHANGED <<p_status, p_type, p_candock, p_war,
                     p_dock_with, p_dock_bay, docking>>

\* The ntserv of p is killed inside dock().
DockKilled(p) ==
  /\ MayTear
  /\ MidDock(p)
  /\ torn' = TRUE
  /\ refused' = NotRefused
  /\ docking' = [docking EXCEPT ![p] = Idle]
  /\ UNCHANGED <<p_status, p_type, p_flags, p_candock, p_war, p_tractor,
                 p_dock_with, p_dock_bay, p_bays>>

\* udplayers_pause(): a silent player goes without an explosion, and its
\* moorings stay as they are.
PauseGhost(p) ==
  /\ MayTear
  /\ dockAlive(p) /\ ~MidDock(p)
  /\ torn' = TRUE
  /\ refused' = NotRefused
  /\ p_status' = [p_status EXCEPT ![p] = "POUTFIT"]
  /\ UNCHANGED <<p_type, p_flags, p_candock, p_war, p_tractor, p_dock_with,
                 p_dock_bay, p_bays, docking>>

\* enter().
DockEnter(p, type) ==
  /\ Whole
  /\ p_status[p] = "POUTFIT" /\ ~MidDock(p)
  /\ type = "STARBASE" => p \in BaseSlot
  /\ p_status' = [p_status EXCEPT ![p] = "PALIVE"]
  /\ p_type' = [p_type EXCEPT ![p] = type]
  /\ p_flags' = [p_flags EXCEPT
       ![p] = IF type = "STARBASE" THEN {"PFDOCKOK"} ELSE {}]
  /\ p_candock' = [q \in Captain |->
       p_candock[q] \/ (type = "STARBASE" /\ p_team[q] = p_team[p])]
  /\ p_war' = [p_war EXCEPT ![p] = {}]
  /\ p_bays' = BayInit(p_bays, p)
  /\ p_dock_with' = [p_dock_with EXCEPT ![p] = 0]
  /\ p_dock_bay' = [p_dock_bay EXCEPT ![p] = 0]
  /\ BeamOff(p)
  /\ UNCHANGED docking

DockNext ==
  \E p \in Captain :
    \/ OrbitHeld(p)
    \/ \E base \in Captain :
         DockFails(p, base) \/ DockLooks(p, base) \/ DockRefused(p, base)
    \/ DockFlags(p) \/ DockClaims(p) \/ DockKilled(p)
    \/ OrbitPlanet(p) \/ Undock(p) \/ LockCourse(p) \/ TractorOff(p)
    \/ \E victim \in Captain : Tractor(p, victim)
    \/ \E on \in BOOLEAN : DockPermission(p, on)
    \/ \E victim \in Captain, on \in BOOLEAN : DockAllow(p, victim, on)
    \/ \E mask \in SUBSET (Side \ {p_team[p]}) : DeclareWar(p, mask)
    \/ \E type \in {"SHIP", "STARBASE"} : Refit(p, type) \/ DockEnter(p, type)
    \/ Eject(p) \/ DockExplode(p) \/ PauseGhost(p)
    \/ \E over \in BOOLEAN : DockPexplode(p, over)
    \/ \E works \in BOOLEAN : DockTractorFrame(p, works)

DockSpec == DockInit /\ [][DockNext]_dockVars

-----------------------------------------------------------------------------
(* Properties *)

\* Docked or in orbit, never both: udplayers_palive(), beam() and fuel all
\* take the first of the two flags they test, each in its own order.
NotDockedInOrbit ==
  \A p \in Captain : ~(Has(p, "PFDOCK") /\ Has(p, "PFORBIT"))

\* The three records of a docking agree: a live docked ship is in the bay of
\* the base that it believes it is in, and that base has not gone.  It holds
\* until the first dock() that is interrupted (bay_release() then vacates the
\* bay of whoever took it) or the first ghost that leaves in a pause.
DockedIsMoored ==
  ~torn => \A p \in Captain :
    dockAlive(p) /\ Has(p, "PFDOCK") /\ ~MidDock(p) =>
      /\ p_bays[p_dock_with[p]][p_dock_bay[p]] = p
      /\ p_type[p_dock_with[p]] = "STARBASE"
      /\ p_status[p_dock_with[p]] # "POUTFIT"

\* bay_consistency_check() makes good what races and dead processes left: a
\* ship is turned away for want of a bay only if as many other ships are
\* docked with that base as it has bays.
RefusedOnlyWhenFull ==
  refused # NotRefused =>
    Cardinality({q \in Captain \ {refused.ship} :
                   Has(q, "PFDOCK") /\ p_dock_with[q] = refused.base})
      >= NUMBAYS

\* Ships and bases, as orbit(), bay.c and the daemon leave them, agree on who is
\* docked where, and a refusal is deserved.
BaysInv ==
  DockTypeOK /\ NotDockedInOrbit /\ DockedIsMoored /\ RefusedOnlyWhenFull
=============================================================================
