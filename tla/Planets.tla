------------------------------ MODULE Planets ------------------------------
(***************************************************************************)
(* Planets, armies and the fall of empires: bombing and coups (plfight()), *)
(* beaming armies (beam()), population (PopPlanet()), the surrender clock  *)
(* (checkgen(), checkwin(), udsurrend()), conquest (conquer.c) and the     *)
(* armies of ghostbusted players (ghostmess()), all of them loops of the   *)
(* daemon, and coup() and save_armies(), which ntserv processes run.       *)
(*                                                                         *)
(* One action is one round of a daemon loop.  Orbit, war, kills and the    *)
(* beam and bomb flags, which a player sets as he likes, are left to       *)
(* choice: an action says what happens once they allow it.  Every team has *)
(* one part of the galaxy, with its home planet in it.                     *)
(***************************************************************************)
EXTENDS Integers, FiniteSets

CONSTANTS
  Team, Ori,       \* teams; the one that checkwin() tests first
  Planet,
  PartOf,          \* the team in whose part of the galaxy a planet lies
  HomePlanet,      \* the PLHOME planet of a team
  Player,
  None,            \* NOBODY, the team of independents; no conquest
  Garrison,        \* 5: fewer armies can be neither bombed nor beamed up
  MaxBomb,         \* 4: armies that one bomb can kill
  MaxCarry,        \* s_maxarmies
  TopArmies,       \* top_armies
  MaxGrowth,       \* 6: what a planet can gain in one PopPlanet()
  PlagueScale,     \* 4500
  Defenders,       \* 3: addTroops() rewards the fall of that many players
  SurrenderStart,  \* surrenderStart
  Surrend,         \* SURREND
  SurrLength,      \* SURRLENGTH
  Victory,         \* VICTORY
  CoupTimes,       \* MIN_COUP_TIME .. MAX_COUP_TIME - 1
  MaxArmies        \* bound: armies on one planet

CoupArmies == Garrison - 1

\* What plague can take from a armies.
Plague(a) == IF a > Garrison THEN (a * a) \div PlagueScale .. (a * a + PlagueScale - 1) \div PlagueScale
             ELSE {0}

ASSUME PlanetsAssumption ==
  /\ IsFiniteSet(Planet) /\ IsFiniteSet(Player) /\ IsFiniteSet(Team)
  /\ Ori \in Team /\ None \notin Team
  /\ PartOf \in [Planet -> Team] /\ HomePlanet \in [Team -> Planet]
  /\ \A t \in Team : PartOf[HomePlanet[t]] = t
  /\ Garrison \in Nat /\ MaxBomb \in Nat /\ MaxBomb < Garrison /\ Garrison > 1
  /\ MaxCarry \in Nat /\ MaxGrowth \in Nat /\ Defenders \in Nat \ {0}
  /\ PlagueScale \in Nat \ {0}
  /\ SurrenderStart \in Nat /\ Surrend \in Nat /\ SurrLength \in Nat \ {0}
  /\ Victory \in Nat \ {0}
  /\ CoupTimes \subseteq Nat \ {0} /\ CoupTimes # {}
  /\ MaxArmies \in Nat /\ Garrison <= MaxArmies /\ TopArmies \in 1 .. MaxArmies
  /\ \A a \in 0 .. MaxArmies : \A n \in Plague(a) : n \in Nat /\ (a > 0 => n < a)

VARIABLES
  owner, armies,   \* pl_owner, pl_armies
  coup,            \* planets that have PLCOUP
  couptime,        \* pl_couptime of the home planet of a team
  plcount,         \* te_plcount
  surrender,       \* te_surrender
  conquered,       \* the team a conquest parade is for, or None
  alive, team, carried  \* p_status = PALIVE, p_team, p_armies

gvars == <<owner, armies, coup, couptime>>
tvars == <<plcount, surrender, conquered>>
pvars == <<alive, team, carried>>
vars  == <<gvars, tvars, pvars>>

TypeOK ==
  /\ owner \in [Planet -> Team \cup {None}]
  /\ armies \in [Planet -> 0 .. MaxArmies]
  /\ coup \subseteq Planet
  /\ couptime \in [Team -> Nat]
  /\ plcount \in [Team -> Nat]
  /\ surrender \in [Team -> 0 .. SurrLength]
  /\ conquered \in Team \cup {None}
  /\ alive \in [Player -> BOOLEAN]
  /\ team \in [Player -> Team \cup {None}]
  /\ carried \in [Player -> 0 .. MaxCarry]

\* pl_reset(), and shared memory that starts as zeros.
Init ==
  /\ owner = PartOf
  /\ armies = [l \in Planet |-> TopArmies]
  /\ coup = {}
  /\ couptime = [t \in Team |-> 0]
  /\ plcount = [t \in Team |-> 0]
  /\ surrender = [t \in Team |-> 0]
  /\ conquered = None
  /\ alive = [p \in Player |-> FALSE]
  /\ team = [p \in Player |-> None]
  /\ carried = [p \in Player |-> 0]

\* A player in a running game.  During a parade the daemon does nothing else.
Playing(p) == alive[p] /\ conquered = None

Capped(n) == IF n > MaxArmies THEN MaxArmies ELSE n
Add(l, n) == armies' = [armies EXCEPT ![l] = Capped(@ + n)]
Carry(p, n) == carried' = [carried EXCEPT ![p] = @ + n]

-----------------------------------------------------------------------------
(* The fall of empires *)

Owned(own, t) == {l \in Planet : own[l] = t}
Owners(own, q) == {own[l] : l \in {m \in Planet : PartOf[m] = q}} \ {None}

\* Mutant: a part counts for whoever owns a planet in it.
CreditAny(own, q) == Owners(own, q)

\* Whom checkwin() counts a part of the galaxy for: the only team that owns a
\* planet there; if there is none, the team that it tests first.
Credit(own, q) ==
  LET holders == Owners(own, q) IN
  IF holders = {} THEN {Ori} ELSE IF Cardinality(holders) = 1 THEN holders ELSE {}

Conquest(own) ==
  \E t \in Team : Cardinality({q \in Team : t \in Credit(own, q)}) >= Victory

Count(own) == [t \in Team |-> Cardinality(Owned(own, t))]

\* "check to end surrender", in checkwin(), for the team t of the winner.
Sustained(clock, count, t) ==
  IF clock[t] > 0 /\ count[t] = Surrend THEN [clock EXCEPT ![t] = 0] ELSE clock

\* checkwin() for a player of team t, called with these planets and clocks.
CheckWin(own, clock, t) ==
  /\ plcount' = Count(own)
  /\ surrender' = Sustained(clock, Count(own), t)
  /\ conquered' = IF Conquest(own) THEN t ELSE None

\* "check to initiate surrender", in checkgen().
Collapsing(own, loser) ==
  IF surrender[loser] = 0 /\ Count(own)[loser] = SurrenderStart
  THEN [surrender EXCEPT ![loser] = SurrLength] ELSE surrender

\* addTroops(): random troops for the planets that the winner owns, if enough
\* slots, of the living and of the dead, were the loser's.
Boost(own, arm, loser, t) ==
  \E n \in Cardinality({p \in Player : alive[p] /\ team[p] = loser}) ..
          Cardinality({p \in Player : team[p] = loser}) :
    IF n < Defenders THEN armies' = arm
    ELSE \E g \in [Owned(own, t) -> 0 .. 2 * n - 1] :
           armies' = [l \in Planet |-> IF l \in Owned(own, t) THEN Capped(arm[l] + g[l]) ELSE arm[l]]

Explode(t) == alive' = [p \in Player |-> alive[p] /\ team[p] # t]

\* checkgen() after a player of team t has left the loser these planets.
CheckGen(loser, t, own, arm) ==
  \/ /\ Owned(own, loser) # {}
     /\ plcount' = Count(own)
     /\ surrender' = Collapsing(own, loser)
     /\ armies' = arm
     /\ UNCHANGED <<alive, couptime, conquered>>
  \/ /\ Owned(own, loser) = {}
     /\ CheckWin(own, [surrender EXCEPT ![loser] = 0], t)
     /\ \/ /\ Conquest(own)
           /\ armies' = arm
           /\ UNCHANGED <<alive, couptime>>
        \/ /\ ~Conquest(own)
           /\ Boost(own, arm, loser, t)
           /\ Explode(loser)
           /\ \E c \in CoupTimes : couptime' = [couptime EXCEPT ![loser] = c]

-----------------------------------------------------------------------------
(* plfight() and beam() *)

Bomb(p, l) ==
  /\ Playing(p) /\ owner[l] # team[p] /\ armies[l] >= Garrison
  /\ \E ab \in 1 .. MaxBomb : Add(l, -ab)
  /\ UNCHANGED <<owner, coup, couptime, tvars, pvars>>

BeamUp(p, l) ==
  /\ Playing(p) /\ owner[l] = team[p] /\ armies[l] >= Garrison
  /\ carried[p] < MaxCarry
  /\ Carry(p, 1) /\ Add(l, -1)
  /\ UNCHANGED <<owner, coup, couptime, tvars, alive, team>>

\* To a planet of the player's own team.
BeamDown(p, l) ==
  /\ Playing(p) /\ carried[p] > 0 /\ owner[l] = team[p]
  /\ Carry(p, -1) /\ Add(l, 1)
  /\ UNCHANGED <<owner, coup, couptime, tvars, alive, team>>

\* To an enemy's planet: one army kills another ...
Invade(p, l) ==
  /\ Playing(p) /\ carried[p] > 0 /\ owner[l] # team[p] /\ armies[l] > 1
  /\ Carry(p, -1) /\ Add(l, -1)
  /\ UNCHANGED <<owner, coup, couptime, tvars, alive, team>>

\* ... and the last one dies: "Give planet to nobody".
Destroy(p, l) ==
  /\ Playing(p) /\ carried[p] > 0 /\ owner[l] # team[p] /\ armies[l] = 1
  /\ Carry(p, -1)
  /\ owner' = [owner EXCEPT ![l] = None]
  /\ CheckGen(owner[l], team[p], [owner EXCEPT ![l] = None], [armies EXCEPT ![l] = 0])
  /\ UNCHANGED <<coup, team>>

\* To a planet without armies: "planet taken over".
Take(p, l) ==
  /\ Playing(p) /\ carried[p] > 0 /\ owner[l] # team[p] /\ armies[l] = 0
  /\ Carry(p, -1)
  /\ owner' = [owner EXCEPT ![l] = team[p]]
  /\ armies' = [armies EXCEPT ![l] = 1]
  /\ CheckWin([owner EXCEPT ![l] = team[p]], surrender, team[p])
  /\ UNCHANGED <<coup, couptime, alive, team>>

\* Between a ship and the base of its team that it is docked to, in either
\* direction: beam_up() and beam_down() refuse the bases of others.
Transfer(p, b) ==
  /\ p # b /\ Playing(p) /\ Playing(b) /\ team[p] = team[b]
  /\ carried[p] > 0 /\ carried[b] < MaxCarry
  /\ carried' = [carried EXCEPT ![p] = @ - 1, ![b] = @ + 1]
  /\ UNCHANGED <<gvars, tvars, alive, team>>

-----------------------------------------------------------------------------
(* Population, coups, the surrender clock *)

PopPlanet(l) ==
  /\ conquered = None /\ armies[l] > 0
  /\ \E n \in Plague(armies[l]), g \in 0 .. MaxGrowth : Add(l, g - n)
  /\ UNCHANGED <<owner, coup, couptime, tvars, pvars>>

\* coup(), by an ntserv process: the home planet is marked for plfight().
Coup(p) ==
  LET l == HomePlanet[team[p]] IN
  /\ alive[p] /\ team[p] # None
  /\ \A m \in Planet : owner[m] = team[p] => armies[m] = 0
  /\ armies[l] <= CoupArmies /\ couptime[team[p]] = 0 /\ l \notin coup
  /\ coup' = coup \cup {l}
  /\ UNCHANGED <<owner, armies, couptime, tvars, pvars>>

PlfightCoup(l) ==
  /\ conquered = None /\ l \in coup
  /\ coup' = coup \ {l}
  /\ owner' = [owner EXCEPT ![l] = PartOf[l]]
  /\ armies' = [armies EXCEPT ![l] = CoupArmies]
  /\ UNCHANGED <<couptime, tvars, pvars>>

\* Mutant: the planets of a team that surrenders keep their armies.
FallenArmed(fall) == UNCHANGED armies

\* "neutralize race t's planets"
Fallen(fall) == armies' = [l \in Planet |-> IF owner[l] \in fall THEN 0 ELSE armies[l]]

\* udsurrend(), once a minute; enough are the teams that have tournplayers
\* players in a tournament.
UdSurrend(enough) ==
  LET down == {t \in enough : surrender[t] > 0 /\ plcount[t] <= SurrenderStart}
      fall == {t \in down : surrender[t] = 1}
  IN
  /\ conquered = None
  /\ surrender' = [t \in Team |-> IF t \in down THEN surrender[t] - 1 ELSE surrender[t]]
  /\ owner' = [l \in Planet |-> IF owner[l] \in fall THEN None ELSE owner[l]]
  /\ Fallen(fall)
  /\ \E c \in CoupTimes :
       couptime' = [t \in Team |-> IF t \in fall THEN c
                                   ELSE IF couptime[t] > 0 THEN couptime[t] - 1 ELSE 0]
  /\ alive' = [p \in Player |-> alive[p] /\ team[p] \notin fall]
  /\ UNCHANGED <<coup, plcount, conquered, team, carried>>

\* Mutant: the surrender clocks run on after the galaxy is reset.
ConquerEndClocksOn ==
  /\ conquered # None
  /\ conquered' = None
  /\ owner' = PartOf
  /\ armies' = [l \in Planet |-> TopArmies]
  /\ coup' = {} /\ couptime' = [t \in Team |-> 0]
  /\ alive' = [p \in Player |-> FALSE]
  /\ UNCHANGED <<plcount, surrender, team, carried>>

\* The end of the parade: conquer_end(), which spares robots.
ConquerEnd ==
  /\ conquered # None
  /\ conquered' = None
  /\ owner' = PartOf
  /\ armies' = [l \in Planet |-> TopArmies]
  /\ coup' = {} /\ couptime' = [t \in Team |-> 0]
  /\ surrender' = [t \in Team |-> 0]
  /\ \E robots \in SUBSET Player : alive' = [p \in Player |-> alive[p] /\ p \in robots]
  /\ UNCHANGED <<plcount, team, carried>>

-----------------------------------------------------------------------------
(* Players *)

\* enter(), into a team that the tournament rules leave open, or into none.
Enter(p, t) ==
  /\ ~alive[p]
  /\ alive' = [alive EXCEPT ![p] = TRUE]
  /\ team' = [team EXCEPT ![p] = t]
  /\ carried' = [carried EXCEPT ![p] = 0]
  /\ UNCHANGED <<gvars, tvars>>

\* The ship is destroyed; p_armies stays as it is until the next enter().
Die(p) ==
  /\ Playing(p)
  /\ alive' = [alive EXCEPT ![p] = FALSE]
  /\ UNCHANGED <<gvars, tvars, team, carried>>

\* The armies of p go to a planet of his team in its own part of the galaxy
\* (the code takes the first one).
Shelter(p) == {l \in Owned(owner, team[p]) : PartOf[l] = team[p]}

\* ghostmess(): p_armies is cleared if the armies have been placed.
Ghost(p) ==
  /\ carried[p] > 0
  /\ \/ /\ Shelter(p) = {}
        /\ UNCHANGED <<armies, carried>>
     \/ /\ \E l \in Shelter(p) : Add(l, carried[p])
        /\ carried' = [carried EXCEPT ![p] = 0]
  /\ alive' = [alive EXCEPT ![p] = FALSE]
  /\ UNCHANGED <<owner, coup, couptime, tvars, team>>

\* save_armies() of a player who fails the clue check: p_armies is kept, and past
\* FIVEMINUTES the check fails again at every update, in a ship that explodes too.
ClueBust(p) ==
  /\ carried[p] > 0
  /\ \/ Shelter(p) = {} /\ UNCHANGED armies
     \/ \E l \in Shelter(p) : Add(l, carried[p])
  /\ alive' = [alive EXCEPT ![p] = FALSE]
  /\ UNCHANGED <<owner, coup, couptime, tvars, team, carried>>

-----------------------------------------------------------------------------
Daemon ==
  \/ \E p \in Player, l \in Planet :
       Bomb(p, l) \/ BeamUp(p, l) \/ BeamDown(p, l) \/ Invade(p, l) \/ Destroy(p, l) \/ Take(p, l)
  \/ \E p, b \in Player : Transfer(p, b)
  \/ \E l \in Planet : PopPlanet(l) \/ PlfightCoup(l)
  \/ \E e \in SUBSET Team : UdSurrend(e)
  \/ ConquerEnd

Next ==
  \/ Daemon
  \/ \E p \in Player : Coup(p) \/ Die(p) \/ Ghost(p) \/ ClueBust(p)
  \/ \E p \in Player, t \in Team \cup {None} : Enter(p, t)

Spec == Init /\ [][Next]_vars

-----------------------------------------------------------------------------
(* Properties *)

\* A planet belongs to nobody exactly if it has no armies.  beam() tells an
\* invasion from a take-over by the armies alone, and takes an independent for a
\* compatriot on a planet of nobody: with five armies there he could beam them up
\* and, landing the last one elsewhere, win a planet for nobody.
OwnedIffArmed == \A l \in Planet : owner[l] = None <=> armies[l] = 0

\* te_plcount is recomputed only when a planet is destroyed or taken, not at a
\* coup, a surrender or a reset.  Still no empire is counted down on fewer planets
\* than it has: while its clock is on, te_plcount is not below the real number,
\* except for a home planet that a coup has won back.
NoUnjustCountdown ==
  \A t \in Team :
    surrender[t] > 0 => plcount[t] >= Cardinality(Owned(owner, t) \ {HomePlanet[t]})

\* The galaxy is conquered, and about to be reset, only if in Victory parts of
\* it ("Number of systems needed to conquer the galaxy") nobody but one team owns
\* a planet.  That is not always the team the conquest is announced for: parts
\* without an owner count for Ori, and whoever empties one is called the winner.
ConquestIsDue ==
  conquered # None =>
    \E t \in Team : Cardinality({q \in Team : Owners(owner, q) \subseteq {t}}) >= Victory
=============================================================================
