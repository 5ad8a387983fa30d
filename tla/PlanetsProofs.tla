--------------------------- MODULE PlanetsProofs ---------------------------
(***************************************************************************)
(* Proofs about Planets, for any galaxy, number of players and limits.     *)
(*                                                                         *)
(* That planets are owned exactly if they have armies is not inductive: a  *)
(* carrier of no team would beam armies down to a planet of nobody.  There *)
(* is none, because armies come aboard from an owned planet, or from a     *)
(* base of the same team.                                                  *)
(***************************************************************************)
EXTENDS Planets, FiniteSetTheorems, TLAPS

\* Nobody without a team has armies aboard.
Carriers == \A p \in Player : carried[p] > 0 => team[p] # None

\* The inductive invariant of ownership.
PInv == TypeOK /\ OwnedIffArmed /\ Carriers

\* What owner and armies may be together.
Galaxy(own, arm) ==
  /\ own \in [Planet -> Team \cup {None}]
  /\ arm \in [Planet -> 0 .. MaxArmies]
  /\ \A l \in Planet : own[l] = None <=> arm[l] = 0

\* Planets can be counted.
LEMMA CountType ==
  ASSUME NEW own PROVE Count(own) \in [Team -> Nat]
<1>1. ASSUME NEW t \in Team PROVE Cardinality(Owned(own, t)) \in Nat
  BY FS_Subset, FS_CardinalityType, PlanetsAssumption DEF Owned
<1> QED BY <1>1 DEF Count

\* Adding to a planet that has armies leaves it with armies, and within bounds.
LEMMA CappedType ==
  ASSUME NEW n \in Nat
  PROVE  Capped(n) \in 0 .. MaxArmies /\ (Capped(n) = 0 <=> n = 0)
  BY PlanetsAssumption DEF Capped

\* checkwin() keeps the types of what it counts and announces.
LEMMA CheckWinType ==
  ASSUME NEW own, NEW clock \in [Team -> 0 .. SurrLength], NEW t \in Team, CheckWin(own, clock, t)
  PROVE  /\ plcount' \in [Team -> Nat]
         /\ surrender' \in [Team -> 0 .. SurrLength]
         /\ conquered' \in Team \cup {None}
<1>1. plcount' \in [Team -> Nat] BY CountType DEF CheckWin
<1>2. surrender' \in [Team -> 0 .. SurrLength] BY PlanetsAssumption DEF CheckWin, Sustained
<1> QED BY <1>1, <1>2 DEF CheckWin

\* addTroops() keeps planets that have armies armed and the others empty.
LEMMA BoostType ==
  ASSUME NEW own, NEW arm, NEW loser, NEW t \in Team, Galaxy(own, arm), Boost(own, arm, loser, t)
  PROVE  Galaxy(own, armies')
<1>1. PICK n \in Cardinality({p \in Player : alive[p] /\ team[p] = loser}) ..
                 Cardinality({p \in Player : team[p] = loser}) :
    IF n < Defenders THEN armies' = arm
    ELSE \E g \in [Owned(own, t) -> 0 .. 2 * n - 1] :
           armies' = [l \in Planet |-> IF l \in Owned(own, t) THEN Capped(arm[l] + g[l]) ELSE arm[l]]
  BY DEF Boost
<1>2. CASE armies' = arm BY <1>2
<1>3. CASE \E g \in [Owned(own, t) -> 0 .. 2 * n - 1] :
           armies' = [l \in Planet |-> IF l \in Owned(own, t) THEN Capped(arm[l] + g[l]) ELSE arm[l]]
  <2>1. PICK g \in [Owned(own, t) -> 0 .. 2 * n - 1] :
           armies' = [l \in Planet |-> IF l \in Owned(own, t) THEN Capped(arm[l] + g[l]) ELSE arm[l]]
    BY <1>3
  <2>2. ASSUME NEW l \in Planet, l \in Owned(own, t)
        PROVE  Capped(arm[l] + g[l]) \in 0 .. MaxArmies /\ Capped(arm[l] + g[l]) # 0
    <3>1. arm[l] \in Nat /\ arm[l] > 0
      BY <2>2, PlanetsAssumption DEF Galaxy, Owned
    <3>2. g[l] \in Nat BY <2>1, <2>2
    <3> QED BY <3>1, <3>2, CappedType
  <2>3. ASSUME NEW l \in Planet PROVE own[l] = None <=> armies'[l] = 0
    BY <2>1, <2>2, PlanetsAssumption DEF Galaxy, Owned
  <2>4. armies' \in [Planet -> 0 .. MaxArmies] BY <2>1, <2>2 DEF Galaxy
  <2> QED BY <2>3, <2>4 DEF Galaxy
<1> QED BY <1>1, <1>2, <1>3

\* checkgen() keeps the types, and planets armed as they are owned.
LEMMA CheckGenType ==
  ASSUME TypeOK, NEW loser \in Team, NEW t \in Team, NEW own, NEW arm, Galaxy(own, arm),
         CheckGen(loser, t, own, arm)
  PROVE  /\ Galaxy(own, armies')
         /\ couptime' \in [Team -> Nat] /\ plcount' \in [Team -> Nat]
         /\ surrender' \in [Team -> 0 .. SurrLength]
         /\ conquered' \in Team \cup {None}
         /\ alive' \in [Player -> BOOLEAN]
<1>1. CASE /\ Owned(own, loser) # {}
           /\ plcount' = Count(own)
           /\ surrender' = Collapsing(own, loser)
           /\ armies' = arm
           /\ UNCHANGED <<alive, couptime, conquered>>
  <2>1. Collapsing(own, loser) \in [Team -> 0 .. SurrLength]
    BY PlanetsAssumption DEF Collapsing, TypeOK
  <2> QED BY <1>1, <2>1, CountType DEF TypeOK
<1>2. CASE /\ Owned(own, loser) = {}
           /\ CheckWin(own, [surrender EXCEPT ![loser] = 0], t)
           /\ \/ /\ Conquest(own)
                 /\ armies' = arm
                 /\ UNCHANGED <<alive, couptime>>
              \/ /\ ~Conquest(own)
                 /\ Boost(own, arm, loser, t)
                 /\ Explode(loser)
                 /\ \E c \in CoupTimes : couptime' = [couptime EXCEPT ![loser] = c]
  <2>1. [surrender EXCEPT ![loser] = 0] \in [Team -> 0 .. SurrLength]
    BY PlanetsAssumption DEF TypeOK
  <2>2. /\ plcount' \in [Team -> Nat] /\ surrender' \in [Team -> 0 .. SurrLength]
        /\ conquered' \in Team \cup {None}
    BY <1>2, <2>1, CheckWinType
  <2>3. CASE armies' = arm /\ UNCHANGED <<alive, couptime>>
    BY <2>2, <2>3 DEF TypeOK
  <2>4. CASE /\ Boost(own, arm, loser, t)
             /\ Explode(loser)
             /\ \E c \in CoupTimes : couptime' = [couptime EXCEPT ![loser] = c]
    <3>1. Galaxy(own, armies') BY <2>4, BoostType
    <3>2. couptime' \in [Team -> Nat] BY <2>4, PlanetsAssumption DEF TypeOK
    <3>3. alive' \in [Player -> BOOLEAN] BY <2>4 DEF Explode, TypeOK
    <3> QED BY <2>2, <3>1, <3>2, <3>3
  <2> QED BY <1>2, <2>3, <2>4
<1> QED BY <1>1, <1>2 DEF CheckGen

-----------------------------------------------------------------------------
\* A galaxy that is set up anew is owned where it is armed.
LEMMA PInvInit == Init => PInv
<1> SUFFICES ASSUME Init PROVE PInv OBVIOUS
<1>1. TypeOK BY PlanetsAssumption DEF Init, TypeOK
<1>2. OwnedIffArmed BY PlanetsAssumption DEF Init, OwnedIffArmed
<1> QED BY <1>1, <1>2, PlanetsAssumption DEF PInv, Carriers, Init

\* A change of the number of armies that keeps a planet armed or empty.
LEMMA AddKeeps ==
  ASSUME TypeOK, OwnedIffArmed, NEW l \in Planet, NEW n \in Int,
         armies[l] + n \in Nat, armies[l] > 0 <=> armies[l] + n > 0,
         Add(l, n), UNCHANGED owner
  PROVE  Galaxy(owner', armies')
<1>1. Capped(armies[l] + n) \in 0 .. MaxArmies /\ (Capped(armies[l] + n) = 0 <=> armies[l] + n = 0)
  BY CappedType
<1>2. armies' = [armies EXCEPT ![l] = Capped(armies[l] + n)]
  BY DEF Add
<1>3. armies[l] \in Nat BY DEF TypeOK
<1>4. armies' \in [Planet -> 0 .. MaxArmies] BY <1>1, <1>2 DEF TypeOK
<1>5. ASSUME NEW m \in Planet PROVE owner[m] = None <=> armies'[m] = 0
  BY <1>1, <1>2, <1>3 DEF TypeOK, OwnedIffArmed
<1> QED BY <1>4, <1>5 DEF Galaxy, TypeOK

\* Armies aboard that change by n, for a player who has a team.
LEMMA CarryKeeps ==
  ASSUME TypeOK, Carriers, NEW p \in Player, NEW n \in {-1, 1},
         carried[p] + n \in 0 .. MaxCarry, team[p] # None,
         Carry(p, n), UNCHANGED team
  PROVE  carried' \in [Player -> 0 .. MaxCarry] /\ Carriers'
<1>1. carried' \in [Player -> 0 .. MaxCarry] BY DEF Carry, TypeOK
<1> QED BY <1>1 DEF Carry, Carriers, TypeOK

\* The three parts of the invariant, for a step that leaves the galaxy sound.
LEMMA Assemble ==
  ASSUME Galaxy(owner', armies'), coup' \subseteq Planet,
         couptime' \in [Team -> Nat], plcount' \in [Team -> Nat],
         surrender' \in [Team -> 0 .. SurrLength], conquered' \in Team \cup {None},
         alive' \in [Player -> BOOLEAN], team' \in [Player -> Team \cup {None}],
         carried' \in [Player -> 0 .. MaxCarry], Carriers'
  PROVE  PInv'
  BY DEF PInv, TypeOK, OwnedIffArmed, Galaxy

-----------------------------------------------------------------------------
(* What the daemon does for a player at a planet *)

\* Bombing leaves a garrison.
LEMMA BombStep ==
  ASSUME PInv, NEW p \in Player, NEW l \in Planet, Bomb(p, l) PROVE PInv'
<1>1. PICK ab \in 1 .. MaxBomb : Add(l, -ab) BY DEF Bomb
<1>2. armies[l] \in Nat /\ armies[l] >= Garrison BY DEF Bomb, PInv, TypeOK
<1>3. -ab \in Int /\ armies[l] + (-ab) \in Nat /\ armies[l] + (-ab) > 0 /\ armies[l] > 0
  BY <1>2, PlanetsAssumption
<1>4. Galaxy(owner', armies') BY <1>1, <1>3, AddKeeps DEF Bomb, PInv
<1> QED BY <1>4, Assemble DEF Bomb, PInv, TypeOK, tvars, pvars, Carriers

\* Beaming up leaves a garrison, and the carrier has a team.
LEMMA BeamUpStep ==
  ASSUME PInv, NEW p \in Player, NEW l \in Planet, BeamUp(p, l) PROVE PInv'
<1>1. armies[l] \in Nat /\ armies[l] >= Garrison BY DEF BeamUp, PInv, TypeOK
<1>2. -1 \in Int /\ armies[l] + (-1) \in Nat /\ armies[l] + (-1) > 0 /\ armies[l] > 0
  BY <1>1, PlanetsAssumption
<1>3. Galaxy(owner', armies') BY <1>2, AddKeeps DEF BeamUp, PInv
<1>4. team[p] # None BY <1>2 DEF BeamUp, PInv, OwnedIffArmed
<1>5. carried[p] + 1 \in 0 .. MaxCarry BY PlanetsAssumption DEF BeamUp, PInv, TypeOK
<1>6. carried' \in [Player -> 0 .. MaxCarry] /\ Carriers'
  BY <1>4, <1>5, CarryKeeps DEF BeamUp, PInv
<1> QED BY <1>3, <1>6, Assemble DEF BeamUp, PInv, TypeOK, tvars

\* A player who carries armies has a team and can give one away.
LEMMA Carrier ==
  ASSUME PInv, NEW p \in Player, carried[p] > 0
  PROVE  team[p] \in Team /\ carried[p] + (-1) \in 0 .. MaxCarry
  BY PlanetsAssumption DEF PInv, Carriers, TypeOK

\* Beaming down strengthens a planet of one's own.
LEMMA BeamDownStep ==
  ASSUME PInv, NEW p \in Player, NEW l \in Planet, BeamDown(p, l) PROVE PInv'
<1>1. team[p] \in Team /\ carried[p] + (-1) \in 0 .. MaxCarry BY Carrier DEF BeamDown
<1>2. team[p] # None BY <1>1, PlanetsAssumption
<1>3. armies[l] \in Nat /\ armies[l] > 0
  BY <1>2, PlanetsAssumption DEF BeamDown, PInv, OwnedIffArmed, TypeOK
<1>4. armies[l] + 1 \in Nat /\ armies[l] + 1 > 0 BY <1>3
<1>5. Galaxy(owner', armies') BY <1>3, <1>4, AddKeeps DEF BeamDown, PInv
<1>6. carried' \in [Player -> 0 .. MaxCarry] /\ Carriers'
  BY <1>1, <1>2, CarryKeeps DEF BeamDown, PInv
<1> QED BY <1>5, <1>6, Assemble DEF BeamDown, PInv, TypeOK, tvars

\* Armies that land fight, and leave some defenders.
LEMMA InvadeStep ==
  ASSUME PInv, NEW p \in Player, NEW l \in Planet, Invade(p, l) PROVE PInv'
<1>1. team[p] \in Team /\ carried[p] + (-1) \in 0 .. MaxCarry BY Carrier DEF Invade
<1>2. team[p] # None BY <1>1, PlanetsAssumption
<1>3. armies[l] \in Nat /\ armies[l] > 1 BY DEF Invade, PInv, TypeOK
<1>4. -1 \in Int /\ armies[l] + (-1) \in Nat /\ armies[l] + (-1) > 0 BY <1>3
<1>5. Galaxy(owner', armies') BY <1>3, <1>4, AddKeeps DEF Invade, PInv
<1>6. carried' \in [Player -> 0 .. MaxCarry] /\ Carriers'
  BY <1>1, <1>2, CarryKeeps DEF Invade, PInv
<1> QED BY <1>5, <1>6, Assemble DEF Invade, PInv, TypeOK, tvars

\* A planet without armies is without an owner.
LEMMA DestroyStep ==
  ASSUME PInv, NEW p \in Player, NEW l \in Planet, Destroy(p, l) PROVE PInv'
<1> DEFINE own == [owner EXCEPT ![l] = None]
           arm == [armies EXCEPT ![l] = 0]
<1>1. team[p] \in Team /\ carried[p] + (-1) \in 0 .. MaxCarry BY Carrier DEF Destroy
<1>2. team[p] # None BY <1>1, PlanetsAssumption
<1>3. owner[l] \in Team BY DEF Destroy, PInv, TypeOK, OwnedIffArmed
<1>4. Galaxy(own, arm) BY PlanetsAssumption DEF Galaxy, PInv, TypeOK, OwnedIffArmed
<1>5. CheckGen(owner[l], team[p], own, arm) BY DEF Destroy
<1> HIDE DEF own, arm
<1>6. /\ Galaxy(own, armies')
      /\ couptime' \in [Team -> Nat] /\ plcount' \in [Team -> Nat]
      /\ surrender' \in [Team -> 0 .. SurrLength]
      /\ conquered' \in Team \cup {None} /\ alive' \in [Player -> BOOLEAN]
  BY <1>1, <1>3, <1>4, <1>5, CheckGenType DEF PInv
<1>7. owner' = own BY DEF Destroy, own
<1>8. carried' \in [Player -> 0 .. MaxCarry] /\ Carriers'
  BY <1>1, <1>2, CarryKeeps DEF Destroy, PInv
<1> QED BY <1>6, <1>7, <1>8, Assemble DEF Destroy, PInv, TypeOK

\* Whoever lands on a planet without armies owns it.
LEMMA TakeStep ==
  ASSUME PInv, NEW p \in Player, NEW l \in Planet, Take(p, l) PROVE PInv'
<1>1. team[p] \in Team /\ carried[p] + (-1) \in 0 .. MaxCarry BY Carrier DEF Take
<1>2. team[p] # None BY <1>1, PlanetsAssumption
<1>3. 1 \in 0 .. MaxArmies BY PlanetsAssumption
<1>4. Galaxy(owner', armies')
  BY <1>1, <1>2, <1>3 DEF Take, Galaxy, PInv, TypeOK, OwnedIffArmed
<1>5. /\ plcount' \in [Team -> Nat] /\ surrender' \in [Team -> 0 .. SurrLength]
      /\ conquered' \in Team \cup {None}
  BY <1>1, CheckWinType DEF Take, PInv, TypeOK
<1>6. carried' \in [Player -> 0 .. MaxCarry] /\ Carriers'
  BY <1>1, <1>2, CarryKeeps DEF Take, PInv
<1> QED BY <1>4, <1>5, <1>6, Assemble DEF Take, PInv, TypeOK

\* Armies between ships of a team stay aboard carriers.
LEMMA TransferStep ==
  ASSUME PInv, NEW p \in Player, NEW b \in Player, Transfer(p, b) PROVE PInv'
<1>1. carried' \in [Player -> 0 .. MaxCarry]
  BY PlanetsAssumption DEF Transfer, PInv, TypeOK
<1>2. team[p] # None BY DEF Transfer, PInv, Carriers
<1>3. Carriers' BY <1>1, <1>2 DEF Transfer, PInv, Carriers, TypeOK
<1>4. Galaxy(owner', armies') BY DEF Transfer, Galaxy, PInv, TypeOK, OwnedIffArmed, gvars
<1> QED BY <1>1, <1>3, <1>4, Assemble DEF Transfer, PInv, TypeOK, gvars, tvars

-----------------------------------------------------------------------------
(* What it does for planets and teams *)

\* Growth and plague leave armies where there were some.
LEMMA PopPlanetStep ==
  ASSUME PInv, NEW l \in Planet, PopPlanet(l) PROVE PInv'
<1>1. PICK n \in Plague(armies[l]), g \in 0 .. MaxGrowth : Add(l, g - n) BY DEF PopPlanet
<1>2. armies[l] \in 0 .. MaxArmies /\ armies[l] > 0 BY DEF PopPlanet, PInv, TypeOK
<1>3. n \in Nat /\ n < armies[l] BY <1>1, <1>2, PlanetsAssumption
<1>4. g - n \in Int /\ armies[l] + (g - n) \in Nat /\ armies[l] + (g - n) > 0
  BY <1>1, <1>2, <1>3, PlanetsAssumption
<1>5. Galaxy(owner', armies') BY <1>1, <1>2, <1>4, AddKeeps DEF PopPlanet, PInv
<1> QED BY <1>5, Assemble DEF PopPlanet, PInv, TypeOK, tvars, pvars, Carriers

\* A coup that is carried out gives the home planet its owner and armies.
LEMMA PlfightCoupStep ==
  ASSUME PInv, NEW l \in Planet, PlfightCoup(l) PROVE PInv'
<1>1. CoupArmies \in 1 .. MaxArmies /\ PartOf[l] \in Team /\ PartOf[l] # None
  BY PlanetsAssumption DEF CoupArmies
<1>2. Galaxy(owner', armies')
  BY <1>1 DEF PlfightCoup, Galaxy, PInv, TypeOK, OwnedIffArmed
<1> QED BY <1>2, Assemble DEF PlfightCoup, PInv, TypeOK, tvars, pvars, Carriers

\* An empire that surrenders loses its planets with their armies.
LEMMA UdSurrendStep ==
  ASSUME PInv, NEW enough \in SUBSET Team, UdSurrend(enough) PROVE PInv'
<1> DEFINE down == {t \in enough : surrender[t] > 0 /\ plcount[t] <= SurrenderStart}
           fall == {t \in down : surrender[t] = 1}
<1>1. None \notin fall BY PlanetsAssumption
<1>2. owner' = [l \in Planet |-> IF owner[l] \in fall THEN None ELSE owner[l]]
  BY DEF UdSurrend
<1>3. armies' = [l \in Planet |-> IF owner[l] \in fall THEN 0 ELSE armies[l]]
  BY DEF UdSurrend, Fallen
<1>4. surrender' \in [Team -> 0 .. SurrLength]
  BY PlanetsAssumption DEF UdSurrend, PInv, TypeOK
<1>5. couptime' \in [Team -> Nat]
  <2>1. PICK c \in CoupTimes :
          couptime' = [t \in Team |-> IF t \in fall THEN c
                                      ELSE IF couptime[t] > 0 THEN couptime[t] - 1 ELSE 0]
    BY DEF UdSurrend
  <2>2. c \in Nat BY PlanetsAssumption
  <2> HIDE DEF fall
  <2> QED BY <2>1, <2>2 DEF PInv, TypeOK
<1>6. alive' \in [Player -> BOOLEAN]
  <2>1. alive' = [p \in Player |-> alive[p] /\ team[p] \notin fall] BY DEF UdSurrend
  <2> HIDE DEF fall
  <2> QED BY <2>1 DEF PInv, TypeOK
<1>7. Galaxy(owner', armies')
  <2> HIDE DEF fall
  <2> QED BY <1>1, <1>2, <1>3, PlanetsAssumption DEF Galaxy, PInv, TypeOK, OwnedIffArmed
<1>8. UNCHANGED <<coup, plcount, conquered, team, carried>> BY DEF UdSurrend
<1> HIDE DEF down, fall
<1> QED BY <1>4, <1>5, <1>6, <1>7, <1>8, Assemble DEF PInv, TypeOK, Carriers

\* A conquest ends in a galaxy set up anew.
LEMMA ConquerEndStep == ASSUME PInv, ConquerEnd PROVE PInv'
<1>1. Galaxy(owner', armies') BY PlanetsAssumption DEF ConquerEnd, Galaxy
<1>2. alive' \in [Player -> BOOLEAN] BY DEF ConquerEnd, PInv, TypeOK
<1> QED BY <1>1, <1>2, Assemble, PlanetsAssumption DEF ConquerEnd, PInv, TypeOK, Carriers

-----------------------------------------------------------------------------
(* What players do, and what is done when they are gone *)

\* A coup that is declared only marks the home planet.
LEMMA CoupStep == ASSUME PInv, NEW p \in Player, Coup(p) PROVE PInv'
<1>1. HomePlanet[team[p]] \in Planet BY PlanetsAssumption DEF Coup, PInv, TypeOK
<1>2. Galaxy(owner', armies') BY DEF Coup, Galaxy, PInv, TypeOK, OwnedIffArmed
<1> QED BY <1>1, <1>2, Assemble DEF Coup, PInv, TypeOK, tvars, pvars, Carriers

\* A player who enters, into a team or none, has no armies aboard.
LEMMA EnterStep ==
  ASSUME PInv, NEW p \in Player, NEW t \in Team \cup {None}, Enter(p, t) PROVE PInv'
<1>1. Galaxy(owner', armies') BY DEF Enter, Galaxy, PInv, TypeOK, OwnedIffArmed, gvars
<1>2. carried' \in [Player -> 0 .. MaxCarry] /\ carried'[p] = 0
  BY PlanetsAssumption DEF Enter, PInv, TypeOK
<1>3. Carriers' BY <1>2 DEF Enter, PInv, TypeOK, Carriers
<1> QED BY <1>1, <1>2, <1>3, Assemble DEF Enter, PInv, TypeOK, gvars, tvars

\* Who dies keeps his armies and his team.
LEMMA DieStep == ASSUME PInv, NEW p \in Player, Die(p) PROVE PInv'
<1>1. Galaxy(owner', armies') BY DEF Die, Galaxy, PInv, TypeOK, OwnedIffArmed, gvars
<1> QED BY <1>1, Assemble DEF Die, PInv, TypeOK, gvars, tvars, Carriers

\* The planet that takes in the armies of a player is owned, so it has some.
LEMMA ShelterKeeps ==
  ASSUME PInv, NEW p \in Player, carried[p] > 0, UNCHANGED owner,
         \/ UNCHANGED armies
         \/ \E l \in Shelter(p) : Add(l, carried[p])
  PROVE  Galaxy(owner', armies')
<1>1. CASE UNCHANGED armies BY <1>1 DEF Galaxy, PInv, TypeOK, OwnedIffArmed
<1>2. CASE \E l \in Shelter(p) : Add(l, carried[p])
  <2>1. PICK l \in Shelter(p) : Add(l, carried[p]) BY <1>2
  <2>2. l \in Planet /\ owner[l] = team[p] BY <2>1 DEF Shelter, Owned
  <2>3. team[p] # None BY DEF PInv, Carriers
  <2>4. armies[l] \in Nat /\ armies[l] > 0 /\ carried[p] \in Nat
    BY <2>2, <2>3, PlanetsAssumption DEF PInv, TypeOK, OwnedIffArmed
  <2>5. carried[p] \in Int /\ armies[l] + carried[p] \in Nat /\ armies[l] + carried[p] > 0
    BY <2>4
  <2> QED BY <2>1, <2>2, <2>4, <2>5, AddKeeps DEF PInv
<1> QED BY <1>1, <1>2

\* A ghost's armies go to a planet of his team, which has some, or nowhere.
LEMMA GhostStep == ASSUME PInv, NEW p \in Player, Ghost(p) PROVE PInv'
<1>1. Galaxy(owner', armies') BY ShelterKeeps DEF Ghost
<1>2. carried' \in [Player -> 0 .. MaxCarry] /\ (carried'[p] = 0 \/ carried' = carried)
  BY PlanetsAssumption DEF Ghost, PInv, TypeOK
<1>3. Carriers' BY <1>2 DEF Ghost, PInv, TypeOK, Carriers
<1> QED BY <1>1, <1>2, <1>3, Assemble DEF Ghost, PInv, TypeOK, tvars

\* So do those of a player who fails the clue check.
LEMMA ClueBustStep == ASSUME PInv, NEW p \in Player, ClueBust(p) PROVE PInv'
<1>1. Galaxy(owner', armies') BY ShelterKeeps DEF ClueBust
<1> QED BY <1>1, Assemble DEF ClueBust, PInv, TypeOK, tvars, Carriers

-----------------------------------------------------------------------------
\* Every step of the daemon and of the players keeps it.
LEMMA PInvNext == PInv /\ [Next]_vars => PInv'
<1> SUFFICES ASSUME PInv, [Next]_vars PROVE PInv' OBVIOUS
<1>1. CASE Daemon
  BY <1>1, BombStep, BeamUpStep, BeamDownStep, InvadeStep, DestroyStep, TakeStep, TransferStep,
     PopPlanetStep, PlfightCoupStep, UdSurrendStep, ConquerEndStep DEF Daemon
<1>2. CASE \E p \in Player : Coup(p) \/ Die(p) \/ Ghost(p) \/ ClueBust(p)
  BY <1>2, CoupStep, DieStep, GhostStep, ClueBustStep
<1>3. CASE \E p \in Player, t \in Team \cup {None} : Enter(p, t)
  BY <1>3, EnterStep
<1>4. CASE UNCHANGED vars
  BY <1>4 DEF PInv, TypeOK, OwnedIffArmed, Carriers, vars, gvars, tvars, pvars
<1> QED BY <1>1, <1>2, <1>3, <1>4 DEF Next

\* The inductive invariant: types, ownership and carriers together.
THEOREM PlanetsInvariant == Spec => []PInv
  BY PInvInit, PInvNext, PTL DEF Spec

\* Whatever players and the daemon do, planets have an owner exactly while they
\* have armies.
THEOREM PlanetsOwnedIffArmed == Spec => []OwnedIffArmed
<1>1. PInv => OwnedIffArmed BY DEF PInv
<1> QED BY <1>1, PlanetsInvariant, PTL

-----------------------------------------------------------------------------
(* The surrender clock *)

\* Only home planets can be overturned by a coup.
HomeCoups == \A l \in coup : \E t \in Team : l = HomePlanet[t]

\* The inductive invariant of the countdown.
CInv == PInv /\ HomeCoups /\ NoUnjustCountdown

\* Only home planets are overturned by coups.
LEMMA HomeCoupsStep == PInv /\ HomeCoups /\ [Next]_vars => HomeCoups'
<1> SUFFICES ASSUME PInv, HomeCoups, [Next]_vars PROVE HomeCoups' OBVIOUS
<1>1. ASSUME NEW p \in Player, Coup(p) PROVE HomeCoups'
  BY <1>1 DEF Coup, HomeCoups, PInv, TypeOK
<1>2. coup' \subseteq coup \/ \E p \in Player : Coup(p)
  BY DEF Next, Daemon, Bomb, BeamUp, BeamDown, Invade, Destroy, Take, Transfer, PopPlanet,
     PlfightCoup, UdSurrend, ConquerEnd, Die, Ghost, ClueBust, Enter, vars, gvars
<1> QED BY <1>1, <1>2 DEF HomeCoups

\* Fewer planets do not count more.
LEMMA OwnedMonotone ==
  ASSUME NEW own, NEW S, NEW t, S \subseteq Owned(own, t)
  PROVE  /\ Cardinality(S) \in Nat /\ Cardinality(Owned(own, t)) \in Nat
         /\ Cardinality(S) <= Cardinality(Owned(own, t))
<1>1. IsFiniteSet(Owned(own, t)) BY FS_Subset, PlanetsAssumption DEF Owned
<1> QED BY <1>1, FS_Subset, FS_CardinalityType

\* A step that counts planets anew keeps the clock just ...
LEMMA Recounted ==
  ASSUME plcount' = Count(owner') PROVE NoUnjustCountdown'
<1> SUFFICES ASSUME NEW t \in Team
             PROVE  plcount'[t] >= Cardinality(Owned(owner', t) \ {HomePlanet[t]})
  BY DEF NoUnjustCountdown
<1>1. plcount'[t] = Cardinality(Owned(owner', t)) BY DEF Count
<1> QED BY <1>1, OwnedMonotone

\* ... and so does one that takes planets, other than homes, from teams only.
LEMMA Shrunk ==
  ASSUME NoUnjustCountdown, TypeOK, plcount' = plcount,
         \A t \in Team : surrender'[t] > 0 => surrender[t] > 0,
         \A t \in Team : Owned(owner', t) \ {HomePlanet[t]} \subseteq Owned(owner, t) \ {HomePlanet[t]}
  PROVE  NoUnjustCountdown'
<1> SUFFICES ASSUME NEW t \in Team, surrender'[t] > 0
             PROVE  plcount[t] >= Cardinality(Owned(owner', t) \ {HomePlanet[t]})
  BY DEF NoUnjustCountdown
<1> DEFINE S == Owned(owner', t) \ {HomePlanet[t]}
           T == Owned(owner, t) \ {HomePlanet[t]}
<1>1. S \subseteq T /\ IsFiniteSet(T) BY FS_Subset, PlanetsAssumption DEF Owned
<1> HIDE DEF S, T
<1>2. Cardinality(S) \in Nat /\ Cardinality(T) \in Nat /\ Cardinality(S) <= Cardinality(T)
  BY <1>1, FS_Subset, FS_CardinalityType
<1>3. plcount[t] >= Cardinality(T) BY DEF NoUnjustCountdown, T
<1>4. plcount[t] \in Nat BY DEF TypeOK
<1> QED BY <1>2, <1>3, <1>4 DEF S

\* No step starts or goes on with a countdown that is not due.
LEMMA CountdownStep == CInv /\ [Next]_vars => NoUnjustCountdown'
<1> SUFFICES ASSUME CInv, [Next]_vars PROVE NoUnjustCountdown' OBVIOUS
<1> USE DEF CInv, PInv
<1>1. CASE UNCHANGED <<owner, plcount, surrender>>
  BY <1>1 DEF NoUnjustCountdown, Owned
<1>2. ASSUME NEW p \in Player, NEW l \in Planet, Destroy(p, l) PROVE NoUnjustCountdown'
  BY <1>2, Recounted DEF Destroy, CheckGen, CheckWin
<1>3. ASSUME NEW p \in Player, NEW l \in Planet, Take(p, l) PROVE NoUnjustCountdown'
  BY <1>3, Recounted DEF Take, CheckWin
<1>4. ASSUME NEW l \in Planet, PlfightCoup(l) PROVE NoUnjustCountdown'
  <2>1. PICK h \in Team : l = HomePlanet[h] BY <1>4 DEF PlfightCoup, HomeCoups
  <2>2. owner' = [owner EXCEPT ![l] = h] BY <1>4, <2>1, PlanetsAssumption DEF PlfightCoup
  <2>3. \A t \in Team : Owned(owner', t) \ {HomePlanet[t]} \subseteq Owned(owner, t) \ {HomePlanet[t]}
    BY <2>1, <2>2 DEF Owned, TypeOK
  <2>4. plcount' = plcount /\ surrender' = surrender BY <1>4 DEF PlfightCoup, tvars
  <2> QED BY <2>3, <2>4, Shrunk
<1>5. ASSUME NEW e \in SUBSET Team, UdSurrend(e) PROVE NoUnjustCountdown'
  <2>1. \A t \in Team : surrender'[t] > 0 => surrender[t] > 0
    BY <1>5 DEF UdSurrend, TypeOK
  <2>2. \A l \in Planet : owner'[l] = None \/ owner'[l] = owner[l]
    BY <1>5 DEF UdSurrend
  <2>3. \A t \in Team : Owned(owner', t) \ {HomePlanet[t]} \subseteq Owned(owner, t) \ {HomePlanet[t]}
    BY <2>2, PlanetsAssumption DEF Owned
  <2>4. plcount' = plcount BY <1>5 DEF UdSurrend
  <2> QED BY <2>1, <2>3, <2>4, Shrunk
<1>6. CASE ConquerEnd
  BY <1>6 DEF ConquerEnd, NoUnjustCountdown
<1> QED
  BY <1>1, <1>2, <1>3, <1>4, <1>5, <1>6
  DEF Next, Daemon, Bomb, BeamUp, BeamDown, Invade, Transfer, PopPlanet, Coup, Die, Ghost,
      ClueBust, Enter, vars, gvars, tvars

\* While the clock of an empire runs, te_plcount is not below the number of
\* planets it owns, its home planet apart.
THEOREM CountdownJust == Spec => []NoUnjustCountdown
<1>1. Init => CInv
  <2>1. Init => HomeCoups BY DEF Init, HomeCoups
  <2>2. Init => NoUnjustCountdown BY DEF Init, NoUnjustCountdown
  <2> QED BY <2>1, <2>2, PInvInit DEF CInv
<1>2. CInv /\ [Next]_vars => CInv'
  BY PInvNext, HomeCoupsStep, CountdownStep DEF CInv
<1>3. CInv => NoUnjustCountdown BY DEF CInv
<1> QED BY <1>1, <1>2, <1>3, PTL DEF Spec

-----------------------------------------------------------------------------
(* Conquest *)

\* Whoever is credited with a part owns it as far as it is owned.
LEMMA CreditOwns ==
  ASSUME NEW own \in [Planet -> Team \cup {None}], NEW t, NEW q \in Team,
         t \in Credit(own, q)
  PROVE  Owners(own, q) \subseteq {t}
<1> DEFINE holders == Owners(own, q)
<1>1. IsFiniteSet(holders)
  <2>1. holders \subseteq Team  BY DEF Owners
  <2> QED  BY <2>1, FS_Subset, PlanetsAssumption
<1> HIDE DEF holders
<1>2. CASE holders = {}  BY <1>2 DEF holders
<1>3. CASE holders # {}
  <2>1. Cardinality(holders) = 1 /\ t \in holders
    BY <1>3 DEF Credit, holders
  <2>2. PICK x : holders = {x}  BY <2>1, <1>1, FS_Singleton
  <2> QED  BY <2>1, <2>2 DEF holders
<1> QED  BY <1>2, <1>3

\* The planets that conquer the galaxy are those of one team in enough parts.
LEMMA ConquestOwns ==
  ASSUME NEW own \in [Planet -> Team \cup {None}], Conquest(own)
  PROVE  \E t \in Team : Cardinality({q \in Team : Owners(own, q) \subseteq {t}}) >= Victory
<1>1. PICK t \in Team : Cardinality({q \in Team : t \in Credit(own, q)}) >= Victory
  BY DEF Conquest
<1> DEFINE S == {q \in Team : t \in Credit(own, q)}
           T == {q \in Team : Owners(own, q) \subseteq {t}}
<1>2. S \subseteq T  BY CreditOwns
<1>3. IsFiniteSet(T)  BY FS_Subset, PlanetsAssumption
<1> HIDE DEF S, T
<1>4. /\ Cardinality(S) \in Nat /\ Cardinality(T) \in Nat
      /\ Cardinality(S) <= Cardinality(T)
  BY <1>2, <1>3, FS_Subset, FS_CardinalityType
<1>5. Victory \in Nat  BY PlanetsAssumption
<1>6. Cardinality(S) >= Victory  BY <1>1 DEF S
<1>7. Cardinality(T) >= Victory  BY <1>4, <1>5, <1>6
<1> QED  BY <1>7 DEF T

\* A parade begins with a conquest, and no planet changes hands until it ends.
LEMMA ConquestStep == ASSUME PInv, ConquestIsDue, [Next]_vars PROVE ConquestIsDue'
<1> USE DEF PInv
<1>1. CASE UNCHANGED <<owner, conquered>>
  BY <1>1 DEF ConquestIsDue, Owners
<1>2. ASSUME NEW p \in Player, NEW l \in Planet, Destroy(p, l) PROVE ConquestIsDue'
  <2>1. owner' = [owner EXCEPT ![l] = None] /\ conquered = None
    BY <1>2 DEF Destroy, Playing
  <2>2. owner' \in [Planet -> Team \cup {None}]  BY <2>1 DEF TypeOK
  <2>3. conquered' # None => Conquest(owner')
    BY <1>2, <2>1 DEF Destroy, CheckGen, CheckWin
  <2> QED  BY <2>2, <2>3, ConquestOwns DEF ConquestIsDue
<1>3. ASSUME NEW p \in Player, NEW l \in Planet, Take(p, l) PROVE ConquestIsDue'
  <2>1. /\ owner' = [owner EXCEPT ![l] = team[p]] /\ team[p] \in Team \cup {None}
    BY <1>3 DEF Take, TypeOK
  <2>2. owner' \in [Planet -> Team \cup {None}]  BY <2>1 DEF TypeOK
  <2>3. conquered' # None => Conquest(owner')
    BY <1>3, <2>1 DEF Take, CheckWin
  <2> QED  BY <2>2, <2>3, ConquestOwns DEF ConquestIsDue
<1>4. CASE conquered' = None  BY <1>4 DEF ConquestIsDue
<1>5. \/ UNCHANGED <<owner, conquered>> \/ conquered' = None
      \/ \E p \in Player, l \in Planet : Destroy(p, l) \/ Take(p, l)
  BY DEF Next, Daemon, Bomb, BeamUp, BeamDown, Invade, Transfer, PopPlanet, PlfightCoup,
     UdSurrend, ConquerEnd, Coup, Die, Ghost, ClueBust, Enter, vars, gvars, tvars
<1> QED  BY <1>1, <1>2, <1>3, <1>4, <1>5

\* As long as a conquest parade lasts, in Victory parts of the galaxy nobody but
\* one team owns a planet: parades begin with that, and no planet changes hands
\* in them.
THEOREM ConquestDue == Spec => []ConquestIsDue
<1>1. Init => ConquestIsDue  BY DEF Init, ConquestIsDue
<1>2. PInv /\ PInv' /\ ConquestIsDue /\ [Next]_vars => ConquestIsDue'
  BY ConquestStep
<1> QED  BY <1>1, <1>2, PlanetsInvariant, PTL DEF Spec
=============================================================================
