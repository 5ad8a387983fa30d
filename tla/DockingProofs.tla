--------------------------- MODULE DockingProofs ---------------------------
(***************************************************************************)
(* Proofs about Docking, for any players, bays and teams, and whether or   *)
(* not dock() is interrupted.                                              *)
(*                                                                         *)
(* That a docked ship is in the bay it believes it is in is not inductive: *)
(* it says nothing of ships that explode, which release "their" bay too,   *)
(* nor of the bay and the base that dock() has found and not yet claimed.  *)
(***************************************************************************)
EXTENDS Docking, FiniteSetTheorems, TLAPS

\* The ship is in its bay, and its base is there.
Docked(p) ==
  /\ p_bays[p_dock_with[p]][p_dock_bay[p]] = p
  /\ p_type[p_dock_with[p]] = "STARBASE"
  /\ p_status[p_dock_with[p]] # "POUTFIT"

\* dock() has found a bay of a base, for a ship out of orbit.
HasFound == \A p \in Captain : MidDock(p) =>
  docking[p].base \in Captain /\ docking[p].bay \in Bay /\ ~Has(p, "PFORBIT")

\* What dock() has found is still true when it goes on.
BayIsFree == \A p \in Captain : MidDock(p) =>
  /\ p_bays[docking[p].base][docking[p].bay] = VACANT
  /\ p_type[docking[p].base] = "STARBASE"
  /\ p_status[docking[p].base] # "POUTFIT"

\* Docked ships are, alive or exploding.
AllDocked == \A p \in Captain : Has(p, "PFDOCK") /\ ~MidDock(p) => Docked(p)

\* The inductive invariant: types, the moorings that agree, and what dock()
\* and the tractor rely on.
DockIInv ==
  /\ DockTypeOK /\ NotDockedInOrbit /\ RefusedOnlyWhenFull /\ HasFound
  /\ ~torn => BayIsFree /\ AllDocked

-----------------------------------------------------------------------------
(* The operations of bay.c *)

Mooring == [f : [Captain -> SUBSET DockFlag],
            b : [Captain -> [Bay -> Captain \cup {VACANT}]]]

\* Who is docked is in the bay he believes he is in.
Linked(m) == \A p \in Captain :
               "PFDOCK" \in m.f[p] => m.b[p_dock_with[p]][p_dock_bay[p]] = p

\* No flags of m that k has not, but permissions.
Within(m, k) == \A q \in Captain : m.f[q] \subseteq k.f[q] \cup {"PFDOCKOK"}

\* There are numbers that are no player's.
LEMMA Vacancy == VACANT \notin Captain /\ VACANT \notin Bay
BY DockAssumption DEF VACANT, Bay

\* The flags and bays of shared memory are of the right type.
LEMMA MooringsType == ASSUME DockTypeOK PROVE Moorings \in Mooring
BY DEF DockTypeOK, Moorings, Mooring

\* bay_release() empties the bay of the ship alone.
LEMMA BayReleaseKeeps ==
  ASSUME DockTypeOK, NEW m \in Mooring, NEW p \in Captain
  PROVE  LET r == BayRelease(m, p) IN
         /\ r \in Mooring /\ Within(r, m) /\ "PFDOCK" \notin r.f[p]
         /\ Linked(m) => Linked(r)
<1> DEFINE r == BayRelease(m, p)
           w == p_dock_with[p]
           i == p_dock_bay[p]
<1>1. w \in Captain /\ i \in Bay  BY DEF DockTypeOK
<1>2. /\ m.f \in [Captain -> SUBSET DockFlag]
      /\ m.b \in [Captain -> [Bay -> Captain \cup {VACANT}]]
      /\ m = [f |-> m.f, b |-> m.b]
  BY DEF Mooring
<1>3. CASE "PFDOCK" \notin m.f[p]
  BY <1>3 DEF BayRelease, Within
<1>4. CASE "PFDOCK" \in m.f[p]
  <2>1. r = [f |-> [m.f EXCEPT ![p] = @ \ {"PFDOCK"}],
             b |-> [m.b EXCEPT ![w] = [@ EXCEPT ![i] = VACANT]]]
    BY <1>2, <1>4 DEF BayRelease
  <2> HIDE DEF r, w, i
  <2>2. /\ r.f \in [Captain -> SUBSET DockFlag]
        /\ \A q \in Captain : r.f[q] = IF q = p THEN m.f[q] \ {"PFDOCK"} ELSE m.f[q]
    BY <2>1, <1>2
  <2>3. /\ r.b \in [Captain -> [Bay -> Captain \cup {VACANT}]]
        /\ \A q \in Captain, k \in Bay :
             r.b[q][k] = IF q = w /\ k = i THEN VACANT ELSE m.b[q][k]
    BY <2>1, <1>1, <1>2
  <2>4. r \in Mooring /\ Within(r, m) /\ "PFDOCK" \notin r.f[p]
    BY <2>1, <2>2, <2>3 DEF Mooring, Within
  <2>5. ASSUME Linked(m), NEW q \in Captain, "PFDOCK" \in r.f[q]
        PROVE  r.b[p_dock_with[q]][p_dock_bay[q]] = q
    <3>1. q # p /\ "PFDOCK" \in m.f[q]  BY <2>2, <2>5
    <3>2. m.b[p_dock_with[q]][p_dock_bay[q]] = q  BY <2>5, <3>1 DEF Linked
    <3>3. m.b[w][i] = p  BY <2>5, <1>4 DEF Linked, w, i
    <3>4. p_dock_with[q] \in Captain /\ p_dock_bay[q] \in Bay  BY DEF DockTypeOK
    <3> QED  BY <3>1, <3>2, <3>3, <3>4, <2>3
  <2> QED  BY <2>4, <2>5 DEF Linked, r
<1> QED  BY <1>3, <1>4

\* bay_release_all() leaves nobody docked with the base.
LEMMA BayReleaseAllKeeps ==
  ASSUME DockTypeOK, NEW m \in Mooring, NEW base \in Captain
  PROVE  LET r == BayReleaseAll(m, base) IN
         /\ r \in Mooring /\ Within(r, m)
         /\ Linked(m) => /\ Linked(r)
                         /\ \A q \in Captain : p_dock_with[q] = base => "PFDOCK" \notin r.f[q]
<1> DEFINE r == BayReleaseAll(m, base)
<1>1. /\ m.f \in [Captain -> SUBSET DockFlag]
      /\ m.b \in [Captain -> [Bay -> Captain \cup {VACANT}]]
  BY DEF Mooring
<1>2. r = [f |-> r.f, b |-> r.b]  BY DEF BayReleaseAll
<1>3. /\ r.f \in [Captain -> SUBSET DockFlag]
      /\ \A q \in Captain : r.f[q] = IF \E i \in Bay : m.b[base][i] = q
                                     THEN m.f[q] \ {"PFDOCK"} ELSE m.f[q]
  BY <1>1 DEF BayReleaseAll
<1>4. /\ r.b \in [Captain -> [Bay -> Captain \cup {VACANT}]]
      /\ \A q \in Captain : q # base => r.b[q] = m.b[q]
  BY <1>1 DEF BayReleaseAll
<1> HIDE DEF r
<1>5. r \in Mooring /\ Within(r, m)  BY <1>2, <1>3, <1>4 DEF Mooring, Within
<1>6. ASSUME Linked(m), NEW q \in Captain, "PFDOCK" \in r.f[q]
      PROVE  r.b[p_dock_with[q]][p_dock_bay[q]] = q /\ p_dock_with[q] # base
  <2>1. p_dock_with[q] \in Captain /\ p_dock_bay[q] \in Bay  BY DEF DockTypeOK
  <2>2. "PFDOCK" \in m.f[q] /\ ~\E i \in Bay : m.b[base][i] = q  BY <1>3, <1>6
  <2>3. m.b[p_dock_with[q]][p_dock_bay[q]] = q  BY <1>6, <2>2 DEF Linked
  <2> QED  BY <2>1, <2>2, <2>3, <1>4
<1> QED  BY <1>5, <1>6 DEF Linked, r

\* Flags that are taken or given, other than PFDOCK, moor nobody elsewhere.
LEMMA StripKeeps ==
  ASSUME NEW m \in Mooring, NEW p \in Captain, NEW lost
  PROVE  LET r == Strip(m, p, lost) IN
         /\ r \in Mooring /\ Within(r, m) /\ r.b = m.b /\ (Linked(m) => Linked(r))
         /\ \A q \in Captain : r.f[q] \subseteq m.f[q]
<1> DEFINE r == Strip(m, p, lost)
<1>1. /\ m.f \in [Captain -> SUBSET DockFlag]
      /\ m.b \in [Captain -> [Bay -> Captain \cup {VACANT}]]
      /\ m = [f |-> m.f, b |-> m.b]
  BY DEF Mooring
<1> DEFINE x == m.f[p] \ lost
<1>0. r = [m EXCEPT !.f[p] = x]  BY DEF Strip
<1> HIDE DEF x, r
<1>2. r = [f |-> [m.f EXCEPT ![p] = x], b |-> m.b]  BY <1>0, <1>1
<1>3. /\ r.f \in [Captain -> SUBSET DockFlag]
      /\ \A q \in Captain : r.f[q] \subseteq m.f[q]
  BY <1>1, <1>2 DEF x
<1>4. r.b = m.b  BY <1>2
<1> QED  BY <1>1, <1>2, <1>3, <1>4 DEF Mooring, Within, Linked, r

\* Permission to dock that is given moors nobody and frees nobody.
LEMMA RaiseKeeps ==
  ASSUME NEW m \in Mooring, NEW p \in Captain
  PROVE  LET r == Raise(m, p, {"PFDOCKOK"}) IN
         /\ r \in Mooring /\ Within(r, m) /\ r.b = m.b /\ (Linked(m) => Linked(r))
<1> DEFINE r == Raise(m, p, {"PFDOCKOK"})
<1>1. /\ m.f \in [Captain -> SUBSET DockFlag]
      /\ m.b \in [Captain -> [Bay -> Captain \cup {VACANT}]]
      /\ m = [f |-> m.f, b |-> m.b]
  BY DEF Mooring
<1> DEFINE x == m.f[p] \cup {"PFDOCKOK"}
<1>0. r = [m EXCEPT !.f[p] = x]  BY DEF Raise
<1> HIDE DEF x, r
<1>2. r = [f |-> [m.f EXCEPT ![p] = x], b |-> m.b]  BY <1>0, <1>1
<1>3. /\ r.f \in [Captain -> SUBSET DockFlag]
      /\ \A q \in Captain : r.f[q] = m.f[q] \/ r.f[q] = m.f[q] \cup {"PFDOCKOK"}
  BY <1>1, <1>2 DEF DockFlag, x
<1>4. r.b = m.b  BY <1>2
<1>5. \A q \in Captain : "PFDOCK" \in r.f[q] => "PFDOCK" \in m.f[q]  BY <1>3
<1> QED  BY <1>1, <1>2, <1>3, <1>4, <1>5 DEF Mooring, Within, Linked, r

\* One after the other.
LEMMA WithinBoth ==
  ASSUME NEW m, NEW k, NEW j, Within(m, k), Within(k, j) PROVE Within(m, j)
BY DEF Within

-----------------------------------------------------------------------------
(* Steps that leave dock() alone *)

\* A step that tears a dock() in progress, and takes flags or gives permissions,
\* keeps the invariant if it keeps docked ships docked.
LEMMA WholeKeeps ==
  ASSUME DockIInv, DockTypeOK', RefusedOnlyWhenFull', UNCHANGED docking,
         torn' = (torn \/ \E p \in Captain : MidDock(p)),
         \A q \in Captain : p_flags'[q] \subseteq p_flags[q] \cup {"PFDOCKOK"},
         (\A q \in Captain : Has(q, "PFDOCK") => Docked(q))
            => \A q \in Captain : "PFDOCK" \in p_flags'[q] => Docked(q)'
  PROVE  DockIInv'
<1>1. \A q \in Captain : (MidDock(q) <=> MidDock(q)')  BY DEF MidDock
<1>2. /\ \A q \in Captain : "PFDOCK" \in p_flags'[q] => "PFDOCK" \in p_flags[q]
      /\ \A q \in Captain : "PFORBIT" \in p_flags'[q] => "PFORBIT" \in p_flags[q]
  OBVIOUS
<1>3. NotDockedInOrbit'  BY <1>2 DEF DockIInv, NotDockedInOrbit, Has
<1>4. HasFound'  BY <1>1, <1>2 DEF DockIInv, HasFound, Has
<1>5. ASSUME ~torn' PROVE BayIsFree' /\ AllDocked'
  <2>1. ~torn /\ \A p \in Captain : ~MidDock(p)  BY <1>5
  <2>2. \A q \in Captain : Has(q, "PFDOCK") => Docked(q)
    BY <2>1 DEF DockIInv, AllDocked
  <2> QED  BY <2>1, <2>2, <1>1 DEF BayIsFree, AllDocked, Has
<1> QED  BY <1>3, <1>4, <1>5 DEF DockIInv

\* Docked ships are in the bays they believe they are in.
LEMMA TiedLinked ==
  ASSUME \A q \in Captain : Has(q, "PFDOCK") => Docked(q) PROVE Linked(Moorings)
BY DEF Linked, Moorings, Docked, Has

\* The same of a handler that leaves the moorings as m.
LEMMA TiedKeeps ==
  ASSUME DockIInv, Whole, UNCHANGED <<docking, p_dock_with, p_dock_bay>>,
         NEW m \in Mooring, Moor(m), Within(m, Moorings),
         p_status' \in [Captain -> DockStatus],
         p_type' \in [Captain -> {"SHIP", "STARBASE"}],
         p_candock' \in [Captain -> BOOLEAN],
         p_war' \in [Captain -> SUBSET Side],
         p_tractor' \in [Captain -> Captain \cup {VACANT}],
         (\A q \in Captain : Has(q, "PFDOCK") => Docked(q)) => Linked(m),
         (\A q \in Captain : Has(q, "PFDOCK") => Docked(q)) =>
           \A q \in Captain : "PFDOCK" \in m.f[q] =>
             /\ p_type'[p_dock_with[q]] = "STARBASE"
             /\ p_status'[p_dock_with[q]] # "POUTFIT"
  PROVE  DockIInv'
<1>1. p_flags' = m.f /\ p_bays' = m.b  BY DEF Moor
<1>2. /\ m.f \in [Captain -> SUBSET DockFlag]
      /\ m.b \in [Captain -> [Bay -> Captain \cup {VACANT}]]
  BY DEF Mooring
<1>3. /\ torn' = (torn \/ \E p \in Captain : MidDock(p))
      /\ refused' = NotRefused
  BY DEF Whole
<1>4. torn' \in BOOLEAN /\ refused' \in [ship : Captain \cup {VACANT}, base : Captain \cup {VACANT}]
  BY <1>3 DEF DockIInv, DockTypeOK, NotRefused
<1>5. DockTypeOK'  BY <1>1, <1>2, <1>4 DEF DockIInv, DockTypeOK
<1>6. RefusedOnlyWhenFull'  BY <1>3 DEF RefusedOnlyWhenFull
<1>7. \A q \in Captain : p_flags'[q] \subseteq p_flags[q] \cup {"PFDOCKOK"}
  BY <1>1 DEF Within, Moorings
<1>8. ASSUME \A q \in Captain : Has(q, "PFDOCK") => Docked(q),
             NEW q \in Captain, "PFDOCK" \in p_flags'[q]
      PROVE  Docked(q)'
  <2>1. m.b[p_dock_with[q]][p_dock_bay[q]] = q  BY <1>1, <1>8 DEF Linked
  <2> QED  BY <2>1, <1>1, <1>8 DEF Docked
<1> QED  BY <1>3, <1>5, <1>6, <1>7, <1>8, WholeKeeps

\* A handler that only takes moorings away, whole ones, keeps the invariant,
\* whatever it does to the rest of the ship.
LEMMA MoorKeeps ==
  ASSUME DockIInv, Whole, UNCHANGED <<docking, p_dock_with, p_dock_bay>>,
         NEW m \in Mooring, Moor(m), Within(m, Moorings), Linked(Moorings) => Linked(m),
         p_status' \in [Captain -> DockStatus],
         p_type' \in [Captain -> {"SHIP", "STARBASE"}],
         p_candock' \in [Captain -> BOOLEAN],
         p_war' \in [Captain -> SUBSET Side],
         p_tractor' \in [Captain -> Captain \cup {VACANT}],
         Linked(Moorings) => \A q \in Captain : "PFDOCK" \in m.f[q] =>
           /\ p_type[p_dock_with[q]] = "STARBASE" => p_type'[p_dock_with[q]] = "STARBASE"
           /\ p_status[p_dock_with[q]] # "POUTFIT" => p_status'[p_dock_with[q]] # "POUTFIT"
  PROVE  DockIInv'
<1>1. ASSUME \A q \in Captain : Has(q, "PFDOCK") => Docked(q)
      PROVE  /\ Linked(m)
             /\ \A q \in Captain : "PFDOCK" \in m.f[q] =>
                  /\ p_type'[p_dock_with[q]] = "STARBASE"
                  /\ p_status'[p_dock_with[q]] # "POUTFIT"
  <2>1. Linked(Moorings)  BY <1>1, TiedLinked
  <2>2. \A q \in Captain : "PFDOCK" \in m.f[q] => Docked(q)
    BY <1>1 DEF Within, Moorings, Has
  <2> QED  BY <2>1, <2>2 DEF Docked
<1> QED  BY <1>1, TiedKeeps

\* And of one that only takes flags, or permits something.
LEMMA FlagsKeep ==
  ASSUME DockIInv, Whole,
         UNCHANGED <<docking, p_dock_with, p_dock_bay, p_bays, p_status, p_type>>,
         p_flags' \in [Captain -> SUBSET DockFlag],
         \A q \in Captain : p_flags'[q] \subseteq p_flags[q],
         p_candock' \in [Captain -> BOOLEAN],
         p_war' \in [Captain -> SUBSET Side],
         p_tractor' \in [Captain -> Captain \cup {VACANT}]
  PROVE  DockIInv'
<1> DEFINE m == [f |-> p_flags', b |-> p_bays']
<1>1. m \in Mooring /\ Moor(m)  BY DEF Mooring, Moor, DockIInv, DockTypeOK
<1>2. Within(m, Moorings)  BY DEF Within, Moorings
<1>3. Linked(Moorings) => Linked(m)  BY DEF Linked, Moorings
<1>4. /\ p_status' \in [Captain -> DockStatus]
      /\ p_type' \in [Captain -> {"SHIP", "STARBASE"}]
  BY DEF DockIInv, DockTypeOK
<1> HIDE DEF m
<1> QED  BY <1>1, <1>2, <1>3, <1>4, MoorKeeps

\* A beam that is switched off was on a player, or on none.
LEMMA BeamOffType ==
  ASSUME DockTypeOK, NEW p \in Captain, BeamOff(p)
  PROVE  p_tractor' \in [Captain -> Captain \cup {VACANT}]
BY DEF BeamOff, DockTypeOK

\* Handlers of a ship that takes flags from itself.
LEMMA FlagSteps ==
  ASSUME DockIInv, NEW p \in Captain,
         \/ OrbitHeld(p) \/ LockCourse(p) \/ TractorOff(p)
         \/ \E base \in Captain : DockFails(p, base)
         \/ \E victim \in Captain, on \in BOOLEAN : DockAllow(p, victim, on)
         \/ \E works \in BOOLEAN : DockTractorFrame(p, works)
  PROVE  DockIInv'
<1> USE DEF DockIInv
<1>0. /\ p_candock \in [Captain -> BOOLEAN] /\ p_war \in [Captain -> SUBSET Side]
      /\ p_tractor \in [Captain -> Captain \cup {VACANT}]
      /\ p_flags \in [Captain -> SUBSET DockFlag]
  BY DEF DockTypeOK
<1>1. CASE OrbitHeld(p)
  <2>1. /\ p_flags' \in [Captain -> SUBSET DockFlag]
        /\ \A q \in Captain : p_flags'[q] \subseteq p_flags[q]
    BY <1>0, <1>1 DEF OrbitHeld
  <2> QED  BY <1>0, <1>1, <2>1, FlagsKeep DEF OrbitHeld, Handler
<1>2. CASE LockCourse(p)
  <2>1. /\ p_flags' = Strip(Moorings, p, {"PFORBIT"}).f
        /\ p_bays' = Strip(Moorings, p, {"PFORBIT"}).b
    BY <1>2 DEF LockCourse, Moor
  <2>2. /\ p_flags' \in [Captain -> SUBSET DockFlag] /\ p_bays' = p_bays
        /\ \A q \in Captain : p_flags'[q] \subseteq p_flags[q]
    BY <2>1, MooringsType, StripKeeps DEF Mooring, Moorings
  <2> QED  BY <1>0, <1>2, <2>2, FlagsKeep DEF LockCourse, Handler
<1>3. CASE TractorOff(p)
  BY <1>0, <1>3, FlagsKeep, BeamOffType DEF TractorOff, Handler
<1>4. ASSUME NEW base \in Captain, DockFails(p, base) PROVE DockIInv'
  <2>1. /\ p_flags' \in [Captain -> SUBSET DockFlag]
        /\ \A q \in Captain : p_flags'[q] \subseteq p_flags[q]
    BY <1>0, <1>4 DEF DockFails
  <2> QED  BY <1>0, <1>4, <2>1, FlagsKeep, BeamOffType DEF DockFails, Handler
<1>5. ASSUME NEW victim \in Captain, NEW on \in BOOLEAN, DockAllow(p, victim, on)
      PROVE  DockIInv'
  BY <1>0, <1>5, FlagsKeep DEF DockAllow, Handler
<1>6. ASSUME NEW works \in BOOLEAN, DockTractorFrame(p, works) PROVE DockIInv'
  <2> DEFINE victim == p_tractor[p]
  <2>1. /\ Whole /\ victim \in Captain
        /\ UNCHANGED <<p_status, p_type, p_candock, p_war, p_dock_with, p_dock_bay, docking>>
    BY <1>0, <1>6 DEF DockTractorFrame
  <2>2. CASE works
    <3>1. /\ p_flags' = Strip(Moorings, victim, {"PFORBIT"}).f
          /\ p_bays' = Strip(Moorings, victim, {"PFORBIT"}).b
          /\ UNCHANGED p_tractor
      BY <1>6, <2>2 DEF DockTractorFrame, Moor
    <3>2. /\ p_flags' \in [Captain -> SUBSET DockFlag] /\ p_bays' = p_bays
          /\ \A q \in Captain : p_flags'[q] \subseteq p_flags[q]
      BY <2>1, <3>1, MooringsType, StripKeeps DEF Mooring, Moorings
    <3> QED  BY <1>0, <2>1, <3>1, <3>2, FlagsKeep
  <2>3. CASE ~works
    <3>1. BeamOff(p) /\ UNCHANGED moorings  BY <1>6, <2>3 DEF DockTractorFrame
    <3> QED  BY <1>0, <2>1, <3>1, FlagsKeep, BeamOffType DEF moorings
  <2> QED  BY <2>2, <2>3
<1> QED  BY <1>1, <1>2, <1>3, <1>4, <1>5, <1>6

\* set_speed() and the like, and beams: ships let go.
LEMMA UndockStep == ASSUME DockIInv, NEW p \in Captain, Undock(p) PROVE DockIInv'
<1> DEFINE k == BayRelease(Moorings, p)
           m == Strip(k, p, {"PFORBIT"})
<1>1. Moorings \in Mooring /\ DockTypeOK  BY MooringsType DEF DockIInv
<1>2. k \in Mooring /\ Within(k, Moorings) /\ (Linked(Moorings) => Linked(k))
  BY <1>1, BayReleaseKeeps
<1> HIDE DEF k
<1>3. m \in Mooring /\ Within(m, k) /\ (Linked(k) => Linked(m))  BY <1>2, StripKeeps
<1>4. Moor(m)  BY DEF Undock, k
<1> HIDE DEF m
<1>5. Within(m, Moorings) /\ (Linked(Moorings) => Linked(m))
  BY <1>2, <1>3, WithinBoth
<1>6. /\ Whole
      /\ UNCHANGED <<docking, p_dock_with, p_dock_bay, p_status, p_type, p_candock,
                     p_war, p_tractor>>
  BY DEF Undock, Handler
<1> QED  BY <1>1, <1>3, <1>4, <1>5, <1>6, MoorKeeps DEF DockTypeOK

\* A tractor beam pulls both ships from their bays and their orbits.
LEMMA TractorStep ==
  ASSUME DockIInv, NEW p \in Captain, NEW victim \in Captain, Tractor(p, victim)
  PROVE  DockIInv'
<1> DEFINE k1 == BayRelease(Moorings, victim)
           k2 == BayRelease(k1, p)
           k3 == Strip(k2, victim, {"PFORBIT"})
           m  == Strip(k3, p, {"PFORBIT"})
<1>1. Moorings \in Mooring /\ DockTypeOK  BY MooringsType DEF DockIInv
<1>2. k1 \in Mooring /\ Within(k1, Moorings) /\ (Linked(Moorings) => Linked(k1))
  BY <1>1, BayReleaseKeeps
<1> HIDE DEF k1
<1>3. k2 \in Mooring /\ Within(k2, k1) /\ (Linked(k1) => Linked(k2))
  BY <1>1, <1>2, BayReleaseKeeps
<1> HIDE DEF k2
<1>4. k3 \in Mooring /\ Within(k3, k2) /\ (Linked(k2) => Linked(k3))  BY <1>3, StripKeeps
<1> HIDE DEF k3
<1>5. m \in Mooring /\ Within(m, k3) /\ (Linked(k3) => Linked(m))  BY <1>4, StripKeeps
<1>6. Moor(m)  BY DEF Tractor, k1, k2, k3
<1> HIDE DEF m
<1>7. Within(m, Moorings) /\ (Linked(Moorings) => Linked(m))
  BY <1>2, <1>3, <1>4, <1>5, WithinBoth
<1>8. /\ Whole
      /\ UNCHANGED <<docking, p_dock_with, p_dock_bay, p_status, p_type, p_candock, p_war>>
      /\ p_tractor' \in [Captain -> Captain \cup {VACANT}]
  BY <1>1 DEF Tractor, Handler, DockTypeOK
<1> QED  BY <1>1, <1>5, <1>6, <1>7, <1>8, MoorKeeps DEF DockTypeOK

\* handleDockingReq(): a base permits, or bumps all its ships.
LEMMA DockPermissionStep ==
  ASSUME DockIInv, NEW p \in Captain, NEW on \in BOOLEAN, DockPermission(p, on)
  PROVE  DockIInv'
<1> DEFINE k == Strip(Moorings, p, {"PFDOCKOK"})
           m == IF on THEN Raise(Moorings, p, {"PFDOCKOK"}) ELSE BayReleaseAll(k, p)
<1>1. Moorings \in Mooring /\ DockTypeOK  BY MooringsType DEF DockIInv
<1>2. k \in Mooring /\ Within(k, Moorings) /\ (Linked(Moorings) => Linked(k))
  BY <1>1, StripKeeps
<1>3. m \in Mooring /\ Within(m, Moorings) /\ (Linked(Moorings) => Linked(m))
  <2>1. CASE on  BY <2>1, <1>1, RaiseKeeps
  <2>2. CASE ~on
    <3> HIDE DEF k
    <3>1. /\ BayReleaseAll(k, p) \in Mooring /\ Within(BayReleaseAll(k, p), k)
          /\ Linked(k) => Linked(BayReleaseAll(k, p))
      BY <1>1, <1>2, BayReleaseAllKeeps
    <3> QED  BY <3>1, <2>2, <1>2, WithinBoth
  <2> QED  BY <2>1, <2>2
<1>4. Moor(m)  BY DEF DockPermission
<1> HIDE DEF m
<1>5. /\ Whole
      /\ UNCHANGED <<docking, p_dock_with, p_dock_bay, p_status, p_type, p_candock,
                     p_war, p_tractor>>
  BY DEF DockPermission, Handler
<1> QED  BY <1>1, <1>3, <1>4, <1>5, MoorKeeps DEF DockTypeOK

\* declare_war(): the bays that become vacant are those of the ships that must go.
LEMMA DeclareWarStep ==
  ASSUME DockIInv, NEW p \in Captain, NEW mask \in SUBSET (Side \ {p_team[p]}),
         DeclareWar(p, mask)
  PROVE  DockIInv'
<1> DEFINE own  == IF Has(p, "PFDOCK") /\ p_team[p_dock_with[p]] \in mask
                   THEN BayRelease(Moorings, p) ELSE Moorings
           foes == {q \in Captain : /\ p_type[p] = "STARBASE"
                                    /\ p_team[q] \in mask
                                    /\ \E i \in Bay : own.b[p][i] = q}
           m    == [f |-> p_flags', b |-> p_bays']
<1>1. Moorings \in Mooring /\ DockTypeOK  BY MooringsType DEF DockIInv
<1>2. own \in Mooring /\ Within(own, Moorings) /\ (Linked(Moorings) => Linked(own))
  BY <1>1, BayReleaseKeeps DEF Within
<1>3. /\ p_flags' = [q \in Captain |-> IF q \in foes THEN own.f[q] \ {"PFDOCK"} ELSE own.f[q]]
      /\ p_bays' = [q \in Captain |-> [i \in Bay |->
           IF \E s \in foes : /\ "PFDOCK" \in own.f[s]
                              /\ p_dock_with[s] = q
                              /\ p_dock_bay[s] = i
           THEN VACANT ELSE own.b[q][i]]]
  BY DEF DeclareWar
<1> HIDE DEF own, foes
<1>4. /\ own.f \in [Captain -> SUBSET DockFlag]
      /\ own.b \in [Captain -> [Bay -> Captain \cup {VACANT}]]
  BY <1>2 DEF Mooring
<1>5. m \in Mooring /\ Moor(m)  BY <1>3, <1>4 DEF Mooring, Moor
<1>6. Within(m, own)  BY <1>3, <1>4 DEF Within
<1>7. ASSUME Linked(own), NEW q \in Captain, "PFDOCK" \in p_flags'[q]
      PROVE  p_bays'[p_dock_with[q]][p_dock_bay[q]] = q
  <2>1. p_dock_with[q] \in Captain /\ p_dock_bay[q] \in Bay  BY <1>1 DEF DockTypeOK
  <2>2. "PFDOCK" \in own.f[q] /\ q \notin foes  BY <1>3, <1>4, <1>7
  <2>3. own.b[p_dock_with[q]][p_dock_bay[q]] = q  BY <1>7, <2>2 DEF Linked
  <2>4. ASSUME NEW s \in foes, "PFDOCK" \in own.f[s], p_dock_with[s] = p_dock_with[q],
               p_dock_bay[s] = p_dock_bay[q]
        PROVE  FALSE
    <3>1. s \in Captain  BY DEF foes
    <3>2. own.b[p_dock_with[s]][p_dock_bay[s]] = s  BY <1>7, <2>4, <3>1 DEF Linked
    <3> QED  BY <3>2, <2>2, <2>3, <2>4
  <2> QED  BY <1>3, <2>1, <2>3, <2>4
<1>8. Linked(own) => Linked(m)  BY <1>7 DEF Linked
<1> HIDE DEF m
<1>9. Within(m, Moorings) /\ (Linked(Moorings) => Linked(m))
  BY <1>2, <1>6, <1>8, WithinBoth
<1>10. /\ Whole
       /\ UNCHANGED <<docking, p_dock_with, p_dock_bay, p_status, p_type, p_candock,
                      p_tractor>>
       /\ p_war' \in [Captain -> SUBSET Side]
  BY <1>1 DEF DeclareWar, Handler, DockTypeOK
<1> QED  BY <1>1, <1>5, <1>9, <1>10, MoorKeeps DEF DockTypeOK

\* do_refit(): a base that changes bumps its ships; who was no base has none.
LEMMA RefitStep ==
  ASSUME DockIInv, NEW p \in Captain, NEW type \in {"SHIP", "STARBASE"}, Refit(p, type)
  PROVE  DockIInv'
<1> DEFINE k == BayReleaseAll(Moorings, p)
           bumped == IF p_type[p] = "STARBASE" THEN Raise(k, p, {"PFDOCKOK"})
                     ELSE Moorings
           emptied == [bumped EXCEPT !.b = BayInit(bumped.b, p)]
           m == IF type = "STARBASE" THEN Raise(emptied, p, {"PFDOCKOK"}) ELSE bumped
           Tied == \A q \in Captain : Has(q, "PFDOCK") => Docked(q)
<1>1. Moorings \in Mooring /\ DockTypeOK  BY MooringsType DEF DockIInv
<1>2. /\ k \in Mooring /\ Within(k, Moorings)
      /\ Linked(Moorings) => /\ Linked(k)
                             /\ \A q \in Captain : p_dock_with[q] = p => "PFDOCK" \notin k.f[q]
  BY <1>1, BayReleaseAllKeeps
<1>3. Tied => Linked(Moorings)  BY TiedLinked
<1>4. /\ bumped \in Mooring /\ Within(bumped, Moorings)
      /\ Tied => /\ Linked(bumped)
                 /\ \A q \in Captain : "PFDOCK" \in bumped.f[q] => p_dock_with[q] # p
  <2>1. CASE p_type[p] = "STARBASE"
    <3> HIDE DEF k
    <3>1. /\ Raise(k, p, {"PFDOCKOK"}) \in Mooring /\ Within(Raise(k, p, {"PFDOCKOK"}), k)
          /\ Linked(k) => Linked(Raise(k, p, {"PFDOCKOK"}))
      BY <1>2, RaiseKeeps
    <3>2. \A q \in Captain : "PFDOCK" \in Raise(k, p, {"PFDOCKOK"}).f[q] => "PFDOCK" \in k.f[q]
      BY <3>1 DEF Within
    <3>3. bumped = Raise(k, p, {"PFDOCKOK"})  BY <2>1
    <3>4. Within(bumped, Moorings)  BY <3>1, <3>3, <1>2, WithinBoth
    <3> QED  BY <3>1, <3>2, <3>3, <3>4, <1>2, <1>3
  <2>2. CASE p_type[p] # "STARBASE"
    <3>1. Tied => \A q \in Captain : "PFDOCK" \in Moorings.f[q] => p_dock_with[q] # p
      BY <2>2 DEF Docked, Has, Moorings
    <3>2. Within(Moorings, Moorings)  BY DEF Within
    <3> QED  BY <2>2, <3>1, <3>2, <1>1, <1>3
  <2> QED  BY <2>1, <2>2
<1>5. Moor(m)  BY DEF Refit
<1> HIDE DEF bumped, k
<1>6. /\ bumped.f \in [Captain -> SUBSET DockFlag]
      /\ bumped.b \in [Captain -> [Bay -> Captain \cup {VACANT}]]
      /\ bumped = [f |-> bumped.f, b |-> bumped.b]
  BY <1>4 DEF Mooring
<1>7. emptied = [f |-> bumped.f, b |-> BayInit(bumped.b, p)]  BY <1>6
<1>8. /\ BayInit(bumped.b, p) \in [Captain -> [Bay -> Captain \cup {VACANT}]]
      /\ \A q \in Captain : q # p => BayInit(bumped.b, p)[q] = bumped.b[q]
  BY <1>6 DEF BayInit
<1> HIDE DEF emptied
<1>9. emptied \in Mooring /\ emptied.f = bumped.f /\ emptied.b = BayInit(bumped.b, p)
  BY <1>6, <1>7, <1>8 DEF Mooring
<1>10. Tied => Linked(emptied)
  <2>1. \A q \in Captain : p_dock_with[q] \in Captain /\ p_dock_bay[q] \in Bay
    BY <1>1 DEF DockTypeOK
  <2> QED  BY <1>4, <1>8, <1>9, <2>1 DEF Linked
<1>11. Within(emptied, Moorings)  BY <1>4, <1>9 DEF Within
<1>12. /\ Raise(emptied, p, {"PFDOCKOK"}) \in Mooring
       /\ Within(Raise(emptied, p, {"PFDOCKOK"}), emptied)
       /\ Linked(emptied) => Linked(Raise(emptied, p, {"PFDOCKOK"}))
  BY <1>9, RaiseKeeps
<1>13. m \in Mooring /\ Within(m, Moorings) /\ (Tied => Linked(m))
  BY <1>4, <1>10, <1>11, <1>12, WithinBoth
<1>14. \A q \in Captain : "PFDOCK" \in m.f[q] => "PFDOCK" \in bumped.f[q]
  BY <1>9, <1>12 DEF Within
<1> HIDE DEF m
<1>15. Tied => \A q \in Captain : "PFDOCK" \in m.f[q] => p_dock_with[q] # p /\ Docked(q)
  BY <1>4, <1>13, <1>14 DEF Within, Moorings, Has
<1>16. /\ Whole /\ p_type' = [p_type EXCEPT ![p] = type]
       /\ UNCHANGED <<docking, p_dock_with, p_dock_bay, p_status, p_candock, p_war, p_tractor>>
  BY DEF Refit, Handler
<1>17. /\ p_type' \in [Captain -> {"SHIP", "STARBASE"}]
       /\ \A q \in Captain : q # p => p_type'[q] = p_type[q]
  BY <1>1, <1>16 DEF DockTypeOK
<1>18. Tied => \A q \in Captain : "PFDOCK" \in m.f[q] =>
         /\ p_type'[p_dock_with[q]] = "STARBASE"
         /\ p_status'[p_dock_with[q]] # "POUTFIT"
  <2>1. \A q \in Captain : p_dock_with[q] \in Captain  BY <1>1 DEF DockTypeOK
  <2> QED  BY <1>15, <1>16, <1>17, <2>1 DEF Docked
<1> QED  BY <1>1, <1>5, <1>13, <1>16, <1>17, <1>18, TiedKeeps DEF DockTypeOK

\* eject_player(): the victim leaves its bay; a base stays one.
LEMMA EjectStep == ASSUME DockIInv, NEW p \in Captain, Eject(p) PROVE DockIInv'
<1> DEFINE m == BayRelease(Moorings, p)
<1>1. Moorings \in Mooring /\ DockTypeOK  BY MooringsType DEF DockIInv
<1>2. m \in Mooring /\ Within(m, Moorings) /\ (Linked(Moorings) => Linked(m))
  BY <1>1, BayReleaseKeeps
<1>3. Moor(m)  BY DEF Eject
<1> HIDE DEF m
<1>4. /\ Whole /\ UNCHANGED <<docking, p_dock_with, p_dock_bay, p_candock, p_war, p_tractor>>
      /\ p_type' = [p_type EXCEPT ![p] = "STARBASE"]
      /\ p_status' = [p_status EXCEPT ![p] = "PEXPLODE"]
  BY DEF Eject
<1>5. /\ p_type' \in [Captain -> {"SHIP", "STARBASE"}]
      /\ p_status' \in [Captain -> DockStatus]
      /\ \A q \in Captain : p_type[q] = "STARBASE" => p_type'[q] = "STARBASE"
      /\ \A q \in Captain : p_status[q] # "POUTFIT" => p_status'[q] # "POUTFIT"
  BY <1>1, <1>4 DEF DockTypeOK, DockStatus
<1>6. \A q \in Captain : p_dock_with[q] \in Captain  BY <1>1 DEF DockTypeOK
<1> QED  BY <1>1, <1>2, <1>3, <1>4, <1>5, <1>6, MoorKeeps DEF DockTypeOK

\* p_explosion(): a base that explodes is still there.
LEMMA DockExplodeStep == ASSUME DockIInv, NEW p \in Captain, DockExplode(p) PROVE DockIInv'
<1>1. Moorings \in Mooring /\ DockTypeOK  BY MooringsType DEF DockIInv
<1>2. /\ Whole /\ Moor(Moorings) /\ Within(Moorings, Moorings)
      /\ UNCHANGED <<docking, p_dock_with, p_dock_bay, p_type, p_candock, p_war, p_tractor>>
      /\ p_status' = [p_status EXCEPT ![p] = "PEXPLODE"]
  BY DEF DockExplode, Moor, Moorings, Within
<1>3. /\ p_status' \in [Captain -> DockStatus]
      /\ \A q \in Captain : p_status[q] # "POUTFIT" => p_status'[q] # "POUTFIT"
  BY <1>1, <1>2 DEF DockTypeOK, DockStatus
<1>4. \A q \in Captain : p_dock_with[q] \in Captain  BY <1>1 DEF DockTypeOK
<1> DEFINE m == Moorings
<1>5. m \in Mooring /\ Moor(m) /\ Within(m, Moorings) /\ (Linked(Moorings) => Linked(m))
  BY <1>1, <1>2
<1> HIDE DEF m
<1> QED  BY <1>1, <1>2, <1>3, <1>4, <1>5, MoorKeeps DEF DockTypeOK

\* udplayers_pexplode(): nobody is docked with what is left of a base.
LEMMA DockPexplodeStep ==
  ASSUME DockIInv, NEW p \in Captain, NEW over \in BOOLEAN, DockPexplode(p, over)
  PROVE  DockIInv'
<1> DEFINE k1 == BayRelease(Moorings, p)
           k2 == IF p_type[p] = "STARBASE" THEN BayReleaseAll(k1, p) ELSE k1
           m  == Strip(k2, p, {"PFORBIT"})
           Tied == \A q \in Captain : Has(q, "PFDOCK") => Docked(q)
<1>1. Moorings \in Mooring /\ DockTypeOK  BY MooringsType DEF DockIInv
<1>2. k1 \in Mooring /\ Within(k1, Moorings) /\ (Linked(Moorings) => Linked(k1))
  BY <1>1, BayReleaseKeeps
<1>3. Moor(m)  BY DEF DockPexplode, ExplodeBays
<1> HIDE DEF k1
<1>4. Tied => Linked(k1)  BY <1>2, TiedLinked
<1>5. /\ k2 \in Mooring /\ Within(k2, k1)
      /\ Tied => /\ Linked(k2)
                 /\ \A q \in Captain : "PFDOCK" \in k2.f[q] => p_dock_with[q] # p
  <2>1. CASE p_type[p] = "STARBASE"
    BY <1>1, <1>2, <1>4, <2>1, BayReleaseAllKeeps
  <2>2. CASE p_type[p] # "STARBASE"
    <3>1. k2 = k1 /\ Within(k1, k1)  BY <2>2 DEF Within
    <3>2. Tied => \A q \in Captain : "PFDOCK" \in k1.f[q] => p_dock_with[q] # p
      BY <2>2, <1>2 DEF Docked, Has, Moorings, Within
    <3> QED  BY <3>1, <3>2, <1>2, <1>4
  <2> QED  BY <2>1, <2>2
<1> HIDE DEF k2
<1>6. /\ m \in Mooring /\ Within(m, k2) /\ (Linked(k2) => Linked(m))
      /\ \A q \in Captain : m.f[q] \subseteq k2.f[q]
  BY <1>5, StripKeeps
<1> HIDE DEF m
<1>7. Within(m, Moorings)  BY <1>2, <1>5, <1>6, WithinBoth
<1>8. /\ Whole /\ UNCHANGED <<docking, p_dock_with, p_dock_bay, p_type, p_candock, p_war, p_tractor>>
      /\ p_status' = [p_status EXCEPT ![p] = IF over THEN "POUTFIT" ELSE @]
  BY DEF DockPexplode
<1>9. /\ p_status' \in [Captain -> DockStatus]
      /\ \A q \in Captain : q # p => p_status'[q] = p_status[q]
  BY <1>1, <1>8 DEF DockTypeOK, DockStatus
<1>10. Tied => \A q \in Captain : "PFDOCK" \in m.f[q] => p_dock_with[q] # p /\ Docked(q)
  BY <1>5, <1>6, <1>7 DEF Within, Moorings, Has
<1>11. Tied => \A q \in Captain : "PFDOCK" \in m.f[q] =>
         /\ p_type'[p_dock_with[q]] = "STARBASE"
         /\ p_status'[p_dock_with[q]] # "POUTFIT"
  <2>1. \A q \in Captain : p_dock_with[q] \in Captain  BY <1>1 DEF DockTypeOK
  <2> QED  BY <1>8, <1>9, <1>10, <2>1 DEF Docked
<1> QED  BY <1>1, <1>3, <1>5, <1>6, <1>7, <1>8, <1>9, <1>11, TiedKeeps DEF DockTypeOK

\* enter(): nobody is docked with a slot that is not in the game.
LEMMA DockEnterStep ==
  ASSUME DockIInv, NEW p \in Captain, NEW type \in {"SHIP", "STARBASE"}, DockEnter(p, type)
  PROVE  DockIInv'
<1>1. DockTypeOK  BY DEF DockIInv
<1>2. 0 \in Captain /\ 0 \in Bay  BY DockAssumption DEF Bay
<1>3. /\ p_bays' \in [Captain -> [Bay -> Captain \cup {VACANT}]]
      /\ \A q \in Captain : q # p => p_bays'[q] = p_bays[q]
  BY <1>1 DEF DockEnter, BayInit, DockTypeOK
<1>4. /\ p_flags' \in [Captain -> SUBSET DockFlag]
      /\ \A q \in Captain : q # p => p_flags'[q] = p_flags[q]
      /\ p_flags'[p] \subseteq {"PFDOCKOK"}
  BY <1>1 DEF DockEnter, DockTypeOK, DockFlag
<1>5. /\ p_dock_with' \in [Captain -> Captain] /\ p_dock_bay' \in [Captain -> Bay]
      /\ \A q \in Captain : q # p => p_dock_with'[q] = p_dock_with[q] /\ p_dock_bay'[q] = p_dock_bay[q]
  BY <1>1, <1>2 DEF DockEnter, DockTypeOK
<1>6. /\ p_status' \in [Captain -> DockStatus] /\ p_type' \in [Captain -> {"SHIP", "STARBASE"}]
      /\ p_status[p] = "POUTFIT"
      /\ \A q \in Captain : q # p => p_status'[q] = p_status[q] /\ p_type'[q] = p_type[q]
  BY <1>1 DEF DockEnter, DockTypeOK, DockStatus
<1>7. /\ p_candock' \in [Captain -> BOOLEAN] /\ p_war' \in [Captain -> SUBSET Side]
      /\ p_tractor' \in [Captain -> Captain \cup {VACANT}]
  BY <1>1, BeamOffType DEF DockEnter, DockTypeOK
<1>8. /\ torn' = (torn \/ \E q \in Captain : MidDock(q)) /\ UNCHANGED docking
      /\ refused' = NotRefused
  BY DEF DockEnter, Whole
<1>9. torn' \in BOOLEAN /\ refused' \in [ship : Captain \cup {VACANT}, base : Captain \cup {VACANT}]
  BY <1>1, <1>8 DEF DockTypeOK, NotRefused
<1>10. DockTypeOK'  BY <1>1, <1>3, <1>4, <1>5, <1>6, <1>7, <1>8, <1>9 DEF DockTypeOK
<1>11. RefusedOnlyWhenFull'  BY <1>8 DEF RefusedOnlyWhenFull
<1>12. \A q \in Captain : p_flags'[q] \subseteq p_flags[q] \cup {"PFDOCKOK"}  BY <1>4
<1>13. ASSUME \A q \in Captain : Has(q, "PFDOCK") => Docked(q),
              NEW q \in Captain, "PFDOCK" \in p_flags'[q]
       PROVE  Docked(q)'
  <2>1. q # p  BY <1>4, <1>13
  <2>2. Docked(q)  BY <1>4, <1>13, <2>1 DEF Has
  <2>3. p_dock_with[q] \in Captain /\ p_dock_with[q] # p  BY <1>1, <1>6, <2>2 DEF Docked, DockTypeOK
  <2> QED  BY <1>3, <1>5, <1>6, <2>1, <2>2, <2>3 DEF Docked
<1> QED  BY <1>8, <1>10, <1>11, <1>12, <1>13, WholeKeeps

-----------------------------------------------------------------------------
(* dock() and orbit() *)

\* What bay_consistency_check() leaves in a bay is a ship docked there, and not
\* the one that asks.
LEMMA BaysSeenTrue ==
  ASSUME DockTypeOK, NEW p \in Captain, NEW base \in Captain, DockTarget(p, base)
  PROVE  /\ BaysSeen(p, base) \in [Bay -> Captain \cup {VACANT}]
         /\ \A i \in Bay : BaysSeen(p, base)[i] # VACANT =>
              /\ BaysSeen(p, base)[i] \in Captain \ {p}
              /\ Has(BaysSeen(p, base)[i], "PFDOCK")
              /\ p_dock_with[BaysSeen(p, base)[i]] = base
              /\ p_dock_bay[BaysSeen(p, base)[i]] = i
         /\ \A q \in Captain \ {p}, i \in Bay :
              /\ Has(q, "PFDOCK") /\ p_dock_with[q] = base /\ p_dock_bay[q] = i
              /\ p_bays[base][i] = q
              => BaysSeen(p, base)[i] = q
<1>1. \A i \in Bay : p_bays[base][i] \in Captain \cup {VACANT}  BY DEF DockTypeOK
<1>2. \A i \in Bay : BaysSeen(p, base)[i] =
        IF (BeamHolders(p) # {} /\ p_bays[base][i] = p) \/ p_bays[base][i] = VACANT
              \/ ~BayIsTrue(base, i)
        THEN VACANT ELSE p_bays[base][i]
  BY DEF BaysSeen, CheckedBays
<1>3. BaysSeen(p, base) \in [Bay -> Captain \cup {VACANT}]
  BY <1>1 DEF BaysSeen, CheckedBays
<1>4. ASSUME NEW i \in Bay, BaysSeen(p, base)[i] # VACANT
      PROVE  /\ BaysSeen(p, base)[i] \in Captain \ {p}
             /\ Has(BaysSeen(p, base)[i], "PFDOCK")
             /\ p_dock_with[BaysSeen(p, base)[i]] = base
             /\ p_dock_bay[BaysSeen(p, base)[i]] = i
  <2>1. /\ BaysSeen(p, base)[i] = p_bays[base][i] /\ BayIsTrue(base, i)
        /\ BeamHolders(p) = {} \/ p_bays[base][i] # p
    BY <1>2, <1>4
  <2>2. /\ Has(p_bays[base][i], "PFDOCK")
        /\ p_dock_with[p_bays[base][i]] = base /\ p_dock_bay[p_bays[base][i]] = i
    BY <2>1 DEF BayIsTrue
  <2>3. BeamHolders(p) = {} => "PFDOCK" \notin p_flags[p]  BY DEF DockTarget
  <2>4. p_bays[base][i] # p  BY <2>1, <2>2, <2>3 DEF Has
  <2> QED  BY <1>1, <1>4, <2>1, <2>2, <2>4
<1>5. ASSUME NEW q \in Captain \ {p}, NEW i \in Bay, Has(q, "PFDOCK"),
             p_dock_with[q] = base, p_dock_bay[q] = i, p_bays[base][i] = q
      PROVE  BaysSeen(p, base)[i] = q
  <2>1. BayIsTrue(base, i)  BY <1>5 DEF BayIsTrue
  <2>2. q # VACANT  BY Vacancy
  <2> QED  BY <1>2, <1>5, <2>1, <2>2
<1> QED  BY <1>3, <1>4, <1>5

\* The flags of a ship that looks for a bay: neither docked nor in orbit.
LEMMA HeldFlagsOff ==
  ASSUME DockTypeOK, NEW p \in Captain, NEW base \in Captain, DockTarget(p, base)
  PROVE  /\ HeldFlags(p) \in [Captain -> SUBSET DockFlag]
         /\ HeldFlags(p)[p] \cap {"PFDOCK", "PFORBIT"} = {}
         /\ HeldFlags(p)[p] \subseteq p_flags[p]
         /\ \A q \in Captain : q # p => HeldFlags(p)[q] = p_flags[q]
BY DEF HeldFlags, DockTarget, DockTypeOK

\* A ship that looks for a bay finds others docked where they were.
LEMMA SeenKeeps ==
  ASSUME DockTypeOK, NEW p \in Captain, NEW base \in Captain, DockTarget(p, base),
         p_bays' = [p_bays EXCEPT ![base] = BaysSeen(p, base)],
         UNCHANGED <<p_dock_with, p_dock_bay, p_type, p_status>>,
         NEW q \in Captain \ {p}, Has(q, "PFDOCK"), Docked(q)
  PROVE  Docked(q)'
<1>1. p_dock_with[q] \in Captain /\ p_dock_bay[q] \in Bay  BY DEF DockTypeOK
<1>2. p_bays'[p_dock_with[q]][p_dock_bay[q]] = q
  <2>1. CASE p_dock_with[q] = base
    <3>1. BaysSeen(p, base)[p_dock_bay[q]] = q
      BY <1>1, <2>1, BaysSeenTrue DEF Docked
    <3>2. p_bays'[base] = BaysSeen(p, base)  BY DEF DockTypeOK
    <3> QED  BY <2>1, <3>1, <3>2
  <2>2. CASE p_dock_with[q] # base  BY <1>1, <2>2 DEF Docked, DockTypeOK
  <2> QED  BY <2>1, <2>2
<1> QED  BY <1>2 DEF Docked

\* bay_closest() has found a bay.
LEMMA DockLooksStep ==
  ASSUME DockIInv, NEW p \in Captain, NEW base \in Captain, DockLooks(p, base)
  PROVE  DockIInv'
<1>1. DockTypeOK /\ DockTarget(p, base)  BY DEF DockIInv, DockLooks
<1>2. PICK i \in Bay : /\ BaysSeen(p, base)[i] = VACANT
                       /\ docking' = [docking EXCEPT
                            ![p] = [step |-> "flag", base |-> base, bay |-> i]]
  BY DEF DockLooks
<1>3. /\ p_bays' = [p_bays EXCEPT ![base] = BaysSeen(p, base)]
      /\ p_flags' = HeldFlags(p) /\ torn' = (torn \/ \E q \in Captain : MidDock(q))
      /\ refused' = NotRefused
      /\ UNCHANGED <<p_status, p_type, p_candock, p_war, p_tractor, p_dock_with, p_dock_bay>>
  BY DEF DockLooks, Whole
<1>4. /\ p_bays' \in [Captain -> [Bay -> Captain \cup {VACANT}]]
      /\ p_bays'[base] = BaysSeen(p, base)
  BY <1>1, <1>3, BaysSeenTrue DEF DockTypeOK
<1>5. /\ docking'[p] = [step |-> "flag", base |-> base, bay |-> i]
      /\ \A q \in Captain : q # p => docking'[q] = docking[q]
      /\ docking' \in [Captain -> [step : {"idle", "flag", "claim"},
                                   base : Captain \cup {VACANT}, bay : Bay \cup {VACANT}]]
  BY <1>1, <1>2 DEF DockTypeOK
<1>6. /\ p_flags' \in [Captain -> SUBSET DockFlag]
      /\ p_flags'[p] \cap {"PFDOCK", "PFORBIT"} = {}
      /\ \A q \in Captain : q # p => p_flags'[q] = p_flags[q]
  BY <1>1, <1>3, HeldFlagsOff
<1>7. DockTypeOK'
  <2>1. torn' \in BOOLEAN /\ refused' \in [ship : Captain \cup {VACANT}, base : Captain \cup {VACANT}]
    BY <1>1, <1>3 DEF DockTypeOK, NotRefused
  <2> QED  BY <1>1, <1>3, <1>4, <1>5, <1>6, <2>1 DEF DockTypeOK
<1>8. NotDockedInOrbit' /\ RefusedOnlyWhenFull'
  BY <1>3, <1>6 DEF DockIInv, NotDockedInOrbit, RefusedOnlyWhenFull, Has
<1>9. HasFound'  BY <1>5, <1>6 DEF DockIInv, HasFound, MidDock, Has
<1>10. ASSUME ~torn' PROVE BayIsFree' /\ AllDocked'
  <2>1. ~torn /\ \A q \in Captain : ~MidDock(q)  BY <1>3, <1>10
  <2>2. BayIsFree'
    <3>1. p_type[base] = "STARBASE" /\ p_status[base] = "PALIVE"
      BY <1>1 DEF DockTarget, dockAlive
    <3>2. \A q \in Captain : q # p => ~MidDock(q)'  BY <1>5, <2>1 DEF MidDock
    <3> QED  BY <1>2, <1>3, <1>4, <1>5, <3>1, <3>2 DEF BayIsFree
  <2>3. AllDocked'
    <3> SUFFICES ASSUME NEW q \in Captain, "PFDOCK" \in p_flags'[q] PROVE Docked(q)'
      BY DEF AllDocked, Has
    <3>1. q \in Captain \ {p} /\ Has(q, "PFDOCK")  BY <1>6 DEF Has
    <3>2. Docked(q)  BY <2>1, <3>1 DEF DockIInv, AllDocked
    <3> QED  BY <1>1, <1>3, <3>1, <3>2, SeenKeeps
  <2> QED  BY <2>2, <2>3
<1> QED  BY <1>7, <1>8, <1>9, <1>10 DEF DockIInv

\* bay_closest() has found none: then each bay has a ship of its own in it.
LEMMA DockRefusedStep ==
  ASSUME DockIInv, NEW p \in Captain, NEW base \in Captain, DockRefused(p, base)
  PROVE  DockIInv'
<1>1. DockTypeOK /\ DockTarget(p, base)  BY DEF DockIInv, DockRefused
<1>2. /\ p_bays' = [p_bays EXCEPT ![base] = BaysSeen(p, base)]
      /\ p_flags' = HeldFlags(p) /\ torn' = (torn \/ \E q \in Captain : MidDock(q))
      /\ refused' = [ship |-> p, base |-> base]
      /\ UNCHANGED <<p_status, p_type, p_candock, p_war, p_dock_with, p_dock_bay, docking>>
      /\ \A i \in Bay : BaysSeen(p, base)[i] # VACANT
  BY DEF DockRefused
<1>3. p_tractor' \in [Captain -> Captain \cup {VACANT}]
  BY <1>1, BeamOffType DEF DockRefused
<1>4. p_bays' \in [Captain -> [Bay -> Captain \cup {VACANT}]]
  BY <1>1, <1>2, BaysSeenTrue DEF DockTypeOK
<1>5. /\ p_flags' \in [Captain -> SUBSET DockFlag]
      /\ p_flags'[p] \cap {"PFDOCK", "PFORBIT"} = {}
      /\ \A q \in Captain : p_flags'[q] \subseteq p_flags[q]
      /\ \A q \in Captain : q # p => p_flags'[q] = p_flags[q]
  BY <1>1, <1>2, HeldFlagsOff
<1>6. DockTypeOK'
  <2>1. torn' \in BOOLEAN /\ refused' \in [ship : Captain \cup {VACANT}, base : Captain \cup {VACANT}]
    BY <1>1, <1>2 DEF DockTypeOK
  <2> QED  BY <1>1, <1>2, <1>3, <1>4, <1>5, <2>1 DEF DockTypeOK
<1>7. RefusedOnlyWhenFull'
  <2> DEFINE S == {q \in Captain \ {p} : "PFDOCK" \in p_flags'[q] /\ p_dock_with[q] = base}
             f == [i \in Bay |-> BaysSeen(p, base)[i]]
  <2>1. IsFiniteSet(S) /\ Cardinality(S) \in Nat
    BY DockAssumption, FS_Subset, FS_CardinalityType
  <2>2. \A i \in Bay : /\ BaysSeen(p, base)[i] \in S
                       /\ p_dock_bay[BaysSeen(p, base)[i]] = i
    BY <1>1, <1>2, <1>5, BaysSeenTrue DEF Has
  <2>3. IsFiniteSet(Bay) /\ Cardinality(Bay) = NUMBAYS
    <3>1. NUMBAYS \in Nat /\ 0 \in Int /\ NUMBAYS - 1 \in Int /\ ~(0 > NUMBAYS - 1)
      BY DockAssumption
    <3>2. /\ IsFiniteSet(0 .. NUMBAYS - 1)
          /\ Cardinality(0 .. NUMBAYS - 1) = IF 0 > NUMBAYS - 1 THEN 0 ELSE NUMBAYS - 1 - 0 + 1
      BY <3>1, FS_Interval
    <3> QED  BY <3>1, <3>2 DEF Bay
  <2> HIDE DEF S
  <2>4. f \in [Bay -> S] /\ \A i, j \in Bay : f[i] = f[j] => i = j  BY <2>2
  <2>5. f \in Injection(Bay, S)  BY <2>4 DEF Injection, IsInjective
  <2> HIDE DEF f
  <2>6. Cardinality(Bay) <= Cardinality(S)  BY <2>1, <2>3, <2>5, FS_Injection, Zenon
  <2>7. Cardinality(S) >= NUMBAYS  BY <2>1, <2>3, <2>6, DockAssumption
  <2> QED  BY <1>2, <2>7 DEF RefusedOnlyWhenFull, Has, S
<1>8. \A q \in Captain : p_flags'[q] \subseteq p_flags[q] \cup {"PFDOCKOK"}  BY <1>5
<1>9. ASSUME \A q \in Captain : Has(q, "PFDOCK") => Docked(q),
             NEW q \in Captain, "PFDOCK" \in p_flags'[q]
      PROVE  Docked(q)'
  <2>1. q \in Captain \ {p} /\ Has(q, "PFDOCK") /\ Docked(q)  BY <1>5, <1>9 DEF Has
  <2> QED  BY <1>1, <1>2, <2>1, SeenKeeps
<1> QED  BY <1>2, <1>6, <1>7, <1>8, <1>9, WholeKeeps

\* A ship that is not docked goes into orbit.
LEMMA OrbitPlanetStep ==
  ASSUME DockIInv, NEW p \in Captain, OrbitPlanet(p)
  PROVE  DockIInv'
<1>1. DockTypeOK /\ ~MidDock(p)  BY DEF DockIInv, OrbitPlanet, Handler
<1>2. /\ p_flags[p] \cap {"PFDOCK", "PFORBIT"} = {}
      /\ p_flags' = [p_flags EXCEPT ![p] = @ \cup {"PFORBIT"}]
      /\ torn' = (torn \/ \E q \in Captain : MidDock(q)) /\ refused' = NotRefused
      /\ UNCHANGED <<p_status, p_type, p_candock, p_war, p_dock_with, p_dock_bay, p_bays, docking>>
  BY DEF OrbitPlanet, Handler, Whole
<1>3. /\ p_flags' \in [Captain -> SUBSET DockFlag]
      /\ "PFDOCK" \notin p_flags'[p]
      /\ \A q \in Captain : q # p => p_flags'[q] = p_flags[q]
  BY <1>1, <1>2 DEF DockTypeOK, DockFlag
<1>4. p_tractor' \in [Captain -> Captain \cup {VACANT}]
  BY <1>1, BeamOffType DEF OrbitPlanet
<1>5. DockTypeOK'
  <2>1. torn' \in BOOLEAN /\ refused' \in [ship : Captain \cup {VACANT}, base : Captain \cup {VACANT}]
    BY <1>1, <1>2 DEF DockTypeOK, NotRefused
  <2> QED  BY <1>1, <1>2, <1>3, <1>4, <2>1 DEF DockTypeOK
<1>6. NotDockedInOrbit' /\ RefusedOnlyWhenFull'
  BY <1>2, <1>3 DEF DockIInv, NotDockedInOrbit, RefusedOnlyWhenFull, Has
<1>7. \A q \in Captain : MidDock(q)' <=> MidDock(q)  BY <1>2 DEF MidDock
<1>8. HasFound'  BY <1>1, <1>2, <1>3, <1>7 DEF DockIInv, HasFound, Has
<1>9. ASSUME ~torn' PROVE BayIsFree' /\ AllDocked'
  <2>1. BayIsFree /\ AllDocked  BY <1>2, <1>9 DEF DockIInv
  <2> QED  BY <1>2, <1>3, <1>7, <2>1 DEF BayIsFree, AllDocked, Docked, Has
<1> QED  BY <1>5, <1>6, <1>8, <1>9 DEF DockIInv

\* A process that dies inside dock(), or a ghost that leaves in a pause.
LEMMA TornStep ==
  ASSUME DockIInv, NEW p \in Captain, DockKilled(p) \/ PauseGhost(p)
  PROVE  DockIInv'
<1>1. DockTypeOK  BY DEF DockIInv
<1>2. /\ torn' = TRUE /\ refused' = NotRefused
      /\ UNCHANGED <<p_type, p_flags, p_candock, p_war, p_tractor, p_dock_with, p_dock_bay, p_bays>>
  BY DEF DockKilled, PauseGhost
<1>3. /\ p_status' \in [Captain -> DockStatus]
      /\ docking' \in [Captain -> [step : {"idle", "flag", "claim"},
                                   base : Captain \cup {VACANT}, bay : Bay \cup {VACANT}]]
      /\ \A q \in Captain : MidDock(q)' => docking'[q] = docking[q]
  <2>1. CASE DockKilled(p)  BY <1>1, <2>1 DEF DockKilled, DockTypeOK, Idle, MidDock
  <2>2. CASE PauseGhost(p)
    <3>1. UNCHANGED docking /\ p_status' = [p_status EXCEPT ![p] = "POUTFIT"]
      BY <2>2 DEF PauseGhost
    <3> QED  BY <1>1, <3>1 DEF DockTypeOK, DockStatus
  <2> QED  BY <2>1, <2>2
<1>4. DockTypeOK'
  <2>1. torn' \in BOOLEAN /\ refused' \in [ship : Captain \cup {VACANT}, base : Captain \cup {VACANT}]
    BY <1>2 DEF NotRefused
  <2> QED  BY <1>1, <1>2, <1>3, <2>1 DEF DockTypeOK
<1>5. NotDockedInOrbit' /\ RefusedOnlyWhenFull'
  BY <1>2 DEF DockIInv, NotDockedInOrbit, RefusedOnlyWhenFull, Has
<1>6. HasFound'
  <2> SUFFICES ASSUME NEW q \in Captain, MidDock(q)'
               PROVE  docking'[q].base \in Captain /\ docking'[q].bay \in Bay /\ ~Has(q, "PFORBIT")'
    BY DEF HasFound
  <2>1. docking'[q] = docking[q] /\ MidDock(q)  BY <1>3 DEF MidDock
  <2> QED  BY <1>2, <2>1 DEF DockIInv, HasFound, Has
<1> QED  BY <1>2, <1>4, <1>5, <1>6 DEF DockIInv

\* dock() sets PFDOCK.
LEMMA DockFlagsStep ==
  ASSUME DockIInv, NEW p \in Captain, DockFlags(p)
  PROVE  DockIInv'
<1>1. DockTypeOK /\ HasFound  BY DEF DockIInv
<1>2. /\ docking[p].step = "flag"
      /\ docking' = [docking EXCEPT ![p] = [docking[p] EXCEPT !.step = "claim"]]
      /\ torn' = (torn \/ \E q \in Captain \ {p} : MidDock(q)) /\ refused' = NotRefused
      /\ p_flags' = [p_flags EXCEPT ![p] = @ \cup {"PFDOCK"}]
      /\ UNCHANGED <<p_status, p_type, p_candock, p_war, p_dock_with, p_dock_bay, p_bays>>
  BY DEF DockFlags, DockStep
<1>3. MidDock(p) /\ ~Has(p, "PFORBIT")  BY <1>1, <1>2 DEF MidDock, HasFound
<1>4. /\ docking' \in [Captain -> [step : {"idle", "flag", "claim"},
                                   base : Captain \cup {VACANT}, bay : Bay \cup {VACANT}]]
      /\ docking'[p].step = "claim" /\ docking'[p].base = docking[p].base
      /\ docking'[p].bay = docking[p].bay
      /\ \A q \in Captain : q # p => docking'[q] = docking[q]
  BY <1>1, <1>2 DEF DockTypeOK
<1>5. /\ p_flags' \in [Captain -> SUBSET DockFlag]
      /\ "PFORBIT" \notin p_flags'[p]
      /\ \A q \in Captain : q # p => p_flags'[q] = p_flags[q]
  BY <1>1, <1>2, <1>3 DEF DockTypeOK, DockFlag, Has
<1>6. p_tractor' \in [Captain -> Captain \cup {VACANT}]
  BY <1>1, BeamOffType DEF DockFlags
<1>7. DockTypeOK'
  <2>1. torn' \in BOOLEAN /\ refused' \in [ship : Captain \cup {VACANT}, base : Captain \cup {VACANT}]
    BY <1>1, <1>2 DEF DockTypeOK, NotRefused
  <2> QED  BY <1>1, <1>2, <1>4, <1>5, <1>6, <2>1 DEF DockTypeOK
<1>8. NotDockedInOrbit' /\ RefusedOnlyWhenFull'
  BY <1>2, <1>5 DEF DockIInv, NotDockedInOrbit, RefusedOnlyWhenFull, Has
<1>9. MidDock(p)' /\ \A q \in Captain : q # p => (MidDock(q)' <=> MidDock(q))
  BY <1>4 DEF MidDock
<1>10. HasFound'  BY <1>1, <1>3, <1>4, <1>5, <1>9 DEF HasFound, Has
<1>11. ASSUME ~torn' PROVE BayIsFree' /\ AllDocked'
  <2>1. BayIsFree /\ AllDocked  BY <1>2, <1>11 DEF DockIInv
  <2>2. BayIsFree'  BY <1>2, <1>3, <1>4, <1>9, <2>1 DEF BayIsFree
  <2>3. AllDocked'  BY <1>2, <1>5, <1>9, <2>1 DEF AllDocked, Docked, Has
  <2> QED  BY <2>2, <2>3
<1> QED  BY <1>7, <1>8, <1>10, <1>11 DEF DockIInv

\* bay_claim(): the bay that dock() found is still vacant, so nobody loses it.
LEMMA DockClaimsStep ==
  ASSUME DockIInv, NEW p \in Captain, DockClaims(p)
  PROVE  DockIInv'
<1> DEFINE w == docking[p].base
           i == docking[p].bay
<1>1. DockTypeOK /\ HasFound  BY DEF DockIInv
<1>2. /\ docking[p].step = "claim" /\ docking' = [docking EXCEPT ![p] = Idle]
      /\ torn' = (torn \/ \E q \in Captain \ {p} : MidDock(q)) /\ refused' = NotRefused
      /\ p_dock_with' = [p_dock_with EXCEPT ![p] = w]
      /\ p_dock_bay' = [p_dock_bay EXCEPT ![p] = i]
      /\ p_bays' = [p_bays EXCEPT ![w] = [@ EXCEPT ![i] = p]]
      /\ UNCHANGED <<p_status, p_type, p_candock, p_war, p_flags, p_tractor>>
  BY DEF DockClaims, DockStep
<1>3. MidDock(p) /\ w \in Captain /\ i \in Bay  BY <1>1, <1>2 DEF MidDock, HasFound
<1> HIDE DEF w, i
<1>4. /\ p_bays' \in [Captain -> [Bay -> Captain \cup {VACANT}]]
      /\ \A q \in Captain, k \in Bay :
           p_bays'[q][k] = IF q = w /\ k = i THEN p ELSE p_bays[q][k]
  BY <1>1, <1>2, <1>3 DEF DockTypeOK
<1>5. /\ p_dock_with' \in [Captain -> Captain] /\ p_dock_bay' \in [Captain -> Bay]
      /\ p_dock_with'[p] = w /\ p_dock_bay'[p] = i
      /\ \A q \in Captain : q # p => p_dock_with'[q] = p_dock_with[q] /\ p_dock_bay'[q] = p_dock_bay[q]
  BY <1>1, <1>2, <1>3 DEF DockTypeOK
<1>6. /\ docking' \in [Captain -> [step : {"idle", "flag", "claim"},
                                   base : Captain \cup {VACANT}, bay : Bay \cup {VACANT}]]
      /\ \A q \in Captain : q # p => docking'[q] = docking[q]
      /\ docking'[p].step = "idle"
  BY <1>1, <1>2 DEF DockTypeOK, Idle
<1>7. DockTypeOK'
  <2>1. torn' \in BOOLEAN /\ refused' \in [ship : Captain \cup {VACANT}, base : Captain \cup {VACANT}]
    BY <1>1, <1>2 DEF DockTypeOK, NotRefused
  <2> QED  BY <1>1, <1>2, <1>4, <1>5, <1>6, <2>1 DEF DockTypeOK
<1>8. NotDockedInOrbit' /\ RefusedOnlyWhenFull'
  BY <1>2 DEF DockIInv, NotDockedInOrbit, RefusedOnlyWhenFull, Has
<1>9. HasFound'  BY <1>1, <1>2, <1>6 DEF HasFound, MidDock, Has
<1>10. ASSUME ~torn' PROVE BayIsFree' /\ AllDocked'
  <2>1. BayIsFree /\ AllDocked /\ \A q \in Captain \ {p} : ~MidDock(q)
    BY <1>2, <1>10 DEF DockIInv
  <2>2. BayIsFree'  BY <1>6, <2>1 DEF BayIsFree, MidDock
  <2>3. /\ p_bays[w][i] = VACANT
        /\ p_type[w] = "STARBASE" /\ p_status[w] # "POUTFIT"
    BY <1>3, <2>1 DEF BayIsFree, w, i
  <2>4. ASSUME NEW q \in Captain, Has(q, "PFDOCK")' PROVE Docked(q)'
    <3>1. CASE q = p  BY <1>2, <1>3, <1>4, <1>5, <2>3, <3>1 DEF Docked
    <3>2. CASE q # p
      <4>1. Docked(q)  BY <1>2, <2>1, <2>4, <3>2 DEF AllDocked, Has
      <4>2. p_dock_with[q] \in Captain /\ p_dock_bay[q] \in Bay  BY <1>1 DEF DockTypeOK
      <4>3. ~(p_dock_with[q] = w /\ p_dock_bay[q] = i)  BY <2>3, <4>1, Vacancy DEF Docked
      <4>4. p_bays'[p_dock_with[q]][p_dock_bay[q]] = q  BY <1>4, <4>1, <4>2, <4>3 DEF Docked
      <4> QED  BY <1>2, <1>5, <3>2, <4>1, <4>4 DEF Docked
    <3> QED  BY <3>1, <3>2
  <2> QED  BY <2>2, <2>4 DEF AllDocked
<1> QED  BY <1>7, <1>8, <1>9, <1>10 DEF DockIInv

-----------------------------------------------------------------------------
(* The theorem *)

\* At the start no ship is docked and no bay taken.
LEMMA DockFirst == ASSUME DockInit PROVE DockIInv
<1>1. 0 \in Captain /\ 0 \in Bay  BY DockAssumption DEF Bay
<1>2. \A p \in Captain : p_flags[p] = {} /\ ~MidDock(p)  BY DEF DockInit, MidDock, Idle
<1>3. DockTypeOK
  BY <1>1 DEF DockInit, DockTypeOK, DockStatus, Idle, NotRefused
<1>4. refused = NotRefused  BY DEF DockInit
<1> QED
  BY <1>2, <1>3, <1>4 DEF DockIInv, NotDockedInOrbit, RefusedOnlyWhenFull, HasFound,
                          BayIsFree, AllDocked, Has

\* Every step of orbit(), of the other handlers and of the daemon.
LEMMA DockEvery == ASSUME DockIInv, [DockNext]_dockVars PROVE DockIInv'
<1>1. CASE UNCHANGED dockVars
  <2>1. \A p \in Captain : MidDock(p)' <=> MidDock(p)  BY <1>1 DEF dockVars, MidDock
  <2>2. \A p \in Captain : Docked(p)' <=> Docked(p)  BY <1>1 DEF dockVars, Docked
  <2>3. DockTypeOK'  BY <1>1 DEF dockVars, DockIInv, DockTypeOK
  <2>4. NotDockedInOrbit' /\ RefusedOnlyWhenFull'
    BY <1>1 DEF dockVars, DockIInv, NotDockedInOrbit, RefusedOnlyWhenFull, Has
  <2>5. HasFound'  BY <1>1, <2>1 DEF dockVars, DockIInv, HasFound, Has
  <2>6. ~torn' => BayIsFree' /\ AllDocked'
    BY <1>1, <2>1, <2>2 DEF dockVars, DockIInv, BayIsFree, AllDocked, Has
  <2> QED  BY <2>3, <2>4, <2>5, <2>6 DEF DockIInv
<1>2. ASSUME NEW p \in Captain,
             \/ OrbitHeld(p) \/ LockCourse(p) \/ TractorOff(p)
             \/ \E base \in Captain : DockFails(p, base)
             \/ \E victim \in Captain, on \in BOOLEAN : DockAllow(p, victim, on)
             \/ \E works \in BOOLEAN : DockTractorFrame(p, works)
      PROVE  DockIInv'
  BY <1>2, FlagSteps
<1>3. ASSUME NEW p \in Captain, NEW base \in Captain, DockLooks(p, base) \/ DockRefused(p, base)
      PROVE  DockIInv'
  BY <1>3, DockLooksStep, DockRefusedStep
<1>4. ASSUME NEW p \in Captain,
             DockFlags(p) \/ DockClaims(p) \/ DockKilled(p) \/ PauseGhost(p)
      PROVE  DockIInv'
  BY <1>4, DockFlagsStep, DockClaimsStep, TornStep
<1>5. ASSUME NEW p \in Captain,
             OrbitPlanet(p) \/ Undock(p) \/ Eject(p) \/ DockExplode(p)
      PROVE  DockIInv'
  BY <1>5, OrbitPlanetStep, UndockStep, EjectStep, DockExplodeStep
<1>6. ASSUME NEW p \in Captain, NEW victim \in Captain, Tractor(p, victim) PROVE DockIInv'
  BY <1>6, TractorStep
<1>7. ASSUME NEW p \in Captain, NEW on \in BOOLEAN, DockPermission(p, on) PROVE DockIInv'
  BY <1>7, DockPermissionStep
<1>8. ASSUME NEW p \in Captain, NEW mask \in SUBSET (Side \ {p_team[p]}), DeclareWar(p, mask)
      PROVE  DockIInv'
  BY <1>8, DeclareWarStep
<1>9. ASSUME NEW p \in Captain, NEW type \in {"SHIP", "STARBASE"},
             Refit(p, type) \/ DockEnter(p, type)
      PROVE  DockIInv'
  BY <1>9, RefitStep, DockEnterStep
<1>10. ASSUME NEW p \in Captain, NEW over \in BOOLEAN, DockPexplode(p, over) PROVE DockIInv'
  BY <1>10, DockPexplodeStep
<1> QED
  BY <1>1, <1>2, <1>3, <1>4, <1>5, <1>6, <1>7, <1>8, <1>9, <1>10 DEF DockNext

\* Ships and bases agree on who is docked where, nobody is docked and in orbit,
\* and a ship is turned away only from a base that is full: orbit(), bay.c, the
\* other handlers and the daemon, for any players and bays.
THEOREM DocksHold == DockSpec => []BaysInv
<1>1. DockInit => DockIInv  BY DockFirst
<1>2. DockIInv /\ [DockNext]_dockVars => DockIInv'  BY DockEvery
<1>3. DockIInv => BaysInv
  BY DEF DockIInv, BaysInv, DockedIsMoored, AllDocked, Docked
<1> QED  BY <1>1, <1>2, <1>3, PTL DEF DockSpec
=============================================================================
