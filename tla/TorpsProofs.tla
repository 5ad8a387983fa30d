---------------------------- MODULE TorpsProofs ----------------------------
(***************************************************************************)
(* Proofs about torps[] (Torps), for any number of players and torpedoes.  *)
(* Every access to shared memory interleaves.  No slot outside the array   *)
(* is ever written; and until one of the four races of Torps is lost, the  *)
(* counts are exact and every torpedo lies among those of its owner, for   *)
(* which the counts are the reason.                                        *)
(***************************************************************************)
EXTENDS Torps, FiniteSetTheorems, TLAPS

-----------------------------------------------------------------------------
(* Slots *)

\* The slots of a player for torpedoes of a kind.
Own(t, p) == First(t, p) .. Last(t, p)

\* The torpedoes of the players before p come before those of p.
LEMMA Multiples ==
  ASSUME NEW p \in Player, NEW q \in Player, p < q
  PROVE  /\ MaxTorp * p \in Nat /\ MaxTorp * q \in Nat
         /\ MaxTorp * p + MaxTorp <= MaxTorp * q
<1>1. MaxTorp \in Nat /\ p \in Nat /\ q \in Nat
  BY TorpsAssumption DEF Player
<1>2. PICK d \in Nat : q = (p + 1) + d
  <2>1. q - (p + 1) \in Nat /\ q = (p + 1) + (q - (p + 1))  BY <1>1
  <2> QED  BY <2>1
<1>3. MaxTorp * ((p + 1) + d) = (MaxTorp * p + MaxTorp) + MaxTorp * d
  BY <1>1, <1>2
<1>4. MaxTorp * d \in Nat /\ MaxTorp * p \in Nat /\ MaxTorp * q \in Nat
  BY <1>1, <1>2
<1> QED  BY <1>1, <1>2, <1>3, <1>4

\* A player's slots lie in the array; the torpedoes come before the plasmas.
LEMMA PlayerSlots ==
  ASSUME NEW p \in Player
  PROVE  /\ NPlayer \in Nat \ {0} /\ MaxTorp \in Nat \ {0} /\ NTorps \in Nat
         /\ p \in 0 .. NPlayer - 1
         /\ MaxTorp * p \in Nat /\ MaxTorp * p + MaxTorp <= NTorps
<1>1. NPlayer \in Nat \ {0} /\ MaxTorp \in Nat \ {0}  BY TorpsAssumption
<1>2. NTorps \in Nat  BY <1>1 DEF NTorps
<1>3. p \in 0 .. NPlayer - 1  BY DEF Player
<1>4. MaxTorp * p \in Nat  BY <1>1, <1>3
<1>5. PICK d \in Nat : NPlayer = (p + 1) + d
  <2>1. NPlayer - (p + 1) \in Nat /\ NPlayer = (p + 1) + (NPlayer - (p + 1))
    BY <1>1, <1>3
  <2> QED  BY <2>1
<1>6. NTorps = (MaxTorp * p + MaxTorp) + MaxTorp * d
  BY <1>1, <1>3, <1>5 DEF NTorps
<1>7. MaxTorp * d \in Nat  BY <1>1, <1>5
<1> QED  BY <1>1, <1>2, <1>3, <1>4, <1>6, <1>7

\* First and last slot of a player, for each kind.
LEMMA RangeBounds ==
  ASSUME NEW p \in Player, NEW t \in Kind
  PROVE  /\ First(t, p) \in Nat /\ Last(t, p) \in Nat
         /\ Last(t, p) = First(t, p) + Limit(t) - 1
         /\ Limit(t) \in Nat \ {0} /\ Limit(t) <= MaxTorp
         /\ Own(t, p) \subseteq Slot
         /\ t = "photon" => Last(t, p) < NTorps
         /\ t = "plasma" => First(t, p) >= NTorps
<1> DEFINE m == MaxTorp * p
<1>1. /\ NPlayer \in Nat \ {0} /\ MaxTorp \in Nat \ {0} /\ NTorps \in Nat
      /\ p \in 0 .. NPlayer - 1 /\ m \in Nat /\ m + MaxTorp <= NTorps
  BY PlayerSlots
<1>2. /\ First(t, p) = IF t = "photon" THEN m ELSE NTorps + p
      /\ Last(t, p) = IF t = "photon" THEN m + MaxTorp - 1 ELSE NTorps + p
      /\ Limit(t) = IF t = "photon" THEN MaxTorp ELSE 1
      /\ t \in {"photon", "plasma"}
  BY DEF First, Last, Limit, Kind
<1> HIDE DEF m
<1>3. /\ First(t, p) \in Nat /\ Last(t, p) \in Nat
      /\ Last(t, p) = First(t, p) + Limit(t) - 1
      /\ Limit(t) \in Nat \ {0} /\ Limit(t) <= MaxTorp
      /\ Last(t, p) <= NTorps + NPlayer - 1
      /\ t = "photon" => Last(t, p) < NTorps
      /\ t = "plasma" => First(t, p) >= NTorps
  BY <1>1, <1>2
<1>4. Own(t, p) \subseteq Slot  BY <1>1, <1>3 DEF Own, Slot
<1> QED  BY <1>3, <1>4

\* No slot belongs to two players or to two kinds.
LEMMA RangesApart ==
  ASSUME NEW p \in Player, NEW q \in Player, NEW t \in Kind, NEW u \in Kind,
         NEW s \in Own(t, p), s \in Own(u, q)
  PROVE  p = q /\ t = u
<1>1. /\ First(t, p) \in Nat /\ Last(t, p) \in Nat /\ s \in Int
      /\ First(t, p) <= s /\ s <= Last(t, p)
      /\ First(u, q) \in Nat /\ Last(u, q) \in Nat
      /\ First(u, q) <= s /\ s <= Last(u, q)
  BY RangeBounds DEF Own
<1>2. t = u
  <2>1. /\ t \in {"photon", "plasma"} /\ u \in {"photon", "plasma"}
        /\ t = "photon" => Last(t, p) < NTorps
        /\ t = "plasma" => First(t, p) >= NTorps
        /\ u = "photon" => Last(u, q) < NTorps
        /\ u = "plasma" => First(u, q) >= NTorps
        /\ NTorps \in Nat
    BY RangeBounds, PlayerSlots DEF Kind
  <2> QED  BY <1>1, <2>1
<1>3. CASE t = "plasma"
  <2>1. NTorps \in Nat /\ p \in Nat /\ q \in Nat  BY PlayerSlots
  <2>2. /\ First(t, p) = NTorps + p /\ Last(t, p) = NTorps + p
        /\ First(u, q) = NTorps + q /\ Last(u, q) = NTorps + q
    BY <1>2, <1>3 DEF First, Last
  <2>3. p = q  BY <1>1, <2>1, <2>2
  <2> QED  BY <1>2, <2>3
<1>4. CASE t = "photon"
  <2> DEFINE m == MaxTorp * p  n == MaxTorp * q
  <2>1. /\ MaxTorp \in Nat /\ p \in Nat /\ q \in Nat /\ m \in Nat /\ n \in Nat
        /\ p < q => m + MaxTorp <= n
        /\ q < p => n + MaxTorp <= m
    BY PlayerSlots, Multiples
  <2>2. m <= s /\ s <= m + MaxTorp - 1 /\ n <= s /\ s <= n + MaxTorp - 1
    BY <1>1, <1>2, <1>4 DEF First, Last
  <2> HIDE DEF m, n
  <2>3. p = q  BY <1>1, <2>1, <2>2
  <2> QED  BY <1>2, <2>3
<1> QED  BY <1>3, <1>4 DEF Kind

-----------------------------------------------------------------------------
(* What holds whatever races are lost *)

\* The search stays within the player's slots and the one after them, and what
\* is stored to is a slot.
SearchInArray ==
  /\ k \in [Player -> Int] /\ kind \in [Player -> Kind]
  /\ pc \in [Player -> {"ready", "scan", "inc", "inc2", "move", "fields", "store"}]
  /\ \A p \in Player :
       pc[p] = "scan" => k[p] \in First(kind[p], p) .. Last(kind[p], p) + 1
  /\ StaysInArray

\* Every step keeps the search within the array.
LEMMA SearchStep == ASSUME SearchInArray, [Next]_vars PROVE SearchInArray'
<1> USE DEF SearchInArray, StaysInArray
<1>1. CASE UNCHANGED <<pc, k, kind>>
  BY <1>1
<1>2. ASSUME NEW p \in Player, Return(p) PROVE SearchInArray'
  BY <1>2 DEF Return, Goto, Kind
<1>3. ASSUME NEW p \in Player, NEW l \in {"inc2", "move", "fields"},
             pc[p] \in {"inc", "inc2", "move"},
             Goto(p, l), UNCHANGED <<k, kind>>
      PROVE  SearchInArray'
  BY <1>3 DEF Goto
<1>4. ASSUME NEW p \in Player, NEW t \in Kind, Fire(p, t) PROVE SearchInArray'
  <2>1. First(t, p) \in Nat /\ First(t, p) \in First(t, p) .. Last(t, p) + 1
    BY RangeBounds
  <2>2. /\ kind' = [kind EXCEPT ![p] = t] /\ k' = [k EXCEPT ![p] = First(t, p)]
        /\ pc' = [pc EXCEPT ![p] = "scan"]
    BY <1>4 DEF Fire, Goto
  <2> QED  BY <2>1, <2>2
<1>5. ASSUME NEW p \in Player, NEW s \in Slot, NEW v \in {"off", "det"},
             Detonate(p, s, v)
      PROVE  SearchInArray'
  <2>1. s \in Int  BY DEF Slot
  <2>2. CASE /\ k' = [k EXCEPT ![p] = s] /\ pc' = [pc EXCEPT ![p] = "store"]
             /\ UNCHANGED kind
    BY <2>1, <2>2
  <2> QED  BY <1>1, <1>5, <2>2 DEF Detonate, Goto
<1>6. ASSUME NEW p \in Player, Scan(p) PROVE SearchInArray'
  <2>1. /\ k[p] \in Int /\ kind[p] \in Kind
        /\ First(kind[p], p) \in Nat /\ Last(kind[p], p) \in Nat
        /\ First(kind[p], p) <= k[p] /\ k[p] <= Last(kind[p], p) + 1
        /\ Own(kind[p], p) \subseteq Slot
        /\ kind[p] = "photon" => Last(kind[p], p) < NTorps
        /\ NTorps \in Nat /\ NPlayer \in Nat \ {0}
    BY <1>6, RangeBounds, PlayerSlots DEF Scan
  <2>2. CASE Return(p)
    BY <1>2, <2>2
  <2>3. CASE /\ k[p] > Last(kind[p], p) => kind[p] = "photon"
             /\ pc' = [pc EXCEPT ![p] = "inc"] /\ UNCHANGED <<k, kind>>
    <3>1. k[p] \in Slot
      <4>1. CASE k[p] > Last(kind[p], p)
        BY <2>1, <2>3, <4>1 DEF Slot
      <4>2. CASE ~(k[p] > Last(kind[p], p))
        <5>1. k[p] \in Own(kind[p], p)  BY <2>1, <4>2 DEF Own
        <5> QED  BY <2>1, <5>1
      <4> QED  BY <4>1, <4>2
    <3> QED  BY <2>3, <3>1
  <2>4. CASE /\ ~(k[p] > Last(kind[p], p))
             /\ k' = [k EXCEPT ![p] = k[p] + 1] /\ UNCHANGED <<pc, kind>>
    <3>1. k[p] + 1 \in First(kind[p], p) .. Last(kind[p], p) + 1 /\ k[p] + 1 \in Int
      BY <2>1, <2>4
    <3>2. pc[p] = "scan"  BY <1>6 DEF Scan
    <3> QED  BY <2>4, <3>1, <3>2
  <2> QED  BY <1>6, <2>2, <2>3, <2>4 DEF Scan, Goto
<1>7. ASSUME NEW p \in Player,
             Inc(p) \/ IncStore(p) \/ Move(p) \/ Fields(p) \/ DetStore(p)
      PROVE  SearchInArray'
  BY <1>2, <1>3, <1>7 DEF Inc, IncStore, Move, Fields, DetStore
<1>8. CASE Udtorps \/ UNCHANGED vars \/ \E p \in Player :
             Die(p) \/ CloseInput(p) \/ Reenter(p) \/ Turnover(p)
  BY <1>1, <1>8 DEF Udtorps, UdLoad, UdGoesOn, UdExplode, UdOut, UdFree, UdDec,
     UdDecStore, NextSlot, Die, CloseInput, Reenter, Turnover, vars, pvars
<1> QED
  BY <1>4, <1>5, <1>6, <1>7, <1>8 DEF Next, Play, Ntserv, DetMine, DetOthers

\* Whatever races are lost and whatever the counts say, no player's torpedo is
\* written outside torps[], for any number of players and torpedoes.
THEOREM TorpsInArray == Spec => []StaysInArray
<1>1. Init => SearchInArray
  BY DEF Init, SearchInArray, StaysInArray, Kind
<1>2. SearchInArray /\ [Next]_vars => SearchInArray'  BY SearchStep
<1>3. SearchInArray => StaysInArray  BY DEF SearchInArray
<1> QED  BY <1>1, <1>2, <1>3, PTL DEF Spec

-----------------------------------------------------------------------------
(* Types *)

\* Counts stay within the bound of the model, and within the limits of the code
\* they are not cut off by it.
LEMMA CapRange ==
  ASSUME NEW n \in Int
  PROVE  /\ Cap(n) \in -CountCap .. MaxTorp + CountCap
         /\ n \in 0 .. MaxTorp + CountCap => Cap(n) = n
BY TorpsAssumption DEF Cap

\* A slot number is one of k, and so is 0.
LEMMA SlotNumbers ==
  /\ Slot \subseteq 0 .. NTorps + NPlayer /\ 0 \in Slot /\ 0 \in 0 .. NTorps + NPlayer
  /\ \A p \in Player, t \in Kind :
       First(t, p) \in 0 .. NTorps + NPlayer /\ Last(t, p) + 1 \in 0 .. NTorps + NPlayer
<1>1. NPlayer \in Nat \ {0} /\ MaxTorp \in Nat \ {0} /\ NTorps \in Nat
  BY TorpsAssumption DEF NTorps
<1>2. Slot \subseteq 0 .. NTorps + NPlayer /\ 0 \in Slot /\ 0 \in 0 .. NTorps + NPlayer
  BY <1>1 DEF Slot
<1>3. ASSUME NEW p \in Player, NEW t \in Kind
      PROVE  First(t, p) \in 0 .. NTorps + NPlayer /\ Last(t, p) + 1 \in 0 .. NTorps + NPlayer
  <2>1. /\ First(t, p) \in Int /\ Last(t, p) \in Nat /\ Last(t, p) >= First(t, p)
        /\ First(t, p) .. Last(t, p) \subseteq Slot
    BY RangeBounds DEF Own
  <2>2. Last(t, p) \in First(t, p) .. Last(t, p)  BY <2>1
  <2>3. Last(t, p) \in Slot  BY <2>1, <2>2
  <2> QED  BY <1>1, <2>1, <2>3 DEF Slot
<1> QED  BY <1>2, <1>3

\* Types are kept: the numbers the search goes through are those of slots, and one.
LEMMA TypesStep == ASSUME TypeOK, SearchInArray, [Next]_vars PROVE TypeOK'
<1> USE DEF TypeOK
<1>1. CASE UNCHANGED vars
  BY <1>1 DEF vars, tvars, pvars, dvars
<1>2. ASSUME NEW p \in Player, Return(p)
      PROVE  /\ pc' \in [Player -> {"ready", "scan", "inc", "inc2", "move", "fields", "store"}]
             /\ k' \in [Player -> 0 .. NTorps + NPlayer]
             /\ kind' \in [Player -> Kind] /\ reg' \in [Player -> Int]
  BY <1>2, SlotNumbers DEF Return, Goto, Kind
<1>3. ASSUME NEW p \in Player, NEW t \in Kind, Fire(p, t) PROVE TypeOK'
  <2>1. First(t, p) \in 0 .. NTorps + NPlayer  BY SlotNumbers
  <2>2. cnt[t][p] \in Int  BY TorpsAssumption
  <2>3. /\ kind' \in [Player -> Kind] /\ k' \in [Player -> 0 .. NTorps + NPlayer]
        /\ reg' \in [Player -> Int]
        /\ pc' \in [Player -> {"ready", "scan", "inc", "inc2", "move", "fields", "store"}]
        /\ UNCHANGED <<tvars, cnt, st, val, dvars, raced>>
    BY <1>3, <2>1, <2>2 DEF Fire, Goto
  <2> QED  BY <2>3 DEF tvars, dvars
<1>4. ASSUME NEW p \in Player, Scan(p) PROVE TypeOK'
  <2>1. /\ UNCHANGED <<tvars, cnt, st, val, dvars, raced>>
        /\ \/ Return(p)
           \/ pc' = [pc EXCEPT ![p] = "inc"] /\ UNCHANGED <<k, kind, reg>>
           \/ /\ ~(k[p] > Last(kind[p], p)) /\ UNCHANGED <<pc, kind, reg>>
              /\ k' = [k EXCEPT ![p] = k[p] + 1]
    BY <1>4 DEF Scan, Goto
  <2>2. k[p] \in Int /\ 0 <= k[p] /\ Last(kind[p], p) \in Nat
        /\ Last(kind[p], p) + 1 \in 0 .. NTorps + NPlayer /\ NTorps + NPlayer \in Int
    BY RangeBounds, SlotNumbers, TorpsAssumption DEF NTorps
  <2>3. ~(k[p] > Last(kind[p], p)) => k[p] + 1 \in 0 .. NTorps + NPlayer
    BY <2>2
  <2>4. /\ kind' \in [Player -> Kind] /\ k' \in [Player -> 0 .. NTorps + NPlayer]
        /\ reg' \in [Player -> Int]
        /\ pc' \in [Player -> {"ready", "scan", "inc", "inc2", "move", "fields", "store"}]
    <3>1. CASE Return(p)  BY <1>2, <3>1
    <3>2. CASE pc' = [pc EXCEPT ![p] = "inc"] /\ UNCHANGED <<k, kind, reg>>
      BY <3>2
    <3>3. CASE /\ ~(k[p] > Last(kind[p], p)) /\ UNCHANGED <<pc, kind, reg>>
               /\ k' = [k EXCEPT ![p] = k[p] + 1]
      BY <2>3, <3>3
    <3> QED  BY <2>1, <3>1, <3>2, <3>3
  <2> QED  BY <2>1, <2>4 DEF tvars, dvars
<1>5. ASSUME NEW p \in Player, Inc(p) \/ IncStore(p) \/ Move(p) PROVE TypeOK'
  <2>1. \A t \in Kind : cnt[t][p] \in Int  BY TorpsAssumption
  <2>2. Cap(reg[p] + 1) \in -CountCap .. MaxTorp + CountCap  BY CapRange
  <2>3. CASE Inc(p)  BY <2>1, <2>3 DEF Inc, Goto, tvars, dvars
  <2>4. CASE IncStore(p)
    <3>1. /\ cnt' = [cnt EXCEPT ![kind[p]] = [cnt[kind[p]] EXCEPT ![p] = Cap(reg[p] + 1)]]
          /\ reg' = [reg EXCEPT ![p] = 0] /\ pc' = [pc EXCEPT ![p] = "move"]
          /\ raced' \in BOOLEAN /\ UNCHANGED <<torp, owner, type, st, kind, k, val, dpc, dt, dst, dreg>>
      BY <2>4 DEF IncStore, Goto, tvars, dvars
    <3>2. cnt' \in [Kind -> [Player -> -CountCap .. MaxTorp + CountCap]]
      BY <2>2, <3>1
    <3>3. reg' \in [Player -> Int]
          /\ pc' \in [Player -> {"ready", "scan", "inc", "inc2", "move", "fields", "store"}]
      BY <3>1
    <3> QED  BY <3>1, <3>2, <3>3
  <2>5. CASE Move(p)  BY <2>5 DEF Move, Goto, Status, dvars
  <2> QED  BY <1>5, <2>3, <2>4, <2>5
<1>6. ASSUME NEW p \in Player, Fields(p) \/ DetStore(p) PROVE TypeOK'
  <2>1. Return(p)  BY <1>6 DEF Fields, DetStore
  <2>2. CASE Fields(p)
    <3>1. owner' \in [Slot -> Player] /\ type' \in [Slot -> Kind]
      BY <2>2 DEF Fields
    <3> QED  BY <1>2, <2>1, <2>2, <3>1 DEF Fields, dvars
  <2>3. CASE DetStore(p)
    <3>1. torp' \in [Slot -> Status] /\ val' \in [Player -> {"det", "off"}]
      BY <2>3 DEF DetStore, Status
    <3>2. raced' \in BOOLEAN  BY <2>3 DEF DetStore
    <3> QED  BY <1>2, <2>1, <2>3, <3>1, <3>2 DEF DetStore, dvars
  <2> QED  BY <1>6, <2>2, <2>3
<1>7. ASSUME NEW p \in Player, NEW s \in Slot, DetMine(p, s) \/ DetOthers(p, s)
      PROVE  TypeOK'
  <2>1. PICK v \in {"det", "off"} : Detonate(p, s, v)
    BY <1>7 DEF DetMine, DetOthers
  <2>2. s \in 0 .. NTorps + NPlayer  BY SlotNumbers
  <2>3. /\ k' \in [Player -> 0 .. NTorps + NPlayer] /\ val' \in [Player -> {"det", "off"}]
        /\ pc' \in [Player -> {"ready", "scan", "inc", "inc2", "move", "fields", "store"}]
    BY <2>1, <2>2 DEF Detonate, Goto
  <2> QED  BY <2>1, <2>3 DEF Detonate, tvars, dvars
<1>8. NextSlot => dpc' = "load" /\ dst' = "free" /\ dt' \in Slot
  <2>1. NTorps \in Nat /\ NPlayer \in Nat \ {0}  BY TorpsAssumption DEF NTorps
  <2> QED  BY <2>1 DEF NextSlot, Slot
<1>9. CASE UdLoad \/ UdGoesOn \/ UdExplode \/ UdOut \/ UdFree
  BY <1>8, <1>9 DEF UdLoad, UdGoesOn, UdExplode, UdOut, UdFree, Status, tvars, pvars
<1>10. CASE UdDec \/ UdDecStore
  <2>1. \A t \in Kind, p \in Player : cnt[t][p] \in Int  BY TorpsAssumption
  <2>2. Cap(dreg - 1) \in -CountCap .. MaxTorp + CountCap  BY CapRange
  <2>3. CASE UdDec
    <3>1. owner[dt] \in Player /\ type[dt] \in Kind  OBVIOUS
    <3> QED  BY <2>1, <2>3, <3>1 DEF UdDec, tvars, pvars
  <2>4. CASE UdDecStore
    <3>1. cnt' = [cnt EXCEPT ![type[dt]] = [cnt[type[dt]] EXCEPT ![owner[dt]] = Cap(dreg - 1)]]
      BY <2>4 DEF UdDecStore
    <3>2. cnt' \in [Kind -> [Player -> -CountCap .. MaxTorp + CountCap]]
      BY <2>2, <3>1
    <3>3. raced' \in BOOLEAN /\ dreg' = 0  BY <2>4 DEF UdDecStore
    <3> QED  BY <1>8, <2>4, <3>2, <3>3 DEF UdDecStore, Status, tvars, pvars
  <2> QED  BY <1>10, <2>3, <2>4
<1>11. ASSUME NEW p \in Player, Die(p) \/ CloseInput(p) PROVE TypeOK'
  BY <1>11 DEF Die, CloseInput, tvars, pvars, dvars
<1>12. ASSUME NEW p \in Player, Reenter(p) \/ Turnover(p) PROVE TypeOK'
  <2>1. 0 \in -CountCap .. MaxTorp + CountCap  BY TorpsAssumption
  <2>2. cnt' \in [Kind -> [Player -> -CountCap .. MaxTorp + CountCap]]
    BY <1>12, <2>1 DEF Reenter, Turnover
  <2> QED  BY <1>12, <2>2 DEF Reenter, Turnover, tvars, pvars, dvars
<1> QED
  BY <1>1, <1>3, <1>4, <1>5, <1>6, <1>7, <1>9, <1>10, <1>11, <1>12
  DEF Next, Play, Ntserv, Udtorps

\* They hold at the start.
LEMMA TypesFirst == ASSUME Init PROVE TypeOK /\ SearchInArray
<1>1. 0 \in Player  BY TorpsAssumption DEF Player
<1>2. 0 \in -CountCap .. MaxTorp + CountCap  BY TorpsAssumption
<1>3. 0 \in Slot /\ 0 \in 0 .. NTorps + NPlayer  BY SlotNumbers
<1>4. TypeOK
  <2>1. cnt \in [Kind -> [Player -> -CountCap .. MaxTorp + CountCap]]
    BY <1>2 DEF Init
  <2>2. /\ torp \in [Slot -> Status] /\ owner \in [Slot -> Player]
        /\ type \in [Slot -> Kind] /\ dt \in Slot /\ dst \in Status /\ dreg \in Int
    BY <1>1, <1>3 DEF Init, Status, Kind
  <2>3. /\ kind \in [Player -> Kind] /\ k \in [Player -> 0 .. NTorps + NPlayer]
        /\ reg \in [Player -> Int] /\ val \in [Player -> {"det", "off"}]
    BY <1>3 DEF Init, Kind
  <2> QED  BY <2>1, <2>2, <2>3 DEF Init, TypeOK
<1> QED  BY <1>4 DEF Init, SearchInArray, StaysInArray, Kind

-----------------------------------------------------------------------------
(* What holds until a race is lost *)

\* The torpedoes that are a player's, of a kind, and say so.
LiveOf(p, t) == {s \in Slot : Live(s) /\ Filled(s) /\ owner[s] = p /\ type[s] = t}

\* The daemon has freed a torpedo and not counted it down.
Freeing == dpc \in {"dec", "dec2"}
\* 1 for a torpedo that is freed but still counted,
Freed(p, t) == IF Freeing /\ owner[dt] = p /\ type[dt] = t THEN 1 ELSE 0
\* and for one that is counted and does not fly under its owner's name yet.
Fired(p, t) == IF pc[p] \in {"move", "fields"} /\ kind[p] = t THEN 1 ELSE 0

\* The count is at all times that of the torpedoes and of the steps that have
\* not caught up.
CountSum ==
  \A p \in Player, t \in Kind :
    cnt[t][p] = Cardinality(LiveOf(p, t)) + Freed(p, t) + Fired(p, t)

\* That of photon torpedoes is below its limit while a slot is looked for.
CountLimit ==
  \A p \in Player :
    /\ cnt["photon"][p] <= MaxTorp
    /\ pc[p] \in {"scan", "inc", "inc2"} /\ kind[p] = "photon" => cnt["photon"][p] < MaxTorp

\* A torpedo is in a slot of its owner, until it is no longer counted.
InRange ==
  \A s \in Slot : (Live(s) /\ Filled(s)) \/ (Freeing /\ dt = s) => s \in Own(type[s], owner[s])

\* The search of ntorp() finds a free slot, and a slot that is found stays the
\* player's until the torpedo flies.
FindsFree ==
  \A p \in Player :
    /\ pc[p] = "scan" /\ kind[p] = "photon" =>
         \E s \in Own("photon", p) : k[p] <= s /\ torp[s] = "free"
    /\ pc[p] \in {"inc", "inc2", "move"} => k[p] \in Own(kind[p], p) /\ torp[k[p]] = "free"
    /\ pc[p] = "fields" => k[p] \in Own(kind[p], p) /\ Live(k[p])

\* Only the daemon frees a slot.
Orderly == dpc \in {"act", "free"} => Live(dt)

Counted == CountSum /\ CountLimit /\ InRange /\ FindsFree /\ Orderly

\* The inductive invariant.
TorpsIInv == TypeOK /\ SearchInArray /\ (~raced => Counted)

\* There are finitely many slots.
LEMMA SlotFinite == IsFiniteSet(Slot)
<1>1. 0 \in Int /\ NTorps + NPlayer - 1 \in Int
  BY TorpsAssumption DEF NTorps
<1> QED  BY <1>1, FS_Interval DEF Slot

\* What a player has flying can be counted.
LEMMA LiveFinite ==
  ASSUME NEW p, NEW t
  PROVE  /\ IsFiniteSet(LiveOf(p, t)) /\ Cardinality(LiveOf(p, t)) \in Nat
         /\ Freed(p, t) \in {0, 1} /\ Fired(p, t) \in {0, 1}
<1>1. LiveOf(p, t) \subseteq Slot  BY DEF LiveOf
<1>2. Freed(p, t) \in {0, 1} /\ Fired(p, t) \in {0, 1}  BY DEF Freed, Fired
<1> QED  BY <1>1, <1>2, SlotFinite, FS_Subset, FS_CardinalityType

\* While fewer photon torpedoes are counted than are allowed, and none of them is
\* just being fired, a slot is free.
LEMMA SomeFree ==
  ASSUME TypeOK, Counted, NEW p \in Player, cnt["photon"][p] < MaxTorp,
         pc[p] # "fields"
  PROVE  \E s \in Own("photon", p) : torp[s] = "free"
<1> DEFINE t == "photon"
<1>1. SUFFICES ASSUME \A s \in Own(t, p) : Live(s) PROVE FALSE
  BY DEF Live
<1>2. /\ First(t, p) \in Int /\ Last(t, p) \in Int /\ MaxTorp \in Nat \ {0} /\ t \in Kind
      /\ Last(t, p) = First(t, p) + MaxTorp - 1 /\ Own(t, p) \subseteq Slot
  BY RangeBounds, TorpsAssumption DEF Kind, Limit
<1>3. Own(t, p) \subseteq LiveOf(p, t)
  <2> SUFFICES ASSUME NEW s \in Own(t, p) PROVE s \in LiveOf(p, t)  OBVIOUS
  <2>0. Filled(s)
    <3> SUFFICES ASSUME NEW q \in Player, pc[q] = "fields", k[q] = s PROVE FALSE
      BY DEF Filled
    <3>1. s \in Own(kind[q], q) /\ kind[q] \in Kind  BY DEF Counted, FindsFree, TypeOK
    <3>2. q = p  BY <1>2, <3>1, RangesApart
    <3> QED  BY <3>2
  <2>1. s \in Slot /\ Live(s) /\ s \in Own(type[s], owner[s])
    BY <1>1, <1>2, <2>0 DEF Counted, InRange
  <2>2. owner[s] \in Player /\ type[s] \in Kind  BY <2>1 DEF TypeOK
  <2>3. owner[s] = p /\ type[s] = t  BY <1>2, <2>1, <2>2, RangesApart
  <2> QED  BY <2>0, <2>1, <2>3 DEF LiveOf
<1>4. Cardinality(Own(t, p)) = MaxTorp
  BY <1>2, FS_Interval DEF Own
<1>5. Cardinality(LiveOf(p, t)) >= MaxTorp
  BY <1>2, <1>3, <1>4, LiveFinite, FS_Subset
<1>6. cnt[t][p] = Cardinality(LiveOf(p, t)) + Freed(p, t) + Fired(p, t)
  BY <1>2 DEF Counted, CountSum
<1>7. /\ Freed(p, t) \in {0, 1} /\ Fired(p, t) \in {0, 1}
      /\ Cardinality(LiveOf(p, t)) \in Nat
  BY LiveFinite
<1> QED  BY <1>2, <1>5, <1>6, <1>7

\* Steps that count, fill, free and fire nothing.
LEMMA Undisturbed ==
  ASSUME Counted, TypeOK, UNCHANGED <<owner, type, cnt>>,
         \A s \in Slot : Live(s)' <=> Live(s), \A s \in Slot : Filled(s)' <=> Filled(s),
         \A p \in Player, t \in Kind : Fired(p, t)' = Fired(p, t),
         Freeing' <=> Freeing, Freeing => dt' = dt
  PROVE  CountSum' /\ InRange'
<1>1. \A p \in Player, t \in Kind : LiveOf(p, t)' = LiveOf(p, t)
  BY DEF LiveOf
<1>2. \A p \in Player, t \in Kind : Freed(p, t)' = Freed(p, t)
  BY DEF Freed
<1>3. CountSum'  BY <1>1, <1>2 DEF Counted, CountSum
<1>4. InRange'  BY DEF Counted, InRange
<1> QED  BY <1>3, <1>4

\* Of one player's torpedoes of one kind the count changes, or what it counts.
LEMMA OneCount ==
  ASSUME CountSum, NEW p \in Player, NEW t \in Kind,
         \A q \in Player, u \in Kind : q # p \/ u # t =>
           /\ cnt'[u][q] = cnt[u][q] /\ LiveOf(q, u)' = LiveOf(q, u)
           /\ Freed(q, u)' = Freed(q, u) /\ Fired(q, u)' = Fired(q, u),
         cnt'[t][p] = Cardinality(LiveOf(p, t)') + Freed(p, t)' + Fired(p, t)'
  PROVE  CountSum'
<1> SUFFICES ASSUME NEW q \in Player, NEW u \in Kind
             PROVE  cnt'[u][q] = Cardinality(LiveOf(q, u)') + Freed(q, u)' + Fired(q, u)'
  BY DEF CountSum
<1>1. CASE q # p \/ u # t  BY <1>1 DEF CountSum
<1>2. CASE q = p /\ u = t  BY <1>2
<1> QED  BY <1>1, <1>2

-----------------------------------------------------------------------------
(* The steps of a player *)

\* A search that begins is below the limit, so that a slot is free.
LEMMA FireKeeps ==
  ASSUME TypeOK, Counted, NEW p \in Player, NEW t \in Kind, Fire(p, t)
  PROVE  Counted'
<1>1. /\ pc[p] = "ready" /\ pc' = [pc EXCEPT ![p] = "scan"]
      /\ kind' = [kind EXCEPT ![p] = t] /\ k' = [k EXCEPT ![p] = First(t, p)]
      /\ t = "photon" => cnt[t][p] # MaxTorp
      /\ UNCHANGED <<torp, owner, type, cnt, dpc, dt>>
  BY DEF Fire, Goto, Limit, tvars, dvars
<1>2. t = "photon" => cnt[t][p] < MaxTorp
  <2>1. cnt["photon"][p] <= MaxTorp  BY DEF Counted, CountLimit
  <2>2. cnt["photon"][p] \in Int /\ MaxTorp \in Int
    BY TorpsAssumption DEF TypeOK, Kind
  <2> QED  BY <1>1, <2>1, <2>2
<1>3. CountSum' /\ InRange'
  <2>1. \A s \in Slot : Live(s)' <=> Live(s)  BY <1>1 DEF Live
  <2>2. \A s \in Slot : Filled(s)' <=> Filled(s)  BY <1>1 DEF Filled, TypeOK
  <2>3. \A q \in Player, u \in Kind : Fired(q, u)' = Fired(q, u)
    BY <1>1 DEF Fired, TypeOK
  <2> QED  BY <1>1, <2>1, <2>2, <2>3, Undisturbed DEF Freeing
<1>4. CountLimit'
  BY <1>1, <1>2 DEF Counted, CountLimit, TypeOK
<1>5. FindsFree'
  <2>1. t = "photon" => \E s \in Own("photon", p) : First(t, p) <= s /\ torp[s] = "free"
    BY <1>1, <1>2, SomeFree DEF Own
  <2> QED  BY <1>1, <2>1 DEF Counted, FindsFree, Live, TypeOK
<1>6. Orderly'  BY <1>1 DEF Counted, Orderly, Live
<1> QED  BY <1>3, <1>4, <1>5, <1>6 DEF Counted

\* A call that returns and has not stored a new torpedo leaves things as they are.
LEMMA ReturnKeeps ==
  ASSUME TypeOK, Counted, NEW p \in Player, Return(p), pc[p] \in {"scan", "store"},
         UNCHANGED <<owner, type, cnt, dpc, dt>>,
         \A s \in Slot : torp'[s] = "free" <=> torp[s] = "free"
  PROVE  Counted'
<1>1. /\ pc' = [pc EXCEPT ![p] = "ready"] /\ k' = [k EXCEPT ![p] = 0]
      /\ kind' = [kind EXCEPT ![p] = "photon"]
  BY DEF Return, Goto
<1>2. CountSum' /\ InRange'
  <2>1. \A s \in Slot : Live(s)' <=> Live(s)  BY DEF Live
  <2>2. \A s \in Slot : Filled(s)' <=> Filled(s)  BY <1>1 DEF Filled, TypeOK
  <2>3. \A q \in Player, u \in Kind : Fired(q, u)' = Fired(q, u)
    BY <1>1 DEF Fired, TypeOK
  <2> QED  BY <2>1, <2>2, <2>3, Undisturbed DEF Freeing
<1>3. CountLimit'  BY <1>1 DEF Counted, CountLimit, TypeOK
<1>4. FindsFree'
  <2>1. \A q \in Player, u \in Kind : Own(u, q) \subseteq Slot  BY RangeBounds
  <2>2. "photon" \in Kind /\ \A q \in Player : kind[q] \in Kind  BY DEF Kind, TypeOK
  <2> SUFFICES ASSUME NEW q \in Player, q # p
               PROVE  FindsFree!(q)'
    BY <1>1 DEF FindsFree, TypeOK
  <2>3. pc'[q] = pc[q] /\ k'[q] = k[q] /\ kind'[q] = kind[q]
    BY <1>1 DEF TypeOK
  <2>4. FindsFree!(q)  BY DEF Counted, FindsFree
  <2> QED  BY <2>1, <2>2, <2>3, <2>4 DEF Live
<1>5. Orderly'  BY DEF Counted, Orderly, Live, TypeOK
<1> QED  BY <1>2, <1>3, <1>4, <1>5 DEF Counted

\* The search of ntorp() passes no free slot.
LEMMA ScanKeeps ==
  ASSUME TypeOK, SearchInArray, Counted, NEW p \in Player, Scan(p)
  PROVE  Counted'
<1>1. /\ pc[p] = "scan" /\ kind[p] \in Kind /\ k[p] \in Int
      /\ First(kind[p], p) <= k[p]
      /\ UNCHANGED <<torp, owner, type, cnt, dpc, dt>>
  <2>1. /\ pc[p] = "scan" /\ UNCHANGED <<torp, owner, type, cnt, dpc, dt>>
    BY DEF Scan, tvars, dvars
  <2>2. kind[p] \in Kind /\ k[p] \in Int /\ First(kind[p], p) \in Int
        /\ k[p] \in First(kind[p], p) .. Last(kind[p], p) + 1
    BY <2>1, RangeBounds DEF SearchInArray
  <2> QED  BY <2>1, <2>2
<1>2. First(kind[p], p) \in Int /\ Last(kind[p], p) \in Int
  BY <1>1, RangeBounds
<1>3. kind[p] = "photon" => k[p] <= Last(kind[p], p)
  <2> SUFFICES ASSUME kind[p] = "photon" PROVE k[p] <= Last(kind[p], p)  OBVIOUS
  <2>1. PICK s \in Own(kind[p], p) : k[p] <= s
    BY <1>1 DEF Counted, FindsFree
  <2> QED  BY <1>1, <1>2, <2>1 DEF Own
<1>4. CASE Return(p)
  BY <1>1, <1>4, ReturnKeeps
<1>5. CASE /\ ~(k[p] > Last(kind[p], p)) /\ UNCHANGED kind
           /\ \/ torp[k[p]] = "free" /\ k' = k /\ pc' = [pc EXCEPT ![p] = "inc"]
              \/ torp[k[p]] # "free" /\ pc' = pc /\ k' = [k EXCEPT ![p] = k[p] + 1]
  <2>1. k[p] \in Own(kind[p], p)  BY <1>1, <1>2, <1>5 DEF Own
  <2>2. CountSum' /\ InRange'
    <3>1. \A s \in Slot : Live(s)' <=> Live(s)  BY <1>1 DEF Live
    <3>2. \A s \in Slot : Filled(s)' <=> Filled(s)  BY <1>1, <1>5 DEF Filled, TypeOK
    <3>3. \A q \in Player, u \in Kind : Fired(q, u)' = Fired(q, u)
      BY <1>1, <1>5 DEF Fired, TypeOK
    <3> QED  BY <1>1, <3>1, <3>2, <3>3, Undisturbed DEF Freeing
  <2>3. CountLimit'  BY <1>1, <1>5 DEF Counted, CountLimit, TypeOK
  <2>4. FindsFree'
    <3> SUFFICES ASSUME NEW q \in Player PROVE FindsFree!(q)'
      BY DEF FindsFree
    <3>1. FindsFree!(q)  BY DEF Counted, FindsFree
    <3>2. CASE q # p
      <4>1. pc'[q] = pc[q] /\ k'[q] = k[q] /\ kind'[q] = kind[q]
        BY <1>5, <3>2 DEF TypeOK
      <4> QED  BY <1>1, <3>1, <4>1 DEF Live, Own, First, Last
    <3>3. CASE q = p /\ torp[k[p]] = "free"
      <4>1. pc'[p] = "inc" /\ k'[p] = k[p] /\ kind'[p] = kind[p]
        BY <1>5, <3>3 DEF TypeOK
      <4> QED  BY <1>1, <2>1, <3>3, <4>1 DEF Own, First, Last
    <3>4. CASE q = p /\ torp[k[p]] # "free"
      <4>1. pc'[p] = "scan" /\ k'[p] = k[p] + 1 /\ kind'[p] = kind[p]
        BY <1>1, <1>5, <3>4 DEF TypeOK
      <4> SUFFICES ASSUME kind[p] = "photon"
                   PROVE  \E s \in Own("photon", p) : k[p] + 1 <= s /\ torp[s] = "free"
        BY <1>1, <3>4, <4>1 DEF Own, First, Last
      <4>2. PICK s \in Own("photon", p) : k[p] <= s /\ torp[s] = "free"
        BY <1>1 DEF Counted, FindsFree
      <4>3. s # k[p] /\ s \in Int  BY <1>2, <3>4, <4>2 DEF Own
      <4>4. k[p] + 1 <= s  BY <1>1, <4>2, <4>3
      <4> QED  BY <4>2, <4>4
    <3> QED  BY <3>2, <3>3, <3>4
  <2>5. Orderly'  BY <1>1 DEF Counted, Orderly, Live
  <2> QED  BY <2>2, <2>3, <2>4, <2>5 DEF Counted
<1> QED
  <2>1. ~(k[p] > Last(kind[p], p)) \/ kind[p] = "plasma"
    BY <1>1, <1>2, <1>3 DEF Kind
  <2> QED  BY <1>1, <1>2, <1>3, <1>4, <1>5, <2>1 DEF Scan, Goto

\* The count is loaded, by one or the other.
LEMMA LoadKeeps ==
  ASSUME TypeOK, Counted,
         UdDec \/ \E p \in Player : Inc(p)
  PROVE  Counted'
<1>1. ASSUME NEW p \in Player, Inc(p) PROVE Counted'
  <2>1. /\ pc[p] = "inc" /\ pc' = [pc EXCEPT ![p] = "inc2"]
        /\ UNCHANGED <<torp, owner, type, cnt, k, kind, dpc, dt>>
    BY <1>1 DEF Inc, Goto, tvars, dvars
  <2>2. CountSum' /\ InRange'
    <3>1. \A s \in Slot : Live(s)' <=> Live(s)  BY <2>1 DEF Live
    <3>2. \A s \in Slot : Filled(s)' <=> Filled(s)  BY <2>1 DEF Filled, TypeOK
    <3>3. \A q \in Player, u \in Kind : Fired(q, u)' = Fired(q, u)
      BY <2>1 DEF Fired, TypeOK
    <3> QED  BY <2>1, <3>1, <3>2, <3>3, Undisturbed DEF Freeing
  <2>3. CountLimit' /\ FindsFree' /\ Orderly'
    BY <2>1 DEF Counted, CountLimit, FindsFree, Orderly, Live, TypeOK, Own, First, Last
  <2> QED  BY <2>2, <2>3 DEF Counted
<1>2. CASE UdDec
  <2>1. /\ dpc = "dec" /\ dpc' = "dec2"
        /\ UNCHANGED <<torp, owner, type, cnt, pc, k, kind, dt>>
    BY <1>2 DEF UdDec, tvars, pvars
  <2>2. CountSum' /\ InRange'
    <3>1. \A s \in Slot : Live(s)' <=> Live(s)  BY <2>1 DEF Live
    <3>2. \A s \in Slot : Filled(s)' <=> Filled(s)  BY <2>1 DEF Filled
    <3>3. \A q \in Player, u \in Kind : Fired(q, u)' = Fired(q, u)  BY <2>1 DEF Fired
    <3> QED  BY <2>1, <3>1, <3>2, <3>3, Undisturbed DEF Freeing
  <2>3. CountLimit' /\ FindsFree' /\ Orderly'
    BY <2>1 DEF Counted, CountLimit, FindsFree, Orderly, Live, Own, First, Last
  <2> QED  BY <2>2, <2>3 DEF Counted
<1> QED  BY <1>1, <1>2

\* The new torpedo is counted before it flies.
LEMMA IncStoreKeeps ==
  ASSUME TypeOK, Counted, NEW p \in Player, IncStore(p), ~raced'
  PROVE  Counted'
<1>0. PICK t \in Kind : t = kind[p]  BY DEF TypeOK
<1>1. /\ pc[p] = "inc2" /\ pc' = [pc EXCEPT ![p] = "move"]
      /\ cnt' = [cnt EXCEPT ![t] = [cnt[t] EXCEPT ![p] = Cap(cnt[t][p] + 1)]]
      /\ UNCHANGED <<torp, owner, type, kind, k, dpc, dt>>
  BY <1>0 DEF IncStore, Goto, tvars, dvars
<1>2. /\ cnt[t][p] = Cardinality(LiveOf(p, t)) + Freed(p, t) + 0
      /\ Cardinality(LiveOf(p, t)) \in Nat /\ Freed(p, t) \in {0, 1}
      /\ CountCap \in Nat \ {0} /\ MaxTorp \in Nat \ {0}
  <2>1. Fired(p, t) = 0  BY <1>1 DEF Fired
  <2> QED  BY <2>1, LiveFinite, TorpsAssumption DEF Counted, CountSum
<1>3. cnt[t][p] \in 0 .. MaxTorp + CountCap - 1
  <2>1. CASE t = "photon"
    <3>1. cnt[t][p] < MaxTorp  BY <1>0, <1>1, <2>1 DEF Counted, CountLimit
    <3> QED  BY <1>2, <3>1
  <2>2. CASE t = "plasma"
    \* the one slot for a plasma is free
    <3>1. LiveOf(p, t) = {}
      <4> SUFFICES ASSUME NEW s \in LiveOf(p, t) PROVE FALSE  OBVIOUS
      <4>1. s \in Own(t, p) /\ Live(s)  BY DEF LiveOf, Counted, InRange
      <4>2. k[p] \in Own(t, p) /\ torp[k[p]] = "free"
        BY <1>0, <1>1 DEF Counted, FindsFree
      <4>3. /\ First(t, p) \in Int /\ Last(t, p) = First(t, p)
        BY <2>2, RangeBounds DEF Limit
      <4>4. s = k[p]
        <5>1. s \in First(t, p) .. First(t, p) /\ k[p] \in First(t, p) .. First(t, p)
          BY <4>1, <4>2, <4>3 DEF Own
        <5> QED  BY <4>3, <5>1
      <4> QED  BY <4>1, <4>2, <4>4 DEF Live
    <3>2. Cardinality(LiveOf(p, t)) = 0  BY <3>1, FS_EmptySet
    <3> QED  BY <1>2, <3>2
  <2> QED  BY <2>1, <2>2 DEF Kind
<1>4. /\ cnt'[t][p] = cnt[t][p] + 1
      /\ \A q \in Player, u \in Kind : q # p \/ u # t => cnt'[u][q] = cnt[u][q]
  <2>1. cnt[t][p] + 1 \in Int /\ cnt[t][p] + 1 \in 0 .. MaxTorp + CountCap
    BY <1>2, <1>3
  <2>2. Cap(cnt[t][p] + 1) = cnt[t][p] + 1  BY <2>1, CapRange
  <2> QED  BY <1>1, <2>2 DEF TypeOK
<1>5. \A q \in Player, u \in Kind : LiveOf(q, u)' = LiveOf(q, u)
  <2>1. \A s \in Slot : Filled(s)' <=> Filled(s)  BY <1>1 DEF Filled, TypeOK
  <2> QED  BY <1>1, <2>1 DEF LiveOf, Live
<1>6. \A q \in Player, u \in Kind : Freed(q, u)' = Freed(q, u)
  BY <1>1 DEF Freed, Freeing
<1>7. /\ Fired(p, t)' = 1
      /\ \A q \in Player, u \in Kind : q # p \/ u # t => Fired(q, u)' = Fired(q, u)
  BY <1>0, <1>1 DEF Fired, TypeOK
<1>8. CountSum'
  <2>1. cnt'[t][p] = Cardinality(LiveOf(p, t)') + Freed(p, t)' + Fired(p, t)'
    <3>1. cnt'[t][p] = Cardinality(LiveOf(p, t)) + Freed(p, t) + 1
      BY <1>2, <1>4
    <3> QED  BY <1>5, <1>6, <1>7, <3>1
  <2> QED  BY <1>4, <1>5, <1>6, <1>7, <2>1, OneCount DEF Counted
<1>9. CountLimit'
  <2> SUFFICES ASSUME NEW q \in Player
               PROVE  /\ cnt'["photon"][q] <= MaxTorp
                      /\ pc'[q] \in {"scan", "inc", "inc2"} /\ kind'[q] = "photon" =>
                           cnt'["photon"][q] < MaxTorp
    BY DEF CountLimit
  <2>1. CASE q # p \/ t # "photon"
    BY <1>0, <1>1, <1>4, <2>1 DEF Counted, CountLimit, TypeOK, Kind
  <2>2. CASE q = p /\ t = "photon"
    <3>1. cnt[t][p] < MaxTorp  BY <1>0, <1>1, <2>2 DEF Counted, CountLimit
    <3>2. cnt'[t][p] <= MaxTorp  BY <1>2, <1>3, <1>4, <3>1
    <3>3. pc'[p] = "move"  BY <1>1 DEF TypeOK
    <3> QED  BY <2>2, <3>2, <3>3
  <2> QED  BY <2>1, <2>2
<1>10. InRange'
  <2>1. \A s \in Slot : Filled(s)' <=> Filled(s)  BY <1>1 DEF Filled, TypeOK
  <2> QED  BY <1>1, <2>1 DEF Counted, InRange, Live, Freeing, Own, First, Last
<1>11. FindsFree' /\ Orderly'
  BY <1>1 DEF Counted, FindsFree, Orderly, Live, TypeOK, Own, First, Last
<1> QED  BY <1>8, <1>9, <1>10, <1>11 DEF Counted

\* A slot that is found becomes one that flies, and does not say yet whose it is.
LEMMA MoveKeeps ==
  ASSUME TypeOK, Counted, NEW p \in Player, Move(p)
  PROVE  Counted'
<1>0. PICK t \in Kind : t = kind[p]  BY DEF TypeOK
<1>1. PICK s \in Slot : s = k[p] /\ s \in Own(t, p)
  <2>1. pc[p] = "move"  BY DEF Move
  <2> QED  BY <1>0, <2>1, RangeBounds DEF Counted, FindsFree
<1>2. /\ pc[p] = "move" /\ torp[s] = "free" /\ torp' = [torp EXCEPT ![s] = "move"]
      /\ pc' = [pc EXCEPT ![p] = "fields"]
      /\ UNCHANGED <<owner, type, cnt, k, kind, dpc, dt>>
  BY <1>1 DEF Move, Goto, Counted, FindsFree, dvars
\* (nobody else has it)
<1>3. \A q \in Player : q # p /\ pc[q] \in {"inc", "inc2", "move", "fields"} => k[q] # s
  <2> SUFFICES ASSUME NEW q \in Player, pc[q] \in {"inc", "inc2", "move", "fields"}, k[q] = s
               PROVE  q = p
    OBVIOUS
  <2>1. kind[q] \in Kind /\ s \in Own(kind[q], q)
    BY DEF TypeOK, Counted, FindsFree
  <2> QED  BY <1>1, <2>1, RangesApart
<1>4. /\ \A r \in Slot : r # s => (Live(r)' <=> Live(r)) /\ (Filled(r)' <=> Filled(r))
      /\ Live(s)' /\ ~Live(s) /\ ~Filled(s)'
  BY <1>1, <1>2 DEF Live, Filled, TypeOK
<1>5. CountSum'
  <2>1. \A q \in Player, u \in Kind : LiveOf(q, u)' = LiveOf(q, u)
    BY <1>2, <1>4 DEF LiveOf
  <2>2. \A q \in Player, u \in Kind : Fired(q, u)' = Fired(q, u)
    BY <1>2 DEF Fired, TypeOK
  <2>3. \A q \in Player, u \in Kind : Freed(q, u)' = Freed(q, u)
    BY <1>2 DEF Freed, Freeing
  <2> QED  BY <1>2, <2>1, <2>2, <2>3 DEF Counted, CountSum
<1>6. CountLimit'  BY <1>2 DEF Counted, CountLimit, TypeOK
<1>7. InRange'
  BY <1>2, <1>4 DEF Counted, InRange, Freeing, Own, First, Last
<1>8. FindsFree'
  <2> SUFFICES ASSUME NEW q \in Player PROVE FindsFree!(q)'
    BY DEF FindsFree
  <2>1. FindsFree!(q) /\ kind[q] \in Kind  BY DEF Counted, FindsFree, TypeOK
  <2>2. CASE q = p
    <3>1. pc'[p] = "fields" /\ k'[p] = s /\ kind'[p] = t
      BY <1>0, <1>1, <1>2 DEF TypeOK
    <3> QED  BY <1>1, <1>4, <2>2, <3>1
  <2>3. CASE q # p
    <3>1. pc'[q] = pc[q] /\ k'[q] = k[q] /\ kind'[q] = kind[q]
      BY <1>2, <2>3 DEF TypeOK
    <3>2. \A r \in Own(kind[q], q) : torp'[r] = torp[r]
      <4> SUFFICES ASSUME NEW r \in Own(kind[q], q) PROVE torp'[r] = torp[r]  OBVIOUS
      <4>1. r # s  BY <1>1, <2>1, <2>3, RangesApart
      <4>2. r \in Slot  BY <2>1, RangeBounds
      <4> QED  BY <1>2, <4>1, <4>2 DEF TypeOK
    <3>3. "photon" \in Kind  BY DEF Kind
    <3> QED  BY <2>1, <3>1, <3>2, <3>3 DEF Live
  <2> QED  BY <2>2, <2>3
<1>9. Orderly'
  <2> SUFFICES ASSUME dpc \in {"act", "free"} PROVE Live(dt)'
    BY <1>2 DEF Orderly
  <2>1. Live(dt) /\ dt \in Slot  BY DEF Counted, Orderly, TypeOK
  <2> QED  BY <1>2, <1>4, <2>1 DEF Live
<1> QED  BY <1>5, <1>6, <1>7, <1>8, <1>9 DEF Counted

\* It is given its owner and type.
LEMMA FieldsKeeps ==
  ASSUME TypeOK, Counted, NEW p \in Player, Fields(p)
  PROVE  Counted'
<1>0. PICK t \in Kind : t = kind[p]  BY DEF TypeOK
<1>1. PICK s \in Slot : s = k[p] /\ s \in Own(t, p) /\ Live(s)
  <2>1. pc[p] = "fields"  BY DEF Fields
  <2> QED  BY <1>0, <2>1, RangeBounds DEF Counted, FindsFree
<1>2. /\ pc[p] = "fields" /\ pc' = [pc EXCEPT ![p] = "ready"]
      /\ owner' = [owner EXCEPT ![s] = p] /\ type' = [type EXCEPT ![s] = t]
      /\ k' = [k EXCEPT ![p] = 0] /\ kind' = [kind EXCEPT ![p] = "photon"]
      /\ UNCHANGED <<torp, cnt, dpc, dt>>
  BY <1>0, <1>1 DEF Fields, Return, Goto, dvars
<1>3. \A q \in Player : q # p /\ pc[q] = "fields" => k[q] # s
  <2> SUFFICES ASSUME NEW q \in Player, pc[q] = "fields", k[q] = s PROVE q = p
    OBVIOUS
  <2>1. kind[q] \in Kind /\ s \in Own(kind[q], q)
    BY DEF TypeOK, Counted, FindsFree
  <2> QED  BY <1>1, <2>1, RangesApart
<1>4. /\ \A r \in Slot : Live(r)' <=> Live(r)
      /\ \A r \in Slot : r # s => (Filled(r)' <=> Filled(r))
      /\ ~Filled(s) /\ Filled(s)'
  <2>1. \A r \in Slot : Live(r)' <=> Live(r)  BY <1>2 DEF Live
  <2>2. ASSUME NEW r \in Slot, r # s PROVE Filled(r)' <=> Filled(r)
    BY <1>1, <1>2, <2>2 DEF Filled, TypeOK
  <2>3. ~Filled(s)  BY <1>1, <1>2 DEF Filled
  <2>4. Filled(s)'  BY <1>2, <1>3 DEF Filled, TypeOK
  <2> QED  BY <2>1, <2>2, <2>3, <2>4
\* A slot that is used again before it is counted down keeps its owner.
<1>5. Freeing => owner'[dt] = owner[dt] /\ type'[dt] = type[dt]
  <2> SUFFICES ASSUME Freeing, dt = s PROVE owner[dt] = p /\ type[dt] = t
    BY <1>2 DEF TypeOK
  <2>1. s \in Own(type[s], owner[s])  BY DEF Counted, InRange
  <2>2. owner[s] \in Player /\ type[s] \in Kind  BY DEF TypeOK
  <2> QED  BY <1>1, <2>1, <2>2, RangesApart
<1>6. CountSum'
  <2>1. LiveOf(p, t)' = LiveOf(p, t) \cup {s} /\ s \notin LiveOf(p, t)
    BY <1>1, <1>2, <1>4 DEF LiveOf, TypeOK
  <2>2. Cardinality(LiveOf(p, t)') = Cardinality(LiveOf(p, t)) + 1
    BY <2>1, LiveFinite, FS_AddElement
  <2>3. \A q \in Player, u \in Kind : q # p \/ u # t => LiveOf(q, u)' = LiveOf(q, u)
    BY <1>1, <1>2, <1>4 DEF LiveOf, TypeOK
  <2>4. \A q \in Player, u \in Kind : Freed(q, u)' = Freed(q, u)
    BY <1>2, <1>5 DEF Freed, Freeing
  <2>5. /\ Fired(p, t) = 1 /\ Fired(p, t)' = 0
        /\ \A q \in Player, u \in Kind : q # p \/ u # t => Fired(q, u)' = Fired(q, u)
    BY <1>0, <1>2 DEF Fired, TypeOK
  <2>6. /\ cnt[t][p] = Cardinality(LiveOf(p, t)) + Freed(p, t) + Fired(p, t)
        /\ Cardinality(LiveOf(p, t)) \in Nat /\ Freed(p, t) \in {0, 1}
    BY LiveFinite DEF Counted, CountSum
  <2>7. cnt[t][p] = (Cardinality(LiveOf(p, t)) + 1) + Freed(p, t) + 0
    BY <2>5, <2>6
  <2>8. cnt'[t][p] = Cardinality(LiveOf(p, t)') + Freed(p, t)' + Fired(p, t)'
    BY <1>2, <2>2, <2>4, <2>5, <2>7
  <2> QED  BY <1>2, <2>3, <2>4, <2>5, <2>8, OneCount DEF Counted
<1>7. CountLimit'  BY <1>2 DEF Counted, CountLimit, TypeOK
<1>8. InRange'
  <2> SUFFICES ASSUME NEW r \in Slot, (Live(r)' /\ Filled(r)') \/ (Freeing /\ dt = r)
               PROVE  r \in Own(type'[r], owner'[r])
    BY <1>2 DEF InRange, Freeing, Own, First, Last
  <2>1. CASE r = s  BY <1>1, <1>2, <2>1 DEF TypeOK
  <2>2. CASE r # s
    <3>1. type'[r] = type[r] /\ owner'[r] = owner[r]  BY <1>2, <2>2 DEF TypeOK
    <3> QED  BY <1>4, <2>2, <3>1 DEF Counted, InRange
  <2> QED  BY <2>1, <2>2
<1>9. FindsFree'
  <2> SUFFICES ASSUME NEW q \in Player PROVE FindsFree!(q)'
    BY DEF FindsFree
  <2>1. CASE q = p
    <3>1. pc'[p] = "ready"  BY <1>2 DEF TypeOK
    <3> QED  BY <2>1, <3>1
  <2>2. CASE q # p
    <3>1. pc'[q] = pc[q] /\ k'[q] = k[q] /\ kind'[q] = kind[q]
      BY <1>2, <2>2 DEF TypeOK
    <3>2. FindsFree!(q)  BY DEF Counted, FindsFree
    <3> QED  BY <1>2, <3>1, <3>2 DEF Live
  <2> QED  BY <2>1, <2>2
<1>10. Orderly'  BY <1>2 DEF Counted, Orderly, Live
<1> QED  BY <1>6, <1>7, <1>8, <1>9, <1>10 DEF Counted

\* A detonation changes the status of a torpedo that flies.
LEMMA DetonateKeeps ==
  ASSUME TypeOK, Counted, NEW p \in Player, NEW s \in Slot, NEW v \in {"off", "det"},
         Detonate(p, s, v)
  PROVE  Counted'
<1>1. /\ pc[p] = "ready" /\ pc' = [pc EXCEPT ![p] = "store"] /\ k' = [k EXCEPT ![p] = s]
      /\ UNCHANGED <<torp, owner, type, cnt, kind, dpc, dt>>
  BY DEF Detonate, Goto, tvars, dvars
<1>2. CountSum' /\ InRange'
  <2>1. \A r \in Slot : Live(r)' <=> Live(r)  BY <1>1 DEF Live
  <2>2. \A r \in Slot : Filled(r)' <=> Filled(r)  BY <1>1 DEF Filled, TypeOK
  <2>3. \A q \in Player, u \in Kind : Fired(q, u)' = Fired(q, u)
    BY <1>1 DEF Fired, TypeOK
  <2> QED  BY <1>1, <2>1, <2>2, <2>3, Undisturbed DEF Freeing
<1>3. CountLimit' /\ FindsFree' /\ Orderly'
  BY <1>1 DEF Counted, CountLimit, FindsFree, Orderly, Live, TypeOK, Own, First, Last
<1> QED  BY <1>2, <1>3 DEF Counted

LEMMA DetStoreKeeps ==
  ASSUME TypeOK, Counted, NEW p \in Player, DetStore(p), ~raced'
  PROVE  Counted'
<1>1. /\ pc[p] = "store" /\ Return(p) /\ UNCHANGED <<owner, type, cnt, dpc, dt>>
      /\ torp' = [torp EXCEPT ![k[p]] = val[p]] /\ torp[k[p]] # "free"
      /\ val[p] \in {"det", "off"}
  BY DEF DetStore, dvars, TypeOK
<1>2. \A r \in Slot : torp'[r] = "free" <=> torp[r] = "free"
  BY <1>1 DEF TypeOK
<1> QED  BY <1>1, <1>2, ReturnKeeps

\* The death of its owner leaves a torpedo alone; a player who enters again, or
\* another in his slot, has none in flight.
LEMMA LivesKeep ==
  ASSUME TypeOK, Counted, NEW p \in Player, ~raced',
         Die(p) \/ CloseInput(p) \/ Reenter(p) \/ Turnover(p)
  PROVE  Counted'
<1>1. UNCHANGED <<torp, owner, type, pc, k, kind, dpc, dt>>
  BY DEF Die, CloseInput, Reenter, Turnover, tvars, pvars, dvars
<1>2. cnt' = cnt
  <2>1. CASE Reenter(p) \/ Turnover(p)
    <3>1. \A t \in Kind : cnt[t][p] = 0
      <4>1. CASE Turnover(p)  BY <4>1 DEF Turnover
      <4>2. CASE Reenter(p)
        <5> SUFFICES ASSUME NEW t \in Kind PROVE cnt[t][p] = 0  OBVIOUS
        <5>1. cnt[t][p] <= 0  BY <4>2 DEF Reenter
        <5>2. /\ cnt[t][p] = Cardinality(LiveOf(p, t)) + Freed(p, t) + Fired(p, t)
              /\ Cardinality(LiveOf(p, t)) \in Nat
              /\ Freed(p, t) \in {0, 1} /\ Fired(p, t) \in {0, 1}
          BY LiveFinite DEF Counted, CountSum
        <5> QED  BY <5>1, <5>2
      <4> QED  BY <2>1, <4>1, <4>2
    <3>2. cnt' = [t \in Kind |-> [cnt[t] EXCEPT ![p] = 0]]
      BY <2>1 DEF Reenter, Turnover
    <3>3. \A t \in Kind : [cnt[t] EXCEPT ![p] = 0] = cnt[t]
      BY <3>1 DEF TypeOK
    <3> QED  BY <3>2, <3>3 DEF TypeOK
  <2> QED  BY <2>1 DEF Die, CloseInput
<1>3. CountSum' /\ InRange'
  <2>1. \A r \in Slot : Live(r)' <=> Live(r)  BY <1>1 DEF Live
  <2>2. \A r \in Slot : Filled(r)' <=> Filled(r)  BY <1>1 DEF Filled
  <2>3. \A q \in Player, u \in Kind : Fired(q, u)' = Fired(q, u)  BY <1>1 DEF Fired
  <2> QED  BY <1>1, <1>2, <2>1, <2>2, <2>3, Undisturbed DEF Freeing
<1>4. CountLimit' /\ FindsFree' /\ Orderly'
  BY <1>1, <1>2 DEF Counted, CountLimit, FindsFree, Orderly, Live, Own, First, Last
<1> QED  BY <1>3, <1>4 DEF Counted

-----------------------------------------------------------------------------
(* The steps of the daemon *)

\* The sweep up to the freeing changes no count.
LEMMA SweepKeeps ==
  ASSUME TypeOK, Counted, UdLoad \/ UdGoesOn \/ UdExplode \/ UdOut
  PROVE  Counted'
<1>1. /\ UNCHANGED <<owner, type, cnt, pc, k, kind>>
      /\ dpc \in {"load", "act"} /\ dpc' \in {"load", "act", "free"}
      /\ torp' = torp \/ (dpc = "act" /\ torp' = [torp EXCEPT ![dt] = "explode"])
      /\ dpc' \in {"act", "free"} => dt' = dt /\ (dpc = "act" \/ torp[dt] # "free")
  BY DEF UdLoad, UdGoesOn, UdExplode, UdOut, NextSlot, tvars, pvars
<1>2. \A r \in Slot : Live(r)' <=> Live(r)
  BY <1>1 DEF Live, Counted, Orderly, TypeOK
<1>3. CountSum' /\ InRange'
  <2>1. \A r \in Slot : Filled(r)' <=> Filled(r)  BY <1>1 DEF Filled
  <2>2. \A q \in Player, u \in Kind : Fired(q, u)' = Fired(q, u)  BY <1>1 DEF Fired
  <2>3. ~Freeing /\ ~Freeing'  BY <1>1 DEF Freeing
  <2> QED  BY <1>1, <1>2, <2>1, <2>2, <2>3, Undisturbed
<1>4. CountLimit'  BY <1>1 DEF Counted, CountLimit
<1>5. FindsFree'
  <2>1. \A q \in Player : Own("photon", q) \subseteq Slot /\ Own(kind[q], q) \subseteq Slot
    BY RangeBounds DEF TypeOK, Kind
  <2> SUFFICES ASSUME NEW q \in Player PROVE FindsFree!(q)'
    BY DEF FindsFree
  <2>2. FindsFree!(q)  BY DEF Counted, FindsFree
  <2> QED  BY <1>1, <1>2, <2>1, <2>2 DEF Live, Own, First, Last
<1>6. Orderly'
  <2> SUFFICES ASSUME dpc' \in {"act", "free"} PROVE Live(dt)'
    BY DEF Orderly
  <2>1. dt' = dt /\ Live(dt) /\ dt \in Slot
    BY <1>1 DEF Counted, Orderly, Live, TypeOK
  <2> QED  BY <1>2, <2>1 DEF Live
<1> QED  BY <1>3, <1>4, <1>5, <1>6 DEF Counted

\* A torpedo is freed before it is counted down,
LEMMA FreeKeeps ==
  ASSUME TypeOK, Counted, UdFree, ~raced'
  PROVE  Counted'
<1>0. PICK s \in Slot, p \in Player, t \in Kind : s = dt /\ p = owner[dt] /\ t = type[dt]
  BY DEF TypeOK
<1>1. /\ dpc = "free" /\ dpc' = "dec" /\ torp' = [torp EXCEPT ![s] = "free"]
      /\ UNCHANGED <<owner, type, cnt, pc, k, kind, dt>>
      /\ Filled(s) /\ Live(s)
  BY <1>0 DEF UdFree, Counted, Orderly, pvars
<1>2. s \in Own(t, p)  BY <1>0, <1>1 DEF Counted, InRange
<1>3. /\ \A r \in Slot : r # s => (Live(r)' <=> Live(r))
      /\ \A r \in Slot : Filled(r)' <=> Filled(r)
      /\ ~Live(s)'
  BY <1>1 DEF Live, Filled, TypeOK
<1>4. CountSum'
  <2>1. LiveOf(p, t)' = LiveOf(p, t) \ {s} /\ s \in LiveOf(p, t)
    BY <1>0, <1>1, <1>3 DEF LiveOf
  <2>2. Cardinality(LiveOf(p, t)') = Cardinality(LiveOf(p, t)) - 1
    BY <2>1, LiveFinite, FS_RemoveElement
  <2>3. \A q \in Player, u \in Kind : q # p \/ u # t => LiveOf(q, u)' = LiveOf(q, u)
    BY <1>0, <1>1, <1>3 DEF LiveOf
  <2>4. /\ Freed(p, t) = 0 /\ Freed(p, t)' = 1
        /\ \A q \in Player, u \in Kind : q # p \/ u # t => Freed(q, u)' = Freed(q, u)
    BY <1>0, <1>1 DEF Freed, Freeing
  <2>5. \A q \in Player, u \in Kind : Fired(q, u)' = Fired(q, u)
    BY <1>1 DEF Fired
  <2>6. /\ cnt[t][p] = Cardinality(LiveOf(p, t)) + 0 + Fired(p, t)
        /\ Cardinality(LiveOf(p, t)) \in Nat /\ Fired(p, t) \in {0, 1}
    BY <2>4, LiveFinite DEF Counted, CountSum
  <2>7. cnt[t][p] = (Cardinality(LiveOf(p, t)) - 1) + 1 + Fired(p, t)
    BY <2>6
  <2>8. cnt'[t][p] = Cardinality(LiveOf(p, t)') + Freed(p, t)' + Fired(p, t)'
    BY <1>1, <2>2, <2>4, <2>5, <2>7
  <2> QED  BY <1>1, <2>3, <2>4, <2>5, <2>8, OneCount DEF Counted
<1>5. CountLimit'  BY <1>1 DEF Counted, CountLimit
<1>6. InRange'
  <2> SUFFICES ASSUME NEW r \in Slot, (Live(r)' /\ Filled(r)') \/ dt = r
               PROVE  r \in Own(type[r], owner[r])
    BY <1>1 DEF InRange, Freeing, Own, First, Last
  <2>1. CASE r = s  BY <1>0, <1>2, <2>1
  <2>2. CASE r # s  BY <1>0, <1>3, <2>2 DEF Counted, InRange
  <2> QED  BY <2>1, <2>2
<1>7. FindsFree'
  <2>1. \A q \in Player : Own("photon", q) \subseteq Slot /\ Own(kind[q], q) \subseteq Slot
    BY RangeBounds DEF TypeOK, Kind
  <2>2. \A r \in Slot : torp[r] = "free" => torp'[r] = "free"  BY <1>1 DEF TypeOK
  <2> SUFFICES ASSUME NEW q \in Player PROVE FindsFree!(q)'
    BY DEF FindsFree
  <2>3. FindsFree!(q)  BY DEF Counted, FindsFree
  <2>4. pc[q] = "fields" => k[q] # s  BY <1>1 DEF Filled
  <2>5. pc[q] = "fields" => Live(k[q])'
    BY <1>1, <1>3, <2>1, <2>3, <2>4 DEF Live
  <2> QED  BY <1>1, <2>1, <2>2, <2>3, <2>5 DEF Live, Own, First, Last
<1>8. Orderly'  BY <1>1 DEF Orderly
<1> QED  BY <1>4, <1>5, <1>6, <1>7, <1>8 DEF Counted

\* and counted down from its owner.
LEMMA DecStoreKeeps ==
  ASSUME TypeOK, Counted, UdDecStore, ~raced'
  PROVE  Counted'
<1>0. PICK p \in Player, t \in Kind : p = owner[dt] /\ t = type[dt]
  BY DEF TypeOK
<1>1. /\ dpc = "dec2" /\ dpc' = "load"
      /\ cnt' = [cnt EXCEPT ![t] = [cnt[t] EXCEPT ![p] = Cap(cnt[t][p] - 1)]]
      /\ UNCHANGED <<torp, owner, type, pc, k, kind>>
  BY <1>0 DEF UdDecStore, NextSlot, tvars, pvars
<1>2. /\ cnt[t][p] = Cardinality(LiveOf(p, t)) + 1 + Fired(p, t)
      /\ Cardinality(LiveOf(p, t)) \in Nat /\ Fired(p, t) \in {0, 1}
  <2>1. Freed(p, t) = 1  BY <1>0, <1>1 DEF Freed, Freeing
  <2> QED  BY <2>1, LiveFinite DEF Counted, CountSum
<1>3. /\ cnt'[t][p] = cnt[t][p] - 1
      /\ \A q \in Player, u \in Kind : q # p \/ u # t => cnt'[u][q] = cnt[u][q]
  <2>1. cnt[t][p] \in -CountCap .. MaxTorp + CountCap /\ CountCap \in Nat /\ MaxTorp \in Nat
    BY TorpsAssumption DEF TypeOK
  <2>2. cnt[t][p] - 1 \in Int /\ cnt[t][p] - 1 \in 0 .. MaxTorp + CountCap
    BY <1>2, <2>1
  <2>3. Cap(cnt[t][p] - 1) = cnt[t][p] - 1  BY <2>2, CapRange
  <2> QED  BY <1>1, <2>3 DEF TypeOK
<1>4. CountSum'
  <2>1. \A q \in Player, u \in Kind : LiveOf(q, u)' = LiveOf(q, u)
    BY <1>1 DEF LiveOf, Live, Filled
  <2>2. /\ Freed(p, t)' = 0
        /\ \A q \in Player, u \in Kind : q # p \/ u # t => Freed(q, u)' = Freed(q, u)
    BY <1>0, <1>1 DEF Freed, Freeing
  <2>3. \A q \in Player, u \in Kind : Fired(q, u)' = Fired(q, u)
    BY <1>1 DEF Fired
  <2>4. cnt[t][p] - 1 = Cardinality(LiveOf(p, t)) + 0 + Fired(p, t)  BY <1>2
  <2>5. cnt'[t][p] = Cardinality(LiveOf(p, t)') + Freed(p, t)' + Fired(p, t)'
    BY <1>3, <2>1, <2>2, <2>3, <2>4
  <2> QED  BY <1>3, <2>1, <2>2, <2>3, <2>5, OneCount DEF Counted
<1>5. CountLimit'
  <2>1. \A q \in Player : /\ cnt["photon"][q] \in Int
                          /\ cnt'["photon"][q] \in {cnt["photon"][q], cnt["photon"][q] - 1}
    BY <1>1, <1>3, TorpsAssumption DEF TypeOK, Kind
  <2>2. MaxTorp \in Int  BY TorpsAssumption
  <2> SUFFICES ASSUME NEW q \in Player PROVE CountLimit!(q)'
    BY DEF CountLimit
  <2>3. CountLimit!(q)  BY DEF Counted, CountLimit
  <2> QED  BY <1>1, <2>1, <2>2, <2>3
<1>6. InRange'
  BY <1>1 DEF Counted, InRange, Live, Filled, Freeing, Own, First, Last
<1>7. FindsFree' /\ Orderly'
  BY <1>1 DEF Counted, FindsFree, Orderly, Live, Own, First, Last
<1> QED  BY <1>4, <1>5, <1>6, <1>7 DEF Counted

-----------------------------------------------------------------------------
(* The invariant *)

\* It holds of an empty array.
LEMMA TorpsFirst == ASSUME Init PROVE TorpsIInv
<1>1. TypeOK /\ SearchInArray  BY TypesFirst
<1>2. CountSum
  <2>1. \A p \in Player, t \in Kind : LiveOf(p, t) = {}
    BY DEF Init, LiveOf, Live
  <2>2. Cardinality({}) = 0  BY FS_EmptySet
  <2>3. \A p \in Player, t \in Kind : cnt[t][p] = 0 /\ Freed(p, t) = 0 /\ Fired(p, t) = 0
    BY DEF Init, Freed, Freeing, Fired
  <2> QED  BY <2>1, <2>2, <2>3 DEF CountSum
<1>3. CountLimit
  <2>1. "photon" \in Kind /\ MaxTorp \in Nat \ {0}  BY TorpsAssumption DEF Kind
  <2> QED  BY <2>1 DEF Init, CountLimit
<1>4. InRange /\ FindsFree /\ Orderly
  BY DEF Init, InRange, FindsFree, Orderly, Live, Freeing
<1> QED  BY <1>1, <1>2, <1>3, <1>4 DEF TorpsIInv, Counted

\* A race that has been lost stays lost.
LEMMA RacedStays == ASSUME TypeOK, [Next]_vars, ~raced' PROVE ~raced
BY DEF Next, Play, Ntserv, Udtorps, vars, Fire, Scan, Inc, IncStore, Move, Fields, DetMine,
   DetOthers, Detonate, DetStore, UdLoad, UdGoesOn, UdExplode, UdOut, UdFree, UdDec,
   UdDecStore, Die, CloseInput, Reenter, Turnover, TypeOK

\* Every step keeps it.
LEMMA TorpsStep == ASSUME TorpsIInv, [Next]_vars PROVE TorpsIInv'
<1>1. TypeOK' /\ SearchInArray'  BY TypesStep, SearchStep DEF TorpsIInv
<1> SUFFICES ASSUME ~raced' PROVE Counted'
  BY <1>1 DEF TorpsIInv
<1>2. TypeOK /\ SearchInArray /\ Counted  BY RacedStays DEF TorpsIInv
<1>3. CASE UNCHANGED vars
  BY <1>2, <1>3 DEF vars, tvars, pvars, dvars, Counted, CountSum, CountLimit,
     InRange, FindsFree, Orderly, LiveOf, Freed, Freeing, Fired, Live, Filled, Own, First, Last
<1>4. ASSUME NEW p \in Player, NEW t \in Kind, Fire(p, t) PROVE Counted'
  BY <1>2, <1>4, FireKeeps
<1>5. ASSUME NEW p \in Player, NEW s \in Slot, DetMine(p, s) \/ DetOthers(p, s)
      PROVE  Counted'
  BY <1>2, <1>5, DetonateKeeps DEF DetMine, DetOthers
<1>6. ASSUME NEW p \in Player, Ntserv(p) PROVE Counted'
  BY <1>2, <1>6, ScanKeeps, LoadKeeps, IncStoreKeeps, MoveKeeps, FieldsKeeps,
     DetStoreKeeps DEF Ntserv
<1>7. ASSUME NEW p \in Player, Die(p) \/ CloseInput(p) \/ Reenter(p) \/ Turnover(p)
      PROVE  Counted'
  BY <1>2, <1>7, LivesKeep
<1>8. CASE Udtorps
  BY <1>2, <1>8, SweepKeeps, FreeKeeps, LoadKeeps, DecStoreKeeps DEF Udtorps
<1> QED
  BY <1>3, <1>4, <1>5, <1>6, <1>7, <1>8 DEF Next, Play

\* Every torpedo lies among its owner's slots, as ntorp() takes for granted, for
\* any number of players and torpedoes, whatever interleaves, until a count is
\* stored over another, a freed torpedo is detonated, one is freed that does not
\* say yet whose it is, or a slot changes hands while torpedoes of it fly.
THEOREM TorpsHold == Spec => []TorpsInv
<1>1. Init => TorpsIInv  BY TorpsFirst
<1>2. TorpsIInv /\ [Next]_vars => TorpsIInv'  BY TorpsStep
<1>3. TorpsIInv => TorpsInv
  BY DEF TorpsIInv, TorpsInv, Counted, InRange, OwnSlots, Own
<1> QED  BY <1>1, <1>2, <1>3, PTL DEF Spec

\* Until then the counts of a player are those of its torpedoes, whenever none is
\* just being fired or freed.
THEOREM CountsHold == Spec => []CountExact
<1>1. Init => TorpsIInv  BY TorpsFirst
<1>2. TorpsIInv /\ [Next]_vars => TorpsIInv'  BY TorpsStep
<1>3. TorpsIInv => CountExact
  <2> SUFFICES ASSUME TorpsIInv, ~raced, Quiet, NEW p \in Player, NEW t \in Kind
               PROVE  cnt[t][p] = Cardinality({s \in Slot : Live(s) /\ owner[s] = p /\ type[s] = t})
    BY DEF CountExact
  <2>1. cnt[t][p] = Cardinality(LiveOf(p, t)) + 0 + 0
    BY DEF TorpsIInv, Counted, CountSum, Freed, Freeing, Fired, Quiet
  <2>2. LiveOf(p, t) = {s \in Slot : Live(s) /\ owner[s] = p /\ type[s] = t}
    BY DEF LiveOf, Filled, Quiet
  <2> QED  BY <2>1, <2>2, LiveFinite
<1> QED  BY <1>1, <1>2, <1>3, PTL DEF Spec
=============================================================================
