------------------------------- MODULE Torps -------------------------------
(***************************************************************************)
(* Torpedoes and plasmas: the array torps[] in shared memory, MAXTORP      *)
(* torpedo slots and one plasma slot for each player, and the counts       *)
(* p_ntorp and p_nplasmatorp.  An ntserv process fires (ntorp() of torp.c, *)
(* nplasmatorp() of plasma.c), detonates its own (handleDetMReq()) or      *)
(* others' torpedoes (detothers()); the daemon sweeps the array            *)
(* (udtorps()) and gives slots and counts back.  No lock is taken.         *)
(*                                                                         *)
(* Positions and fuses are left to chance: a torpedo may hit or run out in *)
(* any sweep.  One action is one access to shared memory, p_ntorp++ and    *)
(* p_ntorp-- are a load and a store, and all of them interleave.  The      *)
(* history variable raced records whether one of the four races has been   *)
(* lost that the counts do not survive:                                    *)
(*   - a count is stored that is no longer what was loaded;                *)
(*   - TDET or TOFF is stored over a torpedo that was freed since the test *)
(*     for TMOVE;                                                          *)
(*   - the daemon frees a torpedo between the store of TMOVE and that of   *)
(*     its owner and type (its t_fuse is still that of the torpedo before);*)
(*   - a slot changes hands while torpedoes of the player before fly.      *)
(***************************************************************************)
EXTENDS Integers, FiniteSets

CONSTANTS
  NPlayer,  \* MAXPLAYER
  MaxTorp,  \* MAXTORP
  Armed,    \* players whose ship has plasmas (s_plasmacost >= 0)
  Att,      \* players whose ship is an ATT
  CountCap  \* counts that have gone wrong stay within this of their range (bound)

ASSUME TorpsAssumption ==
  /\ NPlayer \in Nat \ {0} /\ MaxTorp \in Nat \ {0}
  /\ Armed \subseteq 0 .. NPlayer - 1 /\ Att \subseteq 0 .. NPlayer - 1
  /\ CountCap \in Nat \ {0}

Player  == 0 .. NPlayer - 1
Kind    == {"photon", "plasma"}
NTorps  == NPlayer * MaxTorp
Slot    == 0 .. NTorps + NPlayer - 1
First(kind, p) == IF kind = "photon" THEN MaxTorp * p ELSE NTorps + p
Last(kind, p)  == IF kind = "photon" THEN MaxTorp * p + MaxTorp - 1 ELSE NTorps + p
Cap(n) == IF n < -CountCap THEN -CountCap
          ELSE IF n > MaxTorp + CountCap THEN MaxTorp + CountCap ELSE n
Limit(kind)    == IF kind = "photon" THEN MaxTorp ELSE 1

VARIABLES
  torp, owner, type,     \* t_status, t_owner, t_type
  cnt,                   \* p_ntorp, p_nplasmatorp
  st,                    \* p_status, and whether ntserv still takes input
  pc, kind, k, reg, val, \* an ntserv process
  dpc, dt, dst, dreg,    \* the daemon
  raced                  \* history: one of the races above has been lost

tvars == <<torp, owner, type>>
pvars == <<pc, kind, k, reg, val>>
dvars == <<dpc, dt, dst, dreg>>
vars  == <<tvars, cnt, st, pvars, dvars, raced>>

Status == {"free", "move", "explode", "det", "off"}

TypeOK ==
  /\ torp \in [Slot -> Status]
  /\ owner \in [Slot -> Player]
  /\ type \in [Slot -> Kind]
  /\ cnt \in [Kind -> [Player -> -CountCap .. MaxTorp + CountCap]]
  /\ st \in [Player -> {"alive", "explode", "dead"}]
  /\ pc \in [Player -> {"ready", "scan", "inc", "inc2", "move", "fields", "store"}]
  /\ kind \in [Player -> Kind]
  /\ k \in [Player -> 0 .. NTorps + NPlayer]
  /\ reg \in [Player -> Int]
  /\ val \in [Player -> {"det", "off"}]
  /\ dpc \in {"load", "act", "free", "dec", "dec2"}
  /\ dt \in Slot
  /\ dst \in Status /\ dreg \in Int
  /\ raced \in BOOLEAN

\* Shared memory starts as zeros: every slot says owner 0, a photon torpedo.
Init ==
  /\ torp = [s \in Slot |-> "free"]
  /\ owner = [s \in Slot |-> 0]
  /\ type = [s \in Slot |-> "photon"]
  /\ cnt = [t \in Kind |-> [p \in Player |-> 0]]
  /\ st = [p \in Player |-> "alive"]
  /\ pc = [p \in Player |-> "ready"]
  /\ kind = [p \in Player |-> "photon"]
  /\ k = [p \in Player |-> 0]
  /\ reg = [p \in Player |-> 0]
  /\ val = [p \in Player |-> "off"]
  /\ dpc = "load" /\ dt = 0 /\ dst = "free" /\ dreg = 0
  /\ raced = FALSE

Goto(p, l) == pc' = [pc EXCEPT ![p] = l]

\* The call returns and its local variables are gone.
Return(p) ==
  /\ Goto(p, "ready")
  /\ k' = [k EXCEPT ![p] = 0]
  /\ kind' = [kind EXCEPT ![p] = "photon"]
  /\ reg' = [reg EXCEPT ![p] = 0]

-----------------------------------------------------------------------------
(* Firing *)

\* Mutant: the limit check is gone.
FireUnlimited(p, t) ==
  /\ pc[p] = "ready" /\ st[p] # "dead"
  /\ t = "plasma" => p \in Armed
  /\ kind' = [kind EXCEPT ![p] = t]
  /\ k' = [k EXCEPT ![p] = First(t, p)]
  /\ reg' = [reg EXCEPT ![p] = cnt[t][p]]
  /\ Goto(p, "scan")
  /\ UNCHANGED <<tvars, cnt, st, val, dvars, raced>>

\* ntorp(), nplasmatorp() up to the search: the checks of fuel, temperature,
\* repair, cloak and mode can only make the call return.  An ATT has no limit of
\* plasmas.
Fire(p, t) ==
  /\ pc[p] = "ready" /\ st[p] # "dead"
  /\ t = "plasma" => p \in Armed
  /\ cnt[t][p] # Limit(t) \/ (t = "plasma" /\ p \in Att)
  /\ kind' = [kind EXCEPT ![p] = t]
  /\ k' = [k EXCEPT ![p] = First(t, p)]
  /\ reg' = [reg EXCEPT ![p] = cnt[t][p]]
  /\ Goto(p, "scan")
  /\ UNCHANGED <<tvars, cnt, st, val, dvars, raced>>

\* Mutant: the search does not stop at the player's last slot.
ScanOn(p) ==
  /\ pc[p] = "scan"
  /\ LET none == k[p] > Last("plasma", NPlayer - 1) IN
     \/ /\ none \/ torp[k[p]] = "free"
        /\ Goto(p, "inc")
        /\ UNCHANGED <<k, kind, reg>>
     \/ /\ ~none /\ torp[k[p]] # "free"
        /\ k' = [k EXCEPT ![p] = @ + 1]
        /\ UNCHANGED <<pc, kind, reg>>
  /\ UNCHANGED <<tvars, cnt, st, val, dvars, raced>>

\* The search for a free slot.  That of nplasmatorp() gives up at its end;
\* that of ntorp() leaves k one past the player's last slot.
Scan(p) ==
  /\ pc[p] = "scan"
  /\ LET none == k[p] > Last(kind[p], p) IN
     \/ /\ none /\ kind[p] = "plasma"
        /\ Return(p)
     \/ /\ (none /\ kind[p] = "photon") \/ (~none /\ torp[k[p]] = "free")
        /\ Goto(p, "inc")
        /\ UNCHANGED <<k, kind, reg>>
     \/ /\ ~none /\ torp[k[p]] # "free"
        /\ k' = [k EXCEPT ![p] = @ + 1]
        /\ UNCHANGED <<pc, kind, reg>>
  /\ UNCHANGED <<tvars, cnt, st, val, dvars, raced>>

\* p_ntorp++: what it adds to is loaded now, or still in a register since the
\* test of the limit, as the compiler has it (TEST_RESULTS_SHM_STRESS.md:44).
Inc(p) ==
  /\ pc[p] = "inc"
  /\ \/ reg' = [reg EXCEPT ![p] = cnt[kind[p]][p]]
     \/ UNCHANGED reg
  /\ Goto(p, "inc2")
  /\ UNCHANGED <<tvars, cnt, st, kind, k, val, dvars, raced>>

IncStore(p) ==
  /\ pc[p] = "inc2"
  /\ cnt' = [cnt EXCEPT ![kind[p]][p] = Cap(reg[p] + 1)]
  /\ raced' = (raced \/ cnt[kind[p]][p] # reg[p])
  /\ reg' = [reg EXCEPT ![p] = 0]
  /\ Goto(p, "move")
  /\ UNCHANGED <<tvars, st, kind, k, val, dvars>>

\* t_status = TMOVE,
Move(p) ==
  /\ pc[p] = "move"
  /\ torp' = [torp EXCEPT ![k[p]] = "move"]
  /\ Goto(p, "fields")
  /\ UNCHANGED <<owner, type, cnt, st, kind, k, reg, val, dvars, raced>>

\* and after it the other fields.
Fields(p) ==
  /\ pc[p] = "fields"
  /\ owner' = [owner EXCEPT ![k[p]] = p]
  /\ type' = [type EXCEPT ![k[p]] = kind[p]]
  /\ Return(p)
  /\ UNCHANGED <<torp, cnt, st, val, dvars, raced>>

-----------------------------------------------------------------------------
(* Detonating *)

\* A torpedo that moves is to get status v.
Detonate(p, s, v) ==
  /\ pc[p] = "ready" /\ st[p] # "dead"
  /\ torp[s] = "move"
  /\ k' = [k EXCEPT ![p] = s]
  /\ val' = [val EXCEPT ![p] = v]
  /\ Goto(p, "store")
  /\ UNCHANGED <<tvars, cnt, st, kind, reg, dvars, raced>>

\* handleDetMReq(): one of the player's own torpedoes.
DetMine(p, s) == s < NTorps /\ owner[s] = p /\ Detonate(p, s, "off")

\* detothers(): a torpedo of anybody that is not friendly and near enough.
DetOthers(p, s) == s < NTorps /\ owner[s] # p /\ Detonate(p, s, "det")

DetStore(p) ==
  /\ pc[p] = "store"
  /\ torp' = [torp EXCEPT ![k[p]] = val[p]]
  /\ Return(p)
  /\ val' = [val EXCEPT ![p] = "off"]
  /\ raced' = (raced \/ torp[k[p]] = "free")
  /\ UNCHANGED <<owner, type, cnt, st, dvars>>

-----------------------------------------------------------------------------
(* The daemon: udtorps() *)

NextSlot ==
  dpc' = "load" /\ dst' = "free" /\ dt' = IF dt = NTorps + NPlayer - 1 THEN 0 ELSE dt + 1

UdLoad ==
  /\ dpc = "load"
  /\ \/ torp[dt] = "free" /\ NextSlot
     \/ torp[dt] # "free" /\ dst' = torp[dt] /\ dpc' = "act" /\ UNCHANGED dt
  /\ UNCHANGED <<tvars, cnt, st, pvars, dreg, raced>>

\* It goes on flying, or exploding.
UdGoesOn ==
  /\ dpc = "act" /\ dst \in {"move", "explode"}
  /\ NextSlot
  /\ UNCHANGED <<tvars, cnt, st, pvars, dreg, raced>>

\* t_hit_wall(), t_near() or TDET: t_explosion().
UdExplode ==
  /\ dpc = "act" /\ dst \in {"move", "det"}
  /\ torp' = [torp EXCEPT ![dt] = "explode"]
  /\ NextSlot
  /\ UNCHANGED <<owner, type, cnt, st, pvars, dreg, raced>>

\* Mutant: a torpedo that its owner detonated is not freed.
UdOutKeepsOff ==
  /\ dpc = "act" /\ dst \in {"move", "explode", "off"}
  /\ \/ dst = "off" /\ NextSlot
     \/ dst # "off" /\ dpc' = "free" /\ UNCHANGED <<dt, dst>>
  /\ UNCHANGED <<tvars, cnt, st, pvars, dreg, raced>>

\* It is out of time, or turned off.
UdOut ==
  /\ dpc = "act" /\ dst \in {"move", "explode", "off"}
  /\ dpc' = "free"
  /\ UNCHANGED <<tvars, cnt, st, pvars, dt, dst, dreg, raced>>

\* Nobody is between his store of TMOVE into slot s and those of owner and type.
Filled(s) == \A p \in Player : pc[p] = "fields" => k[p] # s

UdFree ==
  /\ dpc = "free"
  /\ torp' = [torp EXCEPT ![dt] = "free"]
  /\ raced' = (raced \/ ~Filled(dt))
  /\ dpc' = "dec"
  /\ UNCHANGED <<owner, type, cnt, st, pvars, dt, dst, dreg>>

\* players[t->t_owner].p_ntorp--
UdDec ==
  /\ dpc = "dec"
  /\ dreg' = cnt[type[dt]][owner[dt]]
  /\ dpc' = "dec2"
  /\ UNCHANGED <<tvars, cnt, st, pvars, dt, dst, raced>>

\* Mutant: every torpedo is counted as a photon torpedo.
UdDecPhoton ==
  /\ dpc = "dec2"
  /\ cnt' = [cnt EXCEPT !["photon"][owner[dt]] = Cap(dreg - 1)]
  /\ raced' = (raced \/ cnt[type[dt]][owner[dt]] # dreg)
  /\ NextSlot
  /\ dreg' = 0
  /\ UNCHANGED <<tvars, st, pvars>>

UdDecStore ==
  /\ dpc = "dec2"
  /\ cnt' = [cnt EXCEPT ![type[dt]][owner[dt]] = Cap(dreg - 1)]
  /\ raced' = (raced \/ cnt[type[dt]][owner[dt]] # dreg)
  /\ NextSlot
  /\ dreg' = 0
  /\ UNCHANGED <<tvars, st, pvars>>

-----------------------------------------------------------------------------
(* Death and rebirth *)

\* The ship explodes; its process takes no more input from the next update on.
Die(p) ==
  /\ st[p] = "alive"
  /\ st' = [st EXCEPT ![p] = "explode"]
  /\ UNCHANGED <<tvars, cnt, pvars, dvars, raced>>

CloseInput(p) ==
  /\ st[p] = "explode" /\ pc[p] = "ready"
  /\ st' = [st EXCEPT ![p] = "dead"]
  /\ UNCHANGED <<tvars, cnt, pvars, dvars, raced>>

\* intrupt() calls death() once nothing of the ship flies; enter() follows.
Reenter(p) ==
  /\ st[p] = "dead" /\ pc[p] = "ready"
  /\ \A t \in Kind : cnt[t][p] <= 0
  /\ st' = [st EXCEPT ![p] = "alive"]
  /\ cnt' = [t \in Kind |-> [cnt[t] EXCEPT ![p] = 0]]
  /\ UNCHANGED <<tvars, pvars, dvars, raced>>

\* The process is gone, its slot is freed and another player enters.
Turnover(p) ==
  /\ pc[p] = "ready"
  /\ raced' = (raced \/ \E t \in Kind : cnt[t][p] # 0)
  /\ st' = [st EXCEPT ![p] = "alive"]
  /\ cnt' = [t \in Kind |-> [cnt[t] EXCEPT ![p] = 0]]
  /\ UNCHANGED <<tvars, pvars, dvars>>

-----------------------------------------------------------------------------
Ntserv(p) == Scan(p) \/ Inc(p) \/ IncStore(p) \/ Move(p) \/ Fields(p) \/ DetStore(p)
Udtorps == UdLoad \/ UdGoesOn \/ UdExplode \/ UdOut \/ UdFree \/ UdDec \/ UdDecStore

Play ==
  \/ \E p \in Player :
       \/ \E t \in Kind : Fire(p, t)
       \/ \E s \in Slot : DetMine(p, s) \/ DetOthers(p, s)
       \/ Ntserv(p) \/ Die(p) \/ CloseInput(p) \/ Reenter(p)
  \/ Udtorps

Next == Play \/ \E p \in Player : Turnover(p)

\* Processes and the daemon keep running, and every fuse runs out: a slot that
\* is swept again and again is freed.
Fairness ==
  /\ WF_vars(Udtorps)
  /\ \A s \in Slot : SF_vars(dt = s /\ UdOut)
  /\ \A p \in Player : WF_vars(Ntserv(p)) /\ WF_vars(CloseInput(p)) /\ WF_vars(Reenter(p))

Spec == Init /\ [][Next]_vars
\* Nobody hands his slot on: only accesses that overlap are left to go wrong.
SamePlayers == Init /\ [][Play]_vars
LiveSpec == Spec /\ Fairness

\* The behaviours up to the first race that is lost.
UntilRaced ==
  /\ Init /\ [][~raced /\ Next]_vars
  /\ WF_vars(~raced /\ Udtorps)
  /\ \A s \in Slot : SF_vars(~raced /\ dt = s /\ UdOut)
  /\ \A p \in Player :
       /\ WF_vars(~raced /\ Ntserv(p))
       /\ WF_vars(~raced /\ CloseInput(p)) /\ WF_vars(~raced /\ Reenter(p))

-----------------------------------------------------------------------------
(* Properties *)

Live(s) == torp[s] # "free"

Quiet ==
  /\ dpc \notin {"dec", "dec2"}
  /\ \A p \in Player : pc[p] # "move" /\ pc[p] # "fields"

\* "Number of torps flying" (struct.h:448-449): as long as none of the races has
\* been lost, and while no torpedo is just being fired or freed, the counts of a
\* player are those of its torpedoes, whatever else interleaves.
CountExact ==
  ~raced /\ Quiet => \A p \in Player, t \in Kind :
    cnt[t][p] = Cardinality({s \in Slot : Live(s) /\ owner[s] = p /\ type[s] = t})

\* Every torpedo lies among those of its owner.  ntorp() has no test for a search
\* that found nothing, so this rests on the counts.
OwnSlots ==
  \A s \in Slot : Live(s) /\ Filled(s) =>
    s \in First(type[s], owner[s]) .. Last(type[s], owner[s])

\* A torpedo leaves its owner's slots only after one of the races has been lost,
\* whatever else players and the daemon store into torps[] at the same time.
TorpsInv ==
  TypeOK /\ (~raced => OwnSlots)

\* Even when a count has gone wrong and the search of ntorp() has run off the
\* player's slots, what it writes to is a slot of the array, because the plasma
\* slots follow the torpedo slots.
StaysInArray ==
  \A p \in Player : pc[p] \in {"inc", "inc2", "move", "fields", "store"} => k[p] \in Slot

\* Whatever has been stored into its status by whom, a slot becomes free again.
SlotFreed == \A s \in Slot : Live(s) ~> ~Live(s)

\* A player whose ship is gone can come back: the counts that intrupt() waits
\* for reach 0 whatever is detonated by whom, unless a race has been lost.
ComesBack ==
  \A p \in Player : st[p] = "dead" ~> st[p] = "alive" \/ raced
=============================================================================
