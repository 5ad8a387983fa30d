------------------------------- MODULE Phaser -------------------------------
(***************************************************************************)
(* The phaser of one ship: phaser() in its ntserv (ntserv/phaser.c) stores *)
(* the entry of phasers[] field by field, and udphaser() of the daemon     *)
(* (daemon.c) counts its fuse down, lets the burst hit on the frame in     *)
(* which the fuse still has the value the ship gave it, and frees it at    *)
(* the end.  A store, and each half of "ph_fuse--", is one action.         *)
(* Geometry is free: any player may be the nearest one on the line.        *)
(***************************************************************************)
EXTENDS Integers

CONSTANTS
  Victim,       \* the other players
  Fuse,         \* the values of s_phaserfuse
  FuseFloor     \* bound: a fuse that went past zero is followed down to this

Nobody == "nobody"
Plasma == "plasma"

ASSUME PhaserAssumption ==
  /\ Nobody \notin Victim /\ Plasma \notin Victim
  /\ Fuse \subseteq Nat \ {0, 1}
  /\ Fuse # {}
  /\ FuseFloor \in Nat

VARIABLES
  ph_status,    \* phasers[i].ph_status
  ph_fuse,      \* phasers[i].ph_fuse
  ph_target,    \* phasers[i].ph_target
  s_phaserfuse, \* players[i].p_ship.s_phaserfuse
  ph_pc,        \* phaser(): the next store
  ud_pc,        \* udphaser(): between the load and the store of the fuse
  ud_reg,       \* the fuse that it loaded
  ph_aim,       \* what the shot hit: a player, a plasma or nothing; kept as history
  ph_hits,      \* history: how often the last shot hit each player
  ph_spared,    \* history: the target was idle when the shot arrived
  ph_torn,      \* history: udphaser() saw the entry between two stores
  ph_refit      \* history: the ship was changed while the shot was out

phVars  == <<ph_status, ph_fuse, ph_target, s_phaserfuse, ph_pc, ud_pc, ud_reg,
             ph_aim, ph_hits, ph_spared, ph_torn, ph_refit>>
history == <<ph_aim, ph_hits, ph_spared, ph_torn, ph_refit>>

PhTypeOK ==
  /\ ph_status \in {"PHFREE", "PHMISS", "PHHIT", "PHHIT2"}
  /\ ph_fuse \in Int
  /\ ph_target \in Victim
  /\ s_phaserfuse \in Fuse
  /\ ph_pc \in {"idle", "fuse", "target", "deflect"}
  /\ ud_pc \in {"top", "store"}
  /\ ud_reg \in Int
  /\ ph_aim \in Victim \cup {Nobody, Plasma}
  /\ ph_hits \in [Victim -> Nat]
  /\ ph_spared \in BOOLEAN /\ ph_torn \in BOOLEAN /\ ph_refit \in BOOLEAN

PhInit ==
  /\ ph_status = "PHFREE"
  /\ ph_fuse = 0
  /\ ph_target \in Victim
  /\ s_phaserfuse \in Fuse
  /\ ph_pc = "idle" /\ ud_pc = "top" /\ ud_reg = 0
  /\ ph_aim = Nobody
  /\ ph_hits = [v \in Victim |-> 0]
  /\ ph_spared = FALSE /\ ph_torn = FALSE /\ ph_refit = FALSE

-----------------------------------------------------------------------------
(* phaser() *)

\* The phaser is free and may be fired.  It hits player v, or a plasma, or
\* nothing; the first store is that of ph_status.
FirePhaser(result, v) ==
  /\ ph_pc = "idle"
  /\ ph_status = "PHFREE"
  /\ ph_status' = result
  /\ ph_pc' = "fuse"
  /\ ph_aim' = CASE result = "PHHIT"  -> v
                 [] result = "PHHIT2" -> Plasma
                 [] OTHER             -> Nobody
  /\ ph_hits' = [w \in Victim |-> 0]
  /\ ph_spared' = FALSE /\ ph_torn' = FALSE /\ ph_refit' = FALSE
  /\ UNCHANGED <<ph_fuse, ph_target, s_phaserfuse, ud_pc, ud_reg>>

\* What phaser() does after the fuse is lit: it names the player it hit, or
\* may deflect a plasma, where that is allowed ("pingpong_plasma").
AfterFuse == IF ph_aim \in Victim THEN {"target"}
             ELSE IF ph_aim = Plasma THEN {"idle", "deflect"} ELSE {"idle"}

\* Mutants: the fuse is one too short; the fuse is not lit.
StoreFuseShort ==
  /\ ph_pc = "fuse"
  /\ ph_fuse' = s_phaserfuse - 1
  /\ ph_pc' \in AfterFuse
  /\ UNCHANGED <<ph_status, ph_target, s_phaserfuse, ud_pc, ud_reg, history>>
StoreFuseNever ==
  /\ ph_pc = "fuse"
  /\ ph_pc' \in AfterFuse
  /\ UNCHANGED <<ph_status, ph_fuse, ph_target, s_phaserfuse, ud_pc, ud_reg,
                 history>>

\* "mine->ph_fuse = me->p_ship.s_phaserfuse".
StoreFuse ==
  /\ ph_pc = "fuse"
  /\ ph_fuse' = s_phaserfuse
  /\ ph_pc' \in AfterFuse
  /\ UNCHANGED <<ph_status, ph_target, s_phaserfuse, ud_pc, ud_reg, history>>

\* "mine->ph_target = target_player->p_no", after the fuse is lit.
StoreTarget ==
  /\ ph_pc = "target"
  /\ ph_target' = ph_aim
  /\ ph_pc' = "idle"
  /\ UNCHANGED <<ph_status, ph_fuse, s_phaserfuse, ud_pc, ud_reg, history>>

\* "mine->ph_status = PHHIT2" a second time, when the plasma is deflected.
StoreAgain ==
  /\ ph_pc = "deflect"
  /\ ph_status' = "PHHIT2"
  /\ ph_pc' = "idle"
  /\ UNCHANGED <<ph_fuse, ph_target, s_phaserfuse, ud_pc, ud_reg, history>>

\* getship() of a refit: another s_phaserfuse, whatever the phaser does.
RefitPhaser(f) ==
  /\ ph_pc = "idle"
  /\ f # s_phaserfuse
  /\ s_phaserfuse' = f
  /\ ph_refit' = (ph_refit \/ ph_status # "PHFREE")
  /\ UNCHANGED <<ph_status, ph_fuse, ph_target, ph_pc, ud_pc, ud_reg, ph_aim,
                 ph_hits, ph_spared, ph_torn>>

-----------------------------------------------------------------------------
(* udphaser() *)

\* The load of "ph_fuse--".
UdPhaserLoad ==
  /\ ud_pc = "top"
  /\ ph_status # "PHFREE"
  /\ ph_fuse > -FuseFloor
  /\ ud_reg' = ph_fuse
  /\ ud_pc' = "store"
  /\ ph_torn' = (ph_torn \/ ph_pc # "idle")
  /\ UNCHANGED <<ph_status, ph_fuse, ph_target, s_phaserfuse, ph_pc, ph_aim,
                 ph_hits, ph_spared, ph_refit>>

\* Mutant: the burst hits on every frame.
FirstFrameAlways == ud_reg > 0

\* The frame on which the burst hits.
FirstFrame == ud_reg = s_phaserfuse

\* A miss, or a plasma that was hit, ends with the last frame of the fuse.
MissEnds == ud_reg = 1

\* PHMISS and PHHIT2.
UdMiss ==
  /\ ud_pc = "store"
  /\ ph_status \in {"PHMISS", "PHHIT2"}
  /\ ph_fuse' = ud_reg - 1
  /\ ph_status' = IF MissEnds THEN "PHFREE" ELSE ph_status
  /\ ud_pc' = "top" /\ ud_reg' = 0
  /\ UNCHANGED <<ph_target, s_phaserfuse, ph_pc, history>>

\* PHHIT: the victim is hit on the first frame, unless it is idle, which
\* also skips the test for the end.
UdHit(idle) ==
  /\ ud_pc = "store"
  /\ ph_status = "PHHIT"
  /\ ph_fuse' = ud_reg - 1
  /\ LET spared == FirstFrame /\ idle
         hits   == FirstFrame /\ ~idle
     IN  /\ ph_hits' = [v \in Victim |->
              IF hits /\ v = ph_target THEN ph_hits[v] + 1 ELSE ph_hits[v]]
         /\ ph_spared' = (ph_spared \/ spared)
         /\ ph_status' = IF ~spared /\ ud_reg = 1 THEN "PHFREE" ELSE ph_status
  /\ ud_pc' = "top" /\ ud_reg' = 0
  /\ UNCHANGED <<ph_target, s_phaserfuse, ph_pc, ph_aim, ph_torn, ph_refit>>

UdPhaser == UdPhaserLoad \/ UdMiss \/ \E idle \in BOOLEAN : UdHit(idle)

PhNext ==
  \/ \E v \in Victim, result \in {"PHMISS", "PHHIT", "PHHIT2"} :
       FirePhaser(result, v)
  \/ StoreFuse \/ StoreTarget \/ StoreAgain
  \/ \E f \in Fuse : RefitPhaser(f)
  \/ UdPhaser

PhSpec == PhInit /\ [][PhNext]_phVars

-----------------------------------------------------------------------------
(* Properties *)

\* A burst hits the player it was aimed at, once, and nobody else.  It holds
\* while udphaser() never sees an entry that is half stored, and the ship is
\* not changed while the burst is out: a refit to a ship with a shorter fuse
\* makes the fuse pass through s_phaserfuse again.
HitsOnceAndOnlyItsTarget ==
  ~ph_torn /\ ~ph_refit =>
    \A v \in Victim : ph_hits[v] <= (IF v = ph_aim THEN 1 ELSE 0)

\* A burst that hit is not lost: when the phaser is free again the victim has
\* taken it, or was idle.
HitIsNotLost ==
  ~ph_torn /\ ~ph_refit /\ ph_status = "PHFREE" /\ ph_aim \in Victim =>
    ph_hits[ph_aim] = 1 \/ ph_spared

\* The phaser recharges: while it is not free its fuse is alight.  One
\* udphaser() between the stores of phaser() is enough to lose the new fuse,
\* and a fuse below zero never ends: nothing else sets ph_status, not even the
\* next player in the slot.
FuseIsLit == ~ph_torn /\ ph_status # "PHFREE" /\ ph_pc # "fuse" => ph_fuse > 0

\* A burst of phaser() is taken through udphaser() to its end: one hit, on its
\* target, and a fuse that burns down.
PhInv ==
  PhTypeOK /\ HitsOnceAndOnlyItsTarget /\ HitIsNotLost /\ FuseIsLit
=============================================================================
