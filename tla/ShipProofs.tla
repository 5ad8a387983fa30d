----------------------------- MODULE ShipProofs -----------------------------
(***************************************************************************)
(* Proofs about one ship: the flags that its captain's orders and the      *)
(* daemon leave it with (Helm), and its phaser (Phaser), for any delays of *)
(* the timers, any fuses and any other players.                            *)
(***************************************************************************)
EXTENDS Helm, Phaser, FiniteSetTheorems, TLAPS

-----------------------------------------------------------------------------
(* Helm *)

\* OneJob without counting.
NoTwoJobs(f) == \A x, y \in f \cap Job : x = y

\* Flags that do not contradict each other.
SoundFlags(f) ==
  /\ f \subseteq HelmFlag
  /\ NoTwoJobs(f)
  /\ "PFTWARP" \in f =>
       /\ "PFPLOCK" \in f /\ "PFSHIELD" \in f
       /\ f \cap {"PFDOCK", "PFORBIT", "PFREPAIR", "PFPLLOCK"} = {}

\* The inductive invariant of a ship's flags.
HelmIInv == HelmTypeOK /\ SoundFlags(me_flags)

\* Counting gives what comparing gives.
LEMMA AtMostOne ==
  ASSUME NEW S, \A x, y \in S : x = y PROVE Cardinality(S) <= 1
<1>1. CASE S = {}
  BY <1>1, FS_EmptySet
<1>2. CASE S # {}
  <2>1. PICK x \in S : S = {x}  BY <1>2
  <2> QED  BY <2>1, FS_Singleton
<1> QED  BY <1>1, <1>2

\* Flags may be taken away, except the lock and the shields of a transwarp.
LEMMA FlagsTaken ==
  ASSUME NEW f, SoundFlags(f), NEW g, g \subseteq f,
         "PFTWARP" \in g => "PFPLOCK" \in g /\ "PFSHIELD" \in g
  PROVE  SoundFlags(g)
BY DEF SoundFlags, NoTwoJobs

\* Out of transwarp, flags that are not jobs may be added.
LEMMA FlagsAdded ==
  ASSUME NEW f, SoundFlags(f), NEW g, "PFTWARP" \notin g,
         g \subseteq f \cup (HelmFlag \ Job)
  PROVE  SoundFlags(g)
BY DEF SoundFlags, NoTwoJobs

\* A job may take the place of all others.
LEMMA JobTaken ==
  ASSUME NEW f, SoundFlags(f), NEW g, "PFTWARP" \notin g,
         NEW j \in Job, g \subseteq (f \ Job) \cup {j}
  PROVE  SoundFlags(g)
<1>1. g \subseteq HelmFlag  BY DEF SoundFlags, HelmFlag
<1>2. g \cap Job \subseteq {j}  OBVIOUS
<1> QED  BY <1>1, <1>2 DEF SoundFlags, NoTwoJobs

\* What orbit() leaves of flags without a transwarp.
LEMMA OrbitKeeps ==
  ASSUME NEW f, SoundFlags(f), "PFTWARP" \notin f, NEW s \in 0 .. 2, NEW g,
         refit_left \in 0 .. RefitDelay, Orbits(f, s, g)
  PROVE  /\ SoundFlags(g) /\ me_flags' = g
         /\ me_speed' \in 0 .. 2
         /\ refit_left' \in 0 .. RefitDelay
<1>1. g \in {f, Unlocked(f), Unlocked(f) \cup {"PFDOCK"}, Unlocked(f) \cup {"PFORBIT"}}
  BY DEF Orbits, OrbitOutcome, AfterTwarp, Unlocked
<1>2. SoundFlags(g)
  <2>1. {"PFDOCK", "PFORBIT"} \subseteq HelmFlag \ Job  BY DEF HelmFlag, Job
  <2>2. "PFTWARP" \notin g /\ g \subseteq f \cup {"PFDOCK", "PFORBIT"}
    BY <1>1 DEF Unlocked
  <2>3. g \subseteq f \cup (HelmFlag \ Job)  BY <2>1, <2>2
  <2> QED  BY <2>2, <2>3, FlagsAdded
<1>3. me_flags' = g /\ me_speed' \in {0, s} /\ refit_left' \in {RefitDelay, refit_left}
  BY DEF Orbits
<1> QED  BY <1>2, <1>3, HelmAssumption

\* A packet that only changes flags, and accepts only out of transwarp.
LEMMA OrderKeeps ==
  ASSUME HelmIInv, NEW f, Order(f), SoundFlags(f \ {"PFSELFDEST"})
  PROVE  HelmIInv'
BY DEF Order, Packet, HelmIInv, HelmTypeOK, SoundFlags, timers

\* Every packet of the captain that is heard keeps it.
LEMMA OrdersKeep == ASSUME HelmIInv, Orders PROVE HelmIInv'
<1> USE HelmAssumption DEF HelmIInv
<1>0. /\ "PFTWARP" \notin me_flags /\ SoundFlags(me_flags)
      /\ \A g : g \subseteq me_flags => SoundFlags(g)
      /\ \A g : g \subseteq me_flags \cup (HelmFlag \ (Job \cup {"PFTWARP"})) => SoundFlags(g)
      /\ \A j \in Job : \A g : g \subseteq (me_flags \ Job) \cup {j} => SoundFlags(g)
  <2>1. "PFTWARP" \notin me_flags
    BY DEF Orders, SetSpeed, SetCourse, ShieldUp, ShieldDown, BombPlanet, BeamUp,
           BeamDown, WorkOff, Repair, RepairOff, CloakOn, CloakOff, LockPlanet,
           LockPlayer, Orbit, OrbitOff, DeclaresWar, DoRefit, Transwarp, Quit, Order,
           Packet, Accepts, Gate
  <2>2. "PFTWARP" \notin Job  BY DEF Job
  <2> QED  BY <2>1, <2>2, FlagsTaken, FlagsAdded, JobTaken
<1>1. ASSUME NEW s \in 0 .. 2, SetSpeed(s) PROVE HelmIInv'
  BY <1>0, <1>1 DEF SetSpeed, SpeedFlags, Packet, HelmTypeOK, SoundFlags, timers
<1>2. CASE SetCourse
  BY <1>0, <1>2, OrderKeeps DEF SetCourse, CourseFlags
<1>3. CASE ShieldUp
  <2>1. "PFSHIELD" \in Job  BY DEF Job
  <2> QED  BY <1>0, <1>3, <2>1, OrderKeeps DEF ShieldUp
<1>4. CASE ShieldDown
  BY <1>0, <1>4, OrderKeeps DEF ShieldDown
<1>5. CASE BombPlanet
  <2>1. "PFBOMB" \in Job  BY DEF Job
  <2> QED  BY <1>0, <1>5, <2>1, OrderKeeps DEF BombPlanet
<1>6. CASE BeamUp
  <2>1. "PFBEAMUP" \in Job  BY DEF Job
  <2> QED  BY <1>0, <1>6, <2>1, OrderKeeps DEF BeamUp
<1>7. CASE BeamDown
  <2>1. "PFBEAMDOWN" \in Job  BY DEF Job
  <2> QED  BY <1>0, <1>7, <2>1, OrderKeeps DEF BeamDown
<1>8. CASE WorkOff
  BY <1>0, <1>8, OrderKeeps DEF WorkOff
<1>9. CASE Repair
  <2>1. "PFREPAIR" \in Job  BY DEF Job
  <2> QED  BY <1>0, <1>9, <2>1, OrderKeeps DEF Repair
<1>10. CASE RepairOff \/ CloakOff \/ OrbitOff
  BY <1>0, <1>10, OrderKeeps DEF RepairOff, CloakOff, OrbitOff
<1>11. CASE CloakOn
  <2>1. "PFCLOAK" \in HelmFlag \ (Job \cup {"PFTWARP"})  BY DEF HelmFlag, Job
  <2> QED  BY <1>0, <1>11, <2>1, OrderKeeps DEF CloakOn
<1>12. CASE LockPlanet
  <2>1. "PFPLLOCK" \in HelmFlag \ (Job \cup {"PFTWARP"})  BY DEF HelmFlag, Job
  <2> QED  BY <1>0, <1>12, <2>1, OrderKeeps DEF LockPlanet
<1>13. ASSUME NEW t \in {"base", "other"}, LockPlayer(t) PROVE HelmIInv'
  <2>1. "PFPLOCK" \in HelmFlag \ (Job \cup {"PFTWARP"})  BY DEF HelmFlag, Job
  <2>2. SoundFlags(me_flags')  BY <1>0, <1>13, <2>1 DEF LockPlayer, Packet
  <2> QED  BY <1>13, <2>2 DEF LockPlayer, Packet, HelmTypeOK, SoundFlags, timers
<1>14. CASE Orbit
  <2>1. PICK g \in OrbitOutcome(me_flags \ {"PFSELFDEST"}) :
               Orbits(me_flags \ {"PFSELFDEST"}, me_speed, g)
    BY <1>14 DEF Orbit
  <2>2. /\ SoundFlags(me_flags') /\ me_speed' \in 0 .. 2
        /\ refit_left' \in 0 .. RefitDelay
    BY <1>0, <2>1, OrbitKeeps DEF HelmTypeOK
  <2> QED  BY <1>14, <2>2 DEF Orbit, HelmTypeOK, SoundFlags
<1>15. CASE DeclaresWar
  <2>1. "PFWAR" \in HelmFlag \ (Job \cup {"PFTWARP"})
    BY DEF HelmFlag, Job, Gate
  <2>2. SoundFlags(me_flags')  BY <1>0, <1>15, <2>1 DEF DeclaresWar, Packet
  <2> QED  BY <1>15, <2>2 DEF DeclaresWar, Packet, HelmTypeOK, SoundFlags
<1>16. CASE DoRefit
  <2>1. "PFREFITTING" \in HelmFlag \ (Job \cup {"PFTWARP"})
    BY DEF HelmFlag, Job, Gate
  <2>2. SoundFlags(me_flags')  BY <1>0, <1>16, <2>1 DEF DoRefit, Packet
  <2> QED  BY <1>16, <2>2 DEF DoRefit, Packet, HelmTypeOK, SoundFlags
<1>17. CASE Transwarp
  <2>1. me_flags \cap {"PFREPAIR", "PFORBIT"} = {}  BY <1>17 DEF Transwarp
  <2>2. me_flags' = ((SpeedFlags(me_flags) \ {"PFPLLOCK"})
                      \cup {"PFSHIELD", "PFTWARP", "PFPLOCK"}) \ {"PFSELFDEST"}
    BY <1>17 DEF Transwarp, Packet
  <2>3. NoTwoJobs(me_flags')
    BY <1>0, <2>2 DEF NoTwoJobs, SpeedFlags, Work, Job
  <2>4. me_flags' \subseteq HelmFlag
    BY <1>0, <2>2 DEF SoundFlags, SpeedFlags, HelmFlag, Job, Gate
  <2>5. SoundFlags(me_flags')
    BY <2>2, <2>3, <2>4 DEF SoundFlags, SpeedFlags, Berth
  <2> QED  BY <1>17, <2>4, <2>5 DEF Transwarp, Packet, HelmTypeOK, timers
<1>18. CASE Quit
  <2>1. "PFSELFDEST" \in HelmFlag \ (Job \cup {"PFTWARP"})  BY DEF HelmFlag, Job
  <2>2. SoundFlags(me_flags')  BY <1>0, <1>18, <2>1 DEF Quit
  <2> QED  BY <1>18, <2>2 DEF Quit, HelmTypeOK, SoundFlags
<1> QED
  BY <1>1, <1>2, <1>3, <1>4, <1>5, <1>6, <1>7, <1>8, <1>9, <1>10, <1>11, <1>12,
     <1>13, <1>14, <1>15, <1>16, <1>17, <1>18 DEF Orders

\* An update of the ntserv, with what its timers end, keeps it.
LEMMA UpdateKeeps == ASSUME HelmIInv, Update PROVE HelmIInv'
<1> USE HelmAssumption DEF HelmIInv
<1>1. CASE UpdateTwarp
  <2>0. "PFTWARP" \in me_flags /\ SoundFlags(me_flags)
    BY <1>1 DEF UpdateTwarp, On
  <2>1. CASE /\ me_flags' \subseteq me_flags \ {"PFTWARP"}
             /\ me_speed' = 2 /\ UNCHANGED refit_left
    <3>1. SoundFlags(me_flags')  BY <2>0, <2>1, FlagsTaken
    <3> QED  BY <1>1, <2>1, <3>1 DEF UpdateTwarp, HelmTypeOK, SoundFlags
  <2>2. CASE \E g \in OrbitOutcome(me_flags \ {"PFTWARP", "PFPLOCK"}) :
               Orbits(me_flags \ {"PFTWARP", "PFPLOCK"}, 1, g)
    <3>1. SoundFlags(me_flags \ {"PFTWARP", "PFPLOCK"})  BY <2>0, FlagsTaken
    <3>2. /\ SoundFlags(me_flags') /\ me_speed' \in 0 .. 2
          /\ refit_left' \in 0 .. RefitDelay
      BY <2>2, <3>1, OrbitKeeps DEF HelmTypeOK
    <3> QED  BY <1>1, <3>2 DEF UpdateTwarp, HelmTypeOK, SoundFlags
  <2>3. CASE UNCHANGED <<me_flags, me_speed, refit_left>>
    BY <1>1, <2>0, <2>3 DEF UpdateTwarp, HelmTypeOK, SoundFlags, NoTwoJobs
  <2> QED  BY <1>1, <2>1, <2>2, <2>3 DEF UpdateTwarp, SpeedFlags
<1>2. CASE UpdateLocks
  <2>0. "PFTWARP" \notin me_flags /\ SoundFlags(me_flags)
    BY <1>2 DEF UpdateLocks, On
  <2>1. /\ me_flags' \subseteq HelmFlag /\ SoundFlags(me_flags')
        /\ me_speed' \in 0 .. 2 /\ refit_left' \in 0 .. RefitDelay
    <3> DEFINE Kept(f) == IF target = "dead" THEN f \ {"PFPLOCK"} ELSE f
    <3>1. PICK f \in Finished(me_flags) :
            \/ /\ me_flags' \subseteq Kept(f)
               /\ UNCHANGED refit_left /\ me_speed' \in {me_speed, 1}
            \/ \E g \in OrbitOutcome(Unlocked(Kept(f))) :
                 Orbits(Unlocked(Kept(f)), me_speed, g)
      BY <1>2 DEF UpdateLocks, CourseFlags, SpeedFlags
    <3>2. Kept(f) \subseteq me_flags /\ Unlocked(Kept(f)) \subseteq me_flags
      BY DEF Finished, Unlocked
    <3>3. CASE /\ me_flags' \subseteq Kept(f)
               /\ UNCHANGED refit_left /\ me_speed' \in {me_speed, 1}
      BY <2>0, <3>2, <3>3, FlagsTaken DEF HelmTypeOK, SoundFlags
    <3>4. CASE \E g \in OrbitOutcome(Unlocked(Kept(f))) :
                 Orbits(Unlocked(Kept(f)), me_speed, g)
      <4>1. SoundFlags(Unlocked(Kept(f)))  BY <2>0, <3>2, FlagsTaken
      <4>2. "PFTWARP" \notin Unlocked(Kept(f))  BY <2>0, <3>2
      <4> HIDE DEF Kept
      <4> QED  BY <3>4, <4>1, <4>2, OrbitKeeps DEF HelmTypeOK, SoundFlags
    <3> HIDE DEF Kept
    <3> QED  BY <3>1, <3>3, <3>4
  <2> QED  BY <1>2, <2>1 DEF UpdateLocks, HelmTypeOK
<1>3. CASE UpdateFree
  <2>1. "PFTWARP" \notin me_flags /\ me_flags' \subseteq me_flags
    BY <1>3 DEF UpdateFree, On, Finished
  <2>2. SoundFlags(me_flags')  BY <2>1, FlagsTaken
  <2> QED  BY <1>3, <2>2 DEF UpdateFree, HelmTypeOK, SoundFlags, timers
<1> QED  BY <1>1, <1>2, <1>3 DEF Update

\* A ship that enters has no contradicting flags.
LEMMA HelmFirst == HelmInit => HelmIInv
BY HelmAssumption
DEF HelmInit, HelmIInv, HelmTypeOK, SoundFlags, NoTwoJobs, HelmFlag, Job

\* Packets, updates, frames of the daemon and other players keep it.
LEMMA HelmStep == ASSUME HelmIInv, [HelmNext]_helmVars PROVE HelmIInv'
<1> USE HelmAssumption DEF HelmIInv
<1>1. CASE Orders
  BY <1>1, OrdersKeep
<1>2. CASE Update
  BY <1>2, UpdateKeeps
<1>3. CASE TimerFlags
  <2>1. /\ me_flags' \subseteq me_flags
        /\ \A x \in {"PFTWARP", "PFPLOCK", "PFSHIELD"} : x \in me_flags => x \in me_flags'
    BY <1>3 DEF TimerFlags, TimersOut
  <2>2. SoundFlags(me_flags')  BY <2>1, FlagsTaken DEF SoundFlags
  <2> QED  BY <1>3, <2>2 DEF TimerFlags, HelmTypeOK, SoundFlags, timers
<1>4. CASE Frame
  <2>1. /\ me_flags' \subseteq me_flags
        /\ \A x \in {"PFTWARP", "PFPLOCK", "PFSHIELD"} : x \in me_flags => x \in me_flags'
    BY <1>4 DEF Frame
  <2>2. SoundFlags(me_flags')  BY <2>1, FlagsTaken DEF SoundFlags
  <2>3. /\ war_left' \in 0 .. WarDelay /\ refit_left' \in 0 .. RefitDelay
        /\ dest_left' \in 0 .. DestDelay /\ me_speed' \in 0 .. 2
        /\ me_etemp' \in 0 .. EtempLimit
    BY <1>4 DEF Frame, CountDown, HelmTypeOK
  <2> QED  BY <1>4, <2>2, <2>3 DEF Frame, HelmTypeOK, SoundFlags
<1>5. CASE SelfDestruct
  <2>1. SoundFlags(me_flags')  BY <1>5, FlagsTaken DEF SelfDestruct, SoundFlags
  <2> QED  BY <1>5, <2>1 DEF SelfDestruct, HelmTypeOK, SoundFlags, timers
<1>6. CASE Dies \/ TargetChanges
  BY <1>6 DEF Dies, TargetChanges, HelmTypeOK, SoundFlags, NoTwoJobs, timers
<1>7. CASE Dislodged \/ Evicted \/ Parade
  <2>1. /\ me_flags' \subseteq me_flags
        /\ \A x \in {"PFTWARP", "PFPLOCK", "PFSHIELD"} : x \in me_flags => x \in me_flags'
        /\ UNCHANGED <<me_status, me_speed, me_etemp, timers, target>>
    BY <1>7 DEF Dislodged, Evicted, Parade, Berth, Work
  <2>2. SoundFlags(me_flags')  BY <2>1, FlagsTaken DEF SoundFlags
  <2> QED  BY <2>1, <2>2 DEF HelmTypeOK, SoundFlags, timers
<1>8. CASE HelmReenter
  <2>1. SoundFlags(me_flags')
    BY <1>8 DEF HelmReenter, SoundFlags, NoTwoJobs, HelmFlag, Job
  <2> QED  BY <1>8, <2>1 DEF HelmReenter, HelmTypeOK, SoundFlags
<1>9. CASE UNCHANGED helmVars
  BY <1>9 DEF helmVars, HelmTypeOK, SoundFlags, NoTwoJobs
<1> QED
  BY <1>1, <1>2, <1>3, <1>4, <1>5, <1>6, <1>7, <1>8, <1>9 DEF HelmNext

\* The flags of a ship never contradict each other, whichever packets, updates
\* of the ntserv and frames of the daemon come in which order, for any delays.
THEOREM HelmHolds == HelmSpec => []HelmInv
<1>1. HelmIInv /\ [HelmNext]_helmVars => HelmIInv'  BY HelmStep
<1>2. HelmIInv => HelmInv
  <2> SUFFICES ASSUME HelmIInv PROVE HelmInv  OBVIOUS
  <2>1. OneJob  BY AtMostOne DEF HelmIInv, SoundFlags, NoTwoJobs, OneJob
  <2>2. TwarpIsLocked  BY DEF HelmIInv, SoundFlags, TwarpIsLocked, On
  <2> QED  BY <2>1, <2>2 DEF HelmIInv, HelmInv
<1> QED  BY <1>1, <1>2, HelmFirst, PTL DEF HelmSpec

-----------------------------------------------------------------------------
(* Phaser *)

\* While phaser() stores an entry udphaser() is not at work on it, unless the
\* history says so, and what it has loaded is the fuse.
StoresApart ==
  /\ ph_status = "PHFREE" => ud_pc = "top"
  /\ ph_pc = "target" => ph_aim \in Victim
  /\ ph_pc = "deflect" => ph_aim = Plasma
  /\ ~ph_torn /\ ph_pc # "idle" => ud_pc = "top" /\ ph_status # "PHFREE"
  /\ ~ph_torn /\ ud_pc = "store" => ud_reg = ph_fuse

\* The entry says what the shot was.
EntryIsShot ==
  ph_status # "PHFREE" =>
    /\ ph_status = "PHHIT" <=> ph_aim \in Victim
    /\ ph_status = "PHHIT2" <=> ph_aim = Plasma
    /\ ~ph_torn /\ ph_pc = "idle" /\ ph_status = "PHHIT" => ph_target = ph_aim

\* No victim has been hit, and none spared.
NoHitYet == ~ph_spared /\ \A v \in Victim : ph_hits[v] = 0

\* The burst has hit once the fuse is below its first value, and not before.
FuseTellsHit ==
  ~ph_torn /\ ~ph_refit =>
    /\ ph_pc # "idle" => NoHitYet
    /\ ph_pc = "target" => ph_fuse = s_phaserfuse
    /\ ph_status \notin {"PHFREE", "PHHIT"} => NoHitYet
    /\ ph_status = "PHHIT" /\ ph_pc = "idle" =>
         /\ ph_fuse <= s_phaserfuse
         /\ ph_fuse = s_phaserfuse => NoHitYet
         /\ ph_fuse < s_phaserfuse => ph_hits[ph_aim] = 1 \/ ph_spared

\* The inductive invariant of a phaser.
PhIInv ==
  /\ PhTypeOK /\ HitsOnceAndOnlyItsTarget /\ HitIsNotLost /\ FuseIsLit
  /\ StoresApart /\ EntryIsShot /\ FuseTellsHit

\* Every fuse is longer than one frame.
LEMMA FuseIsLong == \A f \in Fuse : f \in Int /\ f > 1
BY PhaserAssumption

\* A phaser that has not been fired is as the invariant says.
LEMMA PhFirst == PhInit => PhIInv
<1> SUFFICES ASSUME PhInit PROVE PhIInv  OBVIOUS
<1>1. /\ ph_status = "PHFREE" /\ ph_pc = "idle" /\ ud_pc = "top"
      /\ ph_aim = Nobody /\ \A v \in Victim : ph_hits[v] = 0
  BY DEF PhInit
<1>2. /\ ph_hits \in [Victim -> Nat] /\ ph_fuse \in Int /\ ud_reg \in Int
      /\ ph_spared \in BOOLEAN /\ ph_torn \in BOOLEAN /\ ph_refit \in BOOLEAN
  <2>1. /\ ph_fuse = 0 /\ ud_reg = 0 /\ ph_hits = [v \in Victim |-> 0]
    BY Zenon DEF PhInit
  <2>2. ph_hits \in [Victim -> Nat] /\ ph_fuse \in Int /\ ud_reg \in Int
    BY <2>1
  <2> QED  BY <2>2, Zenon DEF PhInit
<1>3. PhTypeOK  BY <1>1, <1>2, Zenon DEF PhTypeOK, PhInit
<1> QED  BY <1>1, <1>3, PhaserAssumption
  DEF PhIInv, HitsOnceAndOnlyItsTarget, HitIsNotLost, FuseIsLit,
      StoresApart, EntryIsShot, FuseTellsHit, NoHitYet

\* Every store of phaser() and every step of udphaser() keep it.
LEMMA PhStep == ASSUME PhIInv, [PhNext]_phVars PROVE PhIInv'
<1> USE FuseIsLong DEF PhIInv
<1>1. ASSUME NEW v \in Victim, NEW result \in {"PHMISS", "PHHIT", "PHHIT2"},
             FirePhaser(result, v)
      PROVE  PhIInv'
  <2>1. /\ v # Nobody /\ v # Plasma /\ Nobody # Plasma
        /\ Nobody \notin Victim /\ Plasma \notin Victim
    BY PhaserAssumption DEF Nobody, Plasma
  <2>2. /\ ph_status' = result /\ ph_pc' = "fuse"
        /\ ph_aim' = CASE result = "PHHIT"  -> v
                       [] result = "PHHIT2" -> Plasma
                       [] OTHER             -> Nobody
        /\ ph_hits' = [w \in Victim |-> 0]
        /\ ph_spared' = FALSE /\ ph_torn' = FALSE /\ ph_refit' = FALSE
        /\ UNCHANGED <<ph_fuse, ph_target, s_phaserfuse, ud_pc, ud_reg>>
        /\ ud_pc = "top"
    BY <1>1 DEF FirePhaser, StoresApart
  <2>3. PhTypeOK'  BY <2>2 DEF PhTypeOK
  <2> QED  BY <2>1, <2>2, <2>3
    DEF HitsOnceAndOnlyItsTarget, HitIsNotLost, FuseIsLit,
        StoresApart, EntryIsShot, FuseTellsHit, NoHitYet
<1>2. CASE StoreFuse
  BY <1>2, PhaserAssumption DEF StoreFuse, AfterFuse, history, PhTypeOK, HitsOnceAndOnlyItsTarget, HitIsNotLost,
              FuseIsLit, StoresApart, EntryIsShot, FuseTellsHit, NoHitYet
<1>3. CASE StoreTarget
  BY <1>3 DEF StoreTarget, history, PhTypeOK, HitsOnceAndOnlyItsTarget, HitIsNotLost,
              FuseIsLit, StoresApart, EntryIsShot, FuseTellsHit, NoHitYet
<1>4. ASSUME NEW f \in Fuse, RefitPhaser(f) PROVE PhIInv'
  BY <1>4 DEF RefitPhaser, PhTypeOK, HitsOnceAndOnlyItsTarget, HitIsNotLost,
              FuseIsLit, StoresApart, EntryIsShot, FuseTellsHit, NoHitYet
<1>5. CASE UdPhaserLoad
  BY <1>5 DEF UdPhaserLoad, PhTypeOK, HitsOnceAndOnlyItsTarget, HitIsNotLost,
              FuseIsLit, StoresApart, EntryIsShot, FuseTellsHit, NoHitYet
<1>6. CASE UdMiss
  BY <1>6 DEF UdMiss, MissEnds, history, PhTypeOK, HitsOnceAndOnlyItsTarget,
              HitIsNotLost, FuseIsLit, StoresApart, EntryIsShot, FuseTellsHit, NoHitYet
<1>7. ASSUME NEW idle \in BOOLEAN, UdHit(idle) PROVE PhIInv'
  BY <1>7 DEF UdHit, FirstFrame, PhTypeOK, HitsOnceAndOnlyItsTarget,
              HitIsNotLost, FuseIsLit, StoresApart, EntryIsShot, FuseTellsHit, NoHitYet
<1>8. CASE UNCHANGED phVars
  BY <1>8 DEF phVars, PhTypeOK, HitsOnceAndOnlyItsTarget, HitIsNotLost,
              FuseIsLit, StoresApart, EntryIsShot, FuseTellsHit, NoHitYet
<1>9. CASE StoreAgain
  BY <1>9, PhaserAssumption DEF StoreAgain, history, PhTypeOK,
              HitsOnceAndOnlyItsTarget, HitIsNotLost, FuseIsLit, StoresApart,
              EntryIsShot, FuseTellsHit, NoHitYet
<1> QED
  BY <1>1, <1>2, <1>3, <1>4, <1>5, <1>6, <1>7, <1>8, <1>9
  DEF PhNext, UdPhaser

\* A burst hits its target once and ends, for any fuses and victims, as long as
\* udphaser() finds no entry half stored and no refit comes between.
THEOREM PhHolds == PhSpec => []PhInv
<1>1. PhIInv /\ [PhNext]_phVars => PhIInv'  BY PhStep
<1>2. PhIInv => PhInv  BY DEF PhIInv, PhInv
<1> QED  BY <1>1, <1>2, PhFirst, PTL DEF PhSpec
=============================================================================
