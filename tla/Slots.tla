------------------------------- MODULE Slots -------------------------------
(***************************************************************************)
(* Player slots of one queue: how ntserv processes take and give back the  *)
(* entries of the shared players[] array (ntserv/slotmaint.c), how a       *)
(* process moves through login, outfit and play (main.c, getname.c,        *)
(* getentry.c, input.c, redraw.c, death.c) and how the daemon takes slots  *)
(* back from processes that are dead or silent (daemon.c).                 *)
(*                                                                         *)
(* One action is one access to shared memory (a load, a store, a           *)
(* semaphore operation), so every interleaving of the processes is a       *)
(* behaviour.  x++ and x-- on shared counters are a load and a store.      *)
(* A timeout of the daemon may expire at any frame, the game may be paused *)
(* at any time and a process may be killed between any two of its steps.   *)
(***************************************************************************)
EXTENDS Integers, FiniteSets

CONSTANTS
  Proc,       \* the process ids of the ntserv processes
  Daemon,     \* the daemon, which also runs freeslot()
  Free,       \* no process: 0 in p_process, nobody in a semaphore
  NSlots,     \* high_slot - low_slot of the queue
  SemFloor,   \* bound: enter_sem is not decremented below -SemFloor
  CountFloor, \* bound: free_slots is not stored below -CountFloor
  CountCap,   \* bound: free_slots is not stored above this
  MaxKills    \* bound: this many processes are killed

ASSUME SlotsAssumption ==
  /\ Daemon \notin Proc
  /\ Free \notin Proc
  /\ NSlots \in Nat \ {0}
  /\ SemFloor \in Nat /\ CountFloor \in Nat /\ CountCap \in Nat /\ MaxKills \in Nat

Slot   == 0 .. NSlots - 1
NoSlot == -1
Actor  == Proc \cup {Daemon}

Status == {"PFREE", "POUTFIT", "PALIVE", "PEXPLODE", "PDEAD"}

\* Program counters: pickslot(), then the life of a session, then freeslot().
PickPC  == {"out", "semSt", "room", "scan", "lock", "claim", "store"}
SetupPC == {"setup", "dec", "decSt", "give", "attach"}
LivePC  == {"login", "outfit", "play"}
HeadPC  == {"ftest", "fundec", "fundecSt", "fmark"}
TailPC  == {"finc", "fincSt", "fclear"}
FreePC  == HeadPC \cup TailPC
EndPC   == {"gone", "killed"}
PC      == PickPC \cup SetupPC \cup LivePC \cup FreePC \cup EndPC \cup {"idle"}

VARIABLES
  p_status,    \* players[s].p_status
  p_process,   \* players[s].p_process
  enter_sem,   \* queues[q].enter_sem
  free_slots,  \* queues[q].free_slots
  lock,        \* holder of LOCK_PICKSLOT
  pc,          \* where each process is
  me,          \* the slot it scans, owns or frees
  reg,         \* the register of a split increment or decrement
  term         \* SIGTERM: none, pending, or its handler is running

vars == <<p_status, p_process, enter_sem, free_slots, lock, pc, me, reg, term>>
shared == <<p_status, p_process, enter_sem, free_slots, lock>>

TypeOK ==
  /\ p_status \in [Slot -> Status]
  /\ p_process \in [Slot -> Proc \cup {Free}]
  /\ enter_sem \in Int
  /\ free_slots \in Int
  /\ lock \in Proc \cup {Free}
  /\ pc \in [Actor -> PC]
  /\ me \in [Actor -> Slot \cup {NoSlot}]
  /\ reg \in [Actor -> Int]
  /\ term \in [Proc -> {"none", "pending", "taken"}]

Init ==
  /\ p_status = [s \in Slot |-> "PFREE"]
  /\ p_process = [s \in Slot |-> Free]
  /\ enter_sem = 1
  /\ free_slots = NSlots
  /\ lock = Free
  /\ pc = [a \in Actor |-> IF a = Daemon THEN "idle" ELSE "out"]
  /\ me = [a \in Actor |-> NoSlot]
  /\ reg = [a \in Actor |-> 0]
  /\ term = [p \in Proc |-> "none"]

\* Actor a is at point l; it goes to point l.
At(a, l)   == pc[a] = l
Goto(a, l) == pc' = [pc EXCEPT ![a] = l]

Alive(p) == pc[p] \notin EndPC

\* Process p goes to point l, with the SIGTERM state t if it goes on; a process
\* that ends has no slot and no register any more.
LeavesFor(p, l, t) ==
  /\ Goto(p, l)
  /\ me' = IF l \in EndPC THEN [me EXCEPT ![p] = NoSlot] ELSE me
  /\ reg' = [reg EXCEPT ![p] = 0]
  /\ term' = [term EXCEPT ![p] = IF l \in EndPC THEN "none" ELSE t]

-----------------------------------------------------------------------------
(* pickslot() *)

\* The load of "queues[w_queue].enter_sem-- < 1".
PickLoad(p) ==
  /\ At(p, "out")
  /\ enter_sem > -SemFloor
  /\ reg' = [reg EXCEPT ![p] = enter_sem]
  /\ Goto(p, "semSt")
  /\ UNCHANGED <<shared, me, term>>

\* The store of it, and the test: below 1 pickslot() returns -1 and
\* findslot() comes back a second later.
PickStore(p) ==
  /\ At(p, "semSt")
  /\ enter_sem' = reg[p] - 1
  /\ Goto(p, IF reg[p] < 1 THEN "out" ELSE "room")
  /\ reg' = [reg EXCEPT ![p] = 0]
  /\ UNCHANGED <<p_status, p_process, free_slots, lock, me, term>>

\* No free slots: give back control.  Otherwise scan from the lowest slot.
PickRoom(p) ==
  /\ At(p, "room")
  /\ \/ /\ free_slots <= 0
        /\ enter_sem' = 1
        /\ Goto(p, "out")
        /\ UNCHANGED me
     \/ /\ free_slots > 0
        /\ me' = [me EXCEPT ![p] = 0]
        /\ Goto(p, "scan")
        /\ UNCHANGED enter_sem
  /\ UNCHANGED <<p_status, p_process, free_slots, lock, reg, term>>

\* scanqueue() leaves slot me[p] for the next one, or ends with -1.
NextSlot(p) ==
  IF me[p] + 1 < NSlots
  THEN me' = [me EXCEPT ![p] = @ + 1] /\ Goto(p, "scan")
  ELSE me' = [me EXCEPT ![p] = NoSlot] /\ Goto(p, "give")

\* pickslot_action() looks at the slot before it takes the lock.
ScanTest(p) ==
  /\ At(p, "scan")
  /\ \/ p_status[me[p]] = "PFREE" /\ Goto(p, "lock") /\ UNCHANGED me
     \/ p_status[me[p]] # "PFREE" /\ NextSlot(p)
  /\ UNCHANGED <<shared, reg, term>>

\* lock_on(LOCK_PICKSLOT).
LockOn(p) ==
  /\ At(p, "lock")
  /\ lock = Free
  /\ lock' = p
  /\ Goto(p, "claim")
  /\ UNCHANGED <<p_status, p_process, enter_sem, free_slots, me, reg, term>>

\* Mutant: no second look under the lock.
ClaimBlind(p) ==
  /\ At(p, "claim")
  /\ Goto(p, "store")
  /\ UNCHANGED <<shared, me, reg, term>>

\* The second look at p_status, under the lock.
Claim(p) ==
  /\ At(p, "claim")
  /\ \/ /\ p_status[me[p]] = "PFREE"
        /\ Goto(p, "store")
        /\ UNCHANGED <<lock, me>>
     \/ /\ p_status[me[p]] # "PFREE"
        /\ lock' = Free
        /\ NextSlot(p)
  /\ UNCHANGED <<p_status, p_process, enter_sem, free_slots, reg, term>>

\* p_status = POUTFIT, then lock_off(LOCK_PICKSLOT).
Take(p) ==
  /\ At(p, "store")
  /\ p_status' = [p_status EXCEPT ![me[p]] = "POUTFIT"]
  /\ lock' = Free
  /\ Goto(p, "setup")
  /\ UNCHANGED <<p_process, enter_sem, free_slots, me, reg, term>>

\* Mutant: p_process is left to main(), which stores it soon enough.
SetupKeepsPid(p) ==
  /\ At(p, "setup")
  /\ Goto(p, "dec")
  /\ UNCHANGED <<shared, me, reg, term>>

\* "Set up the player struct now": of its fields only p_process is modelled.
Setup(p) ==
  /\ At(p, "setup")
  /\ p_process' = [p_process EXCEPT ![me[p]] = Free]
  /\ Goto(p, "dec")
  /\ UNCHANGED <<p_status, enter_sem, free_slots, lock, me, reg, term>>

\* enter_sem = 1: give back control, with a slot or with none.
GiveBack(p) ==
  /\ At(p, "give")
  /\ enter_sem' = 1
  /\ Goto(p, IF me[p] = NoSlot THEN "out" ELSE "attach")
  /\ UNCHANGED <<p_status, p_process, free_slots, lock, me, reg, term>>

\* main(): me = &players[pno]; me->p_process = getpid().
Attach(p) ==
  /\ At(p, "attach")
  /\ p_process' = [p_process EXCEPT ![me[p]] = p]
  /\ Goto(p, "login")
  /\ UNCHANGED <<p_status, enter_sem, free_slots, lock, me, reg, term>>

-----------------------------------------------------------------------------
(* free_slots-- in pickslot_action() and free_slots-- and free_slots++ in    *)
(* freeslot(): each is a load and a store of the shared counter.             *)

Delta == [l \in {"dec", "fundec", "finc"} |-> IF l = "finc" THEN 1 ELSE -1]

CountLoad(a) ==
  /\ pc[a] \in {"dec", "fundec", "finc"}
  /\ reg' = [reg EXCEPT ![a] = free_slots + Delta[pc[a]]]
  /\ Goto(a, CASE At(a, "dec")    -> "decSt"
               [] At(a, "fundec") -> "fundecSt"
               [] At(a, "finc")   -> "fincSt")
  /\ UNCHANGED <<shared, me, term>>

Bounded(n) ==
  IF n < -CountFloor THEN -CountFloor ELSE IF n > CountCap THEN CountCap ELSE n

CountStore(a) ==
  /\ pc[a] \in {"decSt", "fundecSt", "fincSt"}
  /\ free_slots' = Bounded(reg[a])
  /\ Goto(a, CASE At(a, "decSt")    -> "give"
               [] At(a, "fundecSt") -> "fmark"
               [] At(a, "fincSt")   -> "fclear")
  /\ reg' = [reg EXCEPT ![a] = 0]
  /\ UNCHANGED <<p_status, p_process, enter_sem, lock, me, term>>

-----------------------------------------------------------------------------
(* freeslot(me[a]), run by a process that ends or by the daemon *)

\* A slot that is PFREE already is counted down first, "a hack".
FreeTest(a) ==
  /\ At(a, "ftest")
  /\ Goto(a, IF p_status[me[a]] = "PFREE" THEN "fundec" ELSE "fmark")
  /\ UNCHANGED <<shared, me, reg, term>>

FreeMark(a) ==
  /\ At(a, "fmark")
  /\ p_status' = [p_status EXCEPT ![me[a]] = "PFREE"]
  /\ Goto(a, "finc")
  /\ UNCHANGED <<p_process, enter_sem, free_slots, lock, me, reg, term>>

FreeClear(a) ==
  /\ At(a, "fclear")
  /\ p_process' = [p_process EXCEPT ![me[a]] = Free]
  /\ \/ /\ a = Daemon
        /\ Goto(a, "idle")
        /\ me' = [me EXCEPT ![a] = NoSlot]
        /\ UNCHANGED <<reg, term>>
     \/ a # Daemon /\ LeavesFor(a, "gone", "none")
  /\ UNCHANGED <<p_status, enter_sem, free_slots, lock>>

-----------------------------------------------------------------------------
(* The session of a process *)

\* getname() ends: the player has identified himself.
LoggedIn(p) ==
  /\ At(p, "login")
  /\ Goto(p, "outfit")
  /\ UNCHANGED <<shared, me, reg, term>>

\* getEntry() finds its slot free: "getentry() unfreeing a PFREE".
Unfree(p) ==
  /\ At(p, "outfit")
  /\ p_status[me[p]] = "PFREE"
  /\ p_status' = [p_status EXCEPT ![me[p]] = "PDEAD"]
  /\ UNCHANGED <<p_process, enter_sem, free_slots, lock, pc, me, reg, term>>

\* enter(), then me->p_status = PALIVE, whatever the slot holds by now.
EnterGame(p) ==
  /\ At(p, "outfit")
  /\ p_status' = [p_status EXCEPT ![me[p]] = "PALIVE"]
  /\ Goto(p, "play")
  /\ UNCHANGED <<p_process, enter_sem, free_slots, lock, me, reg, term>>

\* intrupt() finds the player dead: death() sets POUTFIT and the process asks
\* for a team again.
Death(p) ==
  /\ At(p, "play")
  /\ p_status[me[p]] \in {"PDEAD", "POUTFIT"}
  /\ p_status' = [p_status EXCEPT ![me[p]] = "POUTFIT"]
  /\ Goto(p, "outfit")
  /\ UNCHANGED <<p_process, enter_sem, free_slots, lock, me, reg, term>>

\* exitGame(): frees the slot only if it is still recorded as this process's.
\* During play it is called when intrupt() finds the slot PFREE.
ExitGame(p) ==
  /\ \/ pc[p] \in {"login", "outfit"}
     \/ At(p, "play") /\ p_status[me[p]] = "PFREE"
  /\ LeavesFor(p, IF p_process[me[p]] = p THEN "ftest" ELSE "gone", term[p])
  /\ UNCHANGED <<shared>>

\* input(): the client is gone or the daemon silent; freeslot(me), no test.
Panic(p) ==
  /\ At(p, "play")
  /\ Goto(p, "ftest")
  /\ UNCHANGED <<shared, me, reg, term>>

\* Mutant: SIGTERM is ignored, like the other signals during play.
ForceShutdownIgnored(p) ==
  /\ term[p] = "pending"
  /\ pc[p] \in LivePC \cup FreePC
  /\ term' = [term EXCEPT ![p] = "none"]
  /\ UNCHANGED <<shared, pc, me, reg>>

\* forceShutdown(), the handler of SIGTERM, wherever it interrupts the process,
\* in the middle of freeslot() as well; another SIGTERM waits for its end.
ForceShutdown(p) ==
  /\ term[p] = "pending"
  /\ pc[p] \in LivePC \cup FreePC
  /\ LeavesFor(p, IF p_status[me[p]] # "PFREE" THEN "ftest" ELSE "gone", "taken")
  /\ UNCHANGED <<shared>>

Killable(p) == Alive(p) /\ Cardinality({q \in Proc : At(q, "killed")}) < MaxKills

\* Mutant: the semaphore operations do not pass SEM_UNDO.
KillNoUndo(p) ==
  /\ Killable(p)
  /\ LeavesFor(p, "killed", "none")
  /\ UNCHANGED <<shared>>

\* The process is killed outright, between any two of its steps (SIGKILL, out of
\* memory); SEM_UNDO releases the semaphore it holds.
Kill(p) ==
  /\ Killable(p)
  /\ lock' = IF lock = p THEN Free ELSE lock
  /\ LeavesFor(p, "killed", "none")
  /\ UNCHANGED <<p_status, p_process, enter_sem, free_slots>>

-----------------------------------------------------------------------------
(* The daemon, between two of its own freeslot() calls *)

\* Timing: the timeouts are 30 seconds and more, so none of them expires while
\* a running process is between its claim of s and its store of p_process.
SetupIsFast(s) == \A p \in Proc : pc[p] \in SetupPC => me[p] # s

DaemonFrees(s) ==
  /\ me' = [me EXCEPT ![Daemon] = s]
  /\ Goto(Daemon, "ftest")

SendTerm(p) ==
  term' = [term EXCEPT ![p] = IF Alive(p) /\ @ = "none" THEN "pending" ELSE @]

\* udplayers_palive() and the weapons: the ship is destroyed or ghostbusted.
UdPalive(s) ==
  /\ At(Daemon, "idle")
  /\ p_status[s] = "PALIVE"
  /\ p_status' = [p_status EXCEPT ![s] = "PEXPLODE"]
  /\ UNCHANGED <<p_process, enter_sem, free_slots, lock, pc, me, reg, term>>

UdPexplode(s) ==
  /\ At(Daemon, "idle")
  /\ p_status[s] = "PEXPLODE"
  /\ p_status' = [p_status EXCEPT ![s] = "PDEAD"]
  /\ UNCHANGED <<p_process, enter_sem, free_slots, lock, pc, me, reg, term>>

UdPdead(s) ==
  /\ At(Daemon, "idle")
  /\ p_status[s] = "PDEAD"
  /\ p_status' = [p_status EXCEPT ![s] = "POUTFIT"]
  /\ UNCHANGED <<p_process, enter_sem, free_slots, lock, pc, me, reg, term>>

\* Mutant: a slot without a process is reported and left as it is.
UdPoutfitLeaves(s) ==
  /\ At(Daemon, "idle")
  /\ p_status[s] = "POUTFIT"
  /\ p_process[s] # Free
  /\ SendTerm(p_process[s])
  /\ UNCHANGED <<shared, pc, me, reg>>

\* udplayers_poutfit(): POUTFIT for too long.  A process is sent SIGTERM and
\* frees its slot itself; the slot of no process is freed here.
UdPoutfit(s) ==
  /\ At(Daemon, "idle")
  /\ p_status[s] = "POUTFIT"
  /\ SetupIsFast(s)
  /\ \/ /\ p_process[s] # Free
        /\ SendTerm(p_process[s])
        /\ UNCHANGED <<pc, me>>
     \/ /\ p_process[s] = Free
        /\ DaemonFrees(s)
        /\ UNCHANGED term
  /\ UNCHANGED <<shared, reg>>

\* udplayers_pause(): silent for too long, or quitting, during a pause.  The
\* process is sent SIGTERM and, "let's be safe", its slot is freed as well.
UdPause(s) ==
  /\ At(Daemon, "idle")
  /\ p_status[s] # "PFREE"
  /\ SetupIsFast(s)
  /\ p_status' = [p_status EXCEPT ![s] = "PDEAD"]
  /\ \/ p_process[s] # Free /\ SendTerm(p_process[s]) /\ DaemonFrees(s)
     \/ p_process[s] = Free /\ UNCHANGED <<pc, me, term>>
  /\ UNCHANGED <<p_process, enter_sem, free_slots, lock, reg>>

\* signal_servers(): the process of a slot does not exist (ESRCH).
SignalServers(s) ==
  /\ At(Daemon, "idle")
  /\ p_status[s] # "PFREE"
  /\ p_process[s] # Free
  /\ ~Alive(p_process[s])
  /\ DaemonFrees(s)
  /\ UNCHANGED <<shared, reg, term>>

\* queues_purge(): "reducing the free_slots to max_slots".
PurgeClamp ==
  /\ At(Daemon, "idle")
  /\ free_slots > NSlots
  /\ free_slots' = NSlots
  /\ UNCHANGED <<p_status, p_process, enter_sem, lock, pc, me, reg, term>>

-----------------------------------------------------------------------------
Pick(p) ==
  \/ PickLoad(p) \/ PickStore(p) \/ PickRoom(p) \/ ScanTest(p) \/ LockOn(p)
  \/ Claim(p) \/ Take(p) \/ Setup(p) \/ GiveBack(p) \/ Attach(p)

Session(p) ==
  \/ LoggedIn(p) \/ Unfree(p) \/ EnterGame(p) \/ Death(p) \/ ExitGame(p)
  \/ Panic(p) \/ ForceShutdown(p)

Freeslot(a) ==
  CountLoad(a) \/ CountStore(a) \/ FreeTest(a) \/ FreeMark(a) \/ FreeClear(a)

Frame(s) ==
  \/ UdPalive(s) \/ UdPexplode(s) \/ UdPdead(s) \/ UdPoutfit(s)
  \/ SignalServers(s)

Next ==
  \/ \E p \in Proc : Pick(p) \/ Session(p) \/ Kill(p)
  \/ \E a \in Actor : Freeslot(a)
  \/ \E s \in Slot : Frame(s) \/ UdPause(s)
  \/ PurgeClamp

\* The daemon keeps running frames and a process that is inside a call keeps
\* running; players are free to do nothing at all.  A pause ends, so that the
\* timeout of POUTFIT is not put off for ever.
Fairness ==
  /\ \A s \in Slot : WF_vars(Frame(s)) /\ SF_vars(UdPoutfit(s))
  /\ WF_vars(Freeslot(Daemon)) /\ WF_vars(PurgeClamp)
  /\ \A p \in Proc : WF_vars(Pick(p)) /\ WF_vars(Freeslot(p))
                     /\ WF_vars(ForceShutdown(p))

Spec == Init /\ [][Next]_vars
FairSpec == Spec /\ Fairness

-----------------------------------------------------------------------------
(* Properties *)

\* Process p has the slot me[p]: it has claimed it and does not end yet.
Holding(p) == pc[p] \in SetupPC \cup LivePC /\ me[p] # NoSlot

\* A slot in use that no running process holds.
Orphan(s) ==
  /\ p_status[s] # "PFREE"
  /\ \A p \in Proc : Holding(p) => me[p] # s

\* The slot of a process that was killed is given back.
OrphanReclaimed == \A s \in Slot : Orphan(s) ~> p_status[s] = "PFREE"

\* A process that is sent SIGTERM ends.
TermEnds == \A p \in Proc : term[p] = "pending" ~> ~Alive(p)

\* The semaphore is released even when its holder is killed.
LockReleased == (lock # Free) ~> (lock = Free)
=============================================================================
