---------------------------- MODULE SlotsProofs ----------------------------
(***************************************************************************)
(* Proofs about SlotsHistory for any number of processes and slots, with   *)
(* pauses, kills and SIGTERM at any point, in the middle of freeslot() as  *)
(* well: two running processes only share a slot, and a slot is only free  *)
(* under a running process, after somebody else has freed it.  And about   *)
(* Connection, the wire of such a process to its client, for any number of *)
(* requests.                                                               *)
(***************************************************************************)
EXTENDS SlotsHistory, Connection, FiniteSetTheorems, SequenceTheorems, TLAPS

\* The program counters at which me[a] is a slot.
SlotPC == {"scan", "lock", "claim", "store", "setup", "dec", "decSt", "attach"}
            \cup LivePC \cup FreePC

\* Who is at work on a slot has one.
MeOK == \A x \in Actor : pc[x] \in SlotPC => me[x] \in Slot

\* Who claims a slot has the semaphore,
LockOK == \A p \in Proc : pc[p] \in {"claim", "store"} => lock = p

\* and has seen that nobody has the slot, but for those that were evicted.
StoreOK ==
  \A p, q \in Proc : pc[p] = "store" /\ Holding(q) /\ me[q] = me[p] => q \in evicted

\* What each program counter knows, together.
Ownership == MeOK /\ LockOK /\ StoreOK /\ SlotExclusive /\ SessionOwnsSlot

\* The inductive invariant of the slots.
IInv == HTypeOK /\ Ownership

-----------------------------------------------------------------------------
USE DEF Actor, Slot, NoSlot, At, Goto, shared, Alive, DaemonFrees, SendTerm,
        Delta

\* No process is called like no process or the daemon.
LEMMA Names == Free \notin Proc /\ Daemon \notin Proc
  BY SlotsAssumption

\* There is a slot.
LEMMA FirstSlot == 0 \in Slot /\ NSlots \in Nat
  BY SlotsAssumption

\* The scan moves to a slot of the queue, or ends without one.
LEMMA NextSlotType ==
  ASSUME NEW p \in Proc, me[p] \in Slot, NextSlot(p)
  PROVE  \E l \in {"scan", "give"}, z \in Slot \cup {NoSlot} :
           /\ pc' = [pc EXCEPT ![p] = l]
           /\ me' = [me EXCEPT ![p] = z]
           /\ l = "scan" => z \in Slot
           /\ l = "give" => z = NoSlot
<1>1. CASE me[p] + 1 < NSlots
  <2>1. me[p] + 1 \in Slot  BY <1>1, FirstSlot
  <2> QED  BY <1>1, <2>1 DEF NextSlot
<1>2. CASE ~(me[p] + 1 < NSlots)
  BY <1>2 DEF NextSlot
<1> QED  BY <1>1, <1>2

\* Every step keeps the types.
LEMMA TypeStep == ASSUME TypeOK, MeOK, [Next]_vars PROVE TypeOK'
<1> USE DEF TypeOK, PC, PickPC, SetupPC, LivePC, HeadPC, TailPC,
        FreePC, EndPC, Status, MeOK, SlotPC, LeavesFor
<1>1. ASSUME NEW p \in Proc, PickLoad(p) PROVE TypeOK'
  BY <1>1 DEF PickLoad
<1>2. ASSUME NEW p \in Proc, PickStore(p) PROVE TypeOK'
  BY <1>2 DEF PickStore
<1>3. ASSUME NEW p \in Proc, PickRoom(p) PROVE TypeOK'
  <2>1. CASE free_slots <= 0
    <3>1. me' = me /\ enter_sem' = 1 /\ pc' = [pc EXCEPT ![p] = "out"]
      BY <1>3, <2>1 DEF PickRoom
    <3> QED  BY <1>3, <3>1 DEF PickRoom
  <2>2. CASE free_slots > 0
    <3>1. me' = [me EXCEPT ![p] = 0] /\ pc' = [pc EXCEPT ![p] = "scan"]
      BY <1>3, <2>2 DEF PickRoom
    <3> QED  BY <1>3, <3>1, FirstSlot DEF PickRoom
  <2> QED  BY <2>1, <2>2
<1>4. ASSUME NEW p \in Proc, ScanTest(p) PROVE TypeOK'
  <2>1. CASE NextSlot(p)
    <3>1. me[p] \in Slot  BY <1>4 DEF ScanTest
    <3> QED  BY <1>4, <2>1, <3>1, NextSlotType DEF ScanTest
  <2> QED  BY <1>4, <2>1 DEF ScanTest
<1>5. ASSUME NEW p \in Proc, LockOn(p) PROVE TypeOK'
  BY <1>5 DEF LockOn
<1>6. ASSUME NEW p \in Proc, Claim(p) PROVE TypeOK'
  <2>1. CASE NextSlot(p)
    <3>1. me[p] \in Slot  BY <1>6 DEF Claim
    <3>2. PICK l \in {"scan", "give"}, z \in Slot \cup {NoSlot} :
            pc' = [pc EXCEPT ![p] = l] /\ me' = [me EXCEPT ![p] = z]
      BY <2>1, <3>1, NextSlotType, Zenon
    <3>3. lock' \in Proc \cup {Free}  BY <1>6 DEF Claim
    <3> QED  BY <1>6, <3>2, <3>3 DEF Claim
  <2> QED  BY <1>6, <2>1 DEF Claim
<1>7. ASSUME NEW p \in Proc, Take(p) PROVE TypeOK'
  BY <1>7 DEF Take
<1>8. ASSUME NEW p \in Proc, Setup(p) PROVE TypeOK'
  BY <1>8 DEF Setup
<1>9. ASSUME NEW p \in Proc, GiveBack(p) PROVE TypeOK'
  BY <1>9 DEF GiveBack
<1>10. ASSUME NEW p \in Proc, Attach(p) PROVE TypeOK'
  BY <1>10 DEF Attach
<1>11. ASSUME NEW p \in Proc, LoggedIn(p) PROVE TypeOK'
  BY <1>11 DEF LoggedIn
<1>12. ASSUME NEW p \in Proc, Unfree(p) PROVE TypeOK'
  BY <1>12 DEF Unfree
<1>13. ASSUME NEW p \in Proc, EnterGame(p) PROVE TypeOK'
  BY <1>13 DEF EnterGame
<1>14. ASSUME NEW p \in Proc, Death(p) PROVE TypeOK'
  BY <1>14 DEF Death
<1>15. ASSUME NEW p \in Proc, ExitGame(p) PROVE TypeOK'
  BY <1>15 DEF ExitGame
<1>16. ASSUME NEW p \in Proc, Panic(p) PROVE TypeOK'
  BY <1>16 DEF Panic
<1>17. ASSUME NEW p \in Proc, ForceShutdown(p) PROVE TypeOK'
  BY <1>17 DEF ForceShutdown
<1>18. ASSUME NEW p \in Proc, Kill(p) PROVE TypeOK'
  BY <1>18 DEF Kill
<1>19. ASSUME NEW x \in Actor, CountLoad(x) PROVE TypeOK'
  BY <1>19 DEF CountLoad
<1>20. ASSUME NEW x \in Actor, CountStore(x) PROVE TypeOK'
  <2>1. Bounded(reg[x]) \in Int  BY SlotsAssumption DEF Bounded
  <2> QED  BY <1>20, <2>1 DEF CountStore
<1>21. ASSUME NEW x \in Actor, FreeTest(x) PROVE TypeOK'
  BY <1>21 DEF FreeTest
<1>22. ASSUME NEW x \in Actor, FreeMark(x) PROVE TypeOK'
  BY <1>22 DEF FreeMark
<1>23. ASSUME NEW x \in Actor, FreeClear(x) PROVE TypeOK'
  <2>1. CASE x = Daemon  BY <1>23, <2>1 DEF FreeClear
  <2>2. CASE x # Daemon
    <3>1. x \in Proc  BY <2>2
    <3>2. LeavesFor(x, "gone", "none")  BY <1>23, <2>2 DEF FreeClear
    <3> QED  BY <1>23, <3>1, <3>2 DEF FreeClear
  <2> QED  BY <2>1, <2>2
<1>24. ASSUME NEW s \in Slot, UdPalive(s) PROVE TypeOK'
  BY <1>24 DEF UdPalive
<1>25. ASSUME NEW s \in Slot, UdPexplode(s) PROVE TypeOK'
  BY <1>25 DEF UdPexplode
<1>26. ASSUME NEW s \in Slot, UdPdead(s) PROVE TypeOK'
  BY <1>26 DEF UdPdead
<1>27. ASSUME NEW s \in Slot, UdPoutfit(s) PROVE TypeOK'
  <2>1. CASE p_process[s] # Free
    <3>1. p_process[s] \in Proc  BY <2>1
    <3>2. SendTerm(p_process[s])  BY <1>27, <2>1 DEF UdPoutfit
    <3>3. term' \in [Proc -> {"none", "pending", "taken"}]  BY <3>1, <3>2
    <3>4. UNCHANGED <<shared, pc, me, reg>>  BY <1>27, <2>1 DEF UdPoutfit
    <3> QED  BY <3>3, <3>4
  <2>2. CASE p_process[s] = Free
    <3>1. /\ me' = [me EXCEPT ![Daemon] = s]
          /\ pc' = [pc EXCEPT ![Daemon] = "ftest"]
          /\ UNCHANGED <<shared, reg, term>>
      BY <1>27, <2>2 DEF UdPoutfit
    <3> QED  BY <3>1
  <2> QED  BY <2>1, <2>2
<1>28. ASSUME NEW s \in Slot, SignalServers(s) PROVE TypeOK'
  BY <1>28 DEF SignalServers
<1>29. ASSUME NEW s \in Slot, UdPause(s) PROVE TypeOK'
  <2>1. p_status' \in [Slot -> Status]  BY <1>29 DEF UdPause
  <2>2. CASE p_process[s] = Free  BY <1>29, <2>1, <2>2 DEF UdPause
  <2>3. CASE p_process[s] # Free
    <3>1. SendTerm(p_process[s])  BY <1>29, <2>3 DEF UdPause
    <3>2. term' \in [Proc -> {"none", "pending", "taken"}]  BY <2>3, <3>1
    <3> QED  BY <1>29, <2>1, <2>3, <3>2 DEF UdPause
  <2> QED  BY <2>2, <2>3
<1>30. CASE PurgeClamp
  BY <1>30, FirstSlot DEF PurgeClamp
<1>31. CASE UNCHANGED vars
  BY <1>31 DEF vars
<1> QED
  BY <1>1, <1>2, <1>3, <1>4, <1>5, <1>6, <1>7, <1>8, <1>9, <1>10, <1>11, <1>12, <1>13,
     <1>14, <1>15, <1>16, <1>17, <1>18, <1>19, <1>20, <1>21, <1>22, <1>23, <1>24, <1>25,
     <1>26, <1>27, <1>28, <1>29, <1>30, <1>31
     DEF Next, Pick, Session, Freeslot, Frame

\* An eviction is never forgotten, and whoever stores PFREE evicts the others.
LEMMA Evicts ==
  ASSUME HTypeOK, [HNext]_hvars
  PROVE  /\ evicted \subseteq evicted' /\ evicted' \subseteq Proc
         /\ \A x \in Actor, p \in Proc :
              FreeMark(x) /\ p # x /\ Holding(p) /\ me[p] = me[x] => p \in evicted'
<1>1. CASE UNCHANGED hvars
  <2>1. pc' = pc /\ evicted' = evicted  BY <1>1 DEF hvars, vars
  <2>2. \A x \in Actor : ~FreeMark(x)
    BY <2>1 DEF HTypeOK, TypeOK, FreeMark
  <2> QED  BY <2>1, <2>2 DEF HTypeOK
<1>2. CASE HNext
  <2>1. \A x \in Actor : FreeMark(x) => Marks(x)
    BY DEF HTypeOK, TypeOK, FreeMark, Marks
  <2> QED  BY <1>2, <2>1 DEF HNext, HTypeOK
<1> QED  BY <1>1, <1>2

\* Every step keeps what the program counters know.
LEMMA OwnershipStep ==
  ASSUME IInv, [Next]_vars,
         evicted \subseteq evicted', evicted' \subseteq Proc,
         \A x \in Actor, p \in Proc :
           FreeMark(x) /\ p # x /\ Holding(p) /\ me[p] = me[x] => p \in evicted'
  PROVE  Ownership'
<1> USE DEF IInv, HTypeOK, TypeOK, Ownership, MeOK, LockOK, StoreOK, SlotExclusive,
        SessionOwnsSlot, Holding, LeavesFor,
        SetupPC, LivePC, HeadPC, TailPC, FreePC, EndPC, SlotPC
<1>1. ASSUME NEW p \in Proc, PickLoad(p) PROVE Ownership'
  BY <1>1 DEF PickLoad
<1>2. ASSUME NEW p \in Proc, PickStore(p) PROVE Ownership'
  BY <1>2 DEF PickStore
<1>3. ASSUME NEW p \in Proc, PickRoom(p) PROVE Ownership'
  <2>1. CASE me' = me /\ pc' = [pc EXCEPT ![p] = "out"]
    BY <1>3, <2>1 DEF PickRoom
  <2>2. CASE me' = [me EXCEPT ![p] = 0] /\ pc' = [pc EXCEPT ![p] = "scan"]
    BY <1>3, <2>2, FirstSlot DEF PickRoom
  <2> QED  BY <1>3, <2>1, <2>2 DEF PickRoom
<1>4. ASSUME NEW p \in Proc, ScanTest(p) PROVE Ownership'
  <2>1. CASE pc' = [pc EXCEPT ![p] = "lock"] /\ me' = me
    BY <1>4, <2>1 DEF ScanTest
  <2>2. CASE NextSlot(p)
    <3>1. me[p] \in Slot  BY <1>4 DEF ScanTest
    <3>2. PICK l \in {"scan", "give"}, z \in Slot \cup {NoSlot} :
            /\ pc' = [pc EXCEPT ![p] = l] /\ me' = [me EXCEPT ![p] = z]
            /\ l = "scan" => z \in Slot
            /\ l = "give" => z = NoSlot
      BY ONLY p \in Proc, <2>2, <3>1, NextSlotType, Zenon
    <3> QED  BY <1>4, <3>2, FirstSlot DEF ScanTest
  <2> QED  BY <1>4, <2>1, <2>2 DEF ScanTest
<1>5. ASSUME NEW p \in Proc, LockOn(p) PROVE Ownership'
  BY <1>5, Names DEF LockOn
<1>6. ASSUME NEW p \in Proc, Claim(p) PROVE Ownership'
  <2>1. CASE pc' = [pc EXCEPT ![p] = "store"] /\ UNCHANGED <<lock, me>>
             /\ p_status[me[p]] = "PFREE"
    BY <1>6, <2>1 DEF Claim
  <2>2. CASE NextSlot(p) /\ lock' = Free
    <3>1. me[p] \in Slot  BY <1>6 DEF Claim
    <3>2. PICK l \in {"scan", "give"}, z \in Slot \cup {NoSlot} :
            /\ pc' = [pc EXCEPT ![p] = l] /\ me' = [me EXCEPT ![p] = z]
            /\ l = "scan" => z \in Slot
            /\ l = "give" => z = NoSlot
      BY ONLY p \in Proc, <2>2, <3>1, NextSlotType, Zenon
    <3> QED  BY <1>6, <2>2, <3>2, FirstSlot, Names DEF Claim
  <2> QED  BY <1>6, <2>1, <2>2 DEF Claim
<1>7. ASSUME NEW p \in Proc, Take(p) PROVE Ownership'
  BY <1>7, Names DEF Take
<1>8. ASSUME NEW p \in Proc, Setup(p) PROVE Ownership'
  BY <1>8 DEF Setup
<1>9. ASSUME NEW p \in Proc, GiveBack(p) PROVE Ownership'
  BY <1>9 DEF GiveBack
<1>10. ASSUME NEW p \in Proc, Attach(p) PROVE Ownership'
  BY <1>10 DEF Attach
<1>11. ASSUME NEW p \in Proc, LoggedIn(p) PROVE Ownership'
  BY <1>11 DEF LoggedIn
<1>12. ASSUME NEW p \in Proc, Unfree(p) PROVE Ownership'
  BY <1>12 DEF Unfree
<1>13. ASSUME NEW p \in Proc, EnterGame(p) PROVE Ownership'
  BY <1>13 DEF EnterGame
<1>14. ASSUME NEW p \in Proc, Death(p) PROVE Ownership'
  BY <1>14 DEF Death
<1>15. ASSUME NEW p \in Proc, ExitGame(p) PROVE Ownership'
  BY <1>15 DEF ExitGame
<1>16. ASSUME NEW p \in Proc, Panic(p) PROVE Ownership'
  BY <1>16 DEF Panic
<1>17. ASSUME NEW p \in Proc, ForceShutdown(p) PROVE Ownership'
  BY <1>17 DEF ForceShutdown
<1>18. ASSUME NEW p \in Proc, Kill(p) PROVE Ownership'
  BY <1>18 DEF Kill
<1>19. ASSUME NEW x \in Actor, CountLoad(x) PROVE Ownership'
  BY <1>19 DEF CountLoad
<1>20. ASSUME NEW x \in Actor, CountStore(x) PROVE Ownership'
  BY <1>20 DEF CountStore
<1>21. ASSUME NEW x \in Actor, FreeTest(x) PROVE Ownership'
  BY <1>21 DEF FreeTest
<1>22. ASSUME NEW x \in Actor, FreeMark(x) PROVE Ownership'
  <2>1. /\ pc[x] = "fmark" /\ pc' = [pc EXCEPT ![x] = "finc"] /\ me' = me /\ lock' = lock
        /\ p_process' = p_process /\ p_status' = [p_status EXCEPT ![me[x]] = "PFREE"]
    BY <1>22 DEF FreeMark
  <2>2. \A p \in Proc : Holding(p)' => Holding(p) /\ p # x
    BY <2>1
  <2>3. \A p \in Proc : Holding(p)' /\ p \notin evicted' => me[p] # me[x]
    BY <1>22, <2>2
  <2>4. MeOK' /\ LockOK'  BY <2>1
  <2>5. StoreOK' /\ SlotExclusive'  BY <2>1, <2>2
  <2>6. ASSUME NEW p \in Proc, p \notin evicted', Holding(p)'
        PROVE  p_status'[me'[p]] # "PFREE"
    <3>1. me[p] \in Slot /\ me[x] \in Slot  BY <2>1, <2>2, <2>6
    <3> QED  BY <2>1, <2>2, <2>3, <2>6, <3>1
  <2>7. ASSUME NEW p \in Proc, p \notin evicted', Holding(p)', ~At(p, "setup")'
        PROVE  p_process'[me'[p]] \in {p, Free} \cup evicted'
    BY <2>1, <2>2, <2>7
  <2> QED  BY <2>4, <2>5, <2>6, <2>7
<1>23. ASSUME NEW x \in Actor, FreeClear(x) PROVE Ownership'
  <2>1. /\ pc[x] = "fclear" /\ pc' \in {[pc EXCEPT ![x] = l] : l \in {"idle", "gone"}}
        /\ me' = [me EXCEPT ![x] = NoSlot] /\ lock' = lock
        /\ p_status' = p_status /\ p_process' = [p_process EXCEPT ![me[x]] = Free]
    BY <1>23 DEF FreeClear
  <2>2. \A p \in Proc : Holding(p)' => Holding(p) /\ p # x /\ me'[p] = me[p]
    BY <2>1
  <2>3. MeOK' /\ LockOK'  BY <2>1
  <2>4. StoreOK' /\ SlotExclusive'  BY <2>1, <2>2
  <2>5. SessionOwnsSlot'  BY <2>1, <2>2
  <2> QED  BY <2>3, <2>4, <2>5
<1>24. ASSUME NEW s \in Slot, UdPalive(s) PROVE Ownership'
  BY <1>24 DEF UdPalive
<1>25. ASSUME NEW s \in Slot, UdPexplode(s) PROVE Ownership'
  BY <1>25 DEF UdPexplode
<1>26. ASSUME NEW s \in Slot, UdPdead(s) PROVE Ownership'
  BY <1>26 DEF UdPdead
<1>27. ASSUME NEW s \in Slot, UdPoutfit(s) PROVE Ownership'
  <2>1. /\ p_status' = p_status
        /\ p_process' = p_process /\ lock' = lock
    BY <1>27 DEF UdPoutfit
  <2>2. \A p \in Proc : pc'[p] = pc[p] /\ me'[p] = me[p]
    BY <1>27, Names DEF UdPoutfit
  <2>3. pc'[Daemon] \in SlotPC => me'[Daemon] \in Slot
    BY <1>27 DEF UdPoutfit
  <2> QED  BY <2>1, <2>2, <2>3
<1>28. ASSUME NEW s \in Slot, SignalServers(s) PROVE Ownership'
  BY SMTT(30), <1>28, Names DEF SignalServers
<1>29. ASSUME NEW s \in Slot, UdPause(s) PROVE Ownership'
  <2>1. /\ p_status' = [p_status EXCEPT ![s] = "PDEAD"]
        /\ p_process' = p_process /\ lock' = lock
    BY <1>29 DEF UdPause
  <2>2. \A p \in Proc : pc'[p] = pc[p] /\ me'[p] = me[p]
    BY <1>29, Names DEF UdPause
  <2>3. pc'[Daemon] \in SlotPC => me'[Daemon] \in Slot
    BY <1>29 DEF UdPause
  <2> QED  BY <2>1, <2>2, <2>3
<1>30. CASE PurgeClamp
  BY <1>30 DEF PurgeClamp
<1>31. CASE UNCHANGED vars
  BY <1>31 DEF vars
<1> QED
  BY <1>1, <1>2, <1>3, <1>4, <1>5, <1>6, <1>7, <1>8, <1>9, <1>10, <1>11, <1>12, <1>13,
     <1>14, <1>15, <1>16, <1>17, <1>18, <1>19, <1>20, <1>21, <1>22, <1>23, <1>24, <1>25,
     <1>26, <1>27, <1>28, <1>29, <1>30, <1>31
     DEF Next, Pick, Session, Freeslot, Frame

-----------------------------------------------------------------------------
\* Before anybody comes all is free.
LEMMA InitOwnership == HInit => IInv
<1> SUFFICES ASSUME HInit PROVE IInv  OBVIOUS
<1>1. HTypeOK
  BY FirstSlot DEF HInit, Init, HTypeOK, TypeOK, PC, PickPC, Status
<1>2. \A x \in Actor : pc[x] \in {"out", "idle"}
  BY DEF HInit, Init
<1>3. Ownership
  BY <1>2 DEF HInit, Init, Ownership, MeOK, LockOK, StoreOK, SlotExclusive,
     SessionOwnsSlot, Holding, SetupPC, LivePC, HeadPC, TailPC, FreePC, SlotPC
<1> QED  BY <1>1, <1>3 DEF IInv

\* Type correctness of the slot allocator, and what each program counter knows of
\* its slot, in every reachable state: pickslot(), freeslot(), sessions, pauses,
\* kills and the daemon.
THEOREM SlotsInvariant == HSpec => []IInv
<1>1. IInv /\ [HNext]_hvars => IInv'
  <2> SUFFICES ASSUME IInv, [HNext]_hvars PROVE IInv'  OBVIOUS
  <2>1. [Next]_vars  BY DEF HNext, hvars
  <2>2. TypeOK'  BY <2>1, TypeStep DEF IInv, HTypeOK, Ownership
  <2>3. /\ evicted \subseteq evicted' /\ evicted' \subseteq Proc
        /\ \A x \in Actor, p \in Proc :
             FreeMark(x) /\ p # x /\ Holding(p) /\ me[p] = me[x] => p \in evicted'
    BY Evicts DEF IInv
  <2>4. Ownership'  BY <2>1, <2>3, OwnershipStep
  <2> QED  BY <2>2, <2>3, <2>4 DEF IInv, HTypeOK
<1> QED  BY InitOwnership, <1>1, PTL DEF HSpec

\* pickslot() never hands one slot to two processes: the test under
\* LOCK_PICKSLOT keeps its holder unique until somebody else frees it.
THEOREM SlotsExclusive == HSpec => []SlotExclusive
<1>1. IInv => SlotExclusive  BY DEF IInv, Ownership
<1> QED  BY SlotsInvariant, <1>1, PTL

\* A slot that nobody frees under its process stays in use and never names
\* another process that has its own: udplayers_poutfit() and signal_servers()
\* terminate no other.
THEOREM SessionsOwnSlots == HSpec => []SessionOwnsSlot
<1>1. IInv => SessionOwnsSlot  BY DEF IInv, Ownership
<1> QED  BY SlotsInvariant, <1>1, PTL

-----------------------------------------------------------------------------
(* The connection *)

HIDE DEF Actor, Slot, NoSlot, At, Goto, shared, Alive, DaemonFrees, SendTerm,
        Delta

\* What is asked for, what answers it, and what is sent as datagrams.
Request == [ask : Mode, port : Nat]
\* Replies by TCP.
Answers == {"SWITCH_TCP_OK", "SWITCH_UDP_OK", "SWITCH_DENIED"}
\* Datagrams to the server,
ToServer == [to : Nat, from : Nat]
\* and to the client.
ToClient == [to : Nat, from : Nat, what : {"SWITCH_UDP_OK", "SWITCH_VERIFY", "update"}]

\* The types; how far the numbers go follows from what comes next.
ConnTypes ==
  /\ {srv_mode, cl_mode, cl_req} \subseteq Mode
  /\ {srv_sock, srv_peer, cl_sock, cl_peer, srv_last, cl_last} \subseteq Nat
  /\ srv_ready \subseteq {"tcp", "udp"}
  /\ cl_status \in {"STAT_CONNECTED", "STAT_SWITCH_UDP", "STAT_SWITCH_TCP",
                    "STAT_VERIFY_UDP"}
  /\ cl_timer \in BOOLEAN /\ cl_waits \in BOOLEAN
  /\ asks \in 0 .. MaxAsks /\ apart \in BOOLEAN /\ allowed \in BOOLEAN
  /\ up \in Seq(Request) /\ srv_out \in Seq(Answers) /\ down \in Seq(Answers)
  /\ udp_up \subseteq ToServer /\ udp_down \subseteq ToClient

\* The requests for UDP among those under way.
UdpRequests(s) == {i \in 1 .. Len(s) : s[i].ask = "COMM_UDP"}
\* Every socket of the server was opened for a request of its own.
Opened ==
  /\ cl_last <= asks
  /\ srv_last + Cardinality(UdpRequests(up)) <= asks

\* Sockets in use are the last ones opened, those that are connected or asked for
\* are never older than those before, and none is connected to nothing.
Sockets ==
  /\ cl_sock \in {0, cl_last} /\ srv_sock \in {0, srv_last}
  /\ srv_peer <= cl_last
  /\ cl_sock = 0 => cl_peer = 0
  /\ srv_sock # 0 => srv_peer # 0
  /\ srv_mode = "COMM_UDP" => srv_sock # 0
  /\ cl_mode = "COMM_UDP" \/ cl_status = "STAT_VERIFY_UDP" => cl_peer # 0
  /\ cl_peer # 0 => cl_sock <= srv_peer
  /\ cl_peer <= srv_last

\* Requests under way ask for sockets in the order in which these were
\* opened, none older than what the server is connected to.
Ports ==
  /\ \A i \in UdpRequests(up) : up[i].port \in srv_peer .. cl_last /\ up[i].port # 0
  /\ \A i, j \in UdpRequests(up) : i <= j => up[i].port <= up[j].port

\* Datagrams come from and go to sockets that were opened and asked for.
Datagrams ==
  /\ \A d \in udp_down : d.from \in 1 .. srv_last /\ d.to \in 1 .. srv_peer
  /\ \A d \in udp_up : d.to # 0 /\ d.from \in 1 .. srv_peer

\* Where a socket of the client has verified UDP it is connected to.
Verified ==
  /\ \A d \in udp_up : d.from = cl_sock => cl_peer = d.to
  /\ srv_mode = "COMM_UDP" /\ srv_peer = cl_sock => cl_peer = srv_sock

\* Nobody is denied where UDP is allowed, and nobody was granted it
\* elsewhere.
Refused ==
  IF allowed THEN \A s \in {srv_out, down} : \A i \in 1 .. Len(s) : s[i] # "SWITCH_DENIED"
  ELSE srv_last = 0

\* What was asked for by a request with this reply.
Asked(what) == IF what = "SWITCH_TCP_OK" THEN "COMM_TCP" ELSE "COMM_UDP"
\* The latest request: not read yet, or its reply not flushed or not read
\* yet.
Newest ==
  IF up # <<>> THEN up[Len(up)].ask
  ELSE IF srv_out # <<>> THEN Asked(srv_out[Len(srv_out)])
  ELSE IF down # <<>> THEN Asked(down[Len(down)]) ELSE "none"

\* A client that wants UDP has not asked for TCP since, and is verifying it
\* or has a reply to come; one that is leaving UDP has its reply to come.
Awaited ==
  /\ cl_status = "STAT_VERIFY_UDP" => WantsUdp
  /\ cl_req = "COMM_UDP" => Newest # "COMM_TCP"
  /\ WantsUdp /\ (cl_status # "STAT_VERIFY_UDP" \/ ~cl_timer) => Newest # "none"
  /\ cl_mode = "COMM_UDP" /\ cl_req = "COMM_TCP" => Newest = "COMM_TCP"

\* The inductive invariant of the connection.
ConnIInv ==
  /\ ConnTypes /\ Opened /\ Sockets /\ Ports /\ Datagrams /\ Verified /\ Refused /\ Awaited

-----------------------------------------------------------------------------
(* Requests on their way *)

\* A request that is made is the last and the newest.
LEMMA UpGrows ==
  ASSUME NEW s \in Seq(Request), NEW e \in Request
  PROVE  /\ Append(s, e) \in Seq(Request) /\ Append(s, e) # <<>>
         /\ Len(Append(s, e)) = Len(s) + 1 /\ Append(s, e)[Len(Append(s, e))] = e
         /\ \A i \in 1 .. Len(s) : Append(s, e)[i] = s[i]
         /\ UdpRequests(Append(s, e)) =
              UdpRequests(s) \cup (IF e.ask = "COMM_UDP" THEN {Len(s) + 1} ELSE {})
         /\ IsFiniteSet(UdpRequests(s)) /\ Cardinality(UdpRequests(s)) \in Nat
         /\ Cardinality(UdpRequests(Append(s, e))) =
              Cardinality(UdpRequests(s)) + (IF e.ask = "COMM_UDP" THEN 1 ELSE 0)
<1> DEFINE s2 == Append(s, e)
<1>1. /\ s2 \in Seq(Request) /\ s2 # <<>> /\ Len(s2) = Len(s) + 1 /\ s2[Len(s) + 1] = e
      /\ \A i \in 1 .. Len(s) : s2[i] = s[i] /\ Len(s) \in Nat
  BY AppendProperties
<1> HIDE DEF s2
<1>2. Len(s) \in Nat  OBVIOUS
<1>3. UdpRequests(s2) = UdpRequests(s)
                        \cup (IF e.ask = "COMM_UDP" THEN {Len(s) + 1} ELSE {})
  BY <1>1, <1>2 DEF UdpRequests
<1>4. IsFiniteSet(UdpRequests(s)) /\ Len(s) + 1 \notin UdpRequests(s)
  <2>1. UdpRequests(s) \in SUBSET (1 .. Len(s))  BY DEF UdpRequests
  <2>2. IsFiniteSet(1 .. Len(s))  BY <1>2, FS_Interval
  <2>3. IsFiniteSet(UdpRequests(s))  BY <2>1, <2>2, FS_Subset
  <2>4. Len(s) + 1 \notin UdpRequests(s)  BY <1>2, <2>1
  <2> QED  BY <2>3, <2>4
<1>5. Cardinality(UdpRequests(s)) \in Nat  BY <1>4, FS_CardinalityType
<1>6. Cardinality(UdpRequests(s) \cup {Len(s) + 1}) = Cardinality(UdpRequests(s)) + 1
  BY <1>4, FS_AddElement
<1>7. Cardinality(UdpRequests(s2)) =
        Cardinality(UdpRequests(s)) + (IF e.ask = "COMM_UDP" THEN 1 ELSE 0)
  <2>1. CASE e.ask = "COMM_UDP"  BY <1>3, <1>6, <2>1
  <2>2. CASE e.ask # "COMM_UDP"
    <3>1. UdpRequests(s2) = UdpRequests(s)  BY <1>3, <2>2
    <3> QED  BY <1>5, <2>2, <3>1
  <2> QED  BY <2>1, <2>2
<1> QED  BY <1>1, <1>3, <1>4, <1>5, <1>7 DEF s2

\* A request that is read is the first, and the others move up.
LEMMA UpShrinks ==
  ASSUME NEW s \in Seq(Request), s # <<>>
  PROVE  /\ Tail(s) \in Seq(Request) /\ Len(Tail(s)) = Len(s) - 1 /\ Len(s) \in Nat \ {0}
         /\ Head(s) = s[1] /\ s[1] \in Request
         /\ \A i \in 1 .. Len(Tail(s)) : Tail(s)[i] = s[i + 1]
         /\ \A i \in UdpRequests(Tail(s)) : i + 1 \in UdpRequests(s) /\ i \in Nat
         /\ Cardinality(UdpRequests(s)) \in Nat
         /\ Cardinality(UdpRequests(Tail(s))) =
              Cardinality(UdpRequests(s)) - (IF s[1].ask = "COMM_UDP" THEN 1 ELSE 0)
<1> DEFINE s2 == Tail(s)
<1>1. /\ s2 \in Seq(Request) /\ Len(s2) = Len(s) - 1 /\ Len(s) \in Nat \ {0}
      /\ \A i \in 1 .. Len(s2) : s2[i] = s[i + 1]
  BY HeadTailProperties, EmptySeq
<1> HIDE DEF s2
<1>2. Head(s) = s[1] /\ s[1] \in Request  BY <1>1, ElementOfSeq
<1>3. \A i \in UdpRequests(s2) : i + 1 \in UdpRequests(s) \ {1} /\ i \in Nat
  BY <1>1 DEF UdpRequests
<1>4. \A j \in UdpRequests(s) \ {1} : j - 1 \in UdpRequests(s2) /\ j \in Nat
  BY <1>1 DEF UdpRequests
<1>5. IsFiniteSet(UdpRequests(s)) /\ IsFiniteSet(UdpRequests(s2))
  <2>1. /\ UdpRequests(s) \in SUBSET (1 .. Len(s))
        /\ UdpRequests(s2) \in SUBSET (1 .. Len(s2))
    BY DEF UdpRequests
  <2>2. Len(s) \in Int /\ Len(s2) \in Int  BY <1>1
  <2>3. IsFiniteSet(1 .. Len(s)) /\ IsFiniteSet(1 .. Len(s2))  BY <2>2, FS_Interval
  <2> QED  BY <2>1, <2>3, FS_Subset
<1>6. Cardinality(UdpRequests(s2)) = Cardinality(UdpRequests(s) \ {1})
  <2> DEFINE f == [i \in UdpRequests(s2) |-> i + 1]
  <2>1. f \in [UdpRequests(s2) -> UdpRequests(s) \ {1}]  BY <1>3
  <2>2. \A i, j \in UdpRequests(s2) : f[i] = f[j] => i = j  BY <1>3
  <2>3. \A j \in UdpRequests(s) \ {1} : \E i \in UdpRequests(s2) : f[i] = j
    <3> SUFFICES ASSUME NEW j \in UdpRequests(s) \ {1}
                 PROVE  \E i \in UdpRequests(s2) : f[i] = j
      OBVIOUS
    <3>1. j - 1 \in UdpRequests(s2) /\ f[j - 1] = j  BY <1>4
    <3> QED  BY <3>1
  <2>4. f \in Bijection(UdpRequests(s2), UdpRequests(s) \ {1})
    <3> HIDE DEF f
    <3> QED  BY <2>1, <2>2, <2>3 DEF Bijection, Injection, Surjection, IsInjective
  <2> QED  BY <1>5, <2>4, FS_Bijection DEF ExistsBijection
<1>7. /\ Cardinality(UdpRequests(s)) \in Nat
      /\ Cardinality(UdpRequests(s) \ {1}) =
           Cardinality(UdpRequests(s)) - (IF s[1].ask = "COMM_UDP" THEN 1 ELSE 0)
  <2>1. 1 \in UdpRequests(s) <=> s[1].ask = "COMM_UDP"  BY <1>1 DEF UdpRequests
  <2>2. Cardinality(UdpRequests(s)) \in Nat  BY <1>5, FS_CardinalityType
  <2>3. Cardinality(UdpRequests(s) \ {1}) =
          IF 1 \in UdpRequests(s) THEN Cardinality(UdpRequests(s)) - 1
          ELSE Cardinality(UdpRequests(s))
    BY <1>5, FS_RemoveElement
  <2> QED  BY <2>1, <2>2, <2>3
<1> QED  BY <1>1, <1>2, <1>3, <1>6, <1>7 DEF s2

\* The types that the steps keep needing.
LEMMA ConnTyped ==
  ASSUME ConnTypes
  PROVE  /\ srv_sock \in Nat /\ srv_peer \in Nat /\ cl_sock \in Nat /\ cl_peer \in Nat
         /\ srv_last \in Nat /\ cl_last \in Nat /\ asks \in Nat /\ MaxAsks \in Nat
         /\ up \in Seq(Request) /\ srv_out \in Seq(Answers) /\ down \in Seq(Answers)
         /\ Len(up) \in Nat /\ Len(srv_out) \in Nat /\ Len(down) \in Nat
         /\ Cardinality(UdpRequests(up)) \in Nat
         /\ UdpRequests(up) \subseteq 1 .. Len(up)
         /\ "COMM_UDP" \in Mode /\ "COMM_TCP" \in Mode
<1>1. up \in Seq(Request)  BY DEF ConnTypes
<1>2. [ask |-> "COMM_TCP", port |-> 0] \in Request  BY DEF Request, Mode
<1>3. Cardinality(UdpRequests(up)) \in Nat  BY <1>1, <1>2, UpGrows
<1> QED  BY <1>1, <1>3, ConnectionAssumption DEF ConnTypes, UdpRequests, Mode

\* It holds of a connection by TCP that nobody has asked to change.
LEMMA ConnFirst == ConnInit => ConnIInv
<1> SUFFICES ASSUME ConnInit PROVE ConnIInv  OBVIOUS
<1> USE DEF ConnInit
<1>1. ConnTypes
  <2>1. up \in Seq(Request) /\ srv_out \in Seq(Answers) /\ down \in Seq(Answers)
    BY EmptySeq
  <2>2. asks \in 0 .. MaxAsks  BY ConnectionAssumption
  <2>3. {srv_mode, cl_mode, cl_req} \subseteq Mode  BY DEF Mode
  <2>4. {srv_sock, srv_peer, cl_sock, cl_peer, srv_last, cl_last} \subseteq Nat  OBVIOUS
  <2>5. udp_up \subseteq ToServer /\ udp_down \subseteq ToClient  OBVIOUS
  <2>6. /\ srv_ready \subseteq {"tcp", "udp"} /\ cl_timer \in BOOLEAN /\ cl_waits \in BOOLEAN
        /\ apart \in BOOLEAN /\ allowed \in BOOLEAN
        /\ cl_status \in {"STAT_CONNECTED", "STAT_SWITCH_UDP", "STAT_SWITCH_TCP",
                          "STAT_VERIFY_UDP"}
    OBVIOUS
  <2> QED  BY ONLY <2>1, <2>2, <2>3, <2>4, <2>5, <2>6 DEF ConnTypes
<1>2. UdpRequests(up) = {} /\ Len(up) = 0 /\ Len(srv_out) = 0 /\ Len(down) = 0
  BY DEF UdpRequests
<1>3. Opened
  <2>1. Cardinality(UdpRequests(up)) = 0  BY <1>2, FS_EmptySet
  <2> QED  BY <2>1 DEF Opened
<1>4. Sockets /\ Ports /\ Datagrams /\ Verified
  BY <1>2 DEF Sockets, Ports, Datagrams, Verified
<1>5. Refused  BY <1>2 DEF Refused
<1>6. Awaited  BY DEF Awaited, WantsUdp, Newest
<1> QED  BY <1>1, <1>3, <1>4, <1>5, <1>6 DEF ConnIInv

\* A reply to the client is one that there is.
LEMMA AnswersAre ==
  /\ "SWITCH_TCP_OK" \in Answers /\ "SWITCH_UDP_OK" \in Answers
  /\ "SWITCH_DENIED" \in Answers
BY DEF Answers

\* What a step of the server that reads a request changes.
LEMMA SrvTcpIs ==
  ASSUME ConnIInv, SrvTcp
  PROVE  /\ up # <<>> /\ up' = Tail(up) /\ up[1] = Head(up) /\ up[1] \in Request
         /\ UNCHANGED <<clVars, down, udp_up, asks, apart, allowed>>
         /\ srv_ready' \subseteq srv_ready /\ srv_mode' = "COMM_TCP"
         /\ \/ /\ up[1].ask = "COMM_TCP" /\ srv_sock' = 0
               /\ srv_out' = Append(srv_out, "SWITCH_TCP_OK")
               /\ UNCHANGED <<srv_peer, srv_last, udp_down>>
            \/ /\ up[1].ask = "COMM_UDP" /\ ~allowed /\ srv_sock' \in {0, srv_sock}
               /\ srv_out' = Append(srv_out, "SWITCH_DENIED")
               /\ UNCHANGED <<srv_peer, srv_last, udp_down>>
            \/ /\ up[1].ask = "COMM_UDP" /\ allowed /\ srv_last' = srv_last + 1
               /\ srv_sock' = srv_last' /\ srv_peer' = up[1].port
               /\ srv_out' = Append(srv_out, "SWITCH_UDP_OK")
               /\ udp_down' = udp_down \cup
                    {[to |-> srv_peer', from |-> srv_last', what |-> "SWITCH_UDP_OK"]}
<1>1. up \in Seq(Request) /\ up # <<>>  BY ConnTyped DEF ConnIInv, SrvTcp
<1>2. up[1] = Head(up) /\ up[1] \in Request  BY <1>1, UpShrinks
<1> QED  BY <1>1, <1>2 DEF SrvTcp, HandleTcp, Denied, Granted, Reply

\* What a reply changes in the client.
LEMMA ReplyIs ==
  ASSUME NEW what, HandleReply(what), ConnIInv
  PROVE  /\ \/ what = "SWITCH_TCP_OK" /\ cl_mode = "COMM_UDP" /\ cl_mode' = "COMM_TCP"
               /\ cl_status' = "STAT_CONNECTED" /\ ~cl_timer'
               /\ cl_sock' = 0 /\ cl_peer' = 0 /\ UNCHANGED <<cl_req, udp_up>>
            \/ what = "SWITCH_UDP_OK" /\ WantsUdp /\ cl_peer # 0
               /\ udp_up' = udp_up \cup {[to |-> cl_peer, from |-> cl_sock]}
               /\ cl_status' = "STAT_VERIFY_UDP" /\ cl_timer'
               /\ UNCHANGED <<cl_mode, cl_req, cl_sock, cl_peer>>
            \/ what = "SWITCH_UDP_OK" /\ WantsUdp /\ cl_mode' = "COMM_TCP"
               /\ cl_req' = "COMM_TCP" /\ cl_status' = "STAT_CONNECTED" /\ ~cl_timer'
               /\ cl_sock' = 0 /\ cl_peer' = 0 /\ UNCHANGED udp_up
            \/ what = "SWITCH_DENIED" /\ cl_req' = cl_mode
               /\ cl_status' = "STAT_CONNECTED" /\ ~cl_timer'
               /\ cl_sock' = 0 /\ cl_peer' = 0 /\ UNCHANGED <<cl_mode, udp_up>>
            \/ /\ \/ what = "SWITCH_TCP_OK" /\ cl_mode = "COMM_TCP"
                  \/ what = "SWITCH_UDP_OK" /\ ~WantsUdp
                  \/ what = "SWITCH_VERIFY"
               /\ ~cl_timer'
               /\ UNCHANGED <<cl_mode, cl_req, cl_status, cl_sock, cl_peer, udp_up>>
         /\ cl_timer' \in BOOLEAN
BY DEF HandleReply, SendVerify, ToTcp, CloseUdp

\* The steps of both sides and the network.
LEMMA ConnSteps ==
  ASSUME ConnNext
  PROVE  \/ SrvSelect \/ SrvTcp \/ SrvUdp \/ SrvFlush \/ SrvUpdate
         \/ AskUdp \/ AskTcp \/ ForceReset \/ RecvUdpConn \/ RecvTimeout
         \/ ClTcp \/ ClUdp \/ SwitchTimeout \/ LoseDatagram
BY DEF ConnNext, SrvStep, UserAsks, Deliver

\* Every step keeps the types.
LEMMA ConnTypesStep ==
  ASSUME ConnIInv, ConnNext
  PROVE  ConnTypes'
<1> DEFINE Modes == {srv_mode, cl_mode, cl_req} \subseteq Mode
           Numbers == {srv_sock, srv_peer, cl_sock, cl_peer, srv_last, cl_last} \subseteq Nat
           Flags == /\ srv_ready \subseteq {"tcp", "udp"}
                    /\ cl_status \in {"STAT_CONNECTED", "STAT_SWITCH_UDP",
                                      "STAT_SWITCH_TCP", "STAT_VERIFY_UDP"}
                    /\ cl_timer \in BOOLEAN /\ cl_waits \in BOOLEAN
                    /\ asks \in 0 .. MaxAsks /\ apart \in BOOLEAN /\ allowed \in BOOLEAN
           Streams == up \in Seq(Request) /\ srv_out \in Seq(Answers) /\ down \in Seq(Answers)
           Datas == udp_up \subseteq ToServer /\ udp_down \subseteq ToClient
           All == Modes /\ Numbers /\ Flags /\ Streams /\ Datas
<1>0. /\ Modes /\ Numbers /\ Flags /\ Streams /\ Datas
      /\ "COMM_UDP" \in Mode /\ "COMM_TCP" \in Mode
  BY ConnTyped DEF ConnIInv, ConnTypes
<1>01. [ask |-> "COMM_TCP", port |-> 0] \in Request  BY DEF Request, Mode
<1>1. ASSUME SrvSelect \/ SrvFlush \/ LoseDatagram  PROVE All'
  <2>1. CASE SrvSelect
    <3>1. srv_ready' \subseteq {"tcp", "udp"}  BY <2>1 DEF SrvSelect
    <3> QED  BY <1>0, <2>1, <3>1 DEF SrvSelect, clVars
  <2>2. CASE SrvFlush
    <3>1. down' \in Seq(Answers) /\ srv_out' \in Seq(Answers)
      BY <1>0, <2>2, ConcatProperties, EmptySeq DEF SrvFlush
    <3> QED  BY <1>0, <2>2, <3>1 DEF SrvFlush, clVars
  <2>3. CASE LoseDatagram
    BY <1>0, <2>3 DEF LoseDatagram, srvVars, clVars
  <2> QED  BY <1>1, <2>1, <2>2, <2>3
<1>2. ASSUME SrvTcp  PROVE All'
  <2>1. up' \in Seq(Request)  BY <1>0, <1>2, SrvTcpIs, UpShrinks
  <2>2. srv_out' \in Seq(Answers)
    <3>1. \E a \in Answers : srv_out' = Append(srv_out, a)
      BY <1>2, SrvTcpIs, AnswersAre
    <3> QED  BY <1>0, <3>1, AppendProperties
  <2>3. Numbers'
    <3>1. up[1].port \in Nat  BY <1>2, SrvTcpIs DEF Request
    <3> QED  BY SMTT(30), <1>0, <1>2, <3>1, SrvTcpIs DEF clVars
  <2>4. Modes' /\ Flags'  BY <1>0, <1>2, SrvTcpIs DEF clVars
  <2>5. Datas'
    <3>1. udp_up' = udp_up  BY <1>2, SrvTcpIs
    <3>2. \A d \in udp_down' : d \in udp_down
            \/ d = [to |-> srv_peer', from |-> srv_last', what |-> "SWITCH_UDP_OK"]
      BY <1>2, SrvTcpIs
    <3>3. srv_peer' \in Nat /\ srv_last' \in Nat  BY <2>3
    <3> QED  BY <1>0, <3>1, <3>2, <3>3 DEF ToClient
  <2>6. down' = down  BY <1>2, SrvTcpIs
  <2> QED  BY <1>0, <2>1, <2>2, <2>3, <2>4, <2>5, <2>6
<1>3. ASSUME SrvUdp \/ SrvUpdate  PROVE All'
  <2>1. CASE SrvUdp
    <3>1. /\ srv_mode' \in Mode /\ srv_ready' = {}
          /\ UNCHANGED <<srv_sock, srv_peer, srv_last, srv_out, clVars, up, down, asks,
                         apart, allowed>>
          /\ udp_up' \subseteq udp_up
          /\ udp_down' \subseteq udp_down \cup
               {[to |-> srv_peer, from |-> srv_sock, what |-> "SWITCH_VERIFY"]}
      BY <1>0, <2>1 DEF SrvUdp, HandleVerify, Reply
    <3>2. [to |-> srv_peer, from |-> srv_sock, what |-> "SWITCH_VERIFY"] \in ToClient
      BY <1>0 DEF ToClient
    <3> QED  BY <1>0, <3>1, <3>2 DEF clVars
  <2>2. CASE SrvUpdate
    <3>1. [to |-> srv_peer, from |-> srv_sock, what |-> "update"] \in ToClient
      BY <1>0 DEF ToClient
    <3>2. Modes'  BY <1>0, <2>2 DEF SrvUpdate, clVars
    <3>3. Numbers'  BY <1>0, <2>2 DEF SrvUpdate, clVars
    <3>4. Flags'  BY <1>0, <2>2 DEF SrvUpdate, clVars
    <3>5. Streams'  BY <1>0, <2>2 DEF SrvUpdate, clVars
    <3>6. Datas'  BY <1>0, <2>2, <3>1 DEF SrvUpdate, clVars
    <3> QED  BY <3>2, <3>3, <3>4, <3>5, <3>6
  <2> QED  BY <1>3, <2>1, <2>2
<1>4. ASSUME AskUdp  PROVE All'
  <2>1. cl_sock' \in Nat /\ cl_peer' \in Nat /\ cl_last' \in Nat /\ asks' \in 0 .. MaxAsks
    BY <1>0, <1>4, ConnectionAssumption DEF AskUdp
  <2>2. up' \in Seq(Request)
    <3>1. [ask |-> "COMM_UDP", port |-> cl_sock'] \in Request  BY <2>1 DEF Request, Mode
    <3> QED  BY <1>0, <1>4, <3>1, UpGrows DEF AskUdp
  <2>3. /\ UNCHANGED <<srvVars, cl_mode, down, udp_up, udp_down, allowed>>
        /\ cl_req' = "COMM_UDP" /\ cl_status' = "STAT_SWITCH_UDP"
        /\ cl_timer' = TRUE /\ cl_waits' = TRUE /\ apart' \in BOOLEAN
    BY <1>4 DEF AskUdp
  <2> QED  BY <1>0, <2>1, <2>2, <2>3 DEF srvVars
<1>5. ASSUME AskTcp \/ ForceReset \/ RecvTimeout  PROVE All'
  <2>1. up' \in Seq(Request)
    <3>1. up' = up \/ up' = Append(up, [ask |-> "COMM_TCP", port |-> 0])
      BY <1>5 DEF AskTcp, ForceReset, RecvTimeout
    <3>2. Append(up, [ask |-> "COMM_TCP", port |-> 0]) \in Seq(Request)
      BY ONLY <1>0, <1>01, UpGrows
    <3> QED  BY ONLY <1>0, <3>1, <3>2
  <2>2. Modes' /\ Numbers'
    BY <1>0, <1>5 DEF AskTcp, ForceReset, RecvTimeout, ToTcp, CloseUdp, srvVars
  <2>3. Flags'
    <3>1. CASE AskTcp  BY <1>0, <3>1, ConnectionAssumption DEF AskTcp, srvVars
    <3>2. CASE ForceReset
      <4>1. asks' \in 0 .. MaxAsks  BY <1>0, <3>2, ConnectionAssumption DEF ForceReset
      <4>2. /\ cl_status' = "STAT_CONNECTED" /\ cl_timer' = FALSE
            /\ UNCHANGED <<srv_ready, cl_waits, apart, allowed>>
        BY <3>2 DEF ForceReset, ToTcp, srvVars
      <4> QED  BY ONLY <1>0, <4>1, <4>2
    <3>3. CASE RecvTimeout  BY <1>0, <3>3 DEF RecvTimeout, srvVars
    <3> QED  BY <1>5, <3>1, <3>2, <3>3
  <2>4. UNCHANGED <<srv_out, down, udp_up, udp_down>>
    BY <1>5 DEF AskTcp, ForceReset, RecvTimeout, srvVars
  <2> QED  BY <1>0, <2>1, <2>2, <2>3, <2>4
<1>6. ASSUME RecvUdpConn \/ SwitchTimeout  PROVE All'
  <2>1. CASE RecvUdpConn
    <3>1. cl_peer' \in Nat /\ udp_down' \subseteq udp_down
      BY <1>0, <2>1 DEF RecvUdpConn, ForClient, Reads, ToClient
    <3> QED  BY <1>0, <2>1, <3>1 DEF RecvUdpConn, srvVars
  <2>2. CASE SwitchTimeout
    <3>1. Modes' /\ Numbers'
      BY <1>0, <2>2 DEF SwitchTimeout, ToTcp, CloseUdp, srvVars
    <3>2. Flags'  BY <1>0, <2>2 DEF SwitchTimeout, ToTcp, srvVars
    <3>3. Streams' /\ Datas'  BY <1>0, <2>2 DEF SwitchTimeout, srvVars
    <3> QED  BY <3>1, <3>2, <3>3
  <2> QED  BY <1>6, <2>1, <2>2
<1>7. ASSUME NEW what, HandleReply(what),
             UNCHANGED <<srvVars, cl_last, cl_waits, up, asks, apart, allowed>>,
             down' \in Seq(Answers), udp_down' \subseteq udp_down
      PROVE  All'
  <2>1. udp_up' \subseteq ToServer
    <3>1. [to |-> cl_peer, from |-> cl_sock] \in ToServer  BY <1>0 DEF ToServer
    <3> QED  BY <1>0, <1>7, <3>1, ReplyIs
  <2>2. Modes' /\ Numbers'  BY SMTT(30), <1>0, <1>7, ReplyIs DEF srvVars
  <2>3. Flags'  BY <1>0, <1>7, ReplyIs DEF srvVars
  <2> QED  BY <1>0, <1>7, <2>1, <2>2, <2>3 DEF srvVars
<1>8. ASSUME ClTcp  PROVE All'
  <2>1. down' \in Seq(Answers)  BY <1>0, <1>8, HeadTailProperties DEF ClTcp
  <2>2. /\ HandleReply(Head(down)) /\ udp_down' \subseteq udp_down
        /\ UNCHANGED <<srvVars, cl_last, cl_waits, up, asks, apart, allowed>>
    BY <1>8 DEF ClTcp
  <2> QED  BY <1>7, <2>1, <2>2
<1>9. ASSUME ClUdp  PROVE All'
  <2>1. /\ UNCHANGED <<srvVars, cl_last, cl_waits, up, down, asks, apart, allowed>>
        /\ udp_down' \subseteq udp_down
    BY <1>9 DEF ClUdp, Reads
  <2>2. CASE \E what : HandleReply(what)  BY <1>0, <1>7, <2>1, <2>2
  <2>3. CASE /\ cl_mode' \in {"COMM_UDP", cl_mode}
             /\ cl_status' \in {"STAT_CONNECTED", cl_status}
             /\ cl_timer' \in {FALSE, cl_timer}
             /\ UNCHANGED <<cl_req, cl_sock, cl_peer, udp_up>>
    <3>1. Modes' /\ Numbers'  BY <1>0, <2>1, <2>3 DEF srvVars
    <3>2. Flags'  BY <1>0, <2>1, <2>3 DEF srvVars
    <3> QED  BY <1>0, <2>1, <2>3, <3>1, <3>2 DEF srvVars
  <2> QED  BY <1>9, <2>2, <2>3 DEF ClUdp
<1>10. All'
  <2> HIDE DEF All
  <2> QED
    BY <1>1, <1>2, <1>3, <1>4, <1>5, <1>6, <1>8, <1>9, ConnSteps
<1> QED  BY <1>10 DEF ConnTypes

\* The request that is read names a port when it asks for UDP.
LEMMA PortIs ==
  ASSUME ConnIInv, up # <<>>, up[1].ask = "COMM_UDP"
  PROVE  /\ 1 \in UdpRequests(up) /\ up[1].port \in srv_peer .. cl_last
         /\ up[1].port \in Nat \ {0}
<1>1. up \in Seq(Request)  BY ConnTyped DEF ConnIInv
<1>2. Len(up) \in Nat \ {0} /\ up[1] \in Request  BY <1>1, UpShrinks
<1>3. 1 \in UdpRequests(up)  BY <1>2 DEF UdpRequests
<1> QED  BY <1>2, <1>3 DEF ConnIInv, Ports, Request

\* Who is denied is not in UDP mode.
LEMMA NotDenied ==
  ASSUME ConnIInv, ~allowed
  PROVE  cl_mode = "COMM_TCP" /\ cl_peer = 0
BY ConnTyped DEF ConnIInv, Refused, Sockets, ConnTypes, Mode

\* What the client may read: a reply, or what completes a switch, or an update.
LEMMA ClientReads ==
  ASSUME ConnIInv, ClTcp \/ ClUdp
  PROVE  /\ UNCHANGED <<srvVars, cl_last, cl_waits, up, asks, apart, allowed>>
         /\ udp_down' \subseteq udp_down
         /\ \/ \E what : /\ HandleReply(what)
                         /\ what = "SWITCH_DENIED" => cl_mode = "COMM_TCP"
            \/ /\ cl_status = "STAT_VERIFY_UDP" /\ cl_mode' = "COMM_UDP"
               /\ cl_status' = "STAT_CONNECTED"
               /\ UNCHANGED <<cl_req, cl_sock, cl_peer, udp_up>>
            \/ UNCHANGED <<cl_mode, cl_req, cl_status, cl_sock, cl_peer, udp_up>>
<1>1. UNCHANGED <<srvVars, cl_last, cl_waits, up, asks, apart, allowed>>
  BY DEF ClTcp, ClUdp
<1>2. udp_down' \subseteq udp_down  BY DEF ClTcp, ClUdp, Reads
<1>3. CASE ClTcp
  <2>1. HandleReply(Head(down)) /\ down # <<>>  BY <1>3 DEF ClTcp
  <2>2. Head(down) = down[1] /\ 1 \in 1 .. Len(down)
    BY <2>1, ConnTyped, EmptySeq DEF ConnIInv
  <2>3. Head(down) = "SWITCH_DENIED" => ~allowed
    BY <2>2 DEF ConnIInv, Refused
  <2> QED  BY <1>1, <1>2, <2>1, <2>3, NotDenied
<1>4. CASE ClUdp
  <2>1. \A d \in udp_down : d.what # "SWITCH_DENIED"
    BY DEF ConnIInv, ConnTypes, ToClient
  <2> QED  BY <1>1, <1>2, <1>4, <2>1 DEF ClUdp, ForClient
<1> QED  BY <1>3, <1>4

\* A socket of the server takes a request away, one of the client needs one.
LEMMA OpenedStep ==
  ASSUME ConnIInv, ConnNext
  PROVE  Opened'
<1> USE DEF Opened
<1>0. Opened /\ ConnTypes  BY DEF ConnIInv
<1>01. [ask |-> "COMM_TCP", port |-> 0] \in Request  BY DEF Request, Mode
<1>1. ASSUME SrvTcp  PROVE Opened'
  <2>1. /\ Cardinality(UdpRequests(up')) =
             Cardinality(UdpRequests(up)) - (IF up[1].ask = "COMM_UDP" THEN 1 ELSE 0)
        /\ Cardinality(UdpRequests(up)) \in Nat
    BY <1>0, <1>1, SrvTcpIs, UpShrinks, ConnTyped
  <2>2. /\ cl_last' = cl_last /\ asks' = asks
        /\ \/ srv_last' = srv_last
           \/ up[1].ask = "COMM_UDP" /\ srv_last' = srv_last + 1
    <3>1. UNCHANGED <<clVars, asks>>  BY <1>1, SrvTcpIs
    <3>2. \/ srv_last' = srv_last
          \/ up[1].ask = "COMM_UDP" /\ srv_last' = srv_last + 1
      BY <1>1, SrvTcpIs
    <3> QED  BY <3>1, <3>2 DEF clVars
  <2>3. srv_last \in Nat /\ cl_last \in Nat /\ asks \in Nat  BY <1>0, ConnTyped
  <2> DEFINE n == Cardinality(UdpRequests(up))
             m == Cardinality(UdpRequests(up'))
  <2>4. /\ n \in Nat /\ cl_last <= asks /\ srv_last + n <= asks
        /\ m = n - (IF up[1].ask = "COMM_UDP" THEN 1 ELSE 0)
    BY <1>0, <2>1
  <2>5. srv_last' + m <= asks'
    <3> HIDE DEF n, m
    <3> QED  BY ONLY <2>2, <2>3, <2>4
  <2> QED  BY <2>2, <2>4, <2>5
<1>2. ASSUME AskUdp  PROVE Opened'
  <2>1. /\ up' = Append(up, [ask |-> "COMM_UDP", port |-> cl_sock']) /\ asks' = asks + 1
        /\ srv_last' = srv_last /\ cl_last' \in {cl_last, cl_last + 1} /\ cl_sock' \in Nat
    BY SMTT(30), <1>0, <1>2, ConnTyped DEF AskUdp, srvVars
  <2>2. [ask |-> "COMM_UDP", port |-> cl_sock'] \in Request  BY <2>1 DEF Request, Mode
  <2>3. Cardinality(UdpRequests(up')) = Cardinality(UdpRequests(up)) + 1
    BY SMTT(30), <1>0, <2>1, <2>2, UpGrows, ConnTyped
  <2>4. srv_last \in Nat /\ cl_last \in Nat /\ asks \in Nat  BY <1>0, ConnTyped
  <2> DEFINE n == Cardinality(UdpRequests(up))
             m == Cardinality(UdpRequests(up'))
  <2>5. n \in Nat /\ cl_last <= asks /\ srv_last + n <= asks /\ m = n + 1
    BY <1>0, <2>3, ConnTyped
  <2>6. cl_last' <= asks' /\ srv_last' + m <= asks'
    <3> HIDE DEF n, m
    <3> QED  BY ONLY <2>1, <2>4, <2>5
  <2> QED  BY <2>6
<1>3. ASSUME AskTcp \/ ForceReset \/ RecvTimeout  PROVE Opened'
  <2>1. /\ up' = up \/ up' = Append(up, [ask |-> "COMM_TCP", port |-> 0])
        /\ asks' \in {asks, asks + 1} /\ srv_last' = srv_last /\ cl_last' = cl_last
    BY <1>3 DEF AskTcp, ForceReset, RecvTimeout, srvVars
  <2>2. Cardinality(UdpRequests(up')) = Cardinality(UdpRequests(up))
    <3> DEFINE e == [ask |-> "COMM_TCP", port |-> 0]
    <3>1. e.ask # "COMM_UDP"  OBVIOUS
    <3>2. e \in Request /\ up \in Seq(Request)  BY <1>0, <1>01, ConnTyped
    <3>3. /\ Cardinality(UdpRequests(Append(up, e))) =
                Cardinality(UdpRequests(up)) + (IF e.ask = "COMM_UDP" THEN 1 ELSE 0)
          /\ Cardinality(UdpRequests(up)) \in Nat
      <4> HIDE DEF e
      <4> QED  BY ONLY <3>2, UpGrows
    <3>4. Cardinality(UdpRequests(Append(up, e))) = Cardinality(UdpRequests(up))
      BY ONLY <3>1, <3>3
    <3> QED  BY <2>1, <3>4
  <2>3. asks \in Nat /\ cl_last \in Nat /\ srv_last \in Nat
        /\ Cardinality(UdpRequests(up)) \in Nat
    BY <1>0, ConnTyped
  <2> QED  BY <1>0, <2>1, <2>2, <2>3
<1>4. ASSUME UNCHANGED <<cl_last, asks, srv_last, up>>  PROVE Opened'
  BY <1>0, <1>4
<1>5. ASSUME ClTcp \/ ClUdp  PROVE Opened'
  BY <1>4, <1>5, ClientReads DEF srvVars
<1> QED
  BY <1>1, <1>2, <1>3, <1>4, <1>5, ConnSteps
     DEF SrvSelect, SrvUdp, SrvFlush, SrvUpdate, RecvUdpConn, SwitchTimeout, LoseDatagram,
         HandleVerify, srvVars, clVars

\* A request is made for the newest socket, and read in turn.
LEMMA PortsStep ==
  ASSUME ConnIInv, ConnNext
  PROVE  Ports'
<1> USE DEF Ports
<1>0. Ports /\ ConnTypes /\ Sockets  BY DEF ConnIInv
<1>01. [ask |-> "COMM_TCP", port |-> 0] \in Request  BY DEF Request, Mode
<1>02. \A i \in UdpRequests(up) : up[i].port \in Nat
  BY SMTT(30), <1>0, ConnTyped DEF Request
<1>1. ASSUME SrvTcp  PROVE Ports'
  <2>1. \A i \in UdpRequests(up') : /\ i + 1 \in UdpRequests(up) /\ i \in Nat
                                    /\ up'[i] = up[i + 1]
    <3>1. up' = Tail(up) /\ up # <<>> /\ up \in Seq(Request)
      BY <1>0, <1>1, SrvTcpIs, ConnTyped
    <3> QED  BY <3>1, UpShrinks DEF UdpRequests
  <2>2. CASE UNCHANGED <<srv_peer, cl_last>>  BY <1>0, <2>1, <2>2
  <2>3. CASE up[1].ask = "COMM_UDP" /\ srv_peer' = up[1].port /\ cl_last' = cl_last
    <3>1. 1 \in UdpRequests(up) /\ up[1].port \in Nat  BY <1>1, <2>3, PortIs, SrvTcpIs
    <3>2. \A i \in UdpRequests(up') : up[1].port <= up[i + 1].port
      BY <1>0, <2>1, <3>1
    <3>3. srv_peer \in Nat /\ cl_last \in Nat  BY <1>0, ConnTyped
    <3>4. ASSUME NEW i \in UdpRequests(up')
          PROVE  up'[i].port \in srv_peer' .. cl_last' /\ up'[i].port # 0
      <4> DEFINE p == up[i + 1].port
                 q == up[1].port
      <4>1. p \in srv_peer .. cl_last /\ p # 0 /\ p \in Nat /\ q <= p /\ q \in Nat
        BY <1>0, <1>02, <2>1, <3>1, <3>2
      <4>2. up'[i].port = p /\ srv_peer' = q /\ cl_last' = cl_last  BY <2>1, <2>3
      <4> HIDE DEF p, q
      <4> QED  BY <3>3, <4>1, <4>2
    <3> QED  BY <1>0, <2>1, <3>4
  <2> QED  BY <1>1, <2>2, <2>3, SrvTcpIs DEF clVars
<1>2. ASSUME AskUdp  PROVE Ports'
  <2> DEFINE e == [ask |-> "COMM_UDP", port |-> cl_sock']
  <2>1. /\ up' = Append(up, e) /\ srv_peer' = srv_peer
        /\ cl_sock' = cl_last' /\ cl_last' \in Nat \ {0} /\ cl_last <= cl_last'
    BY SMTT(30), <1>0, <1>2, ConnTyped DEF AskUdp, Sockets, srvVars
  <2>2. e \in Request /\ e.ask = "COMM_UDP" /\ e.port = cl_last'
    BY <2>1 DEF Request, Mode
  <2> HIDE DEF e
  <2>3. /\ UdpRequests(up') = UdpRequests(up) \cup {Len(up) + 1}
        /\ \A i \in 1 .. Len(up) : up'[i] = up[i]
        /\ up'[Len(up) + 1] = e
    <3>1. up \in Seq(Request)  BY <1>0, ConnTyped
    <3> QED  BY <2>1, <2>2, <3>1, UpGrows
  <2>4. \A i \in UdpRequests(up) : up'[i] = up[i] /\ i \in Nat /\ i <= Len(up)
    BY SMTT(30), <1>0, <2>3, ConnTyped
  <2>5. \A i \in UdpRequests(up) : up[i].port <= cl_last'
    BY SMTT(30), <1>0, <1>02, <2>1, ConnTyped
  <2>6. srv_peer <= cl_last'  BY <1>0, <2>1, ConnTyped DEF Sockets
  <2>7. \A i \in UdpRequests(up') : up'[i].port \in srv_peer' .. cl_last' /\ up'[i].port # 0
    BY SMTT(30), <1>0, <1>02, <2>1, <2>2, <2>3, <2>4, <2>5, <2>6, ConnTyped
  <2>8. ASSUME NEW i \in UdpRequests(up'), NEW j \in UdpRequests(up'), i <= j
        PROVE  up'[i].port <= up'[j].port
    <3>1. CASE i \in UdpRequests(up) /\ j \in UdpRequests(up)
      BY <1>0, <2>4, <2>8, <3>1
    <3>2. CASE j = Len(up) + 1
      <4>1. up'[j].port = cl_last' /\ cl_last' \in Nat  BY <2>1, <2>2, <2>3, <3>2
      <4>2. up'[i].port <= cl_last'
        <5>1. CASE i \in UdpRequests(up)
          <6>1. up'[i] = up[i] /\ up[i].port <= cl_last'  BY <2>4, <2>5, <5>1
          <6> QED  BY <6>1
        <5>2. CASE i = Len(up) + 1
          <6>1. up'[i].port = cl_last'  BY <2>2, <2>3, <5>2
          <6> QED  BY <4>1, <6>1
        <5> QED  BY <2>3, <5>1, <5>2
      <4> QED  BY <4>1, <4>2
    <3>3. CASE i = Len(up) + 1 /\ j \in UdpRequests(up)
      BY <1>0, <2>4, <2>8, <3>3, ConnTyped
    <3> QED  BY <2>3, <3>1, <3>2, <3>3
  <2> QED  BY <2>7, <2>8
<1>3. ASSUME AskTcp \/ ForceReset \/ RecvTimeout  PROVE Ports'
  <2>1. /\ up' = up \/ up' = Append(up, [ask |-> "COMM_TCP", port |-> 0])
        /\ srv_peer' = srv_peer /\ cl_last' = cl_last
    BY <1>3 DEF AskTcp, ForceReset, RecvTimeout, srvVars
  <2>2. CASE up' = up  BY <1>0, <2>1, <2>2
  <2>3. CASE up' = Append(up, [ask |-> "COMM_TCP", port |-> 0])
    <3>1. up \in Seq(Request)  BY <1>0, ConnTyped
    <3>2. /\ UdpRequests(up') = UdpRequests(up) \cup {}
          /\ \A i \in 1 .. Len(up) : up'[i] = up[i]
      BY <1>01, <2>3, <3>1, UpGrows
    <3>3. \A i \in UdpRequests(up) : i \in 1 .. Len(up)  BY <1>0, ConnTyped
    <3> QED  BY <1>0, <2>1, <3>2, <3>3
  <2> QED  BY <2>1, <2>2, <2>3
<1>4. ASSUME UNCHANGED <<cl_last, srv_peer, up>>  PROVE Ports'
  BY <1>0, <1>4
<1>5. ASSUME ClTcp \/ ClUdp  PROVE Ports'
  BY <1>4, <1>5, ClientReads DEF srvVars
<1> QED
  BY <1>1, <1>2, <1>3, <1>4, <1>5, ConnSteps
     DEF SrvSelect, SrvUdp, SrvFlush, SrvUpdate, RecvUdpConn, SwitchTimeout, LoseDatagram,
         HandleVerify, srvVars, clVars

\* What the steps that send the client back to TCP, or that only ask, leave of
\* the sockets.
LEMMA AsksAre ==
  ASSUME ConnIInv
  PROVE  /\ ForceReset \/ SwitchTimeout =>
              /\ cl_mode' = "COMM_TCP" /\ cl_req' = "COMM_TCP"
              /\ cl_status' = "STAT_CONNECTED" /\ cl_sock' = 0 /\ cl_peer' = 0
              /\ UNCHANGED <<srvVars, cl_last, udp_up, udp_down, down, allowed>>
         /\ AskTcp \/ RecvTimeout =>
              /\ up' = Append(up, [ask |-> "COMM_TCP", port |-> 0])
              /\ cl_req' = "COMM_TCP" /\ cl_status' \in {"STAT_CONNECTED", "STAT_SWITCH_TCP"}
              /\ UNCHANGED <<srvVars, cl_mode, cl_sock, cl_peer, cl_last, udp_up, udp_down,
                             down, allowed>>
         /\ AskUdp =>
              /\ cl_mode = "COMM_TCP" /\ cl_req' = "COMM_UDP"
              /\ cl_status' = "STAT_SWITCH_UDP"
              /\ up' = Append(up, [ask |-> "COMM_UDP", port |-> cl_sock'])
              /\ \/ cl_last' = cl_last + 1 /\ cl_sock' = cl_last' /\ cl_peer' = 0
                 \/ UNCHANGED <<cl_last, cl_sock, cl_peer>>
              /\ UNCHANGED <<srvVars, cl_mode, udp_up, udp_down, down, allowed>>
BY DEF ForceReset, SwitchTimeout, ToTcp, CloseUdp, AskTcp, RecvTimeout, AskUdp

\* What the server's other steps change: a datagram that it has read makes the
\* connection one by UDP, and it sends only by a socket that is connected.
LEMMA SrvUdpIs ==
  ASSUME ConnIInv, SrvUdp \/ SrvUpdate
  PROVE  /\ UNCHANGED <<srv_peer, srv_last, srv_out, clVars, up, down, allowed>>
         /\ udp_up' \subseteq udp_up
         /\ \/ srv_mode' = "COMM_TCP" /\ srv_sock' = 0 /\ UNCHANGED udp_down
            \/ UNCHANGED <<srv_mode, srv_sock, udp_down>>
            \/ /\ srv_sock # 0 /\ srv_mode' = "COMM_UDP" /\ UNCHANGED srv_sock
               /\ \/ srv_mode = "COMM_UDP"
                  \/ \E d \in udp_up : d.to = srv_sock /\ d.from = srv_peer
               /\ \E what \in {"SWITCH_VERIFY", "update"} :
                    udp_down' = udp_down \cup
                                  {[to |-> srv_peer, from |-> srv_sock, what |-> what]}
<1>1. CASE SrvUdp
  <2>1. CASE srv_sock = 0  BY <1>1, <2>1 DEF SrvUdp
  <2>2. CASE srv_sock # 0
    BY <1>1, <2>2 DEF SrvUdp, ForServer, HandleVerify, Reply
  <2> QED  BY <2>1, <2>2
<1>2. CASE SrvUpdate
  <2>1. srv_mode = "COMM_UDP" /\ srv_sock # 0  BY <1>2 DEF SrvUpdate, ConnIInv, Sockets
  <2> QED  BY <1>2, <2>1 DEF SrvUpdate
<1> QED  BY <1>1, <1>2

\* The first packet by UDP was sent to the client's socket by one of the server.
LEMMA RecvUdpConnIs ==
  ASSUME ConnIInv, RecvUdpConn
  PROVE  /\ UNCHANGED <<srvVars, cl_mode, cl_req, cl_status, cl_timer, cl_sock, cl_last, up,
                        down, udp_up, asks, apart, allowed>>
         /\ cl_peer' \in 1 .. srv_last /\ cl_peer \in {0, cl_peer'}
         /\ cl_sock \in 1 .. srv_peer /\ udp_down' \subseteq udp_down
BY DEF RecvUdpConn, ForClient, Reads, ConnIInv, Datagrams

\* A socket that is in use is the last one opened, and those that are connected
\* to each other follow the order in which they were asked for.
LEMMA SocketsStep ==
  ASSUME ConnIInv, ConnNext
  PROVE  Sockets'
<1> USE DEF Sockets
<1>0. /\ Sockets
      /\ srv_sock \in Nat /\ srv_peer \in Nat /\ cl_sock \in Nat /\ cl_peer \in Nat
      /\ srv_last \in Nat /\ cl_last \in Nat
  BY ConnTyped DEF ConnIInv
<1>1. ASSUME SrvTcp  PROVE Sockets'
  <2>1. UNCHANGED <<cl_mode, cl_status, cl_sock, cl_peer, cl_last>> /\ srv_mode' = "COMM_TCP"
    BY <1>1, SrvTcpIs DEF clVars
  <2>2. CASE srv_sock' \in {0, srv_sock} /\ UNCHANGED <<srv_peer, srv_last>>
    BY <1>0, <2>1, <2>2
  <2>3. CASE /\ up[1].ask = "COMM_UDP" /\ srv_last' = srv_last + 1
             /\ srv_sock' = srv_last' /\ srv_peer' = up[1].port
    <3>1. up[1].port \in srv_peer .. cl_last /\ up[1].port \in Nat \ {0}
      BY <1>1, <2>3, SrvTcpIs, PortIs
    <3> QED  BY <1>0, <2>1, <2>3, <3>1
  <2> QED  BY <1>1, <2>2, <2>3, SrvTcpIs
<1>2. ASSUME SrvUdp \/ SrvUpdate  PROVE Sockets'
  BY <1>0, <1>2, SrvUdpIs DEF clVars
<1>3. ASSUME AskUdp  PROVE Sockets'
  BY <1>0, <1>3, AsksAre DEF srvVars
<1>4. ASSUME ForceReset \/ SwitchTimeout  PROVE Sockets'
  BY <1>0, <1>4, AsksAre DEF srvVars
<1>5. ASSUME AskTcp \/ RecvTimeout  PROVE Sockets'
  BY <1>0, <1>5, AsksAre DEF srvVars
<1>6. ASSUME RecvUdpConn  PROVE Sockets'
  BY <1>0, <1>6, RecvUdpConnIs DEF srvVars
<1>7. ASSUME ClTcp \/ ClUdp  PROVE Sockets'
  <2>1. UNCHANGED <<srvVars, cl_last>>  BY <1>7, ClientReads
  <2>2. ASSUME NEW what, HandleReply(what), what = "SWITCH_DENIED" => cl_mode = "COMM_TCP"
        PROVE  Sockets'
    <3>1. CASE /\ cl_mode' = "COMM_TCP" /\ cl_status' = "STAT_CONNECTED"
               /\ cl_sock' = 0 /\ cl_peer' = 0
      BY <1>0, <2>1, <3>1 DEF srvVars
    <3>2. CASE /\ cl_status' = "STAT_VERIFY_UDP" /\ cl_peer # 0
               /\ UNCHANGED <<cl_mode, cl_sock, cl_peer>>
      BY <1>0, <2>1, <3>2 DEF srvVars
    <3>3. CASE UNCHANGED <<cl_mode, cl_status, cl_sock, cl_peer>>
      BY <1>0, <2>1, <3>3 DEF srvVars
    <3> QED  BY <2>2, <3>1, <3>2, <3>3, ReplyIs
  <2>3. CASE /\ cl_status = "STAT_VERIFY_UDP" /\ UNCHANGED <<cl_sock, cl_peer>>
    BY <1>0, <2>1, <2>3 DEF srvVars
  <2>4. CASE UNCHANGED <<cl_mode, cl_status, cl_sock, cl_peer>>
    BY <1>0, <2>1, <2>4 DEF srvVars
  <2> QED  BY <1>7, <2>2, <2>3, <2>4, ClientReads
<1>8. ASSUME SrvSelect \/ SrvFlush \/ LoseDatagram  PROVE Sockets'
  BY <1>0, <1>8 DEF SrvSelect, SrvFlush, LoseDatagram, srvVars, clVars
<1> QED  BY <1>1, <1>2, <1>3, <1>4, <1>5, <1>6, <1>7, <1>8, ConnSteps

\* Datagrams come from and go to sockets that were opened, none later than what
\* the server was last connected to.
LEMMA DatagramsStep ==
  ASSUME ConnIInv, ConnNext
  PROVE  Datagrams'
<1> USE DEF Datagrams
<1>0. /\ Datagrams /\ Sockets
      /\ srv_sock \in Nat /\ srv_peer \in Nat /\ cl_sock \in Nat /\ cl_peer \in Nat
      /\ srv_last \in Nat /\ cl_last \in Nat
  BY ConnTyped DEF ConnIInv
<1>1. ASSUME SrvTcp  PROVE Datagrams'
  <2>1. udp_up' = udp_up  BY <1>1, SrvTcpIs
  <2>2. CASE UNCHANGED <<srv_peer, srv_last, udp_down>>  BY <1>0, <2>1, <2>2
  <2>3. CASE /\ up[1].ask = "COMM_UDP" /\ srv_last' = srv_last + 1
             /\ srv_peer' = up[1].port
             /\ udp_down' = udp_down \cup
                  {[to |-> srv_peer', from |-> srv_last', what |-> "SWITCH_UDP_OK"]}
    <3>1. up[1].port \in srv_peer .. cl_last /\ up[1].port \in Nat \ {0}
      BY <1>1, <2>3, SrvTcpIs, PortIs
    <3>2. srv_peer <= srv_peer' /\ srv_peer' \in Nat \ {0} /\ srv_last' \in Nat \ {0}
          /\ srv_last <= srv_last'
      BY <1>0, <2>3, <3>1
    <3>3. \A n \in 1 .. srv_peer : n \in 1 .. srv_peer'  BY <1>0, <3>2
    <3>4. \A n \in 1 .. srv_last : n \in 1 .. srv_last'  BY <1>0, <3>2
    <3>5. \A d \in udp_down' : d.from \in 1 .. srv_last' /\ d.to \in 1 .. srv_peer'
      BY <1>0, <2>3, <3>2, <3>3, <3>4
    <3> QED  BY <1>0, <2>1, <3>3, <3>5
  <2> QED  BY <1>1, <2>2, <2>3, SrvTcpIs
<1>2. ASSUME SrvUdp \/ SrvUpdate  PROVE Datagrams'
  <2>1. UNCHANGED <<srv_peer, srv_last>> /\ udp_up' \subseteq udp_up  BY <1>2, SrvUdpIs
  <2>2. \A d \in udp_down' : d.from \in 1 .. srv_last /\ d.to \in 1 .. srv_peer
    <3>1. CASE UNCHANGED udp_down  BY <1>0, <3>1
    <3>2. CASE /\ srv_sock # 0
               /\ \E what \in {"SWITCH_VERIFY", "update"} :
                    udp_down' = udp_down \cup
                                  {[to |-> srv_peer, from |-> srv_sock, what |-> what]}
      <4>1. srv_sock \in 1 .. srv_last /\ srv_peer \in 1 .. srv_peer
        BY <1>0, <3>2 DEF Sockets
      <4> QED  BY <1>0, <3>2, <4>1
    <3> QED  BY <1>2, <3>1, <3>2, SrvUdpIs
  <2> QED  BY <1>0, <2>1, <2>2
<1>3. ASSUME UNCHANGED <<srv_peer, srv_last>>, udp_up' \subseteq udp_up,
             udp_down' \subseteq udp_down
      PROVE  Datagrams'
  BY <1>0, <1>3
<1>4. ASSUME ClTcp \/ ClUdp  PROVE Datagrams'
  <2>1. UNCHANGED <<srv_peer, srv_last>> /\ udp_down' \subseteq udp_down
    BY <1>4, ClientReads DEF srvVars
  <2>2. \/ udp_up' = udp_up
        \/ cl_peer # 0 /\ udp_up' = udp_up \cup {[to |-> cl_peer, from |-> cl_sock]}
    <3>1. ASSUME NEW what, HandleReply(what)
          PROVE  \/ udp_up' = udp_up
                 \/ cl_peer # 0 /\ udp_up' = udp_up \cup {[to |-> cl_peer, from |-> cl_sock]}
      BY <3>1, ReplyIs
    <3> QED  BY <1>4, <3>1, ClientReads
  <2>3. cl_peer # 0 => cl_sock \in 1 .. srv_peer  BY <1>0 DEF Sockets
  <2> QED  BY <1>0, <2>1, <2>2, <2>3
<1>5. ASSUME SrvSelect \/ SrvFlush \/ LoseDatagram  PROVE Datagrams'
  BY <1>3, <1>5 DEF SrvSelect, SrvFlush, LoseDatagram, srvVars
<1>6. ASSUME AskUdp \/ AskTcp \/ ForceReset \/ RecvTimeout \/ SwitchTimeout  PROVE Datagrams'
  BY <1>3, <1>6, AsksAre DEF srvVars
<1>7. ASSUME RecvUdpConn  PROVE Datagrams'
  BY <1>3, <1>7, RecvUdpConnIs DEF srvVars
<1> QED  BY <1>1, <1>2, <1>4, <1>5, <1>6, <1>7, ConnSteps

\* A datagram that verifies UDP comes from the socket that the client has now
\* only if it went to where that socket is connected to: sockets of the client
\* are opened in order, and one is connected only once.
LEMMA VerifiedStep ==
  ASSUME ConnIInv, ConnNext
  PROVE  Verified'
<1> USE DEF Verified
<1>0. /\ Verified /\ Sockets /\ Datagrams
      /\ srv_sock \in Nat /\ srv_peer \in Nat /\ cl_sock \in Nat /\ cl_peer \in Nat
      /\ srv_last \in Nat /\ cl_last \in Nat
  BY ConnTyped DEF ConnIInv
<1>1. ASSUME SrvTcp  PROVE Verified'
  BY <1>0, <1>1, SrvTcpIs DEF clVars
<1>2. ASSUME SrvUdp \/ SrvUpdate  PROVE Verified'
  <2>1. UNCHANGED <<srv_peer, cl_sock, cl_peer>> /\ udp_up' \subseteq udp_up
    BY <1>2, SrvUdpIs DEF clVars
  <2>2. CASE srv_mode' = "COMM_TCP"  BY <1>0, <2>1, <2>2
  <2>3. CASE UNCHANGED <<srv_mode, srv_sock>>  BY <1>0, <2>1, <2>3
  <2>4. CASE /\ UNCHANGED srv_sock
             /\ \E d \in udp_up : d.to = srv_sock /\ d.from = srv_peer
    BY <1>0, <2>1, <2>4
  <2>5. CASE srv_mode = "COMM_UDP" /\ UNCHANGED srv_sock  BY <1>0, <2>1, <2>5
  <2> QED  BY <1>2, <2>2, <2>3, <2>4, <2>5, SrvUdpIs
<1>3. ASSUME AskUdp  PROVE Verified'
  <2>1. UNCHANGED <<srv_mode, srv_sock, srv_peer, udp_up>>  BY <1>3, AsksAre DEF srvVars
  <2>2. CASE UNCHANGED <<cl_sock, cl_peer>>  BY <1>0, <2>1, <2>2
  <2>3. CASE cl_sock' = cl_last + 1
    <3>1. srv_peer < cl_sock' /\ \A d \in udp_up : d.from # cl_sock'
      BY <1>0, <2>3 DEF Sockets, Datagrams
    <3> QED  BY <1>0, <2>1, <3>1
  <2> QED  BY <1>3, <2>2, <2>3, AsksAre
<1>4. ASSUME cl_sock' = 0, UNCHANGED <<srv_mode, srv_sock, srv_peer, udp_up>>
      PROVE  Verified'
  <2>1. \A d \in udp_up : d.from # 0  BY <1>0 DEF Datagrams
  <2>2. srv_mode = "COMM_UDP" => srv_peer # 0  BY <1>0 DEF Sockets
  <2> QED  BY <1>4, <2>1, <2>2
<1>5. ASSUME UNCHANGED <<srv_mode, srv_sock, srv_peer, cl_sock, cl_peer>>,
             udp_up' \subseteq udp_up
      PROVE  Verified'
  BY <1>0, <1>5
<1>6. ASSUME RecvUdpConn  PROVE Verified'
  <2>1. UNCHANGED <<srv_mode, srv_sock, srv_peer, cl_sock, udp_up>>
    BY <1>6, RecvUdpConnIs DEF srvVars
  <2>2. CASE cl_peer = 0
    <3>1. \A d \in udp_up : d.from # cl_sock
      BY <1>0, <2>2 DEF Datagrams
    <3>2. ~(srv_mode = "COMM_UDP" /\ srv_peer = cl_sock)
      BY <1>0, <2>2 DEF Sockets
    <3> QED  BY <2>1, <3>1, <3>2
  <2>3. CASE cl_peer' = cl_peer  BY <1>5, <2>1, <2>3
  <2> QED  BY <1>6, <2>2, <2>3, RecvUdpConnIs
<1>7. ASSUME ClTcp \/ ClUdp  PROVE Verified'
  <2>1. UNCHANGED <<srv_mode, srv_sock, srv_peer>>  BY <1>7, ClientReads DEF srvVars
  <2>2. ASSUME NEW what, HandleReply(what)  PROVE Verified'
    <3>1. CASE cl_sock' = 0 /\ UNCHANGED udp_up  BY <1>4, <2>1, <3>1
    <3>2. CASE /\ udp_up' = udp_up \cup {[to |-> cl_peer, from |-> cl_sock]}
               /\ UNCHANGED <<cl_sock, cl_peer>>
      BY <1>0, <2>1, <3>2
    <3>3. CASE UNCHANGED <<cl_sock, cl_peer, udp_up>>  BY <1>5, <2>1, <3>3
    <3> QED  BY <2>2, <3>1, <3>2, <3>3, ReplyIs
  <2>3. CASE UNCHANGED <<cl_sock, cl_peer, udp_up>>  BY <1>5, <2>1, <2>3
  <2> QED  BY <1>7, <2>2, <2>3, ClientReads
<1>8. ASSUME SrvSelect \/ SrvFlush \/ LoseDatagram  PROVE Verified'
  BY <1>5, <1>8 DEF SrvSelect, SrvFlush, LoseDatagram, srvVars, clVars
<1>9. ASSUME ForceReset \/ SwitchTimeout  PROVE Verified'
  BY <1>4, <1>9, AsksAre DEF srvVars
<1>10. ASSUME AskTcp \/ RecvTimeout  PROVE Verified'
  BY <1>5, <1>10, AsksAre DEF srvVars
<1> QED  BY <1>1, <1>2, <1>3, <1>6, <1>7, <1>8, <1>9, <1>10, ConnSteps

-----------------------------------------------------------------------------
(* Replies on their way *)

\* A reply that is sent is the last one.
LEMMA RepliesGrow ==
  ASSUME NEW s \in Seq(Answers), NEW a \in Answers
  PROVE  /\ Append(s, a) \in Seq(Answers) /\ Append(s, a) # <<>>
         /\ Len(Append(s, a)) = Len(s) + 1 /\ Len(s) \in Nat
         /\ Append(s, a)[Len(Append(s, a))] = a
         /\ \A i \in 1 .. Len(Append(s, a)) :
              Append(s, a)[i] = a \/ (i \in 1 .. Len(s) /\ Append(s, a)[i] = s[i])
<1> DEFINE t == Append(s, a)
<1>1. /\ t \in Seq(Answers) /\ t # <<>> /\ Len(t) = Len(s) + 1 /\ t[Len(s) + 1] = a
      /\ \A i \in 1 .. Len(s) : t[i] = s[i]
  BY AppendProperties
<1>2. Len(s) \in Nat  OBVIOUS
<1> HIDE DEF t
<1>3. \A i \in 1 .. Len(t) : t[i] = a \/ (i \in 1 .. Len(s) /\ t[i] = s[i])
  BY <1>1, <1>2
<1>4. t[Len(t)] = a  BY <1>1
<1> QED  BY ONLY <1>1, <1>2, <1>3, <1>4 DEF t

\* Replies that are flushed follow those on their way.
LEMMA RepliesFlushed ==
  ASSUME NEW s \in Seq(Answers), NEW t \in Seq(Answers), t # <<>>
  PROVE  /\ s \o t \in Seq(Answers) /\ s \o t # <<>>
         /\ (s \o t)[Len(s \o t)] = t[Len(t)]
         /\ \A i \in 1 .. Len(s \o t) :
              \/ i \in 1 .. Len(s) /\ (s \o t)[i] = s[i]
              \/ i - Len(s) \in 1 .. Len(t) /\ (s \o t)[i] = t[i - Len(s)]
<1> DEFINE u == s \o t
<1>1. /\ u \in Seq(Answers) /\ Len(u) = Len(s) + Len(t)
      /\ \A i \in 1 .. Len(u) : u[i] = IF i <= Len(s) THEN s[i] ELSE t[i - Len(s)]
  BY ConcatProperties
<1>2. Len(s) \in Nat /\ Len(t) \in Nat \ {0}  BY EmptySeq
<1>3. Len(<<>>) = 0  OBVIOUS
<1> HIDE DEF u
<1>4. u # <<>>  BY <1>1, <1>2, <1>3
<1>5. u[Len(u)] = t[Len(t)]  BY <1>1, <1>2
<1>6. \A i \in 1 .. Len(u) :
        \/ i \in 1 .. Len(s) /\ u[i] = s[i]
        \/ i - Len(s) \in 1 .. Len(t) /\ u[i] = t[i - Len(s)]
  BY <1>1, <1>2
<1> QED  BY <1>1, <1>4, <1>5, <1>6 DEF u

\* A reply that is read was the first.
LEMMA RepliesShrink ==
  ASSUME NEW s \in Seq(Answers), s # <<>>
  PROVE  /\ Tail(s) \in Seq(Answers) /\ Head(s) = s[1] /\ Head(s) \in Answers
         /\ Len(s) \in Nat \ {0}
         /\ \A i \in 1 .. Len(Tail(s)) : i + 1 \in 1 .. Len(s) /\ Tail(s)[i] = s[i + 1]
         /\ Tail(s) # <<>> => Tail(s)[Len(Tail(s))] = s[Len(s)]
         /\ Tail(s) = <<>> => Len(s) = 1
<1> DEFINE t == Tail(s)
<1>1. /\ t \in Seq(Answers) /\ Len(t) = Len(s) - 1 /\ Len(s) \in Nat \ {0}
      /\ \A i \in 1 .. Len(t) : t[i] = s[i + 1]
  BY HeadTailProperties, EmptySeq
<1>2. Head(s) = s[1] /\ s[1] \in Answers  BY <1>1, ElementOfSeq
<1>3. Len(<<>>) = 0  OBVIOUS
<1>4. t # <<>> => Len(t) # 0  BY <1>1, EmptySeq
<1> HIDE DEF t
<1>5. \A i \in 1 .. Len(t) : i + 1 \in 1 .. Len(s) /\ t[i] = s[i + 1]  BY <1>1
<1>6. t # <<>> => t[Len(t)] = s[Len(s)]  BY <1>1, <1>4
<1>7. t = <<>> => Len(s) = 1  BY <1>1, <1>3
<1> QED  BY <1>1, <1>2, <1>5, <1>6, <1>7 DEF t

\* Nobody is denied where UDP is allowed, and nobody was granted it elsewhere.
LEMMA RefusedStep ==
  ASSUME ConnIInv, ConnNext
  PROVE  Refused'
<1> USE DEF Refused
<1>0. Refused /\ srv_out \in Seq(Answers) /\ down \in Seq(Answers)
  BY ConnTyped DEF ConnIInv
<1>1. ASSUME SrvTcp  PROVE Refused'
  <2>1. UNCHANGED <<down, allowed>>  BY <1>1, SrvTcpIs
  <2>2. CASE ~allowed  BY <1>0, <1>1, <2>1, <2>2, SrvTcpIs
  <2>3. CASE allowed
    <3>1. PICK a \in Answers : a # "SWITCH_DENIED" /\ srv_out' = Append(srv_out, a)
      BY <1>1, <2>3, SrvTcpIs, AnswersAre
    <3>2. \A i \in 1 .. Len(srv_out') :
            srv_out'[i] = a \/ (i \in 1 .. Len(srv_out) /\ srv_out'[i] = srv_out[i])
      BY <1>0, <3>1, RepliesGrow
    <3> QED  BY <1>0, <2>1, <2>3, <3>1, <3>2
  <2> QED  BY <2>2, <2>3
<1>2. ASSUME SrvFlush  PROVE Refused'
  <2>1. /\ srv_out # <<>> /\ down' = down \o srv_out /\ srv_out' = <<>>
        /\ UNCHANGED <<allowed, srv_last>>
    BY <1>2 DEF SrvFlush
  <2>2. \A i \in 1 .. Len(down') :
          \/ i \in 1 .. Len(down) /\ down'[i] = down[i]
          \/ i - Len(down) \in 1 .. Len(srv_out) /\ down'[i] = srv_out[i - Len(down)]
    BY <1>0, <2>1, RepliesFlushed
  <2>3. 1 .. Len(srv_out') = {}  BY <2>1
  <2> QED  BY <1>0, <2>1, <2>2, <2>3
<1>3. ASSUME ClTcp  PROVE Refused'
  <2>1. down # <<>> /\ down' = Tail(down) /\ UNCHANGED <<allowed, srv_last, srv_out>>
    BY <1>3 DEF ClTcp, srvVars
  <2>2. \A i \in 1 .. Len(down') : i + 1 \in 1 .. Len(down) /\ down'[i] = down[i + 1]
    BY <1>0, <2>1, RepliesShrink
  <2> QED  BY <1>0, <2>1, <2>2
<1>4. ASSUME UNCHANGED <<allowed, srv_last, srv_out, down>>  PROVE Refused'
  BY <1>0, <1>4
<1>5. ASSUME SrvUdp \/ SrvUpdate  PROVE Refused'  BY <1>4, <1>5, SrvUdpIs
<1>6. ASSUME AskUdp \/ AskTcp \/ ForceReset \/ RecvTimeout \/ SwitchTimeout  PROVE Refused'
  BY <1>4, <1>6, AsksAre DEF srvVars
<1>7. ASSUME SrvSelect \/ LoseDatagram \/ ClUdp \/ RecvUdpConn  PROVE Refused'
  BY <1>4, <1>7 DEF SrvSelect, LoseDatagram, ClUdp, RecvUdpConn, srvVars, clVars
<1> QED  BY <1>1, <1>2, <1>3, <1>5, <1>6, <1>7, ConnSteps

\* Making a request makes it the newest; a reply stands for the request that it
\* answers, wherever it is, and only the client takes it away.
LEMMA NewestIs ==
  ASSUME ConnIInv
  PROVE  /\ AskUdp => Newest' = "COMM_UDP"
         /\ AskTcp \/ RecvTimeout => Newest' = "COMM_TCP"
         /\ SrvTcp \/ SrvFlush => Newest' = Newest
         /\ ClTcp => /\ Newest # "none" /\ Head(down) \in Answers
                     /\ Newest' = Newest \/ (Newest' = "none" /\ Newest = Asked(Head(down)))
<1>0. up \in Seq(Request) /\ srv_out \in Seq(Answers) /\ down \in Seq(Answers)
  BY ConnTyped DEF ConnIInv
<1>1. ASSUME NEW e \in Request, up' = Append(up, e)  PROVE Newest' = e.ask
  <2>1. up' # <<>> /\ up'[Len(up')] = e  BY <1>0, <1>1, UpGrows
  <2> QED  BY <2>1 DEF Newest
<1>2. ASSUME AskUdp  PROVE Newest' = "COMM_UDP"
  <2>1. up' = Append(up, [ask |-> "COMM_UDP", port |-> cl_sock'])  BY <1>2, AsksAre
  <2>2. cl_sock' \in Nat  BY <1>2, ConnTyped DEF AskUdp, ConnIInv
  <2>3. [ask |-> "COMM_UDP", port |-> cl_sock'] \in Request  BY <2>2 DEF Request, Mode
  <2> QED  BY <1>1, <2>1, <2>3
<1>3. ASSUME AskTcp \/ RecvTimeout  PROVE Newest' = "COMM_TCP"
  <2>1. up' = Append(up, [ask |-> "COMM_TCP", port |-> 0])  BY <1>3, AsksAre
  <2>2. [ask |-> "COMM_TCP", port |-> 0] \in Request  BY DEF Request, Mode
  <2> QED  BY <1>1, <2>1, <2>2
<1>4. ASSUME SrvTcp  PROVE Newest' = Newest
  <2>1. up # <<>> /\ up' = Tail(up) /\ up[1] \in Request  BY <1>4, SrvTcpIs
  <2>2. /\ Tail(up) \in Seq(Request) /\ Len(Tail(up)) = Len(up) - 1 /\ Len(up) \in Nat \ {0}
        /\ \A i \in 1 .. Len(Tail(up)) : Tail(up)[i] = up[i + 1]
    BY <1>0, <2>1, UpShrinks
  <2>3. CASE up' # <<>>
    <3>1. Len(up') \in Nat /\ Len(up') # 0  BY <2>1, <2>2, <2>3, EmptySeq
    <3>2. up'[Len(up')] = up[Len(up)]  BY ONLY <2>1, <2>2, <3>1
    <3> QED  BY <2>1, <2>3, <3>2 DEF Newest
  <2>4. CASE up' = <<>>
    <3>1. Tail(up) = <<>>  BY <2>1, <2>4
    <3>2. Len(<<>>) = 0  OBVIOUS
    <3>3. Len(Tail(up)) = 0  BY ONLY <3>1, <3>2
    <3>4. Len(up) = 1  BY ONLY SMTT(30), <2>2, <3>3
    <3>5. PICK a \in Answers : srv_out' = Append(srv_out, a) /\ Asked(a) = up[1].ask
      BY <1>4, SrvTcpIs, AnswersAre DEF Asked
    <3>6. srv_out' # <<>> /\ srv_out'[Len(srv_out')] = a  BY <1>0, <3>5, RepliesGrow
    <3> QED  BY <2>1, <2>4, <3>4, <3>5, <3>6 DEF Newest, Asked
  <2> QED  BY <2>3, <2>4
<1>5. ASSUME SrvFlush  PROVE Newest' = Newest
  <2>1. /\ srv_out # <<>> /\ down' = down \o srv_out /\ srv_out' = <<>> /\ up' = up
    BY <1>5 DEF SrvFlush
  <2>2. down' # <<>> /\ down'[Len(down')] = srv_out[Len(srv_out)]
    BY <1>0, <2>1, RepliesFlushed
  <2> QED  BY <2>1, <2>2 DEF Newest, Asked
<1>6. ASSUME ClTcp
      PROVE  /\ Newest # "none" /\ Head(down) \in Answers
             /\ Newest' = Newest \/ (Newest' = "none" /\ Newest = Asked(Head(down)))
  <2>1. down # <<>> /\ down' = Tail(down) /\ up' = up /\ srv_out' = srv_out
    BY <1>6 DEF ClTcp, srvVars
  <2>2. /\ Head(down) = down[1] /\ Head(down) \in Answers
        /\ down' # <<>> => down'[Len(down')] = down[Len(down)]
        /\ down' = <<>> => Len(down) = 1
    BY <1>0, <2>1, RepliesShrink
  <2>3. Newest # "none"
    <3>1. up # <<>> => up[Len(up)].ask \in Mode
      <4> SUFFICES ASSUME up # <<>> PROVE up[Len(up)].ask \in Mode  OBVIOUS
      <4>1. Len(up) \in Nat \ {0}  BY <1>0, UpShrinks
      <4>2. Len(up) \in 1 .. Len(up)  BY <4>1
      <4>3. up[Len(up)] \in Request  BY <1>0, <4>2, ElementOfSeq
      <4> QED  BY <4>3 DEF Request
    <3> QED  BY <2>1, <3>1 DEF Newest, Asked, Mode
  <2> QED  BY <2>1, <2>2, <2>3 DEF Newest, Asked
<1> QED  BY <1>2, <1>3, <1>4, <1>5, <1>6

\* A client that wants UDP has not asked for TCP since, and is told of its
\* request or told to wait; one that is leaving UDP has its request answered.
LEMMA AwaitedStep ==
  ASSUME ConnIInv, ConnNext
  PROVE  Awaited'
<1> USE DEF Awaited, WantsUdp
<1>0. Awaited  BY DEF ConnIInv
<1>1. ASSUME UNCHANGED <<cl_mode, cl_req, cl_status, cl_timer>>, Newest' = Newest
      PROVE  Awaited'
  BY <1>0, <1>1
<1>2. ASSUME UNCHANGED <<up, srv_out, down>>  PROVE Newest' = Newest
  BY <1>2 DEF Newest, Asked
<1>3. ASSUME SrvTcp  PROVE Awaited'
  BY <1>1, <1>3, NewestIs, SrvTcpIs DEF clVars
<1>4. ASSUME SrvFlush  PROVE Awaited'
  BY <1>1, <1>4, NewestIs DEF SrvFlush, clVars
<1>5. ASSUME SrvUdp \/ SrvUpdate  PROVE Awaited'
  BY <1>1, <1>2, <1>5, SrvUdpIs DEF clVars
<1>6. ASSUME SrvSelect \/ LoseDatagram \/ RecvUdpConn  PROVE Awaited'
  BY <1>1, <1>2, <1>6 DEF SrvSelect, LoseDatagram, RecvUdpConn, srvVars, clVars
<1>7. ASSUME AskUdp  PROVE Awaited'
  <2>1. /\ cl_mode' = "COMM_TCP" /\ cl_req' = "COMM_UDP" /\ cl_status' = "STAT_SWITCH_UDP"
        /\ Newest' = "COMM_UDP"
    BY <1>7, AsksAre, NewestIs
  <2> QED  BY <2>1
<1>8. ASSUME AskTcp \/ RecvTimeout  PROVE Awaited'
  <2>1. /\ cl_req' = "COMM_TCP" /\ cl_status' # "STAT_VERIFY_UDP" /\ Newest' = "COMM_TCP"
    BY <1>8, AsksAre, NewestIs
  <2> QED  BY <2>1
<1>9. ASSUME ForceReset \/ SwitchTimeout  PROVE Awaited'
  <2>1. /\ cl_mode' = "COMM_TCP" /\ cl_req' = "COMM_TCP" /\ cl_status' = "STAT_CONNECTED"
    BY <1>9, AsksAre
  <2> QED  BY <2>1
<1>10. ASSUME ClTcp  PROVE Awaited'
  <2> DEFINE what == Head(down)
  <2>1. /\ HandleReply(what) /\ what \in Answers /\ Newest # "none"
        /\ Newest' = Newest \/ (Newest' = "none" /\ Newest = Asked(what))
    BY <1>10, NewestIs DEF ClTcp
  <2>2. what = "SWITCH_DENIED" => cl_mode = "COMM_TCP"
    <3>1. down # <<>> /\ down \in Seq(Answers)  BY <1>10, ConnTyped DEF ClTcp, ConnIInv
    <3>2. what = down[1] /\ 1 \in 1 .. Len(down)  BY <3>1, RepliesShrink
    <3>3. what = "SWITCH_DENIED" => ~allowed  BY <3>2 DEF ConnIInv, Refused
    <3> QED  BY <3>3, NotDenied
  <2>3. what \in {"SWITCH_TCP_OK", "SWITCH_UDP_OK", "SWITCH_DENIED"}  BY <2>1 DEF Answers
  <2> HIDE DEF what
  <2>4. CASE /\ what = "SWITCH_TCP_OK" /\ cl_mode = "COMM_UDP" /\ cl_mode' = "COMM_TCP"
             /\ cl_status' = "STAT_CONNECTED" /\ cl_req' = cl_req
    BY <1>0, <2>1, <2>4 DEF Asked
  <2>5. CASE /\ WantsUdp /\ cl_status' = "STAT_VERIFY_UDP" /\ cl_timer'
             /\ UNCHANGED <<cl_mode, cl_req>>
    BY <1>0, <2>1, <2>5
  <2>6. CASE /\ cl_mode' = "COMM_TCP" /\ cl_req' = "COMM_TCP" /\ cl_status' = "STAT_CONNECTED"
    BY <2>6
  <2>7. CASE /\ \/ what = "SWITCH_TCP_OK" /\ cl_mode = "COMM_TCP"
                \/ what = "SWITCH_UDP_OK" /\ ~WantsUdp
             /\ UNCHANGED <<cl_mode, cl_req, cl_status>>
    <3>1. CASE what = "SWITCH_TCP_OK" /\ cl_mode = "COMM_TCP"
      BY <1>0, <2>1, <2>7, <3>1 DEF Asked
    <3>2. CASE what = "SWITCH_UDP_OK" /\ ~WantsUdp
      BY <1>0, <2>1, <2>7, <3>2 DEF Asked
    <3> QED  BY <2>7, <3>1, <3>2
  <2> QED  BY <2>1, <2>2, <2>3, <2>4, <2>5, <2>6, <2>7, ReplyIs
<1>11. ASSUME ClUdp  PROVE Awaited'
  <2>1. Newest' = Newest  BY <1>2, <1>11 DEF ClUdp, srvVars
  <2>2. CASE /\ cl_status = "STAT_VERIFY_UDP" /\ cl_mode' = "COMM_UDP"
             /\ cl_status' = "STAT_CONNECTED" /\ cl_req' = cl_req
    BY <1>0, <2>1, <2>2
  <2>3. CASE UNCHANGED <<cl_mode, cl_req, cl_status, cl_timer>>  BY <1>1, <2>1, <2>3
  <2>4. ASSUME NEW what \in {"SWITCH_UDP_OK", "SWITCH_VERIFY"}, HandleReply(what),
               cl_status # "STAT_VERIFY_UDP"
        PROVE  Awaited'
    <3>1. CASE /\ WantsUdp /\ cl_status' = "STAT_VERIFY_UDP" /\ cl_timer'
               /\ UNCHANGED <<cl_mode, cl_req>>
      BY <1>0, <2>1, <3>1
    <3>2. CASE /\ cl_mode' = "COMM_TCP" /\ cl_req' = "COMM_TCP"
               /\ cl_status' = "STAT_CONNECTED"
      BY <3>2
    <3>3. CASE UNCHANGED <<cl_mode, cl_req, cl_status>>
      BY <1>0, <2>1, <2>4, <3>3
    <3> QED  BY <2>4, <3>1, <3>2, <3>3, ReplyIs
  <2>5. \A d \in ForClient : d.what \in {"SWITCH_UDP_OK", "SWITCH_VERIFY", "update"}
    BY DEF ConnIInv, ConnTypes, ToClient, ForClient
  <2> QED  BY <1>11, <2>2, <2>3, <2>4, <2>5 DEF ClUdp
<1> QED
  BY <1>3, <1>4, <1>5, <1>6, <1>7, <1>8, <1>9, <1>10, <1>11, ConnSteps

-----------------------------------------------------------------------------

\* What is proved of the connection follows from the inductive invariant.
LEMMA ConnImplied == ConnIInv => ConnInv
<1> SUFFICES ASSUME ConnIInv PROVE ConnInv  OBVIOUS
<1>0. /\ ConnTypes /\ Opened /\ Sockets /\ Verified /\ Awaited
      /\ srv_sock \in Nat /\ srv_peer \in Nat /\ cl_sock \in Nat /\ cl_peer \in Nat
      /\ srv_last \in Nat /\ cl_last \in Nat /\ asks \in Nat /\ MaxAsks \in Nat
      /\ Cardinality(UdpRequests(up)) \in Nat
  BY ConnTyped DEF ConnIInv
<1>1. ConnTypeOK
  <2>1. srv_last <= asks /\ cl_last <= asks /\ asks <= MaxAsks
    BY <1>0 DEF Opened, ConnTypes
  <2>2. {srv_sock, srv_peer, cl_sock, cl_peer, srv_last, cl_last} \subseteq 0 .. MaxAsks
    BY <1>0, <2>1 DEF Sockets
  <2> QED  BY <1>0, <2>2 DEF ConnTypes, ConnTypeOK
<1>2. SocketsMatch  BY <1>0 DEF Sockets, SocketsMatch
<1>3. RepliesByTcp  BY <1>0 DEF ConnTypes, ToClient, RepliesByTcp
<1>4. WaitsForSomething
  BY <1>0 DEF WaitsForSomething, Awaited, WantsUdp, ConnTypes, Mode, Newest
<1>5. SameWire
  BY <1>0 DEF SameWire, Sockets, Verified
<1> QED  BY <1>1, <1>2, <1>3, <1>4, <1>5 DEF ConnInv

\* Nothing of the invariant changes while the connection does not.
LEMMA ConnStutters == ConnIInv /\ UNCHANGED connVars => ConnIInv'
<1> SUFFICES ASSUME ConnIInv, UNCHANGED connVars PROVE ConnIInv'  OBVIOUS
<1> USE DEF connVars, srvVars, clVars
<1>1. ConnTypes' /\ Refused'  BY DEF ConnIInv, ConnTypes, Refused
<1>2. Opened' /\ Sockets'  BY DEF ConnIInv, Opened, Sockets, UdpRequests
<1>3. Ports' /\ Datagrams' /\ Verified'
  BY DEF ConnIInv, Ports, Datagrams, Verified, UdpRequests
<1>4. Awaited'  BY DEF ConnIInv, Awaited, WantsUdp, Newest, Asked
<1> QED  BY <1>1, <1>2, <1>3, <1>4 DEF ConnIInv

\* However often the user asks for UDP or takes it back, whatever the network
\* does to datagrams and whenever the timeouts fire: both sides have the sockets
\* that their modes need, connected to each other, replies are sent by TCP, and
\* a client that refuses another request has an answer to come.
THEOREM ConnHolds == ConnSpec => []ConnInv
<1>1. ConnInit => ConnIInv  BY ConnFirst
<1>2. ConnIInv /\ [ConnNext]_connVars => ConnIInv'
  <2> SUFFICES ASSUME ConnIInv, ConnNext PROVE ConnIInv'  BY ConnStutters
  <2>1. /\ ConnTypes' /\ Opened' /\ Sockets' /\ Ports' /\ Datagrams' /\ Verified'
        /\ Refused' /\ Awaited'
    BY ConnTypesStep, OpenedStep, SocketsStep, PortsStep, DatagramsStep, VerifiedStep,
       RefusedStep, AwaitedStep
  <2> QED  BY <2>1 DEF ConnIInv
<1> QED  BY <1>1, <1>2, ConnImplied, PTL DEF ConnSpec
=============================================================================
