---------------------------- MODULE SlotsHistory ----------------------------
(***************************************************************************)
(* Slots with a history variable: which processes have had the slot they   *)
(* hold freed by somebody else.  It restricts no step of Slots.  The       *)
(* daemon frees a running process's slot when the game is paused           *)
(* (udplayers_pause()) or when the slot names nobody because the           *)
(* freeslot() of an earlier process stored p_process = 0 late; a process   *)
(* that has lost its slot frees it once more when it ends.                 *)
(***************************************************************************)
EXTENDS Slots

VARIABLE evicted     \* the processes whose slot another freeslot() freed

hvars == <<vars, evicted>>

HTypeOK == TypeOK /\ evicted \subseteq Proc

\* Actor a stores PFREE in this step.
Marks(a) == At(a, "fmark") /\ pc'[a] = "finc"

HInit == Init /\ evicted = {}

HNext ==
  /\ Next
  /\ evicted' = evicted \cup {p \in Proc : /\ Holding(p)
                                         /\ \E a \in Actor \ {p} : Marks(a) /\ me[a] = me[p]}

HSpec == HInit /\ [][HNext]_hvars

-----------------------------------------------------------------------------
(* Properties *)

\* pickslot() never gives one slot to two processes: when two hold the same, one
\* of them has had it freed by somebody else since it claimed it (a pause, a
\* late freeslot(), or a process that itself had lost it).
SlotExclusive ==
  \A p, q \in Proc :
    p # q /\ Holding(p) /\ Holding(q) /\ me[p] = me[q] => {p, q} \cap evicted # {}

\* The slot of a process that nobody has freed is not PFREE, and p_process names
\* the process, nobody (an earlier freeslot() cleared it late, or it is not yet
\* recorded) or one that was itself evicted, whatever was killed on the way:
\* signal_servers() and udplayers_poutfit() never take it for another's.
SessionOwnsSlot ==
  \A p \in Proc \ evicted :
    /\ Holding(p) => p_status[me[p]] # "PFREE"
    /\ Holding(p) /\ ~At(p, "setup") => p_process[me[p]] \in {p, Free} \cup evicted
=============================================================================
