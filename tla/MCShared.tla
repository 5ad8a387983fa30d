------------------------------ MODULE MCShared ------------------------------
(***************************************************************************)
(* What processes and the daemon write in shared memory without a lock,    *)
(* for TLC: the message rings, in calls one after another, and torps[],    *)
(* with every race open.  They share no variable, so a behaviour is one of *)
(* one of them: "part" says which, and stays.                              *)
(***************************************************************************)
EXTENDS MessageRing, Torps

VARIABLE part

\* Players v and w and readers a and b; a message of w ejects a.
TwoPlayers  == {"v", "w"}
TwoReaders  == {"a", "b"}
RingsVW     == <<"v", "w">>
PlayerRings == [x \in TwoPlayers |-> x]
SendVW      == [x \in TwoPlayers |-> IF x = "v" THEN 3 ELSE 2]

sharedVars == <<ringVars, vars, part>>

SharedInit == part \in {"messages", "torps"} /\ RingInit /\ Init

SharedNext ==
  /\ UNCHANGED part
  /\ \/ part = "messages" /\ RingNext /\ UNCHANGED vars
     \/ part = "torps" /\ Next /\ UNCHANGED ringVars

\* RingFair, and of the fairness of Torps that of the daemon, which is all that
\* a slot needs to become free.
SharedFair ==
  /\ SF_ringVars(part = "messages" /\ Tick)
  /\ WF_ringVars(part = "messages" /\ Requeue)
  /\ \A w \in Writer : WF_ringVars(part = "messages" /\ Writing(w))
  /\ \A x \in Reader : WF_ringVars(part = "messages" /\ Reading(x))
  /\ WF_vars(part = "torps" /\ Udtorps)
  /\ \A s \in Slot : SF_vars(part = "torps" /\ dt = s /\ UdOut)

SharedSpec == SharedInit /\ [][SharedNext]_sharedVars /\ SharedFair
=============================================================================
