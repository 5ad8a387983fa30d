----------------------------- MODULE WaitQueue -----------------------------
(***************************************************************************)
(* The waiting line of one player queue: the doubly linked list threaded   *)
(* through waiting[] in shared memory (ntserv/queue.c), the ntserv         *)
(* processes that stand in it (findslot.c) and the daemon that removes     *)
(* dead ones (queues_purge()).  One action is one statement; a lock        *)
(* protects only the choice of an entry, so the statements of two calls    *)
(* may interleave.  pickslot() is one step here; Slots has its detail.     *)
(***************************************************************************)
EXTENDS Integers, Sequences, FiniteSets

CONSTANTS
  Proc,        \* ntserv processes
  Daemon,
  None,        \* process 0
  MaxWaiting,  \* MAXWAITING
  NSlots,      \* slots of the queue
  Overlap,     \* two calls on the list may interleave
  KillAnywhere \* a process may be killed inside a call, not only between two

ASSUME WaitQueueAssumption ==
  /\ Daemon \notin Proc /\ None \notin Proc \cup {Daemon}
  /\ MaxWaiting \in Nat \ {0} /\ NSlots \in Nat
  /\ Overlap \in BOOLEAN /\ KillAnywhere \in BOOLEAN

Entry == 0 .. MaxWaiting - 1
Nil   == -1
Actor == Proc \cup {Daemon}

AddPC  == {"lock", "find", "mark", "test", "first", "link", "back", "last", "fill",
           "name"}
ExitPC == {"exit", "front", "rear", "clear", "drop", "free", "upd0", "upd", "updEnd"}
PurgePC == {"purge", "probe"}
PC == {"arrive", "try", "wait", "in", "gone", "killed", "idle"}
        \cup AddPC \cup ExitPC \cup PurgePC

VARIABLES
  inuse, next, previous, process, count,   \* waiting[]
  named,                                   \* its w_queue is a queue, not -1
  first, last, qcount,                     \* queues[q]
  lock,      \* holder of LOCK_QUEUE_ADD
  slots,     \* how many times pickslot() can still succeed
  others,    \* slots taken by players that came earlier
  pc, mywait,
  cur,       \* currentindex of queue_update()
  pnext,     \* next of queues_purge()
  n,         \* lcount of queue_update()
  killcount, \* killcount of queues_purge()
  after,     \* where queue_exit() returns to
  wild,      \* a store went to waiting[-1]
  owner      \* auxiliary: who took the entry last

list == <<inuse, next, previous, process, count, named, first, last, qcount>>
vars == <<list, lock, slots, others, pc, mywait, cur, n, pnext, killcount, after, wild, owner>>
local == <<others, mywait, cur, n, pnext, killcount, after, owner>>

TypeOK ==
  /\ inuse \in [Entry -> BOOLEAN]
  /\ next \in [Entry -> Entry \cup {Nil}]
  /\ previous \in [Entry -> Entry \cup {Nil}]
  /\ process \in [Entry -> Proc \cup {None}]
  /\ count \in [Entry -> -1 .. MaxWaiting]
  /\ named \in [Entry -> BOOLEAN]
  /\ first \in Entry \cup {Nil} /\ last \in Entry \cup {Nil}
  /\ qcount \in 0 .. MaxWaiting
  /\ lock \in Proc \cup {None}
  /\ slots \in 0 .. NSlots /\ others \in 0 .. NSlots
  /\ pc \in [Actor -> PC]
  /\ mywait \in [Actor -> Entry \cup {Nil}]
  /\ cur \in [Actor -> Entry \cup {Nil}]
  /\ n \in [Actor -> 0 .. MaxWaiting]
  /\ pnext \in Entry \cup {Nil}
  /\ killcount \in 0 .. MaxWaiting
  /\ after \in [Actor -> {"in", "gone", "purge"}]
  /\ wild \in BOOLEAN
  /\ owner \in [Entry -> Proc \cup {None}]

Init ==
  /\ inuse = [w \in Entry |-> FALSE]
  /\ next = [w \in Entry |-> Nil]
  /\ previous = [w \in Entry |-> Nil]
  /\ process = [w \in Entry |-> None]
  /\ count = [w \in Entry |-> -1]
  /\ named = [w \in Entry |-> FALSE]
  /\ first = Nil /\ last = Nil /\ qcount = 0
  /\ lock = None
  /\ others \in 0 .. NSlots /\ slots = NSlots - others
  /\ pc = [x \in Actor |-> IF x = Daemon THEN "idle" ELSE "arrive"]
  /\ mywait = [x \in Actor |-> Nil]
  /\ cur = [x \in Actor |-> Nil]
  /\ n = [x \in Actor |-> 0]
  /\ pnext = Nil
  /\ killcount = 0
  /\ after = [x \in Actor |-> "gone"]
  /\ wild = FALSE
  /\ owner = [w \in Entry |-> None]

Goto(x, l) == pc' = [pc EXCEPT ![x] = l]
Dead       == {p \in Proc : pc[p] \in {"killed", "gone"}}

\* Nobody else is inside a call on the list, unless calls may overlap.
MayCall(x) ==
  Overlap \/ \A y \in Actor \ {x} : pc[y] \notin AddPC \cup ExitPC \cup PurgePC

-----------------------------------------------------------------------------
(* queue_add() *)

\* Mutant: nothing keeps two processes from choosing an entry together.
LockOnBroken(p) ==
  /\ pc[p] = "lock"
  /\ lock' = p
  /\ Goto(p, "find")
  /\ UNCHANGED <<list, slots, local, wild>>

LockOn(p) ==
  /\ pc[p] = "lock" /\ lock = None
  /\ lock' = p
  /\ Goto(p, "find")
  /\ UNCHANGED <<list, slots, local, wild>>

\* The scan for the first entry not in use; the queue may be full.
Find(p) ==
  /\ pc[p] = "find"
  /\ LET idle == {w \in Entry : ~inuse[w]} IN
     \/ /\ idle = {}
        /\ lock' = None
        /\ Goto(p, "gone")
        /\ UNCHANGED mywait
     \/ \E w \in idle :
        /\ \A v \in idle : w <= v
        /\ mywait' = [mywait EXCEPT ![p] = w]
        /\ Goto(p, "mark")
        /\ UNCHANGED lock
  /\ UNCHANGED <<list, slots, others, cur, n, pnext, killcount, after, wild, owner>>

\* waiting[i].inuse = 1; lock_off().
Mark(p) ==
  /\ pc[p] = "mark"
  /\ inuse' = [inuse EXCEPT ![mywait[p]] = TRUE]
  /\ owner' = [owner EXCEPT ![mywait[p]] = p]
  /\ lock' = None
  /\ Goto(p, "test")
  /\ UNCHANGED <<next, previous, process, count, named, first, last, qcount,
                 slots, others, mywait, cur, n, pnext, killcount, after, wild>>

\* if (lqueue->first == -1)
TestFirst(p) ==
  /\ pc[p] = "test"
  /\ Goto(p, IF first = Nil THEN "first" ELSE "link")
  /\ UNCHANGED <<list, lock, slots, local, wild>>

SetFirst(p) ==
  /\ pc[p] = "first"
  /\ first' = mywait[p]
  /\ Goto(p, "last")
  /\ UNCHANGED <<inuse, next, previous, process, named, count, last, qcount,
                 lock, slots, local, wild>>

\* waiting[lqueue->last].next = i, a store outside the array if last is -1.
Link(p) ==
  /\ pc[p] = "link"
  /\ \/ last # Nil /\ next' = [next EXCEPT ![last] = mywait[p]] /\ UNCHANGED wild
     \/ last = Nil /\ wild' = TRUE /\ UNCHANGED next
  /\ Goto(p, "back")
  /\ UNCHANGED <<inuse, previous, process, named, count, first, last, qcount,
                 lock, slots, local>>

LinkBack(p) ==
  /\ pc[p] = "back"
  /\ previous' = [previous EXCEPT ![mywait[p]] = last]
  /\ Goto(p, "last")
  /\ UNCHANGED <<inuse, next, process, named, count, first, last, qcount,
                 lock, slots, local, wild>>

SetLast(p) ==
  /\ pc[p] = "last"
  /\ last' = mywait[p]
  /\ next' = [next EXCEPT ![mywait[p]] = Nil]
  /\ Goto(p, "fill")
  /\ UNCHANGED <<inuse, previous, process, named, count, first, qcount,
                 lock, slots, local, wild>>

\* Mutant: the pid is not stored.
FillNoPid(p) ==
  /\ pc[p] = "fill"
  /\ count' = [count EXCEPT ![mywait[p]] = qcount]
  /\ qcount' = IF qcount < MaxWaiting THEN qcount + 1 ELSE qcount
  /\ Goto(p, "name")
  /\ UNCHANGED <<inuse, next, previous, process, named, first, last, lock, slots,
                 local, wild>>

\* lwait->count = lqueue->count++; lwait->process = getpid().  Overlapping calls
\* can make the counter run away; MaxWaiting caps it here.
Fill(p) ==
  /\ pc[p] = "fill"
  /\ count' = [count EXCEPT ![mywait[p]] = qcount]
  /\ qcount' = IF qcount < MaxWaiting THEN qcount + 1 ELSE qcount
  /\ process' = [process EXCEPT ![mywait[p]] = p]
  /\ Goto(p, "name")
  /\ UNCHANGED <<inuse, next, previous, named, first, last, lock, slots, local, wild>>

\* lwait->w_queue = w_queue; queue_add() returns to findslot().
Name(p) ==
  /\ pc[p] = "name"
  /\ named' = [named EXCEPT ![mywait[p]] = TRUE]
  /\ Goto(p, "wait")
  /\ UNCHANGED <<inuse, next, previous, process, count, first, last, qcount,
                 lock, slots, local, wild>>

-----------------------------------------------------------------------------
(* queue_exit(mywait[x]) and the queue_update() that ends it *)

CallExit(x, w, back) ==
  /\ mywait' = [mywait EXCEPT ![x] = w]
  /\ after' = [after EXCEPT ![x] = back]
  /\ Goto(x, "exit")

\* An entry that is in no queue is left alone.
ExitNamed(x) ==
  /\ pc[x] = "exit"
  /\ Goto(x, IF named[mywait[x]] THEN "front" ELSE after[x])
  /\ UNCHANGED <<list, lock, slots, local, wild>>

UnlinkFront(x) ==
  /\ pc[x] = "front"
  /\ LET w == mywait[x] IN
     \/ previous[w] = Nil /\ first' = next[w] /\ UNCHANGED next
     \/ /\ previous[w] # Nil
        /\ next' = [next EXCEPT ![previous[w]] = next[w]]
        /\ UNCHANGED first
  /\ Goto(x, "rear")
  /\ UNCHANGED <<inuse, previous, process, named, count, last, qcount,
                 lock, slots, local, wild>>

\* Mutant: the end of the line is not moved back when the last one leaves.
UnlinkRearForgets(x) ==
  /\ pc[x] = "rear"
  /\ LET w == mywait[x] IN
     previous' = IF next[w] = Nil THEN previous
                 ELSE [previous EXCEPT ![next[w]] = previous[w]]
  /\ Goto(x, "clear")
  /\ UNCHANGED <<inuse, next, process, named, count, first, last, qcount,
                 lock, slots, local, wild>>

UnlinkRear(x) ==
  /\ pc[x] = "rear"
  /\ LET w == mywait[x] IN
     \/ next[w] = Nil /\ last' = previous[w] /\ UNCHANGED previous
     \/ /\ next[w] # Nil
        /\ previous' = [previous EXCEPT ![next[w]] = previous[w]]
        /\ UNCHANGED last
  /\ Goto(x, "clear")
  /\ UNCHANGED <<inuse, next, process, named, count, first, qcount,
                 lock, slots, local, wild>>

\* "Clear the lwait for redundancy".
Clear(x) ==
  /\ pc[x] = "clear"
  /\ previous' = [previous EXCEPT ![mywait[x]] = Nil]
  /\ next' = [next EXCEPT ![mywait[x]] = Nil]
  /\ count' = [count EXCEPT ![mywait[x]] = -1]
  /\ named' = [named EXCEPT ![mywait[x]] = FALSE]
  /\ Goto(x, "drop")
  /\ UNCHANGED <<inuse, process, first, last, qcount, lock, slots, local, wild>>

Drop(x) ==
  /\ pc[x] = "drop"
  /\ process' = [process EXCEPT ![mywait[x]] = None]
  /\ Goto(x, "free")
  /\ UNCHANGED <<inuse, next, previous, count, named, first, last, qcount,
                 lock, slots, local, wild>>

Free(x) ==
  /\ pc[x] = "free"
  /\ inuse' = [inuse EXCEPT ![mywait[x]] = FALSE]
  /\ Goto(x, "upd0")
  /\ UNCHANGED <<next, previous, process, count, named, first, last, qcount,
                 lock, slots, local, wild>>

UpdateStart(x) ==
  /\ pc[x] = "upd0"
  /\ cur' = [cur EXCEPT ![x] = first]
  /\ n' = [n EXCEPT ![x] = 0]
  /\ Goto(x, "upd")
  /\ UNCHANGED <<list, lock, slots, others, mywait, pnext, killcount, after, wild, owner>>

\* One round of the walk: it breaks off, with an ERROR, at a bad element.
BadElement(x) ==
  n[x] >= MaxWaiting \/ ~inuse[cur[x]] \/ process[cur[x]] = None

UpdateWalk(x) ==
  /\ pc[x] = "upd"
  /\ IF cur[x] = Nil \/ BadElement(x)
     THEN Goto(x, "updEnd") /\ UNCHANGED <<count, cur, n>>
     ELSE /\ count' = [count EXCEPT ![cur[x]] = n[x]]
          /\ n' = [n EXCEPT ![x] = @ + 1]
          /\ cur' = [cur EXCEPT ![x] = next[cur[x]]]
          /\ UNCHANGED pc
  /\ UNCHANGED <<inuse, next, previous, process, named, first, last, qcount,
                 lock, slots, others, mywait, pnext, killcount, after, wild, owner>>

UpdateEnd(x) ==
  /\ pc[x] = "updEnd"
  /\ qcount' = n[x]
  /\ n' = [n EXCEPT ![x] = 0]
  /\ cur' = [cur EXCEPT ![x] = Nil]
  /\ mywait' = [mywait EXCEPT ![x] = Nil]
  /\ Goto(x, after[x])
  /\ UNCHANGED <<inuse, next, previous, process, named, count, first, last,
                 lock, slots, others, pnext, killcount, after, wild, owner>>

-----------------------------------------------------------------------------
(* findslot() *)

\* Mutant: the newcomer tries for a slot whether or not anyone is waiting.
ArriveBarges(p) ==
  /\ pc[p] = "arrive" /\ MayCall(p)
  /\ Goto(p, "try")
  /\ UNCHANGED <<list, lock, slots, local, wild>>

\* "If no one is waiting, I will try to enter now"
Arrive(p) ==
  /\ pc[p] = "arrive" /\ MayCall(p)
  /\ Goto(p, IF first = Nil THEN "try" ELSE "lock")
  /\ UNCHANGED <<list, lock, slots, local, wild>>

TryEnter(p) ==
  /\ pc[p] = "try" /\ MayCall(p)
  /\ \/ slots > 0 /\ slots' = slots - 1 /\ Goto(p, "in")
     \/ slots = 0 /\ Goto(p, "lock") /\ UNCHANGED slots
  /\ UNCHANGED <<list, lock, local, wild>>

\* The wait loop: the pid check, then "If we are first in line, check for a
\* free slot".  The other outcome of the pid check is never reached (NeverLost).
WaitServed(p) ==
  /\ pc[p] = "wait" /\ MayCall(p)
  /\ process[mywait[p]] = p
  /\ mywait[p] = first
  /\ slots > 0
  /\ slots' = slots - 1
  /\ CallExit(p, mywait[p], "in")
  /\ UNCHANGED <<list, lock, others, cur, n, pnext, killcount, wild, owner>>

\* The client is dead or the game is down: queue_exit() and out.
WaitGivesUp(p) ==
  /\ pc[p] = "wait" /\ MayCall(p)
  /\ CallExit(p, mywait[p], "gone")
  /\ UNCHANGED <<list, lock, slots, others, cur, n, pnext, killcount, wild, owner>>

OtherLeaves ==
  /\ others > 0
  /\ others' = others - 1
  /\ slots' = slots + 1
  /\ UNCHANGED <<list, lock, pc, mywait, cur, n, pnext, killcount, after, wild, owner>>

\* Mutant: the slot is not given back.
LeaveGameLeaks(p) ==
  /\ pc[p] = "in"
  /\ Goto(p, "gone")
  /\ UNCHANGED <<list, lock, slots, local, wild>>

\* The player leaves the game: freeslot().
LeaveGame(p) ==
  /\ pc[p] = "in"
  /\ slots' = slots + 1
  /\ Goto(p, "gone")
  /\ UNCHANGED <<list, lock, local, wild>>

Kill(p) ==
  /\ pc[p] = "wait" \/ (KillAnywhere /\ pc[p] \in AddPC \cup ExitPC)
  /\ lock' = IF lock = p THEN None ELSE lock
  /\ Goto(p, "killed")
  /\ UNCHANGED <<list, slots, local, wild>>

-----------------------------------------------------------------------------
(* queues_purge(), by the daemon *)

PurgeStart ==
  /\ pc[Daemon] = "idle" /\ MayCall(Daemon)
  /\ pnext' = first
  /\ killcount' = 0
  /\ Goto(Daemon, "purge")
  /\ UNCHANGED <<list, lock, slots, others, mywait, cur, n, after, wild, owner>>

\* The head of the loop: the end, too many rounds, or a bad element, at which
\* the loop comes round again to the same element.
PurgeLoop ==
  /\ pc[Daemon] = "purge"
  /\ IF pnext = Nil \/ killcount >= MaxWaiting
     THEN Goto(Daemon, "idle") /\ UNCHANGED killcount
     ELSE /\ killcount' = killcount + 1
          /\ Goto(Daemon, IF ~inuse[pnext] \/ process[pnext] = None
                          THEN "purge" ELSE "probe")
  /\ UNCHANGED <<list, lock, slots, others, mywait, cur, n, pnext, after, wild, owner>>

\* Mutant: the dead process is logged and left in line.
PurgeProbeLeaves ==
  /\ pc[Daemon] = "probe"
  /\ pnext' = next[pnext]
  /\ Goto(Daemon, "purge")
  /\ UNCHANGED <<list, lock, slots, others, mywait, cur, n, killcount, after, wild, owner>>

\* next = lwait->next; then kill(process, 0), and queue_exit() on ESRCH.
PurgeProbe ==
  /\ pc[Daemon] = "probe"
  /\ pnext' = next[pnext]
  /\ \/ process[pnext] \in Dead /\ CallExit(Daemon, pnext, "purge")
     \/ /\ process[pnext] \notin Dead
        /\ Goto(Daemon, "purge")
        /\ UNCHANGED <<mywait, after>>
  /\ UNCHANGED <<list, lock, slots, others, cur, n, killcount, wild, owner>>

-----------------------------------------------------------------------------
Add(p) ==
  \/ LockOn(p) \/ Find(p) \/ Mark(p) \/ TestFirst(p) \/ SetFirst(p)
  \/ Link(p) \/ LinkBack(p) \/ SetLast(p) \/ Fill(p) \/ Name(p)

Exit(x) ==
  \/ ExitNamed(x) \/ UnlinkFront(x) \/ UnlinkRear(x) \/ Clear(x) \/ Drop(x)
  \/ Free(x) \/ UpdateStart(x) \/ UpdateWalk(x) \/ UpdateEnd(x)

\* What p does of its own accord while its client stays.
Run(p) ==
  \/ Arrive(p) \/ TryEnter(p) \/ Add(p) \/ Exit(p)
  \/ WaitServed(p) \/ LeaveGame(p)

Purge == PurgeStart \/ PurgeLoop \/ PurgeProbe \/ Exit(Daemon)

Next ==
  \/ \E p \in Proc : Run(p) \/ WaitGivesUp(p) \/ Kill(p)
  \/ Purge
  \/ OtherLeaves

\* Every process and the daemon keep running; a session ends at some time.
Fairness ==
  WF_vars(Purge) /\ WF_vars(OtherLeaves) /\ \A p \in Proc : SF_vars(Run(p))

Spec == Init /\ [][Next]_vars
LiveSpec == Spec /\ Fairness

-----------------------------------------------------------------------------
(* Properties *)

\* The entries met from w by `next', at most k of them.
Walk[k \in 0 .. MaxWaiting] ==
  [w \in Entry \cup {Nil} |->
     IF w = Nil \/ k = 0 THEN <<>> ELSE <<w>> \o Walk[k - 1][next[w]]]
Line == Walk[MaxWaiting][first]

\* The program counters at which x has an entry of its own.
Holding == (AddPC \ {"lock", "find", "mark"}) \cup {"wait"}
             \cup {"exit", "front", "rear", "clear", "drop", "free"}

\* No two callers ever work on the same entry, whatever the interleaving of
\* queue_add(), queue_exit() and queues_purge() and whoever is killed where:
\* the one lock and the pid stored in the entry are enough for that.
EntryExclusive ==
  \A x, y \in Actor :
    x # y /\ pc[x] \in Holding /\ pc[y] \in Holding => mywait[x] # mywait[y]

\* findslot()'s check "process lost its waitq entry!" never fires: a process
\* in the wait loop finds its own pid in its entry, although the daemon purges
\* entries and links may be broken.
NeverLost ==
  \A p \in Proc : pc[p] = "wait" =>
    inuse[mywait[p]] /\ process[mywait[p]] = p

Quiet == \A x \in Actor : pc[x] \notin AddPC \cup ExitPC \cup PurgePC

\* When calls do not overlap, between two calls the list of queue.c is a
\* doubly linked list of exactly the entries in use, last is its end, and
\* each entry's count, the position that its client is shown, is the number
\* of entries ahead of it (queue_update(), queue_add()).
ListWhole ==
  Quiet =>
    /\ {Line[k] : k \in 1 .. Len(Line)} = {w \in Entry : inuse[w]}
    /\ Len(Line) = Cardinality({w \in Entry : inuse[w]}) /\ qcount = Len(Line)
    /\ last = IF Line = <<>> THEN Nil ELSE Line[Len(Line)]
    /\ \A k \in 1 .. Len(Line) :
         /\ previous[Line[k]] = IF k = 1 THEN Nil ELSE Line[k - 1]
         /\ count[Line[k]] = k - 1

\* What queue_add(), queue_exit() and queues_purge() store stays in waiting[], and
\* makes one whole list.
QueueInv ==
  TypeOK /\ ListWhole

\* "Remove dead processes from the queue" (queue.c:358-360): the entry of a
\* killed process does not stay in use.
DeadRemoved ==
  \A p \in Proc :
    pc[p] = "killed" ~> \A w \in Entry : owner[w] = p => ~inuse[w]

\* A process that stands in line enters the game unless its client goes away
\* or it is killed: slots come free, those ahead of it leave the line and a
\* dead one ahead of it is purged.
WaiterServed ==
  \A p \in Proc : pc[p] = "wait" ~> pc[p] \in {"in", "gone", "killed"}

\* Without overlapping calls the line is served in the order of arrival.
FQ == INSTANCE FairQueue WITH
        line   <- [k \in 1 .. Len(Line) |-> owner[Line[k]]],
        saw    <- {p \in Proc : pc[p] = "try"},
        inside <- {p \in Proc : pc[p] = "in"
                     \/ (pc[p] \in ExitPC /\ after[p] = "in")}

\* The linked list of queue.c and the wait loop of findslot() implement a
\* first-come first-served line.
Fair == FQ!FQSpec
=============================================================================
