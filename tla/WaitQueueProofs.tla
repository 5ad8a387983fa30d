-------------------------- MODULE WaitQueueProofs --------------------------
(***************************************************************************)
(* For any number of processes, entries and slots.  With calls overlapping *)
(* in any way and processes killed anywhere: no two callers work on one    *)
(* entry of waiting[], and a process in the wait loop never loses its own. *)
(* With calls that do not overlap and no process killed inside one: the    *)
(* line is one whole list, and it is a first-come first-served line.       *)
(***************************************************************************)
EXTENDS WaitQueue, TLAPS, FiniteSetTheorems, FunctionTheorems, SequenceTheorems

\* Where an index of the queue may point.
EntryOrNil == Entry \cup {Nil}

\* The part of the type invariant that the argument needs.
Typed ==
  /\ inuse \in [Entry -> BOOLEAN]
  /\ named \in [Entry -> BOOLEAN]
  /\ next \in [Entry -> EntryOrNil]
  /\ previous \in [Entry -> EntryOrNil]
  /\ process \in [Entry -> Proc \cup {None}]
  /\ owner \in [Entry -> Proc \cup {None}]
  /\ first \in EntryOrNil /\ last \in EntryOrNil /\ pnext \in EntryOrNil
  /\ lock \in Proc \cup {None}
  /\ pc \in [Actor -> PC]
  /\ mywait \in [Actor -> EntryOrNil]
  /\ after \in [Actor -> {"in", "gone", "purge"}]

\* The steps at which a process works on its entry; at which the entry has
\* its pid; at which it is linked.
Working == {"exit", "front", "rear", "clear", "drop", "free"}
WithPid == {"name", "wait", "exit", "front", "rear", "clear", "drop"}
WithQueue == {"wait", "exit", "front", "rear", "clear"}

\* Whoever chooses an entry has the lock, and the entry is still free when it
\* is marked.
Choosing ==
  \A p \in Proc :
    /\ pc[p] \in {"find", "mark"} => lock = p
    /\ pc[p] = "mark" => mywait[p] \in Entry /\ ~inuse[mywait[p]]

\* An entry that a process works on was marked by it and by nobody since; it
\* holds its pid and its queue from the time they are stored.
Held ==
  \A p \in Proc :
    /\ pc[p] \in Holding =>
         mywait[p] \in Entry /\ inuse[mywait[p]] /\ owner[mywait[p]] = p
    /\ pc[p] \in WithPid => process[mywait[p]] = p
    /\ pc[p] \in WithQueue => named[mywait[p]]

\* A pid in an entry is that of the process that works on it, or was killed.
Stored ==
  \A w \in Entry : process[w] # None =>
    /\ inuse[w] /\ owner[w] = process[w]
    /\ \/ pc[process[w]] = "killed"
       \/ pc[process[w]] \in WithPid /\ mywait[process[w]] = w

\* The daemon works only on entries of killed processes.
Purging ==
  /\ pc[Daemon] = "probe" => pnext \in Entry
  /\ pc[Daemon] \in Working =>
       /\ mywait[Daemon] \in Entry /\ inuse[mywait[Daemon]]
       /\ owner[mywait[Daemon]] \in Proc
       /\ pc[owner[mywait[Daemon]]] = "killed"
  /\ pc[Daemon] = "free" => process[mywait[Daemon]] = None
  /\ pc[Daemon] \notin AddPC \cup {"wait"}

\* The inductive invariant of entries.
WInv == Typed /\ Choosing /\ Held /\ Stored /\ Purging

-----------------------------------------------------------------------------
\* It holds of an empty queue.
LEMMA WInvInit == Init => WInv
  BY WaitQueueAssumption DEF Init, WInv, Typed, Choosing, Held, Stored, Purging,
     EntryOrNil, Working, WithPid, WithQueue, Holding, AddPC, ExitPC, PurgePC, PC, Actor,
     Entry, Nil

\* The invariant gives the two properties.
LEMMA WInvSafe == WInv => EntryExclusive /\ NeverLost
  BY WaitQueueAssumption DEF WInv, Typed, Choosing, Held, Stored, Purging, EntryOrNil,
     Working, WithPid, WithQueue, Holding, AddPC, Actor, EntryExclusive, NeverLost

\* One step of a process other than inside queue_exit() keeps the invariant.
LEMMA WInvProc ==
  ASSUME WInv, NEW p \in Proc,
         Add(p) \/ Arrive(p) \/ TryEnter(p) \/ WaitServed(p) \/ LeaveGame(p)
           \/ WaitGivesUp(p) \/ Kill(p)
  PROVE  WInv'
  <1> USE WaitQueueAssumption DEF WInv, Typed, Choosing, Held, Stored, Purging, EntryOrNil,
       Working, WithPid, WithQueue, Holding, AddPC, ExitPC, PurgePC, PC, Actor, Goto,
       list, local, CallExit
  <1>1. CASE LockOn(p)
    BY <1>1 DEF LockOn
  <1>2. CASE Find(p)
    BY <1>2 DEF Find
  <1>3. CASE Mark(p)
    BY <1>3 DEF Mark
  <1>4. CASE TestFirst(p)
    BY <1>4 DEF TestFirst
  <1>5. CASE SetFirst(p)
    BY <1>5 DEF SetFirst
  <1>6. CASE Link(p)
    BY <1>6 DEF Link
  <1>7. CASE LinkBack(p)
    <2>1. Typed'
      BY <1>7 DEF LinkBack
    <2>2. Choosing' /\ Held'
      BY <1>7 DEF LinkBack
    <2>3. Stored' /\ Purging'
      BY <1>7 DEF LinkBack
    <2> QED
      BY <2>1, <2>2, <2>3
  <1>8. CASE SetLast(p)
    BY <1>8 DEF SetLast
  <1>9. CASE Fill(p)
    BY <1>9 DEF Fill
  <1>10. CASE Name(p)
    BY <1>10 DEF Name
  <1>11. CASE Arrive(p)
    BY <1>11 DEF Arrive
  <1>12. CASE TryEnter(p)
    BY <1>12 DEF TryEnter
  <1>13. CASE WaitServed(p)
    BY <1>13 DEF WaitServed
  <1>14. CASE LeaveGame(p)
    BY <1>14 DEF LeaveGame
  <1>15. CASE WaitGivesUp(p)
    BY <1>15 DEF WaitGivesUp
  <1>16. CASE Kill(p)
    BY <1>16 DEF Kill
  <1> QED
    BY <1>1, <1>2, <1>3, <1>4, <1>5, <1>6, <1>7, <1>8, <1>9, <1>10, <1>11, <1>12, <1>13, <1>14, <1>15, <1>16 DEF Add

\* One step of queue_exit(), by a process or by the daemon, keeps it.
LEMMA WInvExit ==
  ASSUME WInv, NEW x \in Actor, Exit(x)
  PROVE  WInv'
  <1> USE WaitQueueAssumption DEF WInv, Typed, Choosing, Held, Stored, Purging, EntryOrNil,
       Working, WithPid, WithQueue, Holding, AddPC, ExitPC, PurgePC, PC, Actor, Goto,
       list, local, CallExit
  <1>1. CASE ExitNamed(x)
    BY <1>1 DEF ExitNamed
  <1>2. CASE UnlinkFront(x)
    BY <1>2 DEF UnlinkFront
  <1>3. CASE UnlinkRear(x)
    BY <1>3 DEF UnlinkRear
  <1>4. CASE Clear(x)
    BY <1>4 DEF Clear
  <1>5. CASE Drop(x)
    BY <1>5 DEF Drop
  <1>6. CASE Free(x)
    <2>1. Typed' /\ Choosing'
      BY <1>6 DEF Free
    <2>2. Held'
      BY <1>6 DEF Free
    <2>3. Stored'
      <3> SUFFICES ASSUME NEW w \in Entry, process[w] # None
                   PROVE  /\ inuse'[w] /\ owner[w] = process[w]
                          /\ \/ pc'[process[w]] = "killed"
                             \/ pc'[process[w]] \in WithPid /\ mywait[process[w]] = w
        BY <1>6 DEF Free
      <3>1. process[mywait[x]] = None
        BY <1>6 DEF Free
      <3> QED
        BY <1>6, <3>1 DEF Free
    <2>4. Purging'
      <3>1. CASE x = Daemon
        BY <1>6, <3>1 DEF Free
      <3>2. CASE x \in Proc
        <4>1. pc[Daemon] \in Working => mywait[Daemon] # mywait[x]
          BY <1>6, <3>2 DEF Free
        <4> QED
          BY <1>6, <3>2, <4>1 DEF Free
      <3> QED
        BY <3>1, <3>2
    <2> QED
      BY <2>1, <2>2, <2>3, <2>4
  <1>7. CASE UpdateStart(x)
    BY <1>7 DEF UpdateStart
  <1>8. CASE UpdateWalk(x)
    BY <1>8 DEF UpdateWalk
  <1>9. CASE UpdateEnd(x)
    BY <1>9 DEF UpdateEnd
  <1> QED
    BY <1>1, <1>2, <1>3, <1>4, <1>5, <1>6, <1>7, <1>8, <1>9 DEF Exit

\* The daemon's walk keeps it.
LEMMA WInvPurge ==
  ASSUME WInv, PurgeStart \/ PurgeLoop \/ PurgeProbe \/ OtherLeaves \/ UNCHANGED vars
  PROVE  WInv'
  <1> USE WaitQueueAssumption DEF WInv, Typed, Choosing, Held, Stored, Purging, EntryOrNil,
       Working, WithPid, WithQueue, Holding, AddPC, ExitPC, PurgePC, PC, Actor, Goto,
       list, local, CallExit
  <1>1. CASE PurgeStart
    BY <1>1 DEF PurgeStart
  <1>2. CASE PurgeLoop
    BY <1>2 DEF PurgeLoop
  <1>3. CASE PurgeProbe
    BY <1>3 DEF PurgeProbe, Dead
  <1>4. CASE OtherLeaves
    BY <1>4 DEF OtherLeaves
  <1>5. CASE UNCHANGED vars
    BY <1>5 DEF vars
  <1> QED
    BY <1>1, <1>2, <1>3, <1>4, <1>5

\* Every step of a process and of the daemon keeps it, all calls overlapping.
LEMMA WInvNext == WInv /\ [Next]_vars => WInv'
  BY WInvProc, WInvExit, WInvPurge DEF Next, Run, Purge, Actor

\* WInv is an invariant of the waiting line.
THEOREM WaitInvariant == Spec => []WInv
  BY WInvInit, WInvNext, PTL DEF Spec

\* No two callers of queue_add(), queue_exit() and queues_purge() ever work on
\* the same entry.
THEOREM EntriesExclusive == Spec => []EntryExclusive
  BY WaitInvariant, WInvSafe, PTL

\* "process lost its waitq entry!" is never logged by findslot().
THEOREM EntriesNeverLost == Spec => []NeverLost
  BY WaitInvariant, WInvSafe, PTL

-----------------------------------------------------------------------------
(* The list *)

\* w is among the m entries of the list F.
In(m, F, w) == \E k \in 1 .. m : F[k] = w

\* F is what is met from `first' by `next'.
Chain(m, F) ==
  /\ m \in 0 .. MaxWaiting /\ F \in [1 .. m -> Entry]
  /\ \A i, j \in 1 .. m : F[i] = F[j] => i = j
  /\ first = IF m = 0 THEN Nil ELSE F[1]
  /\ \A k \in 1 .. m : next[F[k]] = IF k = m THEN Nil ELSE F[k + 1]

\* `previous' leads back along its first j entries.
Back(F, j) == \A k \in 1 .. j : previous[F[k]] = IF k = 1 THEN Nil ELSE F[k - 1]
\* `last' is its end.
Ends(m, F) == last = IF m = 0 THEN Nil ELSE F[m]
\* The first j hold a pid.
Pids(F, j) == \A k \in 1 .. j : process[F[k]] # None
\* The first j show their position.
Counted(F, j) == \A k \in 1 .. j : count[F[k]] = k - 1
\* The entries in use are those of the list.
AllIn(m, F) == \A w \in Entry : inuse[w] <=> In(m, F, w)
\* They are those of the list and e, which is not in it.
AllBut(m, F, e) ==
  ~In(m, F, e) /\ \A w \in Entry : inuse[w] <=> (In(m, F, w) \/ w = e)
\* e has no neighbours, as every free entry has none.
Clean(e) == next[e] = Nil /\ previous[e] = Nil
FreeClean == \A w \in Entry : ~inuse[w] => Clean(w)

\* A doubly linked list; one that is whole; one at whose end e is being added.
Linked(m, F) == Back(F, m) /\ Ends(m, F) /\ Pids(F, m)
Whole(m, F) == Linked(m, F) /\ AllIn(m, F) /\ Counted(F, m) /\ qcount = m
Added(m, F, e) == /\ m > 0 /\ F[m] = e /\ AllIn(m, F)
                  /\ Pids(F, m - 1) /\ Counted(F, m - 1) /\ qcount = m - 1

\* How far the call of x has come: what still holds of the list at each statement.
At(x, m, F) ==
  LET e == mywait[x] IN
  /\ pc[x] \in {"lock", "find", "mark", "name", "exit", "front", "purge", "probe"}
       => Whole(m, F)
  /\ pc[x] \in {"test", "first", "link"} =>
       /\ Linked(m, F) /\ AllBut(m, F, e) /\ Clean(e)
       /\ Counted(F, m) /\ qcount = m
       /\ pc[x] = "first" => m = 0
       /\ pc[x] = "link" => m > 0
  /\ pc[x] = "back" => Added(m, F, e) /\ m > 1 /\ Back(F, m - 1) /\ last = F[m - 1]
  /\ pc[x] = "last" => /\ Added(m, F, e) /\ Back(F, m)
                       /\ last = IF m = 1 THEN Nil ELSE F[m - 1]
  /\ pc[x] = "fill" => Added(m, F, e) /\ Back(F, m) /\ Ends(m, F)
  /\ pc[x] = "rear" =>
       /\ AllBut(m, F, e) /\ Pids(F, m)
       /\ \E i \in 0 .. m :
            /\ previous[e] = IF i = 0 THEN Nil ELSE F[i]
            /\ next[e] = IF i = m THEN Nil ELSE F[i + 1]
            /\ \A k \in 1 .. m : previous[F[k]] = IF k = i + 1 THEN e
                                                  ELSE IF k = 1 THEN Nil ELSE F[k - 1]
            /\ last = IF i = m THEN e ELSE F[m]
  /\ pc[x] \in {"clear", "drop", "free"} => Linked(m, F) /\ AllBut(m, F, e)
  /\ pc[x] \in {"drop", "free"} => Clean(e)
  /\ pc[x] \in {"upd0", "upd", "updEnd"} => Linked(m, F) /\ AllIn(m, F)
  /\ pc[x] = "upd" => /\ n[x] \in 0 .. m /\ Counted(F, n[x])
                      /\ cur[x] = IF n[x] = m THEN Nil ELSE F[n[x] + 1]
  /\ pc[x] = "updEnd" => n[x] = m /\ Counted(F, m)

\* x is inside a call on the list, and nobody else is.
Active(x) == pc[x] \in AddPC \cup ExitPC \cup PurgePC
Alone == \A x, y \in Actor : Active(x) /\ Active(y) => x = y

\* There is a list, whole when nobody is inside a call, and else as the call has left it.
LineInv ==
  \E m \in 0 .. MaxWaiting : \E F \in [1 .. m -> Entry] :
    /\ Chain(m, F)
    /\ (\A x \in Actor : ~Active(x)) => Whole(m, F)
    /\ \A x \in Actor : At(x, m, F)

\* p has a slot.
Playing(p) == pc[p] = "in" \/ (pc[p] \in ExitPC /\ after[p] = "in")
\* An entry in use belongs to who stands with it in line, or was killed there.
OwnersStay == \A w \in Entry : inuse[w] =>
  /\ owner[w] \in Proc /\ mywait[owner[w]] = w
  /\ pc[owner[w]] \in Holding \cup {"killed"}
InGame == {p \in Proc : Playing(p)}
\* No more slots are free than nobody has.
SlotsLeft == /\ slots \in Nat /\ others \in Nat /\ IsFiniteSet(InGame)
             /\ slots + others + Cardinality(InGame) <= NSlots
\* The inductive invariant of the list.
QInv == WInv /\ TypeOK /\ Alone /\ FreeClean /\ LineInv /\ OwnersStay /\ SlotsLeft

-----------------------------------------------------------------------------
\* Pigeonhole: a list without repetition that leaves an entry out is not full.
LEMMA MoreRoom ==
  ASSUME NEW m, NEW F, Chain(m, F), NEW e \in Entry, ~In(m, F, e)
  PROVE  m + 1 \in 0 .. MaxWaiting
<1>1. m \in 0 .. MaxWaiting /\ F \in [1 .. m -> Entry] /\ MaxWaiting \in Nat
  BY WaitQueueAssumption DEF Chain
<1>2. IsFiniteSet(Entry) /\ Cardinality(Entry) = MaxWaiting
  BY <1>1, FS_Interval DEF Entry
<1>3. IsFiniteSet(Entry \ {e}) /\ Cardinality(Entry \ {e}) = MaxWaiting - 1
  BY <1>2, FS_RemoveElement
<1>4. IsFiniteSet(1 .. m) /\ Cardinality(1 .. m) = m  BY <1>1, FS_Interval
<1>5. F \in Injection(1 .. m, Entry \ {e})
  BY <1>1 DEF Chain, In, Injection, IsInjective
<1>6. m <= MaxWaiting - 1  BY <1>3, <1>4, <1>5, FS_Injection
<1> QED  BY <1>1, <1>6

\* The invariant of the list, without the ranges that Chain gives.
LEMMA ALine ==
  LineInv <=> \E m, F : /\ Chain(m, F)
                        /\ (\A y \in Actor : ~Active(y)) => Whole(m, F)
                        /\ \A y \in Actor : At(y, m, F)
BY DEF LineInv, Chain

\* While x steps, inside a call or into one, nobody else is in a call.
LEMMA Others ==
  ASSUME pc \in [Actor -> PC], Alone, NEW x \in Actor, NEW l, pc' = [pc EXCEPT ![x] = l],
         Active(x) \/ (MayCall(x) /\ ~Overlap)
  PROVE  \A y \in Actor \ {x} : ~Active(y) /\ pc'[y] = pc[y] /\ ~Active(y)'
BY DEF Alone, Active, MayCall

\* If x alone may be in a call, it is enough to show its part of the invariant.
LEMMA Conclude ==
  ASSUME NEW x \in Actor, \A y \in Actor \ {x} : ~Active(y)', NEW m, NEW F,
         Chain(m, F)', At(x, m, F)', Active(x)' \/ Whole(m, F)'
  PROVE  LineInv' /\ Alone'
<1>1. \A y \in Actor \ {x} : At(y, m, F)'
  BY DEF Active, At, AddPC, ExitPC, PurgePC
<1>2. \A y \in Actor : At(y, m, F)'  BY <1>1
<1>3. (\A y \in Actor : ~Active(y)') => Whole(m, F)'  BY DEF Active
<1>4. m \in 0 .. MaxWaiting /\ F \in [1 .. m -> Entry]  BY DEF Chain
<1>5. LineInv'  BY <1>2, <1>3, <1>4 DEF LineInv
<1>6. Alone'  BY DEF Alone
<1> QED  BY <1>5, <1>6

\* What of the list the line is made of.
links == <<inuse, next, previous, process, count, first, last, qcount>>

\* A step that leaves the list leaves what is said of it.
LEMMA ListSame ==
  ASSUME UNCHANGED links, NEW m, NEW F, NEW e
  PROVE  /\ Chain(m, F)' <=> Chain(m, F)
         /\ Whole(m, F)' <=> Whole(m, F)
         /\ Linked(m, F)' <=> Linked(m, F)
         /\ AllIn(m, F)' <=> AllIn(m, F)
         /\ AllBut(m, F, e)' <=> AllBut(m, F, e)
         /\ Clean(e)' <=> Clean(e)
         /\ Added(m, F, e)' <=> Added(m, F, e)
         /\ \A j : /\ Back(F, j)' <=> Back(F, j)
                   /\ Counted(F, j)' <=> Counted(F, j)
         /\ FreeClean' <=> FreeClean
<1> USE DEF links
<1>1. Chain(m, F)' <=> Chain(m, F)  BY DEF Chain
<1>2. \A j : /\ Back(F, j)' <=> Back(F, j)
             /\ Counted(F, j)' <=> Counted(F, j)
             /\ Pids(F, j)' <=> Pids(F, j)
  BY DEF Back, Counted, Pids
<1>3. AllIn(m, F)' <=> AllIn(m, F)  BY DEF AllIn
<1>4. AllBut(m, F, e)' <=> AllBut(m, F, e)  BY DEF AllBut
<1>5. Linked(m, F)' <=> Linked(m, F)  BY <1>2 DEF Linked, Ends
<1>6. Whole(m, F)' <=> Whole(m, F)  BY <1>2, <1>3, <1>5 DEF Whole
<1>7. Added(m, F, e)' <=> Added(m, F, e)  BY <1>2, <1>3 DEF Added
<1>8. Clean(e)' <=> Clean(e)  BY DEF Clean
<1>9. FreeClean' <=> FreeClean  BY DEF FreeClean, Clean
<1> QED  BY <1>1, <1>2, <1>3, <1>4, <1>5, <1>6, <1>7, <1>8, <1>9

\* An actor that is in no step that touches the line.
LEMMA Between ==
  ASSUME QInv, NEW x \in Actor, NEW l, pc' = [pc EXCEPT ![x] = l], UNCHANGED links,
         \/ Active(x) /\ pc[x] \in {"lock", "find", "mark", "name", "exit", "front",
                                    "purge", "probe"}
         \/ ~Active(x) /\ MayCall(x) /\ ~Overlap,
         l \in {"lock", "find", "mark", "exit", "front", "purge", "probe"}
           \/ l \notin AddPC \cup ExitPC \cup PurgePC
  PROVE  LineInv' /\ Alone'
<1>1. \A y \in Actor \ {x} : ~Active(y) /\ ~Active(y)'
  BY Others DEF QInv, TypeOK
<1>2. PICK m, F :
        /\ Chain(m, F) /\ At(x, m, F)
        /\ (\A y \in Actor : ~Active(y)) => Whole(m, F)
  BY ALine DEF QInv
<1>3. Whole(m, F)
  <2>1. CASE Active(x)  BY <1>2, <2>1 DEF At
  <2>2. CASE ~Active(x)  BY <1>1, <1>2, <2>2
  <2> QED  BY <2>1, <2>2
<1>4. Whole(m, F)' /\ Chain(m, F)'  BY <1>2, <1>3, ListSame
<1>5. pc'[x] = l  BY DEF QInv, TypeOK
<1>6. At(x, m, F)'  BY <1>4, <1>5 DEF At, AddPC, ExitPC, PurgePC
<1> QED  BY <1>1, <1>4, <1>6, Conclude

\* What is shown of each step of a call.
Good == LineInv /\ Alone /\ FreeClean

\* The type invariant, as the proofs below cite it.
LEMMA Types ==
  ASSUME QInv
  PROVE  /\ inuse \in [Entry -> BOOLEAN] /\ next \in [Entry -> Entry \cup {Nil}]
         /\ previous \in [Entry -> Entry \cup {Nil}]
         /\ process \in [Entry -> Proc \cup {None}]
         /\ count \in [Entry -> -1 .. MaxWaiting] /\ qcount \in 0 .. MaxWaiting
         /\ first \in Entry \cup {Nil} /\ last \in Entry \cup {Nil}
         /\ pc \in [Actor -> PC] /\ mywait \in [Actor -> Entry \cup {Nil}]
         /\ n \in [Actor -> 0 .. MaxWaiting] /\ cur \in [Actor -> Entry \cup {Nil}]
         /\ MaxWaiting \in Nat \ {0} /\ Nil \notin Entry /\ Entry \subseteq Int
BY WaitQueueAssumption DEF QInv, TypeOK, Entry, Nil

\* Who is inside a call has a list to work on.
LEMMA Busy ==
  ASSUME QInv, NEW x \in Actor, Active(x)
  PROVE  \E m, F : Chain(m, F) /\ At(x, m, F)
BY ALine DEF QInv

\* The entry a caller works on is in use, or still free when it is about to be marked.
LEMMA OwnEntry ==
  ASSUME QInv, NEW x \in Actor
  PROVE  /\ pc[x] = "mark" => mywait[x] \in Entry /\ ~inuse[mywait[x]]
         /\ pc[x] \in Holding => mywait[x] \in Entry /\ inuse[mywait[x]]
BY DEF QInv, WInv, Choosing, Held, Purging, Actor, Holding, Working, AddPC, ExitPC

\* queue_add()
LEMMA MarkLine ==
  ASSUME QInv, NEW p \in Proc, Mark(p) PROVE Good'
<1> DEFINE e == mywait[p]
<1>1. p \in Actor /\ pc[p] = "mark" /\ Active(p) /\ pc' = [pc EXCEPT ![p] = "test"]
  BY DEF Mark, Goto, Actor, Active, AddPC
<1>2. PICK m, F : Chain(m, F) /\ At(p, m, F)  BY <1>1, Busy
<1>3. /\ Whole(m, F) /\ e \in Entry /\ ~inuse[e]  BY <1>1, <1>2, OwnEntry DEF At
<1>4. /\ inuse' = [inuse EXCEPT ![e] = TRUE]
      /\ UNCHANGED <<next, previous, process, count, first, last, qcount, mywait>>
  BY DEF Mark
<1>5. Chain(m, F)' /\ Linked(m, F)' /\ Counted(F, m)' /\ Clean(e)' /\ qcount' = m
  BY <1>2, <1>3, <1>4 DEF Chain, Whole, Linked, Back, Ends, Pids, Counted, Clean,
     QInv, FreeClean
<1>6. AllBut(m, F, e)'
  BY <1>3, <1>4, Types DEF Whole, AllIn, AllBut
<1>7. At(p, m, F)' /\ Active(p)'
  BY <1>1, <1>4, <1>5, <1>6, Types DEF At, Active, AddPC
<1>8. FreeClean'  BY <1>3, <1>4, Types DEF QInv, FreeClean, Clean
<1> QED  BY <1>1, <1>5, <1>7, <1>8, Others, Conclude, Types DEF Good, QInv

\* The test finds `first' empty just if the list is.
LEMMA TestFirstLine ==
  ASSUME QInv, NEW p \in Proc, TestFirst(p) PROVE Good'
<1> DEFINE e == mywait[p]
<1>1. p \in Actor /\ pc[p] = "test" /\ Active(p) /\ UNCHANGED links /\ mywait' = mywait
      /\ pc' = [pc EXCEPT ![p] = IF first = Nil THEN "first" ELSE "link"]
  BY DEF TestFirst, Goto, Actor, Active, AddPC, local, list, links
<1>2. PICK m, F : Chain(m, F) /\ At(p, m, F)  BY <1>1, Busy
<1>3. /\ Linked(m, F) /\ AllBut(m, F, e) /\ Clean(e) /\ Counted(F, m) /\ qcount = m
  BY <1>1, <1>2 DEF At
<1>4. Chain(m, F)' /\ Linked(m, F)' /\ AllBut(m, F, e)' /\ Clean(e)' /\ Counted(F, m)'
      /\ qcount' = m /\ FreeClean'
  BY <1>1, <1>2, <1>3, ListSame DEF links, QInv
<1>5. first = Nil <=> m = 0
  BY <1>2, Types DEF Chain
<1>6. m \in Nat  BY <1>2 DEF Chain
<1>7. At(p, m, F)' /\ Active(p)'
  BY <1>1, <1>4, <1>5, <1>6, Types DEF At, Active, AddPC
<1> QED  BY <1>1, <1>4, <1>7, Others, Conclude, Types DEF Good, QInv

\* The first in an empty line makes it a list of one entry.
LEMMA SetFirstLine ==
  ASSUME QInv, NEW p \in Proc, SetFirst(p)
  PROVE  /\ Good'
         /\ \E F, G : Chain(0, F) /\ Chain(1, G)' /\ G[1] = mywait[p]
<1>1. p \in Actor /\ pc[p] = "first" /\ Active(p) /\ pc' = [pc EXCEPT ![p] = "last"]
  BY DEF SetFirst, Goto, Actor, Active, AddPC
<1>2. PICK m, F : Chain(m, F) /\ At(p, m, F)  BY <1>1, Busy
<1>3. PICK e \in Entry : /\ e = mywait[p]
                        /\ Linked(m, F) /\ AllBut(m, F, e) /\ Clean(e) /\ qcount = 0 /\ m = 0
  BY <1>1, <1>2, OwnEntry DEF At, Holding, AddPC
<1> DEFINE G == [k \in 1 .. 1 |-> e]
<1>4. /\ first' = e
      /\ UNCHANGED <<inuse, next, previous, process, count, last, qcount, mywait>>
  BY <1>3 DEF SetFirst, local
<1>5. Chain(1, G)'
  <2>1. 1 \in 0 .. MaxWaiting  BY Types
  <2> QED  BY <1>3, <1>4, <2>1 DEF Chain, Clean
<1>6. AllIn(1, G)' /\ Back(G, 1)' /\ last' = Nil /\ Pids(G, 0)' /\ Counted(G, 0)'
  BY <1>3, <1>4 DEF AllBut, In, AllIn, Back, Linked, Ends, Pids, Counted, Clean
<1> HIDE DEF G
<1>7. G[1] = e  BY DEF G
<1>8. At(p, 1, G)' /\ Active(p)'
  <2>1. 1 - 1 = 0 /\ qcount' = 0  BY <1>3, <1>4
  <2>2. Added(1, G, e)'  BY <1>4, <1>6, <1>7, <2>1 DEF Added
  <2> QED  BY <1>1, <1>3, <1>4, <1>6, <2>2, Types DEF At, Active, AddPC
<1>9. FreeClean'  BY <1>4 DEF QInv, FreeClean, Clean
<1>10. Good'  BY <1>1, <1>5, <1>8, <1>9, Others, Conclude, Types DEF Good, QInv
<1>11. Chain(0, F)  BY <1>2, <1>3
<1> QED  BY <1>3, <1>5, <1>7, <1>10, <1>11

\* The `next' of the last one makes the new entry the end of the list.
LEMMA LinkLine ==
  ASSUME QInv, NEW p \in Proc, Link(p)
  PROVE  /\ Good'
         /\ \E m, F, G : /\ Chain(m, F) /\ AllBut(m, F, mywait[p])
                          /\ Chain(m + 1, G)' /\ G[m + 1] = mywait[p]
                          /\ \A k \in 1 .. m : G[k] = F[k]
<1>1. p \in Actor /\ pc[p] = "link" /\ Active(p) /\ pc' = [pc EXCEPT ![p] = "back"]
  BY DEF Link, Goto, Actor, Active, AddPC
<1>2. PICK m, F : Chain(m, F) /\ At(p, m, F)  BY <1>1, Busy
<1>3. PICK e \in Entry :
        /\ e = mywait[p] /\ Linked(m, F) /\ AllBut(m, F, e) /\ Clean(e) /\ Counted(F, m)
        /\ qcount = m /\ m > 0
  BY <1>1, <1>2, OwnEntry DEF At, Holding, AddPC
<1> DEFINE G == [k \in 1 .. m + 1 |-> IF k = m + 1 THEN e ELSE F[k]]
<1>4. m \in 1 .. MaxWaiting /\ last = F[m] /\ F[m] \in Entry
  BY <1>2, <1>3 DEF Chain, Linked, Ends
<1>5. /\ next' = [next EXCEPT ![F[m]] = e]
      /\ UNCHANGED <<inuse, first, previous, process, count, last, qcount, mywait>>
  BY <1>3, <1>4, Types DEF Link, local
<1>6. m + 1 \in 0 .. MaxWaiting
  BY <1>2, <1>3, <1>4, MoreRoom DEF AllBut
<1>7. Chain(m + 1, G)'
  <2>1. G \in [1 .. m + 1 -> Entry]  BY <1>2, <1>3 DEF Chain
  <2>2. \A i, j \in 1 .. m + 1 : G[i] = G[j] => i = j
    BY <1>2, <1>3, <1>4 DEF Chain, AllBut, In
  <2>3. first' = G[1]  BY <1>2, <1>4, <1>5 DEF Chain
  <2>4. \A k \in 1 .. m + 1 : next'[G[k]] = IF k = m + 1 THEN Nil ELSE G[k + 1]
    <3> TAKE k \in 1 .. m + 1
    <3>1. CASE k = m + 1
      <4>1. F[m] # e  BY <1>3, <1>4 DEF AllBut, In
      <4> QED  BY <1>3, <1>4, <1>5, <3>1, <4>1, Types DEF Clean
    <3>2. CASE k = m  BY <1>4, <1>5, <3>2, Types
    <3>3. CASE k < m
      <4>1. F[k] \in Entry /\ F[k] # F[m] /\ next[F[k]] = F[k + 1]
        BY <1>2, <1>4, <3>3 DEF Chain
      <4> QED  BY <1>4, <1>5, <3>3, <4>1, Types
    <3> QED  BY <1>4, <3>1, <3>2, <3>3
  <2> HIDE DEF G
  <2> QED  BY <1>4, <1>6, <2>1, <2>2, <2>3, <2>4 DEF Chain
<1>8. /\ G[m + 1] = e /\ \A k \in 1 .. m : G[k] = F[k]
  BY <1>4
<1>9. /\ AllIn(m + 1, G)'
      /\ Back(G, m)' /\ last' = G[m] /\ Pids(G, m)' /\ Counted(G, m)'
  <2> HIDE DEF G
  <2>1. \A w : In(m + 1, G, w) <=> In(m, F, w) \/ w = e
    BY <1>4, <1>8 DEF In
  <2>2. AllIn(m + 1, G)'  BY <1>3, <1>5, <2>1 DEF AllIn, AllBut
  <2>3. Back(G, m)'
    <3>1. \A k \in 1 .. m : k # 1 => k - 1 \in 1 .. m  BY <1>4
    <3> QED  BY <1>3, <1>5, <1>8, <3>1 DEF Linked, Back
  <2>4. Pids(G, m)' /\ Counted(G, m)'
    BY <1>3, <1>5, <1>8 DEF Linked, Pids, Counted
  <2>5. m \in 1 .. m  BY <1>4
  <2> QED  BY <1>4, <1>5, <1>8, <2>2, <2>3, <2>4, <2>5
<1> HIDE DEF G
<1>10. Added(m + 1, G, e)'
  <2>1. (m + 1) - 1 = m /\ m + 1 > 0  BY <1>4
  <2> QED  BY <1>3, <1>5, <1>8, <1>9, <2>1 DEF Added
<1>11. At(p, m + 1, G)' /\ Active(p)'
  <2>1. (m + 1) - 1 = m /\ m + 1 > 1  BY <1>4
  <2> QED  BY <1>1, <1>3, <1>5, <1>9, <1>10, <2>1, Types DEF At, Active, AddPC
<1>12. FreeClean'
  <2>1. inuse[F[m]]  BY <1>3, <1>4 DEF AllBut, In
  <2> QED  BY <1>4, <1>5, <2>1, Types DEF QInv, FreeClean, Clean
<1>13. Good'  BY <1>1, <1>7, <1>11, <1>12, Others, Conclude, Types DEF Good, QInv
<1> QED  BY <1>2, <1>3, <1>7, <1>8, <1>13

\* Its `previous' points back to the one before.
LEMMA LinkBackLine ==
  ASSUME QInv, NEW p \in Proc, LinkBack(p) PROVE Good'
<1>1. p \in Actor /\ pc[p] = "back" /\ Active(p) /\ pc' = [pc EXCEPT ![p] = "last"]
  BY DEF LinkBack, Goto, Actor, Active, AddPC
<1>2. PICK m, F : Chain(m, F) /\ At(p, m, F)  BY <1>1, Busy
<1>3. PICK e \in Entry :
        /\ e = mywait[p] /\ inuse[e] /\ Added(m, F, e) /\ m > 1 /\ Back(F, m - 1)
        /\ last = F[m - 1]
  BY <1>1, <1>2, OwnEntry DEF At, Holding, AddPC
<1>4. /\ previous' = [previous EXCEPT ![e] = F[m - 1]]
      /\ UNCHANGED <<inuse, first, next, process, count, last, qcount, mywait>>
  BY <1>3 DEF LinkBack, local
<1>5. m \in 2 .. MaxWaiting /\ F[m] = e /\ F \in [1 .. m -> Entry]
  BY <1>2, <1>3 DEF Chain, Added
<1>6. Chain(m, F)' /\ Added(m, F, e)'
  BY <1>2, <1>3, <1>4 DEF Chain, Added, AllIn, Pids, Counted
<1>7. Back(F, m)'
  <2> SUFFICES ASSUME NEW k \in 1 .. m
               PROVE  previous'[F[k]] = IF k = 1 THEN Nil ELSE F[k - 1]
    BY DEF Back
  <2>1. CASE k = m  BY <1>4, <1>5, <2>1, Types
  <2>2. CASE k # m
    <3>1. k \in 1 .. m - 1  BY <1>5, <2>2
    <3>2. F[k] # e  BY <1>2, <1>5, <2>2 DEF Chain
    <3> QED  BY <1>3, <1>4, <1>5, <3>1, <3>2, Types DEF Back
  <2> QED  BY <2>1, <2>2
<1>8. At(p, m, F)' /\ Active(p)'
  BY <1>1, <1>3, <1>4, <1>5, <1>6, <1>7, Types DEF At, Active, AddPC
<1>9. FreeClean'  BY <1>3, <1>4, Types DEF QInv, FreeClean, Clean
<1> QED  BY <1>1, <1>6, <1>8, <1>9, Others, Conclude, Types DEF Good, QInv

\* `last' is moved to it.
LEMMA SetLastLine ==
  ASSUME QInv, NEW p \in Proc, SetLast(p) PROVE Good'
<1>1. p \in Actor /\ pc[p] = "last" /\ Active(p) /\ pc' = [pc EXCEPT ![p] = "fill"]
  BY DEF SetLast, Goto, Actor, Active, AddPC
<1>2. PICK m, F : Chain(m, F) /\ At(p, m, F)  BY <1>1, Busy
<1>3. PICK e \in Entry : e = mywait[p] /\ Added(m, F, e) /\ Back(F, m)
  BY <1>1, <1>2, OwnEntry DEF At, Holding, AddPC
<1>4. m \in 1 .. MaxWaiting /\ F[m] = e /\ next[e] = Nil
  BY <1>2, <1>3 DEF Chain, Added
<1>5. next' = next /\ last' = e
      /\ UNCHANGED <<inuse, first, previous, process, count, qcount, mywait>>
  BY <1>3, <1>4, Types DEF SetLast, local
<1>6. Chain(m, F)' /\ Added(m, F, e)' /\ Back(F, m)' /\ Ends(m, F)'
  <2>1. Chain(m, F)'  BY <1>2, <1>5 DEF Chain
  <2>2. Added(m, F, e)'  BY <1>3, <1>5 DEF Added, AllIn, Pids, Counted
  <2>3. Back(F, m)'  BY <1>3, <1>5 DEF Back
  <2>4. Ends(m, F)'  BY <1>4, <1>5 DEF Ends
  <2> QED  BY <2>1, <2>2, <2>3, <2>4
<1>7. At(p, m, F)' /\ Active(p)'
  BY <1>1, <1>3, <1>5, <1>6, Types DEF At, Active, AddPC
<1>8. FreeClean'  BY <1>5 DEF QInv, FreeClean, Clean
<1> QED  BY <1>1, <1>6, <1>7, <1>8, Others, Conclude, Types DEF Good, QInv

\* It gets its position and its pid, and the list is whole again.
LEMMA FillLine ==
  ASSUME QInv, NEW p \in Proc, Fill(p) PROVE Good'
<1>1. p \in Actor /\ pc[p] = "fill" /\ Active(p) /\ pc' = [pc EXCEPT ![p] = "name"]
  BY DEF Fill, Goto, Actor, Active, AddPC
<1>2. PICK m, F : Chain(m, F) /\ At(p, m, F)  BY <1>1, Busy
<1>3. PICK e \in Entry :
        e = mywait[p] /\ Added(m, F, e) /\ Back(F, m) /\ Ends(m, F)
  BY <1>1, <1>2, OwnEntry DEF At, Holding, AddPC
<1>4. m \in 1 .. MaxWaiting /\ F[m] = e /\ qcount = m - 1
  BY <1>2, <1>3 DEF Chain, Added
<1>5. /\ count' = [count EXCEPT ![e] = m - 1] /\ qcount' = m
      /\ process' = [process EXCEPT ![e] = p]
      /\ UNCHANGED <<inuse, first, next, last, previous, mywait>>
  BY <1>3, <1>4, Types DEF Fill, local
<1>6. Chain(m, F)'  BY <1>2, <1>5 DEF Chain
<1>7. Pids(F, m)' /\ Counted(F, m)'
  <2> SUFFICES ASSUME NEW k \in 1 .. m
               PROVE  process'[F[k]] # None /\ count'[F[k]] = k - 1
    BY DEF Pids, Counted
  <2>1. CASE k = m  BY <1>4, <1>5, <2>1, Types, WaitQueueAssumption
  <2>2. CASE k # m
    <3>1. k \in 1 .. m - 1  BY <1>4, <2>2
    <3>2. F[k] # e  BY <1>2, <1>4, <2>2 DEF Chain
    <3>3. process[F[k]] # None /\ count[F[k]] = k - 1
      BY <1>3, <3>1 DEF Added, Pids, Counted
    <3> QED  BY <1>5, <3>2, <3>3, Types
  <2> QED  BY <2>1, <2>2
<1>8. Whole(m, F)'
  BY <1>3, <1>5, <1>7 DEF Whole, Linked, Added, AllIn, Back, Ends
<1>9. At(p, m, F)' /\ Active(p)'
  BY <1>1, <1>8, Types DEF At, Active, AddPC
<1>10. FreeClean'  BY <1>5 DEF QInv, FreeClean, Clean
<1> QED  BY <1>1, <1>6, <1>9, <1>10, Others, Conclude, Types DEF Good, QInv

\* queue_exit(): who was ahead of the entry, or `first', skips it.
LEMMA UnlinkFrontLine ==
  ASSUME QInv, NEW x \in Actor, UnlinkFront(x)
  PROVE  /\ Good'
         /\ \E m, F, G : \E i \in 1 .. m :
              /\ Chain(m, F) /\ F[i] = mywait[x] /\ inuse[mywait[x]]
              /\ Chain(m - 1, G)'
              /\ \A k \in 1 .. m - 1 : G[k] = IF k < i THEN F[k] ELSE F[k + 1]
<1>1. pc[x] = "front" /\ Active(x) /\ pc' = [pc EXCEPT ![x] = "rear"]
  BY DEF UnlinkFront, Goto, Active, ExitPC
<1>2. PICK m, F : Chain(m, F) /\ At(x, m, F)  BY <1>1, Busy
<1>3. PICK e \in Entry : e = mywait[x] /\ inuse[e] /\ Whole(m, F)
  BY <1>1, <1>2, OwnEntry DEF At, Holding
<1>4. PICK i \in 1 .. m : F[i] = e  BY <1>3 DEF Whole, AllIn, In
<1> DEFINE G == [k \in 1 .. m - 1 |-> IF k < i THEN F[k] ELSE F[k + 1]]
<1>5. /\ m \in 1 .. MaxWaiting /\ F \in [1 .. m -> Entry]
      /\ \A k, l \in 1 .. m : F[k] = F[l] => k = l
      /\ next[e] = IF i = m THEN Nil ELSE F[i + 1]
      /\ previous[e] = IF i = 1 THEN Nil ELSE F[i - 1]
  BY <1>2, <1>3, <1>4 DEF Chain, Whole, Linked, Back
<1>6. /\ IF i = 1 THEN first' = next[e] /\ next' = next
                  ELSE first' = first /\ next' = [next EXCEPT ![F[i - 1]] = next[e]]
      /\ UNCHANGED <<inuse, previous, process, count, last, qcount, mywait>>
  <2>1. i # 1 => F[i - 1] # Nil  BY <1>5, Types
  <2> QED  BY <1>3, <1>5, <2>1 DEF UnlinkFront, local
<1>7. /\ G \in [1 .. m - 1 -> Entry]
      /\ \A k \in 1 .. m - 1 : G[k] = IF k < i THEN F[k] ELSE F[k + 1]
  BY <1>5
<1> HIDE DEF G
<1>8. \A w \in Entry : In(m - 1, G, w) <=> (In(m, F, w) /\ w # e)
  <2> TAKE w \in Entry
  <2>1. ASSUME NEW k \in 1 .. m - 1, G[k] = w PROVE In(m, F, w) /\ w # e
    BY <1>4, <1>5, <1>7, <2>1 DEF In
  <2>2. ASSUME NEW k \in 1 .. m, F[k] = w, w # e PROVE In(m - 1, G, w)
    <3>1. CASE k < i
      <4>1. k \in 1 .. m - 1 /\ G[k] = w  BY <1>5, <1>7, <2>2, <3>1
      <4> QED  BY <4>1 DEF In
    <3>2. CASE k > i
      <4>1. k - 1 \in 1 .. m - 1 /\ ~(k - 1 < i) /\ (k - 1) + 1 = k  BY <1>5, <3>2
      <4>2. G[k - 1] = w  BY <1>7, <2>2, <4>1
      <4> QED  BY <4>1, <4>2 DEF In
    <3> QED  BY <1>4, <2>2, <3>1, <3>2
  <2> QED  BY <2>1, <2>2 DEF In
<1>9. Chain(m - 1, G)'
  <2>1. \A k, l \in 1 .. m - 1 : G[k] = G[l] => k = l  BY <1>5, <1>7
  <2>2. first' = IF m - 1 = 0 THEN Nil ELSE G[1]
    BY <1>2, <1>5, <1>6, <1>7 DEF Chain
  <2>3. \A k \in 1 .. m - 1 : next'[G[k]] = IF k = m - 1 THEN Nil ELSE G[k + 1]
    <3> TAKE k \in 1 .. m - 1
    <3>1. CASE k < i - 1
      <4>1. G[k] = F[k] /\ G[k + 1] = F[k + 1] /\ k # m - 1 /\ F[k] # F[i - 1] /\ k \in 1 .. m
        BY <1>5, <1>7, <3>1
      <4>2. next'[F[k]] = next[F[k]]  BY SMTT(30), <1>5, <1>6, <3>1, <4>1, Types
      <4> QED  BY <1>2, <1>5, <4>1, <4>2 DEF Chain
    <3>2. CASE k = i - 1
      <4>1. G[k] = F[i - 1] /\ (k # m - 1 => G[k + 1] = F[i + 1]) /\ i # 1
            /\ F[i - 1] \in Entry
        BY <1>5, <1>7, <3>2
      <4>2. next'[F[i - 1]] = next[e]  BY <1>5, <1>6, <4>1, Types
      <4> QED  BY <1>5, <3>2, <4>1, <4>2
    <3>3. CASE k >= i
      <4>1. G[k] = F[k + 1] /\ k + 1 \in 1 .. m /\ F[k + 1] \in Entry
            /\ (k # m - 1 => G[k + 1] = F[(k + 1) + 1])
            /\ (i # 1 => F[k + 1] # F[i - 1])
        BY <1>5, <1>7, <3>3
      <4>2. next'[F[k + 1]] = next[F[k + 1]]  BY <1>5, <1>6, <4>1, Types
      <4> QED  BY <1>2, <1>5, <4>1, <4>2 DEF Chain
    <3> QED  BY <1>5, <3>1, <3>2, <3>3
  <2>4. m - 1 \in 0 .. MaxWaiting  BY <1>5, Types
  <2> QED  BY <1>7, <2>1, <2>2, <2>3, <2>4 DEF Chain
<1>10. AllBut(m - 1, G, e)'
  BY <1>3, <1>6, <1>8 DEF AllBut, Whole, AllIn
<1>11. Pids(G, m - 1)'
  BY <1>3, <1>5, <1>6, <1>7 DEF Whole, Linked, Pids
<1>12. \A k \in 1 .. m - 1 :
         previous[G[k]] = IF k = i THEN e ELSE IF k = 1 THEN Nil ELSE G[k - 1]
  <2> TAKE k \in 1 .. m - 1
  <2>0. \A l \in 1 .. m : previous[F[l]] = IF l = 1 THEN Nil ELSE F[l - 1]
    BY <1>3 DEF Whole, Linked, Back
  <2>1. CASE k < i
    BY <1>5, <1>7, <2>0, <2>1
  <2>2. CASE k >= i
    <3>1. G[k] = F[k + 1] /\ k + 1 \in 1 .. m /\ k + 1 # 1 /\ (k + 1) - 1 = k
          /\ (k # i => G[k - 1] = F[k] /\ k # 1)
      BY <1>5, <1>7, <2>2
    <3> QED  BY <1>4, <2>0, <2>2, <3>1
  <2> QED  BY <1>5, <2>1, <2>2
<1>13. /\ i - 1 \in 0 .. m - 1 /\ (i - 1) + 1 = i
       /\ previous[e] = IF i - 1 = 0 THEN Nil ELSE G[i - 1]
       /\ next[e] = IF i - 1 = m - 1 THEN Nil ELSE G[i]
       /\ last = IF i - 1 = m - 1 THEN e ELSE G[m - 1]
  BY <1>3, <1>4, <1>5, <1>7 DEF Whole, Linked, Ends
<1>14. next'[e] = next[e]
  <2>1. i # 1 => F[i - 1] # e  BY <1>4, <1>5
  <2> QED  BY <1>5, <1>6, <2>1, Types
<1>15. At(x, m - 1, G)' /\ Active(x)'
  <2>1. \E h \in 0 .. m - 1 :
          /\ previous'[e] = IF h = 0 THEN Nil ELSE G[h]
          /\ next'[e] = IF h = m - 1 THEN Nil ELSE G[h + 1]
          /\ \A k \in 1 .. m - 1 : previous'[G[k]] = IF k = h + 1 THEN e
                                                ELSE IF k = 1 THEN Nil ELSE G[k - 1]
          /\ last' = IF h = m - 1 THEN e ELSE G[m - 1]
    BY <1>6, <1>12, <1>13, <1>14
  <2> QED  BY <1>1, <1>3, <1>6, <1>10, <1>11, <2>1, Types DEF At, Active, ExitPC
<1>16. FreeClean'
  <2>1. i # 1 => F[i - 1] \in Entry /\ inuse[F[i - 1]]
    BY <1>3, <1>5 DEF Whole, AllIn, In
  <2> QED  BY <1>5, <1>6, <2>1, Types DEF QInv, FreeClean, Clean
<1>17. Good'  BY <1>1, <1>9, <1>15, <1>16, Others, Conclude, Types DEF Good, QInv
<1>18. F[i] = mywait[x] /\ inuse[mywait[x]]  BY <1>3, <1>4
<1>19. i \in 1 .. m /\ Chain(m, F)  BY <1>2
<1>20. \E f, g : \E h \in 1 .. m :
         /\ Chain(m, f) /\ f[h] = mywait[x] /\ inuse[mywait[x]]
         /\ Chain(m - 1, g)'
         /\ \A k \in 1 .. m - 1 : g[k] = IF k < h THEN f[k] ELSE f[k + 1]
  BY <1>7, <1>9, <1>18, <1>19
<1> QED  BY <1>17, <1>20

\* Who was behind it, or `last', skips it too.
LEMMA UnlinkRearLine ==
  ASSUME QInv, NEW x \in Actor, UnlinkRear(x) PROVE Good'
<1>1. pc[x] = "rear" /\ Active(x) /\ pc' = [pc EXCEPT ![x] = "clear"]
  BY DEF UnlinkRear, Goto, Active, ExitPC
<1>2. PICK m, F : Chain(m, F) /\ At(x, m, F)  BY <1>1, Busy
<1>3. PICK e \in Entry : e = mywait[x] /\ inuse[e] /\ AllBut(m, F, e) /\ Pids(F, m)
  BY <1>1, <1>2, OwnEntry DEF At, Holding
<1>4. PICK i \in 0 .. m :
        /\ previous[e] = IF i = 0 THEN Nil ELSE F[i]
        /\ next[e] = IF i = m THEN Nil ELSE F[i + 1]
        /\ \A k \in 1 .. m : previous[F[k]] = IF k = i + 1 THEN e
                                              ELSE IF k = 1 THEN Nil ELSE F[k - 1]
        /\ last = IF i = m THEN e ELSE F[m]
  BY <1>1, <1>2, <1>3 DEF At
<1>5. /\ m \in 0 .. MaxWaiting /\ F \in [1 .. m -> Entry] /\ MaxWaiting \in Nat
      /\ \A k, l \in 1 .. m : F[k] = F[l] => k = l
  BY <1>2, Types DEF Chain
<1>6. /\ IF i = m THEN last' = previous[e] /\ previous' = previous
                  ELSE last' = last /\ previous' = [previous EXCEPT ![F[i + 1]] = previous[e]]
      /\ UNCHANGED <<inuse, first, next, process, count, qcount, mywait>>
  <2>1. i # m => F[i + 1] # Nil  BY SMTT(30), <1>5, Types
  <2> QED  BY <1>3, <1>4, <2>1 DEF UnlinkRear, local
<1>7. Chain(m, F)'  BY <1>2, <1>6 DEF Chain
<1>8. Back(F, m)'
  <2> SUFFICES ASSUME NEW k \in 1 .. m
               PROVE  previous'[F[k]] = IF k = 1 THEN Nil ELSE F[k - 1]
    BY DEF Back
  <2>1. CASE k = i + 1
    <3>1. i # m /\ F[i + 1] \in Entry /\ (i = 0 <=> k = 1) /\ k - 1 = i  BY <1>5, <2>1
    <3> QED  BY <1>4, <1>6, <2>1, <3>1, Types
  <2>2. CASE k # i + 1
    <3>1. F[k] \in Entry /\ (i # m => F[k] # F[i + 1])  BY <1>5, <2>2
    <3>2. previous'[F[k]] = previous[F[k]]  BY <1>6, <3>1, Types
    <3> QED  BY <1>4, <2>2, <3>2
  <2> QED  BY <2>1, <2>2
<1>9. Ends(m, F)'  BY <1>4, <1>5, <1>6 DEF Ends
<1>10. Pids(F, m)' /\ AllBut(m, F, e)'  BY <1>3, <1>6 DEF Pids, AllBut
<1>11. At(x, m, F)' /\ Active(x)'
  BY <1>1, <1>3, <1>6, <1>8, <1>9, <1>10, Types DEF At, Active, ExitPC, Linked
<1>12. FreeClean'
  <2>1. i # m => F[i + 1] \in Entry /\ inuse[F[i + 1]]
    BY <1>3, <1>5 DEF AllBut, In
  <2> QED  BY <1>5, <1>6, <2>1, Types DEF QInv, FreeClean, Clean
<1> QED  BY <1>1, <1>7, <1>11, <1>12, Others, Conclude, Types DEF Good, QInv

\* The entry forgets its neighbours,
LEMMA ClearLine ==
  ASSUME QInv, NEW x \in Actor, Clear(x) PROVE Good'
<1>1. pc[x] = "clear" /\ Active(x) /\ pc' = [pc EXCEPT ![x] = "drop"]
  BY DEF Clear, Goto, Active, ExitPC
<1>2. PICK m, F : Chain(m, F) /\ At(x, m, F)  BY <1>1, Busy
<1>3. PICK e \in Entry : e = mywait[x] /\ inuse[e] /\ Linked(m, F) /\ AllBut(m, F, e)
  BY <1>1, <1>2, OwnEntry DEF At, Holding
<1>4. /\ previous' = [previous EXCEPT ![e] = Nil] /\ next' = [next EXCEPT ![e] = Nil]
      /\ UNCHANGED <<inuse, first, process, last, qcount, mywait>>
  BY <1>3 DEF Clear, local
<1>5. \A k \in 1 .. m : F[k] \in Entry /\ F[k] # e
  BY <1>2, <1>3 DEF Chain, AllBut, In
<1>6. \A k \in 1 .. m : next'[F[k]] = next[F[k]] /\ previous'[F[k]] = previous[F[k]]
  BY <1>4, <1>5, Types
<1>7. Chain(m, F)'  BY <1>2, <1>4, <1>6 DEF Chain
<1>8. Linked(m, F)'  BY <1>3, <1>4, <1>6 DEF Linked, Back, Ends, Pids
<1>9. AllBut(m, F, e)' /\ Clean(e)'  BY <1>3, <1>4, Types DEF AllBut, Clean
<1>10. At(x, m, F)' /\ Active(x)'
  BY <1>1, <1>3, <1>4, <1>8, <1>9, Types DEF At, Active, ExitPC
<1>11. FreeClean'  BY <1>4, Types DEF QInv, FreeClean, Clean
<1> QED  BY <1>1, <1>7, <1>10, <1>11, Others, Conclude, Types DEF Good, QInv

\* its pid,
LEMMA DropLine ==
  ASSUME QInv, NEW x \in Actor, Drop(x) PROVE Good'
<1>1. pc[x] = "drop" /\ Active(x) /\ pc' = [pc EXCEPT ![x] = "free"]
  BY DEF Drop, Goto, Active, ExitPC
<1>2. PICK m, F : Chain(m, F) /\ At(x, m, F)  BY <1>1, Busy
<1>3. PICK e \in Entry : /\ e = mywait[x] /\ Linked(m, F) /\ AllBut(m, F, e) /\ Clean(e)
  BY <1>1, <1>2, OwnEntry DEF At, Holding
<1>4. /\ process' = [process EXCEPT ![e] = None]
      /\ UNCHANGED <<inuse, first, next, previous, last, qcount, mywait>>
  BY <1>3 DEF Drop, local
<1>5. \A k \in 1 .. m : F[k] \in Entry /\ F[k] # e
  BY <1>2, <1>3 DEF Chain, AllBut, In
<1>6. Chain(m, F)'  BY <1>2, <1>4 DEF Chain
<1>7. Linked(m, F)'
  <2>1. Pids(F, m)'  BY <1>3, <1>4, <1>5, Types DEF Linked, Pids
  <2> QED  BY <1>3, <1>4, <2>1 DEF Linked, Back, Ends
<1>8. AllBut(m, F, e)' /\ Clean(e)'  BY <1>3, <1>4 DEF AllBut, Clean
<1>9. At(x, m, F)' /\ Active(x)'
  BY <1>1, <1>3, <1>4, <1>7, <1>8, Types DEF At, Active, ExitPC
<1>10. FreeClean'  BY <1>4 DEF QInv, FreeClean, Clean
<1> QED  BY <1>1, <1>6, <1>9, <1>10, Others, Conclude, Types DEF Good, QInv

\* and is free.
LEMMA FreeLine ==
  ASSUME QInv, NEW x \in Actor, Free(x) PROVE Good'
<1>1. pc[x] = "free" /\ Active(x) /\ pc' = [pc EXCEPT ![x] = "upd0"]
  BY DEF Free, Goto, Active, ExitPC
<1>2. PICK m, F : Chain(m, F) /\ At(x, m, F)  BY <1>1, Busy
<1>3. PICK e \in Entry : /\ e = mywait[x] /\ Linked(m, F) /\ AllBut(m, F, e) /\ Clean(e)
  BY <1>1, <1>2, OwnEntry DEF At, Holding
<1>4. /\ inuse' = [inuse EXCEPT ![e] = FALSE]
      /\ UNCHANGED <<process, first, next, previous, last, qcount, mywait>>
  BY <1>3 DEF Free, local
<1>5. Chain(m, F)' /\ Linked(m, F)'
  BY <1>2, <1>3, <1>4 DEF Chain, Linked, Back, Ends, Pids
<1>6. AllIn(m, F)'  BY <1>3, <1>4, Types DEF AllBut, AllIn
<1>7. At(x, m, F)' /\ Active(x)'
  BY <1>1, <1>5, <1>6, Types DEF At, Active, ExitPC
<1>8. FreeClean'  BY <1>3, <1>4, Types DEF QInv, FreeClean, Clean
<1> QED  BY <1>1, <1>5, <1>7, <1>8, Others, Conclude, Types DEF Good, QInv

\* queue_update() numbers the list as far as it has come, and counts it all.
LEMMA UpdateLine ==
  ASSUME QInv, NEW x \in Actor, UpdateStart(x) \/ UpdateWalk(x) \/ UpdateEnd(x)
  PROVE  Good'
<1>1. CASE UpdateStart(x)
  <2>1. pc[x] = "upd0" /\ Active(x) /\ pc' = [pc EXCEPT ![x] = "upd"]
    BY <1>1 DEF UpdateStart, Goto, Active, ExitPC
  <2>2. PICK m, F : Chain(m, F) /\ At(x, m, F)  BY <2>1, Busy
  <2>3. Linked(m, F) /\ AllIn(m, F)  BY <2>1, <2>2 DEF At
  <2>4. UNCHANGED links /\ cur' = [cur EXCEPT ![x] = first] /\ n' = [n EXCEPT ![x] = 0]
    BY <1>1 DEF UpdateStart, list, links
  <2>5. Chain(m, F)' /\ Linked(m, F)' /\ AllIn(m, F)' /\ FreeClean'
    BY <2>2, <2>3, <2>4, ListSame DEF QInv
  <2>6. n'[x] \in 0 .. m /\ Counted(F, 0)' /\ n'[x] = 0
        /\ cur'[x] = IF n'[x] = m THEN Nil ELSE F[n'[x] + 1]
    <3>1. n'[x] = 0 /\ cur'[x] = first  BY <2>4, Types
    <3>2. m \in Nat /\ 0 + 1 = 1 /\ first = IF m = 0 THEN Nil ELSE F[1]
      BY <2>2 DEF Chain
    <3> QED  BY <3>1, <3>2 DEF Counted
  <2>7. At(x, m, F)' /\ Active(x)'
    BY <2>1, <2>5, <2>6, Types DEF At, Active, ExitPC
  <2> QED  BY <2>1, <2>5, <2>7, Others, Conclude, Types DEF Good, QInv
<1>2. CASE UpdateWalk(x)
  <2>1. pc[x] = "upd" /\ Active(x)  BY <1>2 DEF UpdateWalk, Active, ExitPC
  <2>2. PICK m, F : Chain(m, F) /\ At(x, m, F)  BY <2>1, Busy
  <2>3. PICK j \in 0 .. m :
          /\ j = n[x] /\ Linked(m, F) /\ AllIn(m, F) /\ Counted(F, j)
          /\ cur[x] = IF j = m THEN Nil ELSE F[j + 1]
    BY <2>1, <2>2 DEF At
  <2>4. m \in 0 .. MaxWaiting /\ F \in [1 .. m -> Entry]
        /\ (\A k, l \in 1 .. m : F[k] = F[l] => k = l)
        /\ \A k \in 1 .. m : next[F[k]] = IF k = m THEN Nil ELSE F[k + 1]
    BY <2>2 DEF Chain
  <2>5. CASE j = m
    <3>1. pc' = [pc EXCEPT ![x] = "updEnd"] /\ UNCHANGED links /\ n' = n
      BY <1>2, <2>3, <2>5 DEF UpdateWalk, Goto, links
    <3>2. Chain(m, F)' /\ Linked(m, F)' /\ AllIn(m, F)' /\ Counted(F, m)' /\ FreeClean'
      BY <2>2, <2>3, <2>5, <3>1, ListSame DEF QInv
    <3>3. At(x, m, F)' /\ Active(x)'
      BY <2>3, <2>5, <3>1, <3>2, Types DEF At, Active, ExitPC
    <3> QED  BY <2>1, <3>1, <3>2, <3>3, Others, Conclude, Types DEF Good, QInv
  <2>6. CASE j < m
    <3>1. PICK k \in 1 .. m : k = j + 1  BY <2>3, <2>4, <2>6, Types
    <3>2. cur[x] = F[k] /\ F[k] \in Entry /\ F[k] # Nil /\ inuse[F[k]] /\ process[F[k]] # None
      BY SMTT(30), <2>3, <2>4, <2>6, <3>1, Types DEF Linked, Pids, AllIn, In
    <3>3. j < MaxWaiting /\ j \in Nat /\ k - 1 = j  BY SMTT(30), <2>3, <2>4, <2>6, <3>1, Types
    <3>4. /\ count' = [count EXCEPT ![F[k]] = j] /\ n' = [n EXCEPT ![x] = k]
          /\ cur' = [cur EXCEPT ![x] = next[F[k]]] /\ pc' = pc
          /\ UNCHANGED <<inuse, next, previous, process, first, last, qcount>>
      BY <1>2, <2>3, <3>1, <3>2, <3>3, Types DEF UpdateWalk, BadElement
    <3>5. Chain(m, F)' /\ Linked(m, F)' /\ AllIn(m, F)'
      BY <2>2, <2>3, <3>4 DEF Chain, Linked, Back, Ends, Pids, AllIn
    <3>6. Counted(F, k)'
      <4> SUFFICES ASSUME NEW l \in 1 .. k PROVE count'[F[l]] = l - 1  BY DEF Counted
      <4>1. CASE l = k  BY <3>2, <3>3, <3>4, <4>1, Types
      <4>2. CASE l # k
        <5>1. l \in 1 .. j /\ F[l] # F[k] /\ F[l] \in Entry  BY <2>4, <3>1, <4>2
        <5> QED  BY <2>3, <3>4, <5>1, Types DEF Counted
      <4> QED  BY <4>1, <4>2
    <3>7. n'[x] = k /\ cur'[x] = IF k = m THEN Nil ELSE F[k + 1]
      BY <2>4, <3>4, Types
    <3>8. k \in 0 .. m  BY <3>1
    <3>9. At(x, m, F)' /\ Active(x)'
      BY <2>1, <3>4, <3>5, <3>6, <3>7, <3>8, Types DEF At, Active, ExitPC
    <3>10. FreeClean'  BY <3>4 DEF QInv, FreeClean, Clean
    <3>11. pc' = [pc EXCEPT ![x] = "upd"]  BY <2>1, <3>4, Types
    <3> QED  BY <2>1, <3>5, <3>9, <3>10, <3>11, Others, Conclude, Types DEF Good, QInv
  <2> QED  BY <2>3, <2>4, <2>5, <2>6
<1>3. CASE UpdateEnd(x)
  <2>1. pc[x] = "updEnd" /\ Active(x) /\ pc' = [pc EXCEPT ![x] = after[x]]
    BY <1>3 DEF UpdateEnd, Goto, Active, ExitPC
  <2>2. PICK m, F : Chain(m, F) /\ At(x, m, F)  BY <2>1, Busy
  <2>3. Linked(m, F) /\ AllIn(m, F) /\ n[x] = m /\ Counted(F, m)  BY <2>1, <2>2 DEF At
  <2>4. qcount' = m /\ UNCHANGED <<inuse, next, previous, process, count, first, last>>
    BY <1>3, <2>3 DEF UpdateEnd
  <2>5. Chain(m, F)' /\ Whole(m, F)'
    BY <2>2, <2>3, <2>4 DEF Chain, Whole, Linked, Back, Ends, Pids, AllIn, Counted
  <2>6. pc'[x] \in {"in", "gone", "purge"}  BY <2>1, Types DEF QInv, TypeOK
  <2>7. At(x, m, F)'  BY <2>5, <2>6 DEF At
  <2>8. FreeClean'  BY <2>4 DEF QInv, FreeClean, Clean
  <2> QED  BY <2>1, <2>5, <2>7, <2>8, Others, Conclude, Types DEF Good, QInv
<1> QED  BY <1>1, <1>2, <1>3

\* The steps at which the line is whole before and after.
LEMMA WholeLine ==
  ASSUME QInv, ~Overlap, NEW x \in Actor,
         \/ x \in Proc /\ (LockOn(x) \/ Find(x) \/ Name(x) \/ Arrive(x) \/ TryEnter(x)
                           \/ WaitServed(x) \/ WaitGivesUp(x))
         \/ ExitNamed(x)
         \/ x = Daemon /\ (PurgeStart \/ PurgeLoop \/ PurgeProbe)
  PROVE  Good'
<1> DEFINE Here == {"lock", "find", "mark", "name", "exit", "front", "purge", "probe"}
           There == {"lock", "find", "mark", "exit", "front", "purge", "probe"}
<1>1. ASSUME NEW l, pc' = [pc EXCEPT ![x] = l], UNCHANGED links,
             (Active(x) /\ pc[x] \in Here) \/ (~Active(x) /\ MayCall(x)),
             l \in There \/ l \notin AddPC \cup ExitPC \cup PurgePC
      PROVE  Good'
  <2>1. LineInv' /\ Alone'  BY <1>1, Between
  <2>2. FreeClean'  BY <1>1, ListSame DEF QInv
  <2> QED  BY <2>1, <2>2 DEF Good
<1> USE DEF Goto, Active, AddPC, ExitPC, PurgePC, list, links, CallExit
<1> HIDE DEF Good
<1>2. CASE x \in Proc /\ LockOn(x)  BY <1>1, <1>2 DEF LockOn
<1>3. CASE x \in Proc /\ Find(x)  BY <1>1, <1>3 DEF Find
<1>4. CASE x \in Proc /\ Name(x)  BY <1>1, <1>4 DEF Name
<1>5. CASE x \in Proc /\ Arrive(x)  BY <1>1, <1>5 DEF Arrive
<1>6. CASE x \in Proc /\ TryEnter(x)  BY <1>1, <1>6 DEF TryEnter
<1>7. CASE x \in Proc /\ WaitServed(x)  BY <1>1, <1>7 DEF WaitServed
<1>8. CASE x \in Proc /\ WaitGivesUp(x)  BY <1>1, <1>8 DEF WaitGivesUp
<1>9. CASE ExitNamed(x)
  <2>1. after[x] \in {"in", "gone", "purge"}  BY DEF QInv, TypeOK
  <2> QED  BY <1>1, <1>9, <2>1 DEF ExitNamed
<1>10. CASE x = Daemon /\ PurgeStart  BY <1>1, <1>10 DEF PurgeStart
<1>11. CASE x = Daemon /\ PurgeLoop  BY <1>1, <1>11 DEF PurgeLoop
<1>12. CASE x = Daemon /\ PurgeProbe  BY <1>1, <1>12 DEF PurgeProbe
<1> QED
  BY <1>2, <1>3, <1>4, <1>5, <1>6, <1>7, <1>8, <1>9, <1>10, <1>11, <1>12

\* The steps of those outside the calls.
LEMMA AsideLine ==
  ASSUME QInv, ~KillAnywhere, NEW x \in Actor,
         LeaveGame(x) \/ Kill(x) \/ OtherLeaves \/ UNCHANGED vars
  PROVE  Good'
<1>1. UNCHANGED <<links, mywait, n, cur>>
  BY DEF LeaveGame, Kill, OtherLeaves, vars, list, links, local
<1>2. \A y \in Actor : pc'[y] = pc[y] \/ (~Active(y) /\ ~Active(y)')
  BY Types DEF LeaveGame, Kill, OtherLeaves, vars, Goto, Active, AddPC, ExitPC, PurgePC
<1>3. FreeClean'  BY <1>1, ListSame DEF QInv
<1>4. Alone'  BY <1>2 DEF QInv, Alone, Active
<1>5. PICK m, F : /\ Chain(m, F)
                  /\ (\A y \in Actor : ~Active(y)) => Whole(m, F)
                  /\ \A y \in Actor : At(y, m, F)
  BY ALine DEF QInv
<1>6. Chain(m, F)' /\ ((\A y \in Actor : ~Active(y)') => Whole(m, F)')
  <2>1. (\A y \in Actor : ~Active(y)') => (\A y \in Actor : ~Active(y))
    BY <1>2 DEF Active
  <2> QED  BY <1>1, <1>5, <2>1, ListSame
<1>7. ASSUME NEW y \in Actor PROVE At(y, m, F)'
  <2>1. CASE ~Active(y)'  BY <2>1 DEF At, Active, AddPC, ExitPC, PurgePC
  <2>2. CASE Active(y)'
    <3>1. pc'[y] = pc[y] /\ At(y, m, F)  BY <1>2, <1>5, <2>2
    <3>2. /\ Whole(m, F)' <=> Whole(m, F)
          /\ Linked(m, F)' <=> Linked(m, F)
          /\ AllIn(m, F)' <=> AllIn(m, F)
          /\ AllBut(m, F, mywait[y])' <=> AllBut(m, F, mywait[y])
          /\ Clean(mywait[y])' <=> Clean(mywait[y])
          /\ Added(m, F, mywait[y])' <=> Added(m, F, mywait[y])
          /\ \A j : /\ Back(F, j)' <=> Back(F, j)
                    /\ Counted(F, j)' <=> Counted(F, j)
                    /\ Pids(F, j)' <=> Pids(F, j)
          /\ Ends(m, F)' <=> Ends(m, F)
      BY <1>1 DEF links, Whole, Linked, AllIn, AllBut, Clean, Added, Back, Counted, Pids, Ends
    <3> QED  BY <1>1, <3>1, <3>2 DEF At, links
  <2> QED  BY <2>1, <2>2
<1>8. LineInv'  BY <1>5, <1>6, <1>7 DEF LineInv, Chain, Active
<1> QED  BY <1>3, <1>4, <1>8 DEF Good

\* What the type invariant adds to that of WInv, but for the slots.
Numbers ==
  /\ count \in [Entry -> -1 .. MaxWaiting] /\ qcount \in 0 .. MaxWaiting
  /\ cur \in [Actor -> Entry \cup {Nil}] /\ n \in [Actor -> 0 .. MaxWaiting]
  /\ killcount \in 0 .. MaxWaiting /\ wild \in BOOLEAN

\* The parts of the type invariant.
LEMMA TypeParts == TypeOK <=> /\ Typed /\ Numbers
                              /\ slots \in 0 .. NSlots /\ others \in 0 .. NSlots
BY DEF TypeOK, Typed, Numbers, EntryOrNil

\* They are kept whatever overlaps.
LEMMA NumbersStep == ASSUME WInv, Numbers, [Next]_vars PROVE Numbers'
<1>0. /\ MaxWaiting \in Nat \ {0} /\ Daemon \in Actor /\ \A p \in Proc : p \in Actor
      /\ \A v \in 0 .. MaxWaiting : v < MaxWaiting => v + 1 \in 0 .. MaxWaiting
      /\ 0 \in 0 .. MaxWaiting /\ -1 \in -1 .. MaxWaiting
      /\ \A v \in 0 .. MaxWaiting : v \in -1 .. MaxWaiting
  BY WaitQueueAssumption DEF Actor
<1>1. ASSUME NEW p \in Proc, Fill(p) PROVE Numbers'
  BY <1>0, <1>1 DEF Fill, Numbers, local
<1>2. ASSUME NEW x \in Actor, Clear(x) PROVE Numbers'
  BY <1>0, <1>2 DEF Clear, Numbers, local
<1>3. ASSUME NEW x \in Actor, UpdateStart(x) PROVE Numbers'
  BY <1>0, <1>3 DEF UpdateStart, Numbers, WInv, Typed, EntryOrNil, list
<1>4. ASSUME NEW x \in Actor, UpdateWalk(x) PROVE Numbers'
  <2>1. CASE cur[x] = Nil \/ BadElement(x)
    BY <1>4, <2>1 DEF UpdateWalk, Numbers
  <2>2. CASE ~(cur[x] = Nil \/ BadElement(x))
    <3>1. n[x] < MaxWaiting /\ n[x] \in 0 .. MaxWaiting /\ cur[x] \in Entry
      BY <1>0, <1>4, <2>2 DEF BadElement, Numbers
    <3>2. next[cur[x]] \in Entry \cup {Nil}  BY <3>1 DEF WInv, Typed, EntryOrNil
    <3> QED  BY <1>0, <1>4, <2>2, <3>1, <3>2 DEF UpdateWalk, Numbers
  <2> QED  BY <2>1, <2>2
<1>5. ASSUME NEW x \in Actor, UpdateEnd(x) PROVE Numbers'
  BY <1>0, <1>5 DEF UpdateEnd, Numbers
<1>6. ASSUME PurgeStart \/ PurgeLoop \/ PurgeProbe PROVE Numbers'
  BY <1>0, <1>6 DEF PurgeStart, PurgeLoop, PurgeProbe, Numbers, list
<1>7. ASSUME NEW p \in Proc, Link(p) PROVE Numbers'
  BY <1>7 DEF Link, Numbers, local
<1>8. ASSUME NEW p \in Proc,
             \/ LockOn(p) \/ Find(p) \/ Mark(p) \/ TestFirst(p) \/ SetFirst(p)
             \/ LinkBack(p) \/ SetLast(p) \/ Name(p)
      PROVE  Numbers'
  BY <1>8 DEF LockOn, Find, Mark, TestFirst, SetFirst, LinkBack, SetLast, Name, Numbers,
     list, local
<1>9. ASSUME NEW x \in Actor,
             ExitNamed(x) \/ UnlinkFront(x) \/ UnlinkRear(x) \/ Drop(x) \/ Free(x)
      PROVE  Numbers'
  BY <1>9 DEF ExitNamed, UnlinkFront, UnlinkRear, Drop, Free, Numbers, list, local
<1>10. ASSUME NEW p \in Proc, \/ Arrive(p) \/ TryEnter(p) \/ WaitServed(p)
                              \/ WaitGivesUp(p) \/ LeaveGame(p) \/ Kill(p)
       PROVE  Numbers'
  BY <1>10 DEF Arrive, TryEnter, WaitServed, WaitGivesUp, LeaveGame, Kill, CallExit, Numbers,
     list, local
<1>11. CASE OtherLeaves \/ UNCHANGED vars
  BY <1>11 DEF OtherLeaves, vars, Numbers, list
<1> QED
  BY <1>0, <1>1, <1>2, <1>3, <1>4, <1>5, <1>6, <1>7, <1>8, <1>9, <1>10, <1>11
  DEF Next, Run, Purge, Add, Exit

\* pickslot() and freeslot()
LEMMA SlotsStep == ASSUME WInv, TypeOK, SlotsLeft, [Next]_vars PROVE SlotsLeft'
<1>1. ASSUME slots' = slots, others' = others, InGame' \subseteq InGame PROVE SlotsLeft'
  <2>1. IsFiniteSet(InGame') /\ Cardinality(InGame') <= Cardinality(InGame)
    BY <1>1, FS_Subset DEF SlotsLeft
  <2>2. Cardinality(InGame') \in Nat /\ Cardinality(InGame) \in Nat /\ NSlots \in Nat
    BY <2>1, FS_CardinalityType, WaitQueueAssumption DEF SlotsLeft
  <2> QED  BY <1>1, <2>1, <2>2 DEF SlotsLeft
<1>2. ASSUME NEW p \in Proc, p \notin InGame, slots' = slots - 1, slots > 0, others' = others,
             InGame' = InGame \cup {p}
      PROVE  SlotsLeft'
  <2>1. IsFiniteSet(InGame') /\ Cardinality(InGame') = Cardinality(InGame) + 1
    BY <1>2, FS_AddElement DEF SlotsLeft
  <2>2. Cardinality(InGame) \in Nat /\ NSlots \in Nat
    BY FS_CardinalityType, WaitQueueAssumption DEF SlotsLeft
  <2> QED  BY <1>2, <2>1, <2>2 DEF SlotsLeft
<1>3. ASSUME NEW p \in Proc, p \in InGame, slots' = slots + 1, others' = others,
             InGame' = InGame \ {p}
      PROVE  SlotsLeft'
  <2>1. IsFiniteSet(InGame') /\ Cardinality(InGame') = Cardinality(InGame) - 1
    BY <1>3, FS_RemoveElement DEF SlotsLeft
  <2>2. Cardinality(InGame) \in Nat /\ NSlots \in Nat
    BY FS_CardinalityType, WaitQueueAssumption DEF SlotsLeft
  <2> QED  BY <1>3, <2>1, <2>2 DEF SlotsLeft
<1>4. pc \in [Actor -> PC] /\ after \in [Actor -> {"in", "gone", "purge"}]
      /\ (\A p \in Proc : p \in Actor) /\ Daemon \notin Proc
  BY WaitQueueAssumption DEF TypeOK, Actor
<1> USE DEF InGame, Playing, Goto, list, local, AddPC, ExitPC, PurgePC
<1>5. ASSUME NEW p \in Proc, Add(p) PROVE SlotsLeft'
  BY <1>1, <1>4, <1>5 DEF Add, LockOn, Find, Mark, TestFirst, SetFirst, Link, LinkBack, SetLast, Fill, Name
<1>6. ASSUME NEW x \in Actor, Exit(x) PROVE SlotsLeft'
  BY <1>1, <1>4, <1>6 DEF Exit, ExitNamed, UnlinkFront, UnlinkRear, Clear, Drop, Free,
     UpdateStart, UpdateWalk, UpdateEnd
<1>7. ASSUME NEW p \in Proc, Arrive(p) \/ WaitGivesUp(p) \/ Kill(p) PROVE SlotsLeft'
  BY <1>1, <1>4, <1>7 DEF Arrive, WaitGivesUp, Kill, CallExit
<1>8. ASSUME NEW p \in Proc, TryEnter(p) PROVE SlotsLeft'
  <2>1. CASE slots > 0 /\ slots' = slots - 1 /\ pc' = [pc EXCEPT ![p] = "in"]
    BY <1>2, <1>4, <1>8, <2>1 DEF TryEnter
  <2>2. CASE slots = 0 /\ slots' = slots /\ pc' = [pc EXCEPT ![p] = "lock"]
    BY <1>1, <1>4, <1>8, <2>2 DEF TryEnter
  <2> QED  BY <1>8, <2>1, <2>2 DEF TryEnter
<1>9. ASSUME NEW p \in Proc, WaitServed(p) PROVE SlotsLeft'
  BY <1>2, <1>4, <1>9 DEF WaitServed, CallExit
<1>10. ASSUME NEW p \in Proc, LeaveGame(p) PROVE SlotsLeft'
  BY <1>3, <1>4, <1>10 DEF LeaveGame
<1>11. CASE OtherLeaves
  <2>1. InGame' = InGame /\ others' = others - 1 /\ slots' = slots + 1 /\ others > 0
    BY <1>11 DEF OtherLeaves
  <2>2. Cardinality(InGame) \in Nat  BY FS_CardinalityType DEF SlotsLeft
  <2> HIDE DEF InGame
  <2> QED  BY <2>1, <2>2 DEF SlotsLeft
<1>12. CASE PurgeStart \/ PurgeLoop \/ PurgeProbe
  BY <1>1, <1>4, <1>12 DEF PurgeStart, PurgeLoop, PurgeProbe, CallExit
<1>13. CASE UNCHANGED vars  BY <1>1, <1>13 DEF vars
<1> QED
  BY <1>4, <1>5, <1>6, <1>7, <1>8, <1>9, <1>10, <1>11, <1>12, <1>13
  DEF Next, Run, Purge, Actor

\* Whoever has marked an entry has it until it is free again.
LEMMA OwnersStep ==
  ASSUME WInv, OwnersStay, ~KillAnywhere, [Next]_vars PROVE OwnersStay'
<1> USE WaitQueueAssumption DEF OwnersStay, Holding, AddPC, ExitPC, PurgePC, Goto, list, local, Actor
<1>0. Typed  BY DEF WInv
<1> USE DEF Typed, EntryOrNil
<1>1. ASSUME NEW p \in Proc, LockOn(p) \/ TestFirst(p) \/ SetFirst(p) \/ Link(p)
                   \/ LinkBack(p) \/ SetLast(p) \/ Fill(p) \/ Name(p)
      PROVE  OwnersStay'
  BY <1>0, <1>1 DEF LockOn, TestFirst, SetFirst, Link, LinkBack, SetLast, Fill, Name
<1>2. ASSUME NEW p \in Proc, Find(p) PROVE OwnersStay'
  BY <1>0, <1>2 DEF Find
<1>3. ASSUME NEW p \in Proc, Mark(p) PROVE OwnersStay'
  BY <1>0, <1>3 DEF Mark, WInv, Choosing
<1>4. ASSUME NEW x \in Actor, UnlinkFront(x) \/ UnlinkRear(x) \/ Clear(x)
                   \/ Drop(x) \/ UpdateStart(x) \/ UpdateWalk(x) \/ UpdateEnd(x)
      PROVE  OwnersStay'
  BY <1>0, <1>4 DEF UnlinkFront, UnlinkRear, Clear, Drop, UpdateStart, UpdateWalk, UpdateEnd
<1>5. ASSUME NEW x \in Actor, ExitNamed(x) PROVE OwnersStay'
  BY <1>0, <1>5 DEF ExitNamed, WInv, Held, WithQueue
<1>6. ASSUME NEW x \in Actor, Free(x) PROVE OwnersStay'
  BY <1>0, <1>6 DEF Free, WInv, Held, Purging, Working
<1>7. ASSUME NEW p \in Proc, Arrive(p) \/ TryEnter(p) \/ WaitServed(p) \/ WaitGivesUp(p)
                   \/ LeaveGame(p) \/ Kill(p)
      PROVE  OwnersStay'
  BY <1>0, <1>7 DEF Arrive, TryEnter, WaitServed, WaitGivesUp, LeaveGame, Kill, CallExit
<1>8. CASE PurgeStart \/ PurgeLoop \/ PurgeProbe \/ OtherLeaves \/ UNCHANGED vars
  BY <1>0, <1>8 DEF PurgeStart, PurgeLoop, PurgeProbe, OtherLeaves, vars, CallExit
<1> QED
  BY <1>1, <1>2, <1>3, <1>4, <1>5, <1>6, <1>7, <1>8 DEF Next, Run, Purge, Add, Exit

\* It holds of an empty queue.
LEMMA QFirst == Init => QInv
<1> SUFFICES ASSUME Init PROVE QInv  OBVIOUS
<1>1. WInv  BY WInvInit
<1>2. TypeOK
  <2>1. Typed  BY <1>1 DEF WInv
  <2>2. Numbers
    <3>1. 0 \in 0 .. MaxWaiting /\ -1 \in -1 .. MaxWaiting  BY WaitQueueAssumption
    <3> QED  BY <3>1 DEF Init, Numbers
  <2>3. slots \in 0 .. NSlots /\ others \in 0 .. NSlots
    BY WaitQueueAssumption DEF Init
  <2> QED  BY <2>1, <2>2, <2>3, TypeParts
<1>3. \A x \in Actor : ~Active(x) /\ ~Playing(x)
  BY DEF Init, Active, Playing, AddPC, ExitPC, PurgePC
<1>4. Alone  BY <1>3 DEF Alone
<1>5. FreeClean  BY DEF Init, FreeClean, Clean
<1>6. OwnersStay  BY DEF Init, OwnersStay
<1>7. SlotsLeft
  <2>1. InGame = {}  BY <1>3 DEF InGame, Actor
  <2>2. IsFiniteSet({}) /\ Cardinality({}) = 0  BY FS_EmptySet
  <2>3. others \in 0 .. NSlots /\ slots = NSlots - others /\ NSlots \in Nat
    BY WaitQueueAssumption DEF Init
  <2> QED  BY <2>1, <2>2, <2>3 DEF SlotsLeft
<1>8. LineInv
  <2>1. \A F : Chain(0, [k \in 1 .. 0 |-> 0]) /\ Whole(0, F)
    BY WaitQueueAssumption
    DEF Init, Chain, Whole, Linked, Back, Ends, Pids, AllIn, In, Counted
  <2>2. \A x \in Actor : \A F : At(x, 0, F)
    BY <1>3 DEF At, Active, AddPC, ExitPC, PurgePC
  <2> QED  BY <2>1, <2>2, ALine
<1> QED  BY <1>1, <1>2, <1>4, <1>5, <1>6, <1>7, <1>8 DEF QInv

\* If calls do not overlap and nobody is killed inside one, a step keeps it.
LEMMA QStep == ASSUME QInv, ~Overlap, ~KillAnywhere, [Next]_vars PROVE QInv'
<1>1. WInv' /\ OwnersStay' /\ SlotsLeft'
  BY WInvNext, OwnersStep, SlotsStep DEF QInv
<1>2. TypeOK'
  <2>1. Typed' /\ Numbers'  BY <1>1, NumbersStep, TypeParts DEF QInv, WInv
  <2>2. slots' \in 0 .. NSlots /\ others' \in 0 .. NSlots
    <3>1. Cardinality(InGame') \in Nat /\ NSlots \in Nat
      BY <1>1, FS_CardinalityType, WaitQueueAssumption DEF SlotsLeft
    <3> QED  BY <1>1, <3>1 DEF SlotsLeft
  <2> QED  BY <2>1, <2>2 DEF TypeOK, Typed, Numbers, EntryOrNil
<1>3. ASSUME NEW p \in Proc, Add(p) \/ Arrive(p) \/ TryEnter(p) \/ WaitServed(p)
                             \/ LeaveGame(p) \/ WaitGivesUp(p) \/ Kill(p)
      PROVE  Good'
  <2>1. p \in Actor  BY DEF Actor
  <2> QED
    BY <1>3, <2>1, WholeLine, AsideLine, MarkLine, TestFirstLine, SetFirstLine, LinkLine,
       LinkBackLine, SetLastLine, FillLine DEF Add
<1>4. ASSUME NEW x \in Actor, Exit(x) PROVE Good'
  BY <1>4, WholeLine, UnlinkFrontLine, UnlinkRearLine, ClearLine, DropLine, FreeLine,
     UpdateLine DEF Exit
<1>5. ASSUME PurgeStart \/ PurgeLoop \/ PurgeProbe \/ OtherLeaves \/ UNCHANGED vars
      PROVE  Good'
  <2>1. Daemon \in Actor  BY DEF Actor
  <2>2. CASE PurgeStart \/ PurgeLoop \/ PurgeProbe  BY <2>1, <2>2, WholeLine
  <2>3. CASE OtherLeaves  BY <2>1, <2>3, AsideLine
  <2>4. CASE UNCHANGED vars  BY <2>1, <2>4, AsideLine
  <2> QED  BY <1>5, <2>2, <2>3, <2>4
<1>6. Good'
  <2>1. Daemon \in Actor /\ \A p \in Proc : p \in Actor  BY DEF Actor
  <2> QED  BY <1>3, <1>4, <1>5, <2>1 DEF Next, Run, Purge
<1> QED  BY <1>1, <1>2, <1>6 DEF QInv, Good

\* Numbers have a least: of the intervals below them one is minimal, since the
\* strict subsets of a finite set are well founded.
LEMMA LeastNumber ==
  ASSUME NEW I \in SUBSET Nat, I # {} PROVE \E k \in I : \A m \in I : k <= m
<1> DEFINE T == {1 .. k : k \in I}
<1>1. T \subseteq FiniteSubsetsOf(Nat)
  <2> SUFFICES ASSUME NEW k \in I PROVE 1 .. k \in FiniteSubsetsOf(Nat)  OBVIOUS
  <2>1. IsFiniteSet(1 .. k)  BY FS_Interval
  <2> QED  BY <2>1 DEF FiniteSubsetsOf
<1>2. T # {}  OBVIOUS
<1>3. IsWellFoundedOn(StrictSubsetOrdering(Nat), FiniteSubsetsOf(Nat))
  BY FS_StrictSubsetOrderingWellFounded
<1> HIDE DEF T
<1>4. PICK x \in T : \A y \in T : ~(<<y, x>> \in StrictSubsetOrdering(Nat))
  BY <1>1, <1>2, <1>3, WFMin
<1>5. PICK k \in I : x = 1 .. k  BY DEF T
<1>6. ASSUME NEW m \in I, m < k PROVE FALSE
  <2>1. 1 .. m \in T /\ k \in Nat /\ m \in Nat  BY DEF T
  <2>2. 1 .. m \subseteq 1 .. k /\ k \in 1 .. k /\ k \notin 1 .. m  BY <1>6, <2>1
  <2>3. <<1 .. m, x>> \in StrictSubsetOrdering(Nat)
    BY <1>5, <2>1, <2>2 DEF StrictSubsetOrdering
  <2> QED  BY <1>4, <2>1, <2>3
<1> QED  BY <1>6

\* Walk[] has the recursion it is defined by.
LEMMA WalkIs ==
  Walk = [k \in 0 .. MaxWaiting |-> [w \in Entry \cup {Nil} |->
            IF w = Nil \/ k = 0 THEN <<>> ELSE <<w>> \o Walk[k - 1][next[w]]]]
<1> DEFINE Round(g, k) == [w \in Entry \cup {Nil} |->
                             IF w = Nil \/ k = 0 THEN <<>> ELSE <<w>> \o g[k - 1][next[w]]]
           IsWalk(g, j) == g = [k \in 0 .. j |-> Round(g, k)]
           T == {j \in 0 .. MaxWaiting : ~\E g : IsWalk(g, j)}
<1>0. MaxWaiting \in Nat  BY WaitQueueAssumption
<1>1. T = {}
  <2> SUFFICES ASSUME T # {} PROVE FALSE  OBVIOUS
  <2>1. T \in SUBSET Nat  OBVIOUS
  <2>2. PICK j \in T : \A i \in T : j <= i
    <3> HIDE DEF T
    <3> QED  BY <2>1, LeastNumber
  <2>3. j \in 0 .. MaxWaiting /\ ~\E g : IsWalk(g, j)  OBVIOUS
  <2>4. CASE j = 0
    <3> DEFINE e == [w \in Entry \cup {Nil} |-> <<>>]
               g == [k \in 0 .. 0 |-> e]
    <3>1. Round(g, 0) = e  OBVIOUS
    <3>2. \A k \in 0 .. 0 : k = 0  OBVIOUS
    <3> HIDE DEF Round, e
    <3>3. IsWalk(g, 0)  BY <3>1, <3>2
    <3> QED  BY <2>3, <2>4, <3>3
  <2>5. CASE j > 0
    <3>1. j - 1 \in 0 .. MaxWaiting /\ ~(j <= j - 1)  BY <1>0, <2>3, <2>5
    <3>2. j - 1 \notin T  BY <2>2, <3>1
    <3>3. PICK h : IsWalk(h, j - 1)  BY <3>1, <3>2
    <3> DEFINE r == Round(h, j)
               g == [k \in 0 .. j |-> IF k = j THEN r ELSE h[k]]
    <3> HIDE DEF T
    <3>4. ASSUME NEW k \in 0 .. j PROVE Round(g, k) = Round(h, k)
      <4>1. CASE k = 0  BY <4>1
      <4>2. CASE k > 0
        <5>1. k - 1 \in 0 .. j /\ k - 1 # j  BY <1>0, <2>3, <4>2
        <5>2. g[k - 1] = h[k - 1]  BY <5>1
        <5> HIDE DEF g
        <5> QED  BY <5>2
      <4>3. k = 0 \/ k > 0  BY <1>0, <2>3
      <4> QED  BY <4>1, <4>2, <4>3
    <3>5. ASSUME NEW k \in 0 .. j PROVE g[k] = Round(h, k)
      <4>1. CASE k = j  BY <4>1
      <4>2. CASE k # j
        <5>1. k \in 0 .. j - 1  BY <1>0, <2>3, <4>2
        <5> HIDE DEF Round
        <5> QED  BY <3>3, <4>2, <5>1
      <4> QED  BY <4>1, <4>2
    <3>6. IsWalk(g, j)
      <4> HIDE DEF Round, r
      <4>1. \A k \in 0 .. j : g[k] = Round(g, k)  BY <3>4, <3>5
      <4> QED  BY <4>1
    <3> QED  BY <2>3, <3>6
  <2> QED  BY <1>0, <2>3, <2>4, <2>5
<1>2. MaxWaiting \in 0 .. MaxWaiting  BY <1>0
<1>3. \E g : IsWalk(g, MaxWaiting)
  <2>1. \A j \in 0 .. MaxWaiting : \E g : IsWalk(g, j)
    <3> HIDE DEF IsWalk
    <3> QED  BY <1>1
  <2> HIDE DEF IsWalk
  <2> QED  BY <1>2, <2>1
<1> QED  BY <1>3 DEF Walk

\* Following `next' from `first' gives the list.
LEMMA LineIs ==
  ASSUME NEW m, NEW F, Chain(m, F)
  PROVE  /\ Line \in Seq(Entry) /\ Len(Line) = m
         /\ \A k \in 1 .. m : Line[k] = F[k]
<1>0. /\ MaxWaiting \in Nat /\ Nil \notin Entry
      /\ m \in 0 .. MaxWaiting /\ F \in [1 .. m -> Entry]
      /\ first = IF m = 0 THEN Nil ELSE F[1]
      /\ \A k \in 1 .. m : next[F[k]] = IF k = m THEN Nil ELSE F[k + 1]
  BY WaitQueueAssumption DEF Chain, Entry, Nil
<1> DEFINE From(d) == IF d = 0 THEN Nil ELSE F[m - d + 1]
           Rest(s, d) == /\ s \in Seq(Entry) /\ Len(s) = d
                         /\ \A i \in 1 .. d : s[i] = F[m - d + i]
           P(d) == \A k \in d .. MaxWaiting : Rest(Walk[k][From(d)], d)
           T == {d \in 0 .. m : ~P(d)}
<1>1. ASSUME NEW k \in 0 .. MaxWaiting, NEW w \in Entry \cup {Nil}
      PROVE  Walk[k][w] = IF w = Nil \/ k = 0 THEN <<>> ELSE <<w>> \o Walk[k - 1][next[w]]
  <2>1. Walk[k] = [v \in Entry \cup {Nil} |->
                     IF v = Nil \/ k = 0 THEN <<>> ELSE <<v>> \o Walk[k - 1][next[v]]]
    BY WalkIs
  <2> QED  BY <2>1
<1>2. T = {}
  <2> SUFFICES ASSUME T # {} PROVE FALSE  OBVIOUS
  <2>1. T \in SUBSET Nat  BY <1>0
  <2>2. PICK d \in T : \A i \in T : d <= i
    <3> HIDE DEF T
    <3> QED  BY <2>1, LeastNumber
  <2>3. d \in 0 .. m /\ ~P(d)  OBVIOUS
  <2>4. CASE d = 0
    <3> SUFFICES ASSUME NEW k \in 0 .. MaxWaiting PROVE Rest(Walk[k][Nil], 0)
      BY <2>3, <2>4
    <3>1. Walk[k][Nil] = <<>>  BY <1>1
    <3>2. <<>> \in Seq(Entry) /\ Len(<<>>) = 0  OBVIOUS
    <3> QED  BY <3>1, <3>2
  <2>5. CASE d > 0
    <3> SUFFICES ASSUME NEW k \in d .. MaxWaiting PROVE Rest(Walk[k][From(d)], d)
      BY <2>3
    <3>1. d - 1 \in 0 .. m /\ ~(d <= d - 1)  BY <1>0, <2>3, <2>5
    <3>2. P(d - 1)  BY <2>2, <3>1
    <3>3. k - 1 \in (d - 1) .. MaxWaiting /\ k \in 0 .. MaxWaiting /\ k # 0
      BY <1>0, <2>3, <2>5
    <3>4. PICK i \in 1 .. m : i = m - d + 1  BY <1>0, <2>3, <2>5
    <3>5. next[F[i]] = From(d - 1)
      <4>1. i = m <=> d - 1 = 0  BY <1>0, <2>3, <3>4
      <4>2. i + 1 = m - (d - 1) + 1  BY <1>0, <2>3, <3>4
      <4> QED  BY <1>0, <4>1, <4>2
    <3>6. PICK s : s = Walk[k - 1][From(d - 1)] /\ Rest(s, d - 1)  BY SMTT(30), <3>2, <3>3
    <3>7. F[i] \in Entry  BY <1>0
    <3>8. Walk[k][F[i]] = <<F[i]>> \o s
      <4>1. F[i] # Nil /\ F[i] \in Entry \cup {Nil}  BY <1>0, <3>7
      <4>2. Walk[k][F[i]] = <<F[i]>> \o Walk[k - 1][next[F[i]]]
        <5>1. Walk[k][F[i]] = IF F[i] = Nil \/ k = 0 THEN <<>>
                              ELSE <<F[i]>> \o Walk[k - 1][next[F[i]]]
          BY <1>1, <3>3, <4>1
        <5> QED  BY <3>3, <4>1, <5>1
      <4>3. s = Walk[k - 1][From(d - 1)]  BY <3>6
      <4> QED  BY <3>5, <4>2, <4>3
    <3>9. PICK v : v = <<F[i]>>  OBVIOUS
    <3>10. v \in Seq(Entry) /\ Len(v) = 1 /\ v[1] = F[i]  BY <3>7, <3>9
    <3>11. s \in Seq(Entry) /\ Len(s) = d - 1  BY <3>6
    <3>12. /\ v \o s \in Seq(Entry) /\ Len(v \o s) = Len(v) + Len(s)
           /\ \A j \in 1 .. Len(v) + Len(s) :
                (v \o s)[j] = IF j <= Len(v) THEN v[j] ELSE s[j - Len(v)]
      BY <3>10, <3>11, ConcatProperties
    <3>13. Len(v) + Len(s) = d  BY <2>3, <3>10, <3>11
    <3>14. ASSUME NEW j \in 1 .. d PROVE (v \o s)[j] = F[m - d + j]
      <4>1. CASE j = 1
        <5>1. m - d + j = i  BY <1>0, <2>3, <3>4, <4>1
        <5>2. j \in 1 .. Len(v) + Len(s) /\ j <= Len(v)  BY <3>10, <3>13, <4>1
        <5>3. (v \o s)[j] = v[j]  BY <3>12, <5>2
        <5> QED  BY <3>10, <4>1, <5>1, <5>3
      <4>2. CASE j > 1
        <5>1. j - 1 \in 1 .. d - 1 /\ m - (d - 1) + (j - 1) = m - d + j /\ ~(j <= 1)
          BY <1>0, <2>3, <4>2
        <5>2. s[j - 1] = F[m - (d - 1) + (j - 1)]  BY <3>6, <5>1
        <5>3. j \in 1 .. Len(v) + Len(s) /\ ~(j <= Len(v)) /\ j - Len(v) = j - 1
          BY <2>3, <3>10, <3>13, <5>1
        <5>4. (v \o s)[j] = s[j - 1]  BY <3>12, <5>3
        <5> QED  BY <5>1, <5>2, <5>4
      <4>3. d \in Nat  BY <1>0, <2>3
      <4>4. j = 1 \/ j > 1  BY <4>3
      <4> QED  BY <4>1, <4>2, <4>4
    <3>15. From(d) = F[i]  BY <2>5, <3>4
    <3>16. Rest(v \o s, d)  BY <3>12, <3>13, <3>14
    <3>17. Walk[k][From(d)] = v \o s
      <4>1. Walk[k][F[i]] = v \o s  BY <3>8, <3>9
      <4> HIDE DEF From
      <4> QED  BY <3>15, <4>1
    <3> HIDE DEF Rest, From
    <3> QED  BY <3>16, <3>17
  <2> QED  BY <1>0, <2>3, <2>4, <2>5
<1>3. m \in 0 .. m /\ MaxWaiting \in m .. MaxWaiting  BY <1>0
<1>4. P(m)
  <2> HIDE DEF P
  <2>1. \A d \in 0 .. m : P(d)  BY <1>2
  <2> QED  BY <1>3, <2>1
<1>5. Rest(Walk[MaxWaiting][From(m)], m)  BY <1>3, <1>4
<1>6. From(m) = first
  <2>1. m - m + 1 = 1  BY <1>0
  <2> QED  BY <1>0, <2>1
<1>7. \A i \in 1 .. m : m - m + i = i  BY <1>0
<1> QED  BY <1>5, <1>6, <1>7 DEF Line

\* A list without repetition has as many entries as its length.
LEMMA AsMany ==
  ASSUME NEW m, NEW F, Chain(m, F), AllIn(m, F)
  PROVE  Cardinality({w \in Entry : inuse[w]}) = m
<1> DEFINE S == {w \in Entry : inuse[w]}
<1>1. m \in Nat /\ F \in [1 .. m -> Entry]  BY DEF Chain
<1>2. F \in [1 .. m -> S] /\ \A w \in S : \E k \in 1 .. m : F[k] = w
  BY <1>1 DEF AllIn, In
<1>3. F \in Bijection(1 .. m, S)
  <2> HIDE DEF S
  <2> QED  BY <1>2, Fun_IsBij DEF Chain
<1>4. ExistsBijection(1 .. m, S)
  <2> HIDE DEF S
  <2> QED  BY <1>3 DEF ExistsBijection
<1> HIDE DEF S
<1>5. Cardinality(S) = m  BY <1>1, <1>4, FS_CountingElements
<1> QED  BY <1>5 DEF S

\* Between two calls the list is whole.
LEMMA QWhole == QInv => ListWhole
<1> SUFFICES ASSUME QInv, Quiet PROVE ListWhole  BY DEF ListWhole
<1>1. \A x \in Actor : ~Active(x)  BY DEF Quiet, Active
<1>2. PICK m, F : Chain(m, F) /\ Whole(m, F)  BY <1>1, ALine DEF QInv
<1>3. /\ Line \in Seq(Entry) /\ Len(Line) = m
      /\ \A k \in 1 .. m : Line[k] = F[k]
  BY <1>2, LineIs
<1>4. m \in Nat /\ F \in [1 .. m -> Entry]  BY <1>2 DEF Chain
<1>5. {Line[k] : k \in 1 .. Len(Line)} = {w \in Entry : inuse[w]}
  BY <1>2, <1>3, <1>4 DEF Whole, AllIn, In
<1>6. /\ Len(Line) = Cardinality({w \in Entry : inuse[w]})
      /\ qcount = Len(Line)
  BY <1>2, <1>3, AsMany DEF Whole
<1>7. last = IF Line = <<>> THEN Nil ELSE Line[Len(Line)]
  <2>1. CASE m = 0
    <3>1. Line = <<>>  BY <1>3, <2>1, EmptySeq
    <3> QED  BY <1>2, <2>1, <3>1 DEF Whole, Linked, Ends
  <2>2. CASE m > 0
    <3>1. Line # <<>> /\ m \in 1 .. m  BY <1>3, <1>4, <2>2
    <3> QED  BY <1>2, <1>3, <2>2, <3>1 DEF Whole, Linked, Ends
  <2> QED  BY <1>4, <2>1, <2>2
<1>8. ASSUME NEW k \in 1 .. Len(Line)
      PROVE  /\ previous[Line[k]] = IF k = 1 THEN Nil ELSE Line[k - 1]
             /\ count[Line[k]] = k - 1
  <2>1. k \in 1 .. m /\ Line[k] = F[k]  BY <1>3
  <2>2. k # 1 => Line[k - 1] = F[k - 1]  BY <1>3, <1>4, <2>1
  <2> QED  BY <1>2, <2>1, <2>2 DEF Whole, Linked, Back, Counted
<1> QED  BY <1>5, <1>6, <1>7, <1>8 DEF ListWhole

\* When calls on the list do not overlap and a process is not killed inside one,
\* what queue_add(), queue_exit() and queues_purge() store stays in waiting[] and
\* makes, between two calls, one doubly linked list of exactly the entries in use,
\* with the position of each in its count.
THEOREM QueueHolds ==
  ASSUME ~Overlap, ~KillAnywhere
  PROVE  Spec => []QueueInv
<1>1. QInv /\ [Next]_vars => QInv'  BY QStep
<1>2. QInv => QueueInv  BY QWhole DEF QInv, QueueInv
<1> QED  BY QFirst, <1>1, <1>2, PTL DEF Spec

-----------------------------------------------------------------------------
(* First come, first served *)

\* The state of FairQueue: the processes in line, those that found no line, and
\* those with a slot (InGame).
Row  == [k \in 1 .. Len(Line) |-> owner[Line[k]]]
Seen == {p \in Proc : pc[p] = "try"}
FairStep == FQ!FQNext \/ UNCHANGED FQ!fqvars

\* The row is read off the list.
RowOf == \A m, F : Chain(m, F) => Row = [k \in 1 .. m |-> owner[F[k]]]
LEMMA RowIs == RowOf
<1> SUFFICES ASSUME NEW m, NEW F, Chain(m, F)
             PROVE  Row = [k \in 1 .. m |-> owner[F[k]]]
  BY DEF RowOf
<1>1. Len(Line) = m /\ \A k \in 1 .. m : Line[k] = F[k]  BY LineIs
<1> QED  BY <1>1 DEF Row

\* So it is after a step.
LEMMA RowIsNext == RowOf'
BY RowIs, PTL

\* A step that changes neither the list nor who owns its entries leaves the row.
LEMMA RowStays ==
  ASSUME NEW m, NEW F, Chain(m, F), Chain(m, F)',
         \A k \in 1 .. m : owner'[F[k]] = owner[F[k]]
  PROVE  Row' = Row
<1>1. Row = [k \in 1 .. m |-> owner[F[k]]]  BY RowIs DEF RowOf
<1>2. Row' = [k \in 1 .. m |-> owner'[F[k]]]  BY RowIsNext DEF RowOf
<1> QED  BY <1>1, <1>2

\* A step of x that neither enters nor leaves the game, or the attempt to.
LEMMA Elsewhere ==
  ASSUME QInv, NEW x \in Actor, NEW l, pc' = [pc EXCEPT ![x] = l],
         \A y \in Proc \ {x} : after'[y] = after[y],
         x \in Proc => /\ pc[x] # "try" /\ l # "try"
                       /\ Playing(x)' <=> Playing(x)
  PROVE  Seen' = Seen /\ InGame' = InGame
<1>1. \A y \in Actor : pc'[y] = IF y = x THEN l ELSE pc[y]  BY Types
<1>2. Proc \subseteq Actor  BY DEF Actor
<1>3. Seen' = Seen  BY <1>1, <1>2 DEF Seen
<1>4. \A y \in Proc : Playing(y)' <=> Playing(y)  BY <1>1, <1>2 DEF Playing
<1> QED  BY <1>3, <1>4 DEF InGame

\* Then FairQueue does nothing.
LEMMA Stutters ==
  ASSUME Row' = Row, Seen' = Seen, InGame' = InGame
  PROVE  FairStep
BY DEF FairStep, FQ!fqvars, Row, Seen, InGame, Playing

\* The row is a sequence as long as the list.
LEMMA RowSeq ==
  ASSUME QInv, NEW m, NEW F, Chain(m, F), \A k \in 1 .. m : inuse[F[k]]
  PROVE  Row \in Seq(Proc) /\ Len(Row) = m /\ \A k \in 1 .. m : Row[k] = owner[F[k]]
<1>0. m \in Nat  BY DEF Chain
<1>1. Row = [k \in 1 .. m |-> owner[F[k]]]  BY RowIs DEF RowOf
<1>2. \A k \in 1 .. m : owner[F[k]] \in Proc  BY DEF QInv, OwnersStay, Chain
<1> QED  BY <1>0, <1>1, <1>2

\* Nobody whose entry is not in the list stands in the row.
LEMMA NotInRow ==
  ASSUME QInv, NEW m, NEW F, NEW p \in Proc, Chain(m, F), AllBut(m, F, mywait[p])
  PROVE  ~FQ!InLine(p)
<1>1. \A k \in 1 .. m : F[k] \in Entry /\ inuse[F[k]] /\ F[k] # mywait[p]
  BY DEF Chain, AllBut, In
<1>2. \A k \in 1 .. m : owner[F[k]] # p  BY <1>1 DEF QInv, OwnersStay
<1>3. Len(Row) = m /\ \A k \in 1 .. m : Row[k] # p  BY <1>1, <1>2, RowSeq
<1>4. ~\E k \in 1 .. Len(Row) : Row[k] = p  BY <1>3
<1> QED  BY <1>4 DEF FQ!InLine, Row

\* SetFirst and Link are where a process joins the line.
LEMMA SetFirstFair ==
  ASSUME QInv, NEW p \in Proc, SetFirst(p)
  PROVE  FairStep
<1>1. /\ p \in Actor /\ pc[p] = "first" /\ pc' = [pc EXCEPT ![p] = "last"]
      /\ after' = after /\ owner' = owner
  BY DEF SetFirst, Goto, Actor, local
<1>2. Seen' = Seen /\ InGame' = InGame
  <2>1. ~Playing(p) /\ ~Playing(p)'  BY <1>1, Types DEF Playing, ExitPC
  <2> QED  BY <1>1, <2>1, Elsewhere
<1>3. p \notin Seen \cup InGame  BY <1>1 DEF Seen, InGame, Playing, ExitPC
<1>4. PICK F, G : Chain(0, F) /\ Chain(1, G)' /\ G[1] = mywait[p]
  BY SetFirstLine
<1>5. owner[mywait[p]] = p  BY <1>1 DEF QInv, WInv, Held, Holding, AddPC
<1>6. Row = <<>> 
  <2>1. Row = [k \in 1 .. 0 |-> owner[F[k]]]  BY <1>4, RowIs DEF RowOf
  <2> QED  BY <2>1
<1>7. Row' = <<p>>
  <2>1. Row' = [k \in 1 .. 1 |-> owner'[G[k]]]  BY <1>4, RowIsNext DEF RowOf
  <2>2. \A k \in 1 .. 1 : owner'[G[k]] = p  BY <1>1, <1>4, <1>5
  <2> QED  BY <2>1, <2>2
<1>8. Row' = Append(Row, p) /\ ~\E k \in 1 .. Len(Row) : Row[k] = p  BY <1>6, <1>7
<1>9. FQ!Join(p)
  BY <1>2, <1>3, <1>8 DEF FQ!Join, FQ!InLine, Row, Seen, InGame, Playing
<1> QED  BY <1>9 DEF FairStep, FQ!FQNext

\* Likewise behind somebody.
LEMMA LinkFair ==
  ASSUME QInv, NEW p \in Proc, Link(p)
  PROVE  FairStep
<1>1. /\ p \in Actor /\ pc[p] = "link" /\ pc' = [pc EXCEPT ![p] = "back"]
      /\ after' = after /\ owner' = owner
  BY DEF Link, Goto, Actor, local
<1>2. Seen' = Seen /\ InGame' = InGame
  <2>1. ~Playing(p) /\ ~Playing(p)'  BY <1>1, Types DEF Playing, ExitPC
  <2> QED  BY <1>1, <2>1, Elsewhere
<1>3. p \notin Seen \cup InGame  BY <1>1 DEF Seen, InGame, Playing, ExitPC
<1>4. PICK m, F, G : /\ Chain(m, F) /\ AllBut(m, F, mywait[p])
                     /\ Chain(m + 1, G)' /\ G[m + 1] = mywait[p]
                     /\ \A k \in 1 .. m : G[k] = F[k]
  BY LinkLine
<1>5. owner[mywait[p]] = p  BY <1>1 DEF QInv, WInv, Held, Holding, AddPC
<1>6. /\ m \in Nat /\ Row \in Seq(Proc) /\ Len(Row) = m
      /\ \A k \in 1 .. m : Row[k] = owner[F[k]]
  <2>1. \A k \in 1 .. m : inuse[F[k]]  BY <1>4 DEF Chain, AllBut, In
  <2>2. m \in Nat  BY <1>4 DEF Chain
  <2> QED  BY <1>4, <2>1, <2>2, RowSeq
<1>7. Row' = [k \in 1 .. m + 1 |-> owner[G[k]]]  BY <1>1, <1>4, RowIsNext DEF RowOf
<1>8. \A k \in 1 .. m + 1 : owner[G[k]] = IF k = m + 1 THEN p ELSE Row[k]
  BY <1>4, <1>5, <1>6
<1>9. Row' = Append(Row, p)
  <2>1. PICK v : v = Append(Row, p)  OBVIOUS
  <2>2. /\ v \in Seq(Proc) /\ Len(v) = m + 1
        /\ \A k \in 1 .. m + 1 : v[k] = IF k = m + 1 THEN p ELSE Row[k]
    BY <1>6, <2>1, AppendProperties
  <2>3. v = [k \in 1 .. m + 1 |-> v[k]]  BY <2>2
  <2>4. \A k \in 1 .. m + 1 : v[k] = owner[G[k]]  BY <1>8, <2>2
  <2> QED  BY <1>7, <2>1, <2>3, <2>4
<1>10. ~FQ!InLine(p)  BY <1>4, NotInRow
<1>11. FQ!Join(p)
  BY <1>2, <1>3, <1>9, <1>10 DEF FQ!Join, Row, Seen, InGame, Playing
<1> QED  BY <1>11 DEF FairStep, FQ!FQNext

\* UnlinkFront is where one leaves it.
LEMMA UnlinkFrontFair ==
  ASSUME QInv, NEW x \in Actor, UnlinkFront(x)
  PROVE  FairStep
<1>1. /\ pc[x] = "front" /\ pc' = [pc EXCEPT ![x] = "rear"] /\ Active(x)
      /\ after' = after /\ owner' = owner
  BY DEF UnlinkFront, Goto, local, Active, ExitPC
<1>2. Seen' = Seen /\ InGame' = InGame
  <2>1. x \in Proc => (Playing(x) <=> Playing(x)')
    BY <1>1, Types DEF Playing, ExitPC
  <2> QED  BY <1>1, <2>1, Elsewhere
<1>3. PICK m, F, G : \E i \in 1 .. m :
         /\ Chain(m, F) /\ F[i] = mywait[x] /\ inuse[mywait[x]]
         /\ Chain(m - 1, G)'
         /\ \A k \in 1 .. m - 1 : G[k] = IF k < i THEN F[k] ELSE F[k + 1]
  BY UnlinkFrontLine
<1>4. PICK i \in 1 .. m :
         /\ Chain(m, F) /\ F[i] = mywait[x] /\ inuse[mywait[x]]
         /\ Chain(m - 1, G)'
         /\ \A k \in 1 .. m - 1 : G[k] = IF k < i THEN F[k] ELSE F[k + 1]
  BY <1>3
<1>5. m \in Nat /\ F \in [1 .. m -> Entry]  BY <1>4 DEF Chain
<1>6. Row = [k \in 1 .. m |-> owner[F[k]]]  BY <1>4, RowIs DEF RowOf
<1>7. Len(Row) = m  BY <1>4, <1>5, LineIs DEF Row
<1>8. Row' = [k \in 1 .. m - 1 |-> owner[G[k]]]  BY <1>1, <1>4, RowIsNext DEF RowOf
<1>9. Row' = [k \in 1 .. Len(Row) - 1 |-> IF k < i THEN Row[k] ELSE Row[k + 1]]
  <2>1. ASSUME NEW k \in 1 .. m - 1
        PROVE  owner[G[k]] = IF k < i THEN Row[k] ELSE Row[k + 1]
    BY <1>4, <1>5, <1>6
  <2> QED  BY <1>7, <1>8, <2>1
<1>10. PICK p \in Proc : Row[i] = p
  <2>1. F[i] \in Entry /\ inuse[F[i]]  BY <1>4, <1>5
  <2>2. owner[F[i]] \in Proc  BY <2>1 DEF QInv, OwnersStay
  <2> QED  BY <1>6, <2>2
<1>11. FQ!Leave(p)
  <2>1. \E h \in 1 .. Len(Row) :
          /\ Row[h] = p
          /\ Row' = [k \in 1 .. Len(Row) - 1 |-> IF k < h THEN Row[k] ELSE Row[k + 1]]
    BY <1>7, <1>9, <1>10
  <2> QED  BY <1>2, <2>1 DEF FQ!Leave, Row, Seen, InGame, Playing
<1> QED  BY <1>11 DEF FairStep, FQ!FQNext

\* Where no store goes to `first', to a `next' or to an owner, the row stays.
LEMMA RowKept ==
  ASSUME QInv, UNCHANGED <<first, next, owner>>
  PROVE  Row' = Row
<1>1. PICK m, F : Chain(m, F)  BY ALine DEF QInv
<1>2. Chain(m, F)'  BY <1>1 DEF Chain
<1> QED  BY <1>1, <1>2, RowStays

\* findslot(): who finds no line looks for a slot of his own accord.
LEMMA ArriveFair ==
  ASSUME QInv, NEW p \in Proc, Arrive(p)
  PROVE  FairStep
<1>1. /\ p \in Actor /\ pc[p] = "arrive" /\ after' = after
      /\ pc' = [pc EXCEPT ![p] = IF first = Nil THEN "try" ELSE "lock"]
      /\ UNCHANGED <<first, next, owner>>
  BY DEF Arrive, Goto, Actor, local, list
<1>2. Row' = Row  BY <1>1, RowKept
<1>3. CASE first = Nil
  <2>1. PICK m, F : Chain(m, F)  BY ALine DEF QInv
  <2>2. m = 0
    <3>1. m \in Nat /\ (m # 0 => first = F[1] /\ F[1] \in Entry)  BY <2>1 DEF Chain
    <3> QED  BY <1>3, <3>1, Types
  <2>3. Row = <<>>
    <3>1. Row = [k \in 1 .. 0 |-> owner[F[k]]]  BY <2>1, <2>2, RowIs DEF RowOf
    <3> QED  BY <3>1
  <2>4. \A y \in Actor : pc'[y] = IF y = p THEN "try" ELSE pc[y]  BY <1>1, <1>3, Types
  <2>5. Proc \subseteq Actor  BY DEF Actor
  <2>6. Seen' = Seen \cup {p}  BY <2>4, <2>5 DEF Seen
  <2>7. InGame' = InGame
    <3>1. \A y \in Proc : Playing(y)' <=> Playing(y)
      BY <1>1, <2>4, <2>5 DEF Playing, ExitPC
    <3> QED  BY <3>1 DEF InGame
  <2>8. p \notin Seen \cup InGame  BY <1>1 DEF Seen, InGame, Playing, ExitPC
  <2>9. FQ!Look(p)
    BY <1>2, <2>3, <2>6, <2>7, <2>8 DEF FQ!Look, Row, Seen, InGame, Playing
  <2> QED  BY <2>9 DEF FairStep, FQ!FQNext
<1>4. CASE first # Nil
  <2>1. ~Playing(p) /\ ~Playing(p)'  BY <1>1, <1>4, Types DEF Playing, ExitPC
  <2>2. Seen' = Seen /\ InGame' = InGame  BY <1>1, <1>4, <2>1, Elsewhere
  <2> QED  BY <1>2, <2>2, Stutters
<1> QED  BY <1>3, <1>4

\* Who found no line gets a slot, or goes to stand in line.
LEMMA TryEnterFair ==
  ASSUME QInv, NEW p \in Proc, TryEnter(p)
  PROVE  FairStep
<1>1. PICK l \in {"in", "lock"} :
        /\ p \in Actor /\ pc[p] = "try" /\ after' = after
        /\ pc' = [pc EXCEPT ![p] = l] /\ UNCHANGED <<first, next, owner>>
  BY DEF TryEnter, Goto, Actor, local, list
<1>2. Row' = Row  BY <1>1, RowKept
<1>3. \A y \in Actor : pc'[y] = IF y = p THEN l ELSE pc[y]  BY <1>1, Types
<1>4. Proc \subseteq Actor  BY DEF Actor
<1>5. Seen' = Seen \ {p}  BY <1>1, <1>3, <1>4 DEF Seen
<1>6. p \in Seen /\ p \notin InGame  BY <1>1 DEF Seen, InGame, Playing, ExitPC
<1>7. \A y \in Proc : Playing(y)' <=> (Playing(y) \/ (y = p /\ l = "in"))
  BY <1>1, <1>3, <1>4 DEF Playing, ExitPC
<1>8. CASE l = "in"
  <2>1. InGame' = InGame \cup {p}  BY <1>7, <1>8 DEF InGame
  <2>2. FQ!Serve(p)
    BY <1>2, <1>5, <1>6, <2>1 DEF FQ!Serve, Row, Seen, InGame, Playing
  <2> QED  BY <2>2 DEF FairStep, FQ!FQNext
<1>9. CASE l = "lock"
  <2>1. InGame' = InGame  BY <1>7, <1>9 DEF InGame
  <2>2. FQ!LookAway(p)
    BY <1>2, <1>5, <1>6, <2>1 DEF FQ!LookAway, Row, Seen, InGame, Playing
  <2> QED  BY <2>2 DEF FairStep, FQ!FQNext
<1> QED  BY <1>8, <1>9

\* The wait loop serves the head of the line, and nobody else.
LEMMA WaitServedFair ==
  ASSUME QInv, NEW p \in Proc, WaitServed(p)
  PROVE  FairStep
<1>1. /\ p \in Actor /\ pc[p] = "wait" /\ mywait[p] = first
      /\ pc' = [pc EXCEPT ![p] = "exit"] /\ after' = [after EXCEPT ![p] = "in"]
      /\ UNCHANGED <<first, next, owner>>
  BY DEF WaitServed, CallExit, Goto, Actor, list
<1>2. Row' = Row  BY <1>1, RowKept
<1>3. /\ \A y \in Actor : pc'[y] = IF y = p THEN "exit" ELSE pc[y]
      /\ \A y \in Actor : after'[y] = IF y = p THEN "in" ELSE after[y]
  BY <1>1, Types DEF QInv, TypeOK
<1>4. Proc \subseteq Actor  BY DEF Actor
<1>5. Seen' = Seen /\ p \notin Seen  BY <1>1, <1>3, <1>4 DEF Seen
<1>6. p \notin InGame  BY <1>1 DEF InGame, Playing, ExitPC
<1>7. InGame' = InGame \cup {p}
  <2>1. \A y \in Proc : Playing(y)' <=> (Playing(y) \/ y = p)
    BY <1>1, <1>3, <1>4 DEF Playing, ExitPC
  <2> QED  BY <2>1 DEF InGame
<1>8. mywait[p] \in Entry /\ inuse[mywait[p]] /\ owner[mywait[p]] = p
  BY <1>1 DEF QInv, WInv, Held, Holding
<1>9. Row # <<>> /\ Head(Row) = p
  <2>1. PICK m, F : Chain(m, F)  BY ALine DEF QInv
  <2>2. m \in Nat /\ m # 0 /\ F[1] = mywait[p]
    BY <1>1, <1>8, <2>1, Types DEF Chain
  <2>3. Row = [k \in 1 .. m |-> owner[F[k]]]  BY <2>1, RowIs DEF RowOf
  <2>4. 1 \in 1 .. m  BY <2>2
  <2>5. Row[1] = p  BY <1>8, <2>2, <2>3, <2>4
  <2>6. Row # <<>>
    <3>1. Len(Row) = m  BY <2>1, <2>2, LineIs DEF Row
    <3> QED  BY <2>2, <3>1
  <2> QED  BY <2>5, <2>6
<1>10. Seen' = Seen \ {p}  BY <1>5
<1>11. FQ!Serve(p)
  BY <1>2, <1>6, <1>7, <1>9, <1>10 DEF FQ!Serve, Row, Seen, InGame, Playing
<1> QED  BY <1>11 DEF FairStep, FQ!FQNext

\* A player who leaves the game gives up his slot.
LEMMA LeaveGameFair ==
  ASSUME QInv, NEW p \in Proc, LeaveGame(p)
  PROVE  FairStep
<1>1. /\ p \in Actor /\ pc[p] = "in" /\ pc' = [pc EXCEPT ![p] = "gone"]
      /\ after' = after /\ UNCHANGED <<first, next, owner>>
  BY DEF LeaveGame, Goto, Actor, local, list
<1>2. Row' = Row  BY <1>1, RowKept
<1>3. \A y \in Actor : pc'[y] = IF y = p THEN "gone" ELSE pc[y]  BY <1>1, Types
<1>4. Proc \subseteq Actor  BY DEF Actor
<1>5. Seen' = Seen  BY <1>1, <1>3, <1>4 DEF Seen
<1>6. p \in InGame  BY <1>1 DEF InGame, Playing
<1>7. InGame' = InGame \ {p}
  <2>1. \A y \in Proc : Playing(y)' <=> (Playing(y) /\ y # p)
    BY <1>1, <1>3, <1>4 DEF Playing, ExitPC
  <2> QED  BY <2>1 DEF InGame
<1>8. FQ!Depart(p)
  BY <1>2, <1>5, <1>6, <1>7 DEF FQ!Depart, Row, Seen, InGame, Playing
<1> QED  BY <1>8 DEF FairStep, FQ!FQNext

\* The other steps change nothing of the line that a player can tell.
LEMMA AddStutters ==
  ASSUME QInv, NEW p \in Proc,
         LockOn(p) \/ Find(p) \/ Mark(p) \/ TestFirst(p) \/ LinkBack(p) \/ SetLast(p)
           \/ Fill(p) \/ Name(p) \/ WaitGivesUp(p)
           \/ (pc[p] = "wait" /\ Kill(p))
  PROVE  FairStep
<1>1. p \in Actor  BY DEF Actor
<1>2. Seen' = Seen /\ InGame' = InGame
  <2>1. PICK l \in {"find", "gone", "mark", "test", "first", "link", "last", "fill",
                    "name", "wait", "exit", "killed"} :
          /\ pc[p] \in AddPC \cup {"wait"} /\ pc' = [pc EXCEPT ![p] = l]
          /\ \A y \in Proc \ {p} : after'[y] = after[y]
          /\ l = "exit" => after'[p] = "gone"
    <3>1. CASE LockOn(p)  BY <3>1 DEF LockOn, Goto, local, AddPC
    <3>2. CASE Find(p)  BY <3>2 DEF Find, Goto, AddPC
    <3>3. CASE Mark(p)  BY <3>3 DEF Mark, Goto, AddPC
    <3>4. CASE TestFirst(p)  BY <3>4 DEF TestFirst, Goto, local, AddPC
    <3>5. CASE LinkBack(p)  BY <3>5 DEF LinkBack, Goto, local, AddPC
    <3>6. CASE SetLast(p)  BY <3>6 DEF SetLast, Goto, local, AddPC
    <3>7. CASE Fill(p)  BY <3>7 DEF Fill, Goto, local, AddPC
    <3>8. CASE Name(p)  BY <3>8 DEF Name, Goto, local, AddPC
    <3>9. CASE WaitGivesUp(p)
      <4>1. after \in [Actor -> {"in", "gone", "purge"}]  BY DEF QInv, TypeOK
      <4> QED  BY <1>1, <3>9, <4>1 DEF WaitGivesUp, CallExit, Goto, Actor
    <3>10. CASE pc[p] = "wait" /\ Kill(p)  BY <3>10 DEF Kill, Goto, local
    <3> QED
      BY <3>1, <3>2, <3>3, <3>4, <3>5, <3>6, <3>7, <3>8, <3>9, <3>10
  <2>2. ~Playing(p) /\ ~Playing(p)'
    BY <1>1, <2>1, Types DEF Playing, ExitPC, AddPC
  <2> QED  BY <1>1, <2>1, <2>2, Elsewhere DEF AddPC
<1>3. Row' = Row
  <2>1. CASE LockOn(p) \/ Find(p) \/ TestFirst(p) \/ LinkBack(p) \/ Fill(p) \/ Name(p)
               \/ WaitGivesUp(p) \/ Kill(p)
    <3>1. UNCHANGED <<first, next, owner>>
      BY <2>1 DEF LockOn, Find, TestFirst, LinkBack, Fill, Name, WaitGivesUp, Kill,
         CallExit, local, list
    <3> QED  BY <3>1, RowKept
  <2>2. CASE Mark(p)
    <3>1. pc[p] = "mark" /\ Active(p)  BY <2>2 DEF Mark, Active, AddPC
    <3>2. PICK m, F : Chain(m, F) /\ At(p, m, F)  BY <1>1, <3>1, Busy
    <3>3. \A k \in 1 .. m : F[k] \in Entry /\ inuse[F[k]]
      BY <3>1, <3>2 DEF At, Whole, AllIn, In, Chain
    <3>4. mywait[p] \in Entry /\ ~inuse[mywait[p]]  BY <1>1, <3>1, OwnEntry
    <3>5. Chain(m, F)'  BY <2>2, <3>2 DEF Mark, Chain
    <3>6. \A k \in 1 .. m : owner'[F[k]] = owner[F[k]]
      BY <2>2, <3>3, <3>4 DEF Mark, QInv, TypeOK
    <3> QED  BY <3>2, <3>5, <3>6, RowStays
  <2>3. CASE SetLast(p)
    <3>1. pc[p] = "last" /\ Active(p)  BY <2>3 DEF SetLast, Active, AddPC
    <3>2. PICK m, F : Chain(m, F) /\ At(p, m, F)  BY <1>1, <3>1, Busy
    <3>3. m > 0 /\ F[m] = mywait[p]  BY <3>1, <3>2 DEF At, Added
    <3>4. next[mywait[p]] = Nil  BY <3>2, <3>3 DEF Chain
    <3>5. next' = next  BY <2>3, <3>4, Types DEF SetLast
    <3>6. UNCHANGED <<first, next, owner>>  BY <2>3, <3>5 DEF SetLast, local
    <3> QED  BY <3>6, RowKept
  <2> QED  BY <2>1, <2>2, <2>3
<1> QED  BY <1>2, <1>3, Stutters

\* So it is inside queue_exit(), but for UnlinkFront,
LEMMA ExitStutters ==
  ASSUME QInv, NEW x \in Actor,
         ExitNamed(x) \/ UnlinkRear(x) \/ Clear(x) \/ Drop(x) \/ Free(x)
           \/ UpdateStart(x) \/ UpdateWalk(x) \/ UpdateEnd(x)
  PROVE  FairStep
<1>1. Seen' = Seen /\ InGame' = InGame
  <2>1. PICK l : /\ l \in ExitPC \/ l = after[x]
                 /\ pc[x] \in ExitPC /\ pc' = [pc EXCEPT ![x] = l] /\ after' = after
    <3>1. /\ pc[x] \in ExitPC /\ after' = after
          /\ \E l \in ExitPC \cup {after[x]} : pc' = [pc EXCEPT ![x] = l]
      <4>1. CASE ExitNamed(x) \/ UnlinkRear(x) \/ Clear(x) \/ Drop(x) \/ Free(x)
        BY <4>1 DEF ExitNamed, UnlinkRear, Clear, Drop, Free, Goto, local, ExitPC
      <4>2. CASE UpdateStart(x) \/ UpdateEnd(x)
        BY <4>2 DEF UpdateStart, UpdateEnd, Goto, ExitPC
      <4>3. CASE UpdateWalk(x)
        <5>1. pc[x] = "upd" /\ (pc' = [pc EXCEPT ![x] = "updEnd"] \/ pc' = pc)
              /\ after' = after
          BY <4>3 DEF UpdateWalk, Goto
        <5>2. pc' = [pc EXCEPT ![x] = "updEnd"] \/ pc' = [pc EXCEPT ![x] = "upd"]
          BY <5>1, Types
        <5> QED  BY <5>1, <5>2 DEF ExitPC
      <4> QED  BY <4>1, <4>2, <4>3
    <3> QED  BY <3>1
  <2>2. after[x] \in {"in", "gone", "purge"}  BY DEF QInv, TypeOK
  <2>3. pc'[x] = l  BY <2>1, Types
  <2>4. Playing(x)' <=> Playing(x)  BY <2>1, <2>2, <2>3 DEF Playing, ExitPC
  <2> QED  BY <2>1, <2>2, <2>4, Elsewhere DEF ExitPC
<1>2. Row' = Row
  <2>1. CASE ExitNamed(x) \/ UnlinkRear(x) \/ Drop(x) \/ Free(x)
               \/ UpdateStart(x) \/ UpdateWalk(x) \/ UpdateEnd(x)
    <3>1. UNCHANGED <<first, next, owner>>
      BY <2>1 DEF ExitNamed, UnlinkRear, Drop, Free, UpdateStart, UpdateWalk, UpdateEnd,
         local, list
    <3> QED  BY <3>1, RowKept
  <2>2. CASE Clear(x)
    <3>1. pc[x] = "clear" /\ Active(x)  BY <2>2 DEF Clear, Active, ExitPC
    <3>2. PICK m, F : Chain(m, F) /\ At(x, m, F)  BY <3>1, Busy
    <3>3. \A k \in 1 .. m : F[k] \in Entry /\ F[k] # mywait[x]
      BY <3>1, <3>2 DEF At, AllBut, In, Chain
    <3>4. \A k \in 1 .. m : next'[F[k]] = next[F[k]] /\ owner'[F[k]] = owner[F[k]]
      BY <2>2, <3>3, Types DEF Clear, local
    <3>5. Chain(m, F)'  BY <2>2, <3>2, <3>4 DEF Clear, Chain
    <3> QED  BY <3>2, <3>4, <3>5, RowStays
  <2> QED  BY <2>1, <2>2
<1> QED  BY <1>1, <1>2, Stutters

\* and for the daemon and the players that came earlier.
LEMMA PurgeStutters ==
  ASSUME QInv, PurgeStart \/ PurgeLoop \/ PurgeProbe \/ OtherLeaves \/ UNCHANGED vars
  PROVE  FairStep
<1>1. Daemon \in Actor /\ Daemon \notin Proc  BY WaitQueueAssumption DEF Actor
<1>2. UNCHANGED <<first, next, owner>>
  BY DEF PurgeStart, PurgeLoop, PurgeProbe, OtherLeaves, CallExit, list, vars
<1>3. \A y \in Proc : pc'[y] = pc[y] /\ after'[y] = after[y]
  BY <1>1, Types DEF PurgeStart, PurgeLoop, PurgeProbe, OtherLeaves, CallExit, Goto, vars,
     QInv, TypeOK, Actor
<1>4. Seen' = Seen  BY <1>3 DEF Seen
<1>5. InGame' = InGame
  <2>1. \A y \in Proc : Playing(y)' <=> Playing(y)  BY <1>3 DEF Playing
  <2> QED  BY <2>1 DEF InGame
<1> QED  BY <1>2, <1>4, <1>5, RowKept, Stutters

\* Every step is one of FairQueue, or none.
LEMMA StepFair ==
  ASSUME QInv, ~KillAnywhere, [Next]_vars
  PROVE  FairStep
<1>1. ASSUME NEW p \in Proc, Add(p) PROVE FairStep
  BY <1>1, SetFirstFair, LinkFair, AddStutters DEF Add
<1>2. ASSUME NEW x \in Actor, Exit(x) PROVE FairStep
  BY <1>2, UnlinkFrontFair, ExitStutters DEF Exit
<1>3. ASSUME NEW p \in Proc, Kill(p) PROVE FairStep
  <2>1. pc[p] = "wait"  BY <1>3 DEF Kill
  <2> QED  BY <1>3, <2>1, AddStutters
<1>4. Daemon \in Actor /\ Proc \subseteq Actor  BY DEF Actor
<1> QED
  BY <1>1, <1>2, <1>3, <1>4, ArriveFair, TryEnterFair, WaitServedFair, LeaveGameFair,
     AddStutters, PurgeStutters
  DEF Next, Run, Purge

\* At the start nobody stands in line.
LEMMA FirstFair == Init => FQ!FQInit
<1> SUFFICES ASSUME Init PROVE FQ!FQInit  OBVIOUS
<1>1. PICK m, F : Chain(m, F)  BY QFirst, ALine DEF QInv
<1>2. m = 0
  <2>1. m \in Nat /\ (m # 0 => first = F[1] /\ F[1] \in Entry)  BY <1>1 DEF Chain
  <2>2. first = Nil /\ Nil \notin Entry  BY QFirst, Types DEF Init
  <2> QED  BY <2>1, <2>2
<1>3. Row = <<>>
  <2>1. Row = [k \in 1 .. 0 |-> owner[F[k]]]  BY <1>1, <1>2, RowIs DEF RowOf
  <2> QED  BY <2>1
<1>4. \A p \in Proc : pc[p] = "arrive"
  BY WaitQueueAssumption DEF Init, Actor
<1>5. Seen = {} /\ InGame = {}  BY <1>4 DEF Seen, InGame, Playing, ExitPC
<1> QED  BY <1>3, <1>5 DEF FQ!FQInit, Row, Seen, InGame, Playing

\* Under the same conditions the linked list and the wait loop of findslot() are a
\* first-come first-served line: players stand in it in the order in which they
\* joined, a slot goes to its head, and a newcomer gets one at once only if he
\* found the line empty.
THEOREM QueueFair ==
  ASSUME ~Overlap, ~KillAnywhere
  PROVE  Spec => Fair
<1>1. QInv /\ [Next]_vars => QInv'  BY QStep
<1>2. QInv /\ [Next]_vars => [FQ!FQNext]_(FQ!fqvars)  BY StepFair DEF FairStep
<1> QED  BY QFirst, FirstFair, <1>1, <1>2, PTL DEF Spec, Fair, FQ!FQSpec
=============================================================================
