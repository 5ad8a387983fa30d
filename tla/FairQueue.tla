----------------------------- MODULE FairQueue -----------------------------
(***************************************************************************)
(* What the waiting line of findslot() promises: players stand in line in  *)
(* the order in which they joined it, a slot goes to the head of the line, *)
(* and a newcomer is served at once only if he found the line empty.       *)
(***************************************************************************)
EXTENDS Naturals, Sequences

CONSTANT Proc
VARIABLES
  line,     \* the processes in line, head first
  saw,      \* newcomers that found the line empty
  inside    \* processes that have a slot

fqvars == <<line, saw, inside>>

FQInit == line = <<>> /\ saw = {} /\ inside = {}

InLine(p) == \E k \in 1 .. Len(line) : line[k] = p

\* p finds the line empty; p gives up trying to enter directly.
Look(p) ==
  /\ line = <<>> /\ p \notin saw \cup inside
  /\ saw' = saw \cup {p}
  /\ UNCHANGED <<line, inside>>

LookAway(p) ==
  /\ p \in saw
  /\ saw' = saw \ {p}
  /\ UNCHANGED <<line, inside>>

Join(p) ==
  /\ ~InLine(p) /\ p \notin saw \cup inside
  /\ line' = Append(line, p)
  /\ UNCHANGED <<saw, inside>>

\* The head of the line, or a newcomer that saw no line, gets a slot.
Serve(p) ==
  /\ p \notin inside
  /\ p \in saw \/ (line # <<>> /\ Head(line) = p)
  /\ inside' = inside \cup {p}
  /\ saw' = saw \ {p}
  /\ UNCHANGED line

\* p leaves the line: it has been served, its client is gone, or it is dead.
Leave(p) ==
  /\ \E i \in 1 .. Len(line) :
       /\ line[i] = p
       /\ line' = [k \in 1 .. Len(line) - 1 |-> IF k < i THEN line[k] ELSE line[k + 1]]
  /\ UNCHANGED <<saw, inside>>

Depart(p) ==
  /\ p \in inside
  /\ inside' = inside \ {p}
  /\ UNCHANGED <<line, saw>>

FQNext == \E p \in Proc :
  Look(p) \/ LookAway(p) \/ Join(p) \/ Serve(p) \/ Leave(p) \/ Depart(p)

FQSpec == FQInit /\ [][FQNext]_fqvars
=============================================================================
