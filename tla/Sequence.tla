------------------------------ MODULE Sequence ------------------------------
(***************************************************************************)
(* Numbers on transmissions by UDP: addSequence() of ntserv/genspkt.c and  *)
(* handleSequence() of robotd/socket.c.  A number has 16 bits on the wire  *)
(* and a long at either end; datagrams are lost, doubled, late and out of  *)
(* order, and what comes after a later one is to be dropped, with all the  *)
(* packets behind it.                                                      *)
(***************************************************************************)
EXTENDS Integers

CONSTANTS
  Wrap,      \* 65536
  High,      \* 65000: above it the number is about to roll over,
  Low,       \* 1000:  below it it has just done so
  Late,      \* datagrams later than this are lost
  MaxSent    \* bound: transmissions

\* There is room above High for losses, and for lateness, below Low for both, and
\* between Low and High for lateness.
ASSUME SequenceAssumption ==
  /\ {Wrap, High, Low, Late, MaxSent} \subseteq Nat
  /\ High < Wrap /\ Late <= Wrap - High
  /\ Wrap - High + Late <= Low /\ Low + Late <= High

VARIABLES
  seq_no,     \* the sender's number for the next transmission
  flying,     \* transmissions under way, some in two copies
  sequence,   \* the number the receiver has accepted last
  drop_flag,  \* the packets that follow are dropped
  missed,     \* history: too many in a row have been lost, see Connected
  latest,     \* history: the latest transmission that has arrived
  arrived     \* history: the one that has arrived last

seqVars == <<seq_no, flying, sequence, drop_flag, missed, latest, arrived>>

\* "sequence" gains a round whenever old and new numbers alternate.
SeqTypeOK ==
  /\ seq_no \in 1 .. MaxSent + 1 /\ flying \subseteq (1 .. MaxSent) \X {1, 2}
  /\ sequence \in Nat /\ drop_flag \in BOOLEAN /\ missed \in BOOLEAN
  /\ latest \in 0 .. MaxSent /\ arrived \in 0 .. MaxSent

SeqInit ==
  /\ seq_no = 1 /\ flying = {} /\ sequence = 0 /\ drop_flag = FALSE
  /\ missed = FALSE /\ latest = 0 /\ arrived = 0

\* Fewer are lost in a row than there are numbers above High.  A receiver that
\* misses all of these misses the rollover, and all is stale to it until the
\* numbers have come round, or UDP is set up anew.
Connected == seq_no - latest < Wrap - High - 1

\* addSequence(): it is the low bits that are sent.
AddSequence ==
  /\ seq_no <= MaxSent
  /\ seq_no' = seq_no + 1
  /\ \E copies \in {{1}, {1, 2}} :
       flying' = {f \in flying : f[1] + Late > seq_no} \cup ({seq_no} \X copies)
  /\ missed' = (missed \/ ~Connected)
  /\ UNCHANGED <<sequence, drop_flag, latest, arrived>>

Epoch(n) == (n \div Wrap) * Wrap

\* Mutant: a number that has rolled over is compared like any other.
RolledNever(new) == FALSE
\* Mutant: it is enough that the number is low.
RolledLow(new) == new < Low
\* "we rolled".
Rolled(new) == sequence % Wrap > High /\ new < Low

NextRound(new) == Epoch(sequence + Wrap) + new

\* handleSequence(), with udpSequenceChk, of the number "new" on the wire.
Accept(new) ==
  IF Rolled(new)
  THEN sequence' = NextRound(new) /\ drop_flag' = FALSE
  ELSE LET n == Epoch(sequence) + new IN
       IF n > sequence THEN sequence' = n /\ drop_flag' = FALSE
                       ELSE UNCHANGED sequence /\ drop_flag' = TRUE

HandleSequence(f) ==
  LET n == f[1] IN
  /\ flying' = flying \ {f}
  /\ Accept(n % Wrap)
  /\ latest' = IF n > latest THEN n ELSE latest
  /\ arrived' = n
  /\ UNCHANGED <<seq_no, missed>>

LoseTransmission ==
  /\ \E f \in flying : flying' = flying \ {f}
  /\ UNCHANGED <<seq_no, sequence, drop_flag, missed, latest, arrived>>

\* UDP is set up anew: handleUdpReq(COMM_VERIFY) and readFromServer() reset the
\* numbers, and what was sent to the old sockets is gone.
Reopen ==
  /\ seq_no' = 1 /\ flying' = {} /\ sequence' = 0 /\ drop_flag' = FALSE
  /\ missed' = FALSE /\ latest' = 0 /\ arrived' = 0

SeqNext ==
  \/ AddSequence
  \/ \E f \in flying : HandleSequence(f)
  \/ LoseTransmission \/ Reopen

SeqSpec == SeqInit /\ [][SeqNext]_seqVars

-----------------------------------------------------------------------------
(* Properties *)

\* A transmission later than all that have arrived is heard, also around a
\* rollover, and after a late one from before it was taken for a new one, unless
\* the receiver has missed a rollover.
NewsIsHeard == latest' # latest /\ ~missed' => ~drop_flag'

\* One that is late is dropped, but for the few after a rollover that are still
\* of the last round: those pass; and unless a rollover was missed.
JustRolled == latest >= Wrap /\ latest % Wrap < Late
StaleIsDropped == arrived' < latest' /\ ~JustRolled' /\ ~missed' => drop_flag'

\* handleSequence() tells new transmissions from late ones by the low bits.
SequenceKept == []SeqTypeOK /\ [][NewsIsHeard /\ StaleIsDropped]_seqVars
=============================================================================
