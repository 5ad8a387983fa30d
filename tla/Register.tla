------------------------------ MODULE Register ------------------------------
(***************************************************************************)
(* The player file: handleLogin() of ntserv/getname.c and findplayer(),    *)
(* newplayer(), savepass() and savestats() of ntserv/db.c, in the          *)
(* processes of several players at once.  The file only grows while the    *)
(* server is up; a record is found through an index that is a hint, and    *)
(* its position, once found, is trusted until the player leaves.  The      *)
(* tools of the repository rewrite the file, not the index, offline.       *)
(*                                                                         *)
(* Positions count from one, and zero stands for -1.                       *)
(***************************************************************************)
EXTENDS Integers, Sequences, SequencesExt

CONSTANTS
  Conn,        \* ntserv processes
  PName,       \* names, other than guests
  Word,        \* passwords
  Knows,       \* the names typed at each process,
  Secret,      \* and the password that is given there
  MaxFile      \* bound: records in the file

ASSUME RegisterAssumption ==
  /\ MaxFile \in Nat /\ "" \notin PName \cup Word
  /\ Secret \in [Conn -> Word]
  /\ Knows \in [Conn -> SUBSET PName]

VARIABLES
  file,        \* PlayerFile: name and password of each record
  index,       \* PlayerIndexFile: a position for a name, or 0
  adding,      \* who holds LOCK_PLAYER_ADD
  entry,       \* handleLogin(): static player, kept between packets
  entry_pos,   \* handleLogin(): static position
  leftover,    \* the name that lies where newplayer() has its "existing"
  session,     \* what the process does, as whom, with which password given
  p_pos,       \* p_pos
  changed,     \* history: names whose password has been changed
  astray       \* history: newplayer() did not write the record, or findplayer()
               \* has compared a buffer that read() has not filled

regVars == <<file, index, adding, entry, entry_pos, leftover, session, p_pos, changed,
             astray>>

NoRecord == [name |-> "", word |-> ""]
AtLogin  == [at |-> "login", name |-> "", word |-> ""]
Record   == [name : PName \cup {""}, word : Word \cup {""}]
Pos      == 0 .. MaxFile

RegTypeOK ==
  /\ file \in Seq(Record) /\ Len(file) <= MaxFile
  /\ index \in [PName -> Pos]
  /\ adding \subseteq Conn
  /\ entry \in [Conn -> Record] /\ entry_pos \in [Conn -> Pos]
  /\ leftover \in [Conn -> PName \cup {""}]
  /\ session \in [Conn -> [at : {"login", "new", "append", "again", "play"},
                           name : PName \cup {""}, word : Word \cup {""}]]
  /\ p_pos \in [Conn -> Pos]
  /\ changed \subseteq PName /\ astray \in [Conn -> BOOLEAN]

RegInit ==
  /\ file = <<>> /\ index = [n \in PName |-> 0] /\ adding = {}
  /\ entry = [p \in Conn |-> NoRecord] /\ entry_pos = [p \in Conn |-> 0]
  /\ leftover = [p \in Conn |-> ""]
  /\ session = [p \in Conn |-> AtLogin] /\ p_pos = [p \in Conn |-> 0]
  /\ changed = {} /\ astray = [p \in Conn |-> FALSE]

-----------------------------------------------------------------------------
(* findplayer() *)

\* The first record of that name.
FirstRecord(n) == SelectInSeq(file, LAMBDA r : r.name = n)

\* Past the end of the file read() returns 0, which is no error: what is
\* compared is what the buffer held before.
Blind(n) == index[n] > Len(file)
\* Mutant: the index is believed.
HintAny(n, held) == index[n] # 0
Hint(n, held) ==
  /\ index[n] # 0
  /\ n = IF Blind(n) THEN held ELSE file[index[n]].name

\* findplayer(n) with "held" in its buffer: a position, what is then in the
\* buffer, and the index as it is left.
Find(n, held) ==
  IF Hint(n, held.name)
  THEN [at |-> index[n], got |-> IF Blind(n) THEN held ELSE file[index[n]],
        index |-> index]
  ELSE IF FirstRecord(n) # 0
  THEN [at |-> FirstRecord(n), got |-> file[FirstRecord(n)],
        index |-> [index EXCEPT ![n] = FirstRecord(n)]]
  ELSE [at |-> 0, got |-> [name |-> n, word |-> ""], index |-> index]

-----------------------------------------------------------------------------
(* handleLogin() *)

\* "We look for the guy in the stat file", unless he is still in the buffer.
LookUp(p, n) ==
  IF entry[p].name = n
  THEN [at |-> entry_pos[p], got |-> entry[p], index |-> index]
  ELSE Find(n, entry[p])

Keep(p, r, k) ==
  entry' = [entry EXCEPT ![p] = r] /\ entry_pos' = [entry_pos EXCEPT ![p] = k]

\* In the game: nobody looks at the buffers again.
Plays(p, n, w, k) ==
  /\ session' = [session EXCEPT ![p] = [at |-> "play", name |-> n, word |-> w]]
  /\ p_pos' = [p_pos EXCEPT ![p] = k]
  /\ Keep(p, NoRecord, 0) /\ leftover' = [leftover EXCEPT ![p] = ""]

Query(p, n) ==
  LET f == LookUp(p, n) IN
  /\ session[p].at = "login"
  /\ Keep(p, f.got, f.at) /\ index' = f.index
  /\ UNCHANGED <<file, adding, leftover, session, p_pos, changed, astray>>

\* "An actual login attempt", on what has been found.
LogIn(p, n, w, f) ==
  IF f.got.word = w
  THEN Plays(p, n, w, f.at)
  ELSE /\ session' = [session EXCEPT ![p] = AtLogin]
       /\ Keep(p, f.got, f.at) /\ UNCHANGED <<p_pos, leftover>>

Attempt(p, n, w) ==
  LET f == LookUp(p, n) IN
  /\ session[p].at = "login" /\ index' = f.index
  /\ IF f.at # 0
     THEN LogIn(p, n, w, f)
     ELSE /\ session' = [session EXCEPT ![p] = [at |-> "new", name |-> n, word |-> w]]
          /\ Keep(p, f.got, f.at) /\ UNCHANGED <<p_pos, leftover>>
  /\ UNCHANGED <<file, adding, changed, astray>>

\* Mutant: a name that was new when it was looked up is added.
LockAddBlindly(p) ==
  /\ session[p].at = "new" /\ adding = {}
  /\ Keep(p, [name |-> session[p].name, word |-> session[p].word], 0)
  /\ adding' = {p} /\ session' = [session EXCEPT ![p].at = "append"]
  /\ UNCHANGED <<file, index, leftover, p_pos, changed, astray>>

\* newplayer(): under the lock the name is looked for once more.
LockAdd(p) ==
  LET n == session[p].name
      f == Find(n, [name |-> leftover[p], word |-> ""]) IN
  /\ session[p].at = "new" /\ adding = {}
  /\ Keep(p, [name |-> n, word |-> session[p].word], 0)
  /\ leftover' = [leftover EXCEPT ![p] = n]
  /\ index' = f.index
  /\ IF f.at = 0
     THEN /\ adding' = {p} /\ session' = [session EXCEPT ![p].at = "append"]
          /\ UNCHANGED astray
     ELSE /\ session' = [session EXCEPT ![p].at = "again"]
          /\ astray' = [astray EXCEPT ![p] = @ \/ (Hint(n, leftover[p]) /\ Blind(n))]
          /\ UNCHANGED adding
  /\ UNCHANGED <<file, p_pos, changed>>

\* newplayer(): the record goes to the end of the file; a write that fails is
\* only reported on stderr; a file that cannot be opened ends the attempt.
AppendRecord(p) ==
  LET n == session[p].name
      w == session[p].word IN
  /\ session[p].at = "append" /\ adding' = {}
  /\ \/ /\ Len(file) < MaxFile /\ Plays(p, n, w, Len(file) + 1)
        /\ \/ file' = Append(file, [name |-> n, word |-> w]) /\ UNCHANGED astray
           \/ astray' = [astray EXCEPT ![p] = TRUE] /\ UNCHANGED file
     \/ /\ session' = [session EXCEPT ![p] = AtLogin]
        /\ UNCHANGED <<file, p_pos, entry, entry_pos, leftover, astray>>
  /\ UNCHANGED <<index, changed>>

\* Mutant: it goes on as a login that has passed.
AgainUnchecked(p) ==
  LET f == Find(session[p].name, entry[p]) IN
  /\ session[p].at = "again" /\ f.at # 0
  /\ Plays(p, session[p].name, session[p].word, f.at)
  /\ index' = f.index
  /\ UNCHANGED <<file, adding, changed, astray>>

\* "someone else took the name since we looked, so this is now an attempt to
\* log in as them, and must pass the password check".
Again(p) ==
  LET n == session[p].name
      f == Find(n, entry[p]) IN
  /\ session[p].at = "again" /\ index' = f.index
  /\ IF f.at = 0
     THEN /\ session' = [session EXCEPT ![p] = AtLogin] /\ Keep(p, f.got, 0)
          /\ UNCHANGED <<p_pos, leftover, astray>>
     ELSE /\ LogIn(p, n, session[p].word, f)
          /\ astray' = [astray EXCEPT ![p] = @ \/ Blind(n)]
  /\ UNCHANGED <<file, adding, changed>>

-----------------------------------------------------------------------------
(* In the game *)

\* write() at a record; past the end it leaves zeroes before it.
WriteAt(k) ==
  file \o [i \in 1 .. (IF k > Len(file) THEN k - Len(file) ELSE 0) |-> NoRecord]

\* changepassword(), savepass().
ChangeWord(p, w) ==
  /\ session[p].at = "play"
  /\ file' = [WriteAt(p_pos[p]) EXCEPT ![p_pos[p]].word = w]
  /\ changed' = changed \cup ({file'[p_pos[p]].name} \cap PName)
  /\ UNCHANGED <<index, adding, entry, entry_pos, leftover, session, p_pos, astray>>

StartsAgain(p) ==
  /\ session' = [session EXCEPT ![p] = AtLogin] /\ p_pos' = [p_pos EXCEPT ![p] = 0]
  /\ entry' = [entry EXCEPT ![p] = NoRecord] /\ entry_pos' = [entry_pos EXCEPT ![p] = 0]
  /\ leftover' = [leftover EXCEPT ![p] = ""] /\ astray' = [astray EXCEPT ![p] = FALSE]

\* savestats() at the end, of the process or saveplayer() of the daemon for it.
LeaveGame(p) ==
  /\ session[p].at = "play"
  /\ file' = WriteAt(p_pos[p])
  /\ StartsAgain(p)
  /\ UNCHANGED <<index, adding, changed>>

\* Mutant: a lock outlives its holder.
KilledWithLock(p) ==
  /\ session[p].at # "play" /\ StartsAgain(p)
  /\ UNCHANGED <<file, index, adding, changed>>

\* The process is killed before it plays; SEM_UNDO gives its lock back.
Killed(p) ==
  /\ session[p].at # "play" /\ StartsAgain(p)
  /\ adding' = adding \ {p}
  /\ UNCHANGED <<file, index, changed>>

\* trimscores and the like drop a record while nobody is on; the index stays.
Trim(k) ==
  /\ \A p \in Conn : session[p] = AtLogin /\ entry[p] = NoRecord
  /\ file' = RemoveAt(file, k)
  /\ changed' = changed \ {file[k].name}
  /\ UNCHANGED <<index, adding, entry, entry_pos, leftover, session, p_pos, astray>>

-----------------------------------------------------------------------------

RegNext ==
  \/ \E p \in Conn :
       \/ LockAdd(p) \/ AppendRecord(p) \/ Again(p) \/ LeaveGame(p) \/ Killed(p)
       \/ \E n \in Knows[p] : Query(p, n) \/ Attempt(p, n, Secret[p])
       \/ \E w \in Word : ChangeWord(p, w)
  \/ \E k \in 1 .. Len(file) : Trim(k)

RegSpec == RegInit /\ [][RegNext]_regVars

-----------------------------------------------------------------------------
(* Properties *)

\* A name has one record, however many register it at once ("race: two players
\* might be added at once").
UniqueNames ==
  \A i, j \in 1 .. Len(file) : file[i].name = file[j].name /\ file[i].name # "" => i = j

\* Who plays under a name saves to the record of that name, whatever the index
\* said, unless its own record was never written.
OwnRecord ==
  \A p \in Conn : session[p].at = "play" /\ ~astray[p] =>
    p_pos[p] \in 1 .. Len(file) /\ file[p_pos[p]].name = session[p].name

\* ... and, until that is changed, has given the password of this record: who
\* loses the race for a name does not get in on the winner's record.
KnowsTheWord ==
  \A p \in Conn : session[p].at = "play" /\ ~astray[p] =>
    session[p].name \in changed \/ session[p].word = file[p_pos[p]].word

\* Nobody is kept from registering for good: the lock is with a process that is
\* about to write and give it back, also when others have been killed with it.
LockIsHeld ==
  \A p \in adding : session[p].at = "append"

\* The player file, the index and the lock under concurrent logins: one record to
\* a name, and its owner on it.
RegInv ==
  RegTypeOK /\ UniqueNames /\ OwnRecord /\ KnowsTheWord /\ LockIsHeld
=============================================================================
