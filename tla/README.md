# A TLA+ model of the Netrek server

This directory holds TLA+ modules for the shared-memory core of the Netrek
server, TLC configurations that check them on small instances, and TLAPS proofs
of the properties that matter most. `PROJECT.json` lists components, runs,
mutants, hazards and theorems, and maps every definition to the lines of source
it stands for.

## The system

The server is a set of Unix processes over one shared memory segment:

- the **listener** (`newstartd`) accepts a connection and forks an `ntserv`;
- one **ntserv** process per client logs a player in, finds it a slot, turns its
  packets into changes of shared memory and sends it what it may see;
- the **daemon** moves the galaxy in ten to fifty frames a second: ships,
  torpedoes, planets, tournament and surrender clocks, messages, and the removal
  of players whose process is gone; at the end of a frame it signals the ntservs;
- **robots**, **tools** and **viewers** attach to the same segment.

There are three semaphores (`LOCK_PLAYER_ADD`, `LOCK_QUEUE_ADD`,
`LOCK_PICKSLOT`), each held for a few statements. All else is loads and stores of
plain integers by whoever comes along. What is hard in this code is therefore not
in its functions but between them: one process reads, another writes, the first
one stores what it has decided; a process is killed half way; the daemon cleans up
after somebody who is still there.

### Components

| component | state | operations | what makes it correct | module |
|---|---|---|---|---|
| player slots | `p_status`, `p_process`, `enter_sem`, `free_slots`, semaphore | `pickslot()`, `freeslot()`, login, outfit, play, exit, SIGTERM, daemon timeouts | a slot has one holder; the slot of a session names it; slots of the dead come back | `Slots`, `SlotsHistory` |
| wait queue | `waiting[]`, `queues[].first/last/count`, semaphore | `queue_add()`, `queue_exit()`, `queue_update()`, `queues_purge()`, wait loop of `findslot()` | entries are not shared or lost; the list is whole; first come, first served; nobody waits for ever | `WaitQueue`, `FairQueue` |
| message rings | `uplink[]`, `oob[]`, `messages[]`, their indices | `do_message()`, `do_message_requeue_all()`, `updateMessages()` | every message once, in order, to all it is for | `MessageRing` |
| torpedoes, plasmas | `torps[]`, `p_ntorp`, `p_nplasmatorp` | `ntorp()`, `nplasmatorp()`, `detothers()`, `handleDetMReq()`, `udtorps()`, `death()` | counts equal torpedoes; a torpedo is in a slot of its owner; slots and players come back | `Torps` |
| planets and conquest | `pl_owner`, `pl_armies`, `PLCOUP`, `pl_couptime`, `te_plcount`, `te_surrender`, `p_armies` | `plfight()`, `beam()`, `PopPlanet()`, `coup()`, `udsurrend()`, `checkgen()`, `checkwin()`, `conquer_end()`, `ghostmess()`, `save_armies()` | an owner exactly where there are armies; no empire counted down wrongly; no conquest that is not due | `Planets` |
| docking bays | `p_bays[]`, `p_dock_with`, `p_dock_bay`, `PFDOCK` | `orbit()`, `dock()`, `bay_*()`, and all that releases a bay | the three records of a docking agree; nobody is refused a free bay | `Docking` |
| ship orders | `p_flags`, three timers, engine heat | the packet gate, the handlers, `auto_features()`, `setflag()` | jobs exclude each other; control comes back | `Helm` |
| phasers | `ph_status`, `ph_fuse`, `ph_target` | `phaser()`, `udphaser()` | a burst hits once, and the phaser recharges | `Phaser` |
| tournament mode | `ts`, quorum, `tourn` | the head of `move()`, `is_tournament_mode()` | a tournament has opponents, begins and ends | `Tournament` |
| player database | the player file, its index, `p_pos` | `findplayer()`, `newplayer()`, `handleLogin()`, `savepass()`, `savestats()` | a name has one record; a record is entered and written by those who know its password | `Register` |
| client connection | modes and sockets of both ends | `handleUdpReq()`, `readFromClient()`, the client's `sendUdpReq()`, `handleUdpReply()` | both ends agree in the end | `Connection` |
| packets to clients | the packet sent last, sequence numbers | `updatePlanets()`, `forceUpdate()`, `sendClientPacket()`, `addSequence()`, `handleSequence()` | the client sees what its team knows; news is not taken for stale | `Updates`, `Sequence` |
| votes | `voting[]` | `do_vote()`, `eject_player()`, and what clears votes | a majority acts; nobody inherits votes | `Voting` |
| league games | `inl_stat`, `inl_teams[]`, `status->gameup` | captains' commands, `inlmove()` | terms are agreed; robot and daemon agree; a game ends | `InlSetup`, `InlGame` |
| drafts | `p_inl_draft`, captains, `GU_INL_DRAFTING` | `draft.c`, `do_captain()`, `do_uncaptain()` | captains pick in turn; the drafted have a team; a draft ends | `Draft` |
| daemon start, shared memory | segment, semaphores, SIGUSR1 | `openmem.c`, `main()` of the daemon | nobody uses what is not set up | not modelled |
| listener | ports, children | `newstartd.c` | every child reaped, no more than the limit | not modelled |
| bans, movement, statistics, robots, tools, viewers, ... | | | | not modelled, see below |

Components meet in these places: `findslot()` calls `pickslot()` (`WaitQueue` has
it as one step, `Slots` has its detail); `freeslot()` in the daemon and in ntserv
work on one slot; a slot that changes hands keeps the torpedoes of its former
owner (`Turnover` in `Torps`); a team that falls kills its players
(`Planets`, action `Explode`, which is `UdPalive` in `Slots`). Docking and orders
of a ship meet in `p_flags`: `Docking` has the flags that other ships and the
daemon also write, `Helm` all flags of one ship with the others' writes as
actions of their own (`Dislodged`, `Evicted`). `Connection`
decides by which way the packets of `Updates` and the numbers of `Sequence` go.

## The modules

Every module names the functions it models in its head; the comment of an action
says which call it is. Data that no property tells apart (positions, texts,
damage, kills, war settings) is not there: an action whose guard would depend on
it may happen whenever the rest of its guard allows.

In `Slots`, `WaitQueue`, `MessageRing` and `Torps` **one action is one access to
shared memory**, or a few that touch nothing another process sees; `x++` is a load
and a store. A program counter per process says where in a call it is. In `Slots`
and `Torps` every access interleaves with every other, always; what a race that was
lost may break is excused by a history variable (`evicted`, `raced`) that says
which race that was. In `WaitQueue` and `MessageRing` constants (`Overlap`,
`KillAnywhere`) say whether calls may overlap: closing them asserts that the few
instructions between a load and its store are not interrupted, which is an
assumption about luck, not about the code. So every property is checked under the
weakest assumption it holds under, and where a race breaks a property this is
said below.

In `Planets` one action is one round of a daemon loop: everything but `Coup`,
`ClueBust` and `Enter` is done by the one daemon, one thing after another.

### Slots

A process is at `out` (before `pickslot()`), goes through the `enter_sem` test,
the scan, the semaphore, the second look and the claim; then `setup` to `attach`
(the player structure is filled, `main()` stores `p_process`); then `login`,
`outfit`, `play`; then `ftest` to `fclear`, the statements of `freeslot()`. The
daemon is `idle` or inside `freeslot()`. `term` is a pending SIGTERM.

Assumptions: `SetupIsFast`, that the timeouts of the daemon, the shortest of which
is 30 seconds, do not run out on a process between its claim and its store of
`p_process`. Nothing else is ruled out: a process may be killed or receive SIGTERM
between any two of its steps, in the middle of `freeslot()` too; the game may be
paused at any time, so that `udplayers_pause()` runs; and `pickslot()` takes a slot
as soon as it is `PFREE`, though the `freeslot()` that made it so has not yet
cleared `p_process`.

`SlotsHistory` adds `evicted`, the processes whose slot somebody else's
`freeslot()` has freed since they claimed it; it restricts no step.
`SlotExclusive`: if two processes hold one slot, one of them has been evicted.
`SessionOwnsSlot`: the slot of a process that has not been is not `PFREE`, and
`p_process` names the process, nobody, or an evicted one.

| run | instance | shows |
|---|---|---|
| `slots_safety` | 2 processes, 2 slots, both may be killed | `SlotExclusive`, `SessionOwnsSlot` |
| `slots_live` | 2 processes, 1 slot, one may be killed, fairness | `OrphanReclaimed`, `LockReleased`, `TermEnds` |

Two processes and two slots are the least in which two claim one slot, or one takes
what the daemon is still freeing, while another slot is scanned; that a third
process takes an evicted one's slot is covered by the proof, which is for any number.
One slot is enough for liveness.

Bounds: `SemFloor` stops `enter_sem` from being counted down for ever by
processes that are refused; `CountFloor` and `CountCap` stop `free_slots` where it
has drifted out of range; they bound values that no later test tells
from the bound (`< 1`, `> 0`). `MaxKills` counts the processes killed outright.

*Co-pilots.* The comment at `main.c:386-391` says that the SIGTERM
handler is there so that no co-pilot is formed. It still is: during a pause the
daemon sends SIGTERM *and* frees the slot; a second process claims it; the
handler of the first finds `p_status != PFREE` and frees the slot of the second;
a third process joins the second. `exitGame()` has the test of `p_process` that
`forceShutdown()` lacks. That is eviction, and `evicted` is what the two properties
leave out.

*A late `p_process = 0`.* `freeslot()` stores `PFREE` first and clears `p_process`
last. Whoever takes the slot in between and stores its pid before that
has a slot which names nobody: the daemon frees it in outfit
(`udplayers_poutfit()`), so the process is evicted without a pause. `SessionOwnsSlot`
therefore says "the process or nobody", not "the process".

Known not to hold, and so not claimed: `free_slots` is exact (two lost updates
are enough, and `queues_purge()` only lowers it); `enter_sem` is 1 when nobody is
inside `pickslot()` (a refused process may store its decrement after the other
has stored 1, and then everybody is refused until the daemon starts again).
Slots stay exclusive all the same, since the semaphore and the second look guard
them, not `enter_sem`.

### WaitQueue and FairQueue

The variables are the fields of `waiting[]` and of one `queues[]` entry. Stores to
`waiting[-1]`, which overlapping calls can make, set `wild`. `owner` is auxiliary:
who marked an entry last.

`FairQueue` is the promise: a line of processes, served at its head; a newcomer is
served directly only if he found the line empty. `Fair` states that `WaitQueue`
implements it, where the line is what following `next` from `first` gives, `saw`
those between the test of `first` and `pickslot()`, and `inside` those that have
a slot.

| run | instance | shows |
|---|---|---|
| `queue_race` | 2 processes, the daemon, all calls overlap, kills anywhere | `EntryExclusive`, `NeverLost` |
| `queue_live` | 3 processes, 2 entries, 1 slot, calls one after another, kills in the wait loop, fairness | `QueueInv` (types, `ListWhole`), `Fair`, `DeadRemoved`, `WaiterServed` |
| `queue_dead` | as before with kills anywhere, no slot to be had | `DeadRemoved` is **violated** |

With two entries and three processes the queue is full at times, has a first, a
last and, on leaving, an only element; entries are used again.

*Finding* (`queue_dead`). The `continue` statements of `queues_purge()`, commented
"Check the next queue", belong to the inner loop and come back to the same entry.
A process killed after it is linked and before it stores its pid is never removed,
and everybody behind it waits for ever. So `DeadRemoved` and `WaiterServed` hold
only if processes are not killed inside a call.

Known not to hold with overlapping calls: `ListWhole`, `Fair` and `WaiterServed`.
Two arrivals that both find `first == -1` lose one of them from the list. What
survives every overlap is that entries are not shared or lost.

### MessageRing

A writer moves its ring's index, fills the entry, makes it valid, then looks at it
again for a command. The daemon walks each ring up to the index, skips what is not
valid, copies the rest to `messages[]`, and clears it. A reader follows
`messages[]`; a message to one player that must be shown at once is turned into one
to all in shared memory and back.

| run | instance | shows |
|---|---|---|
| `session` | 2 tools on one ring of 2, a reader, everything overlaps | `RequeueInv` (types, `RequeuedOnce`) |
| `shared_live` | 2 players, one of whom ejects, with rings of 3, `messages[]` of 5, 2 readers, calls one after another, fairness | `OrderKept`, `ReadersFollow`, `AllDelivered` |

Bounds: `MaxSend` messages per writer, so that the rings (64 and 75 in the code)
wrap around; `MaxBurst`, less than a ring, between two ticks: a player who sends
64 messages in a tenth of a second loses all of them, for a full ring looks like an
empty one.

Known not to hold with `Overlap`: `AllDelivered` (the daemon passes an entry that is
not yet valid and does not come back to it before it is written anew);
`ReadersFollow` (a reader can find `mc_current` moved on and the entry not yet
copied, or the entry of a message to another reader turned into one to all); and
that every message is looked at for a command, as the daemon may have cleared its
flags first. Without `Overlap` the two steps of such a reader are not torn by
another one, and the entry is turned back before anybody else comes to it.

### Torps

`torp`, `owner`, `type` are `t_status`, `t_owner`, `t_type`; the first
`NPlayer * MaxTorp` slots are for torpedoes, the rest for plasmas. The daemon
sweeps the array for ever; a torpedo may hit or run out in any sweep.

All accesses interleave, in every run. Four races break the counts, and with them
the rest; `raced` records that one of them has been lost:

- a count is stored that is no longer what was loaded (`p_ntorp++` of the player over
  `p_ntorp--` of the daemon, or the reverse);
- `TDET` or `TOFF` is stored over a torpedo that was freed since the test for `TMOVE`;
- the daemon frees a torpedo between the store of `TMOVE` and that of owner and type;
- a slot changes hands while torpedoes of the player before fly.

| run | instance | shows |
|---|---|---|
| `torps_safe` | 2 players, 1 torpedo each and 1 plasma for one of them (`Armed`), behaviours up to the first race lost (`UntilRaced`), fairness | `CountExact`, `TorpsInv` (types, `OwnSlots` unless `raced`), `ComesBack` |
| `torps_stray` | the same players, none of whom leaves (`SamePlayers`), all races open | `OwnSlots` is **violated** |
| `shared_live` | 1 player, 1 torpedo, all races open, fairness | `StaysInArray`, `SlotFreed` |

One torpedo each makes the limit and the end of the search coincide with the
first shot, which is where they matter; `CountCap` bounds how far a count can
drift. In the invariants of `torps_safe` the overlaps that do not lose a race are the
case that matters: a player fires while the daemon frees, detonates what the daemon
is about to explode, dies while it is swept. `shared_live` puts the last row and the
message rings, which share no variables, into one run: `part` says which one moves.

*Finding* (`torps_stray`). `tests/shm-stress-monitor.c:16-18` watches for torpedoes
in slots of another player, "as when ntorp() runs off the end", and
`TEST_RESULTS_SHM_STRESS.md:168` says that no run has shown it yet. TLC shows
it: the daemon frees a torpedo between the test and the store of a detonation, the
store makes it live again, the count is one too
low and the limit lets one torpedo too many through; the search, which has no test
for its end, leaves it in the next player's slot.

Known not to hold, therefore: `CountExact` and `OwnSlots` after a lost race;
`ComesBack` after one (a torpedo swept at once is charged to the slot's former
owner, or, on first use, to player 0, and the count of its owner stays). After a race
`p_ntorp` can pass the limit, which is an equality. `phaser.c:305` and `:326` hand a
plasma and its count to another player; that is not modelled.

### Planets

`owner`, `armies`, `coup` and `couptime` are the fields of planets and home
planets; `plcount` and `surrender` those of teams; `conquered` is the team of a
parade, after which the galaxy is reset. Every part of the galaxy belongs to one
team and holds its home planet. Orbit, war, kills and the flags of beaming and
bombing are choices. A ghost's armies go to a planet of its team
(`save_armies()`), the daemon's `PopPlanet()` grows armies and lets plague take some, and the
fall of an empire (`checkgen()`) explodes its players and may reward the winner.

| run | instance | shows |
|---|---|---|
| `planets_safe` | 2 teams, 3 planets, 2 players, up to 3 armies on a planet | `OwnedIffArmed`, `NoUnjustCountdown`, `ConquestIsDue` |

Two teams and two parts make every conquest and every countdown one of a team
against another; a home planet and one more is the least empire that can shrink
without falling. `MaxArmies` bounds armies on a planet; two of them can be beamed up
(`Garrison` is scaled from 5 to 2). Players are interchangeable (symmetry);
teams are not, since `Ori` is tested first.

`te_plcount` is recomputed only when a planet is destroyed or taken, so it is often wrong after a
coup, a surrender or a reset. `NoUnjustCountdown` says that this never
counts down an empire on fewer planets than it has, but for a home planet a coup
has won back. `ConquestIsDue` does not say that the right team is announced: parts
without an owner count for the first team tested.

### Several components in one run

The modules below are small and share no variables. `MCPlaces`, `MCTimers` and
`MCSession`, and `MCShared` above, each put some of them together: a variable `part`, chosen at the
start, says which component moves, and the others keep their initial state. A run
checks the properties of all its parts; its states are the sum, not the product,
of theirs. The fairness of a part is that of its module, restricted to
behaviours of the part.

Each part has one invariant, the conjunction of its type invariant and the named
properties of its module; the proofs strengthen it to an inductive one. Mutants are
listed for every named property of a conjunction.

| run | parts | instance | checks |
|---|---|---|---|
| `places` | `Docking`, `InlSetup`, `Draft` | 3 captains, one base with 1 bay, two teams; 3 sides of the galaxy, 2 terms; 3 players, 2 turnovers | `BaysInv`, `SetupInv`, `DraftInv` |
| `timers` | `Helm`, `Phaser`, `Connection`, `Tournament`, `InlGame`, `Draft` | delays of 1 or 2 frames, fuses of 2 and 4; 2 requests of the user; 3 teams of 2; games of 2 frames; 3 players, 1 turnover | `HelmInv`, `PhInv`, `ConnInv`, `TournInv`, `GameInv`; `ControlReturns`, `ServerFollows`, `TournComes`, `GameEnds`, `DraftEnds` |
| `session` | `MessageRing`, `Voting`, `Updates`, `Sequence`, `Register` | 2 tools; 3 slots; 2 teams, 2 values, 2 packets under way, symmetric in teams and values; numbers modulo 16; 2 processes, 2 names, 2 passwords, 2 records | `RequeueInv`, `VoteInv`, `UpdInv`, `RegInv`; `SequenceKept` |

### Docking

A docking is recorded in `PFDOCK`, in `p_dock_with` and `p_dock_bay` of the ship
and in `p_bays` of the base. `dock()` is three steps: it looks for a bay, sets the
flag, claims the bay. Everything else that docks, releases or clears is a
handler of one step, as the daemon's explosions, tractor frames and paused
ghosts are. `torn` records that something else ran inside a `dock()`.
`DockedIsMoored` (the three agree) holds up to that point: two ships that look
together are given one bay, and the first to leave frees it under the other.
`RefusedOnlyWhenFull` holds after it too, thanks to `bay_consistency_check()`.
One bay and two ships besides the base make every look a race. `BeamSlot`,
`Ward` and `Warrior` say who uses beams, has its docking permission changed and
declares war: the base, one ship of the other team, and these two; others would
repeat them.

A ship that a base holds by its beam loses `PFDOCK` and `PFORBIT` in `orbit()` before
`dock()` is asked, and keeps them lost when the base is out of range (`OrbitHeld`).

Noticed: `bay_owner()` asserts `PFDOCK` that its callers tested before (`bay.c:22`,
`daemon.c:3262`); `orbit()` clears `PFDOCK` of a ship held by a base without
`bay_release()`, which leaves its entry in the bay to the consistency check.

### Helm

The flags of one ship, three timers as frames left, and the gate in `doRead()`
that ignores packets of a ship that reprograms, refits or transwarps. `OneJob`:
shield, repair, bombing and beaming exclude each other. `TwarpIsLocked`: nothing
takes the lock or the shields from a ship in transwarp, without which
`auto_features()` would not end it. Repair in orbit is allowed, by `repair()` as
by `orbit()`. A ship locked on one that is dead
loses `PFPLOCK` in `auto_features()`, but still slows down or docks, if that is a base, in
the same call. `ControlReturns`: packets are heard again, or
the ship dies. Delays of 2, 1 and 1 frames let every two of them run out in
either order.

### Phaser

`phaser()` stores status, fuse and target one after the other; `udphaser()` loads
and stores the fuse. A deflected plasma ("ping-pong") has `PHHIT2` stored a second time, which
can revive an entry that `udphaser()` has freed meanwhile. `ph_torn` records that it saw an entry half stored,
`ph_refit` that the ship was changed while a burst was out. Then a burst may hit
the last one's target, or the fuse be overwritten by one that passes zero:
nothing resets the entry, so that the phaser stays busy
even for the next player in the slot. Otherwise `HitsOnceAndOnlyItsTarget`,
`HitIsNotLost` and `FuseIsLit` hold. `FuseFloor` is where such a fuse is no
longer followed down. Two fuses, 2 and 4, are a refit to a shorter and to a longer one.

### Tournament

The states `ts` of `move()`, one frame an action, with players and options that
change between frames. The machine acts a frame late: `TS_BEGIN` falls through
without looking again, so a tournament may begin and end at once; `TournIsHeld`
says how late it can be. Three teams let the quorum change hands.

### InlSetup, InlGame and Draft

The league robot handles one command of a captain at a time. `InlSetup` has those
before a game: who picks which race (`SidesApart`), the terms, of which
starting armies and time are one value (`TermsAgreed`), draft, new galaxy and start
(`NoDraftInGame`). `InlGame` has one frame of `inlmove()` as countdown, commands and
clock; the flags of the robot and `status->gameup`, which the daemon reads,
must agree (`PauseAgrees`), timeouts not multiply (`TimeoutAgrees`), and a game end
(`GameEnds`). Whether anyone leads is free. `Draft` has the pool, the captains and
the selectors they name. Selections run in processes of their own, one store at
a time (`DraftPick`, `DraftMark`, ...); the daemon places those who arrive and puts who
joins into the pool, in two stores as well: state (`draft.c:383`), then team
(`draft.c:390`). `SomebodyIsUp`, the draft never waits
for both captains, holds unless two selections overlapped or a
captain resigned: one who does keeps his state, one who is overthrown his flag.
`MaxTurnover` bounds deaths, joins and resignations.

*Undrafted by joining.* A player who is selected between these two stores has the team of
the selection overwritten by `NOBODY`, and is sent home without one. `snatched`
remembers such players, and `DraftedHaveTeam` leaves them out; without that
TLC finds the trace. It takes a captain who selects in the very frame in which
somebody enters, so it is noted here and not among the findings: no document
or comment says otherwise.

Noticed: `inl.c:1011` clears nothing (`&= ~(A & B)` of two different bits);
`reset_inl()` leaves `extratime`; a captain who starts a game with a side passed
uses `sides[-2]`; `player_maint()` may write `players[-1]` (`inl.c:515`);
`inl_draft_select()` accepts `n == MAXPLAYER` (`draft.c:610`); `CONTINUE` ends the pause
of a timeout.

### Voting

A voter's process stores the vote, counts those of its team, takes all back if
they are enough, and ejects. `MajorityActs`: with votes that overlap, the last
to count sees them all. `EjectIsEarned`: nobody is ejected for votes against the
slot's last occupant; `enter()` clears them, and before `enter()` the newcomer has no
team. An accused who votes against himself is refused ("you can't eject yourself"), but
only after his vote is stored (`gencmds.c:217`, `:236-240`), so it counts with the next
one. With three players, two of them needed, one vote and then his own are a majority on
which nobody acts until somebody votes again: so `MajorityActs` speaks of votes of
others (`OthersSuffice`), for which it holds. Only votes to eject are cleared so: a ban or a vote of no picking by name of
a slot is inherited. Three slots, one of them the accused, and `MinPass` 2
make two voters necessary and sufficient. Nobody enters between the steps of a vote, which
takes seconds less than a login.

### Updates and Sequence

`Updates` follows one planet: what it is, what `ntserv` sent last, the packets
under way, what the client has. `newest` is what became of the last packet sent.
`SeenAsItIs`: as soon as it has arrived last, the client is right, whatever teams
the player has been in. `FullUpdateSends`: a full update sends what the client may
have wrong. What does not hold: that a lost packet is ever sent again. "Fat" UDP,
which is to do that, does not work: `sendClientPacket()` sets `issc` to 0
(`socket.c:723`), nothing sets it, and no packet is put on the lists that `fatMerge()`
reads, though the player is told "Server will send with fat UDP; sent full update"
(`socket.c:2253`), and that even if `forceUpdate()` has just denied the update. A
planet lost by UDP stays wrong until it changes or the player asks for an update.

`Sequence` has the 16-bit number: `NewsIsHeard`, around rollovers too, and
`StaleIsDropped`, but for those few just after a rollover. `Wrap`, `High` and `Low`
are 65536, 65000 and 1000 scaled to 16, 11 and 8 under `SequenceAssumption`, which
holds of the real ones for transmissions that are up to 464 late.
The sender goes on whatever is lost. `missed` records that as many numbers in a row as
lie above `High` were not heard (`Connected` is false): the receiver may then have missed a
rollover, and all is stale to it until the numbers have come round, or UDP is set
up anew (`Reopen`). The two properties hold until `missed`, and again from `Reopen` on.

### Register

`handleLogin()` in two processes that want the same new name, one of which also has
a second name; the semaphore, the append, the index, password changes, kills, and
a tool that drops a record while nobody plays. The file has at most `MaxFile`
records; index entries past its end, and records that have moved, are then reached.
`UniqueNames`, `KnowsTheWord` (whoever plays has given the password or created
the name), `OwnRecord` (a session's position is its own record) and `LockIsHeld`.
`astray` marks what these leave out: `newplayer()` hands out the position of a record
whose write failed (`db.c:253`), so that two sessions share it; and an index entry
past the end of the file compares a buffer that `read()` has not filled
(`db.c:131`).

### Connection

`ntserv` and the client of `robotd`, TCP as two queues, datagrams as sets from
which anything may be lost, read twice or read late. Sockets are numbered. The
user makes `MaxAsks` requests: two are a request and its repetition, or
a switch there and back. `SocketsMatch`, `RepliesByTcp`, `WaitsForSomething` (a client that refuses to
ask again has an answer or a timeout coming), `SameWire` (two ends in UDP mode
are connected to each other) and `ServerFollows`. `apart` marks what `ServerFollows`
leaves out: the client's timeout does not tell the server (`robotd/socket.c:680`); a UDP
write that fails does not tell the client; and a late `SWITCH_TCP_OK` of a request
taken back takes the client out of UDP again (`robotd/socket.c:2352`). A server that
denies UDP to a client which uses it is left out: permission is fixed.

## Fairness

- *The daemon* runs frame after frame and finishes what it is in: weak fairness of
  each slot's frame, `udtorps()`, `queues_purge()`, the requeueing, the tournament
  machine and the league clock. In `Slots` strong for the timeout of `POUTFIT`, since a pause, which
  suspends it, ends. In `Torps` strong for a torpedo that is swept again and again to
  run out: its fuse does.
- *A process inside a call* goes on: weak fairness of the steps of `pickslot()`,
  `freeslot()`, `forceShutdown()`, `ntorp()`, message sends and reads; strong for
  those of `WaitQueue`, whose semaphore others take in between.
- *Sessions end*: `WaiterServed` assumes that players leave the game at some time
  (`OtherLeaves`, `LeaveGame`). Without that a full game serves nobody, rightly.
- *Ticks of the requeueing* (`RingFair`) are strongly fair: they wait for writers to pause.
- *Updates* (`UpdateTwarp`, `TimerFlags` in `Helm`) are signalled by the daemon's
  frames. The stores of a selection (`Process` in `Draft`) follow each other.
- *The connection*: weak fairness of reading, writing, and of the client's
  timeout, which counts updates; strong for `SrvSelect` finding TCP (`FindsTcp`): a
  socket that stays readable is found by a `select()` that also sees UDP. Nothing is
  assumed of datagrams: they may all be lost.
- *Outfit* (`SF_draftVars(Outfit)` in `Draft`): a player who dies in a draft returns
  or leaves, though others who draft delay it for an instant.
- Players are otherwise free to do nothing for ever.

## Proofs

TLAPS proves the theorems below for every value of the constants that the named
assumptions of the modules allow (`SlotsAssumption`, `WaitQueueAssumption`, ...: finite sets,
limits that are natural numbers, and where the code has two things that differ, such as
a victim and `Nobody`, that they differ). Some of these were found by the proofs:
`Nobody \notin Victim` (`Phaser`), `"cleared" \notin Data` (`Updates`), finitely many
captains (`Docking`), at least one ring (`MessageRing`), `Low + Late <= High` (`Sequence`).
Every safety property of the runs has its theorem, and so has the refinement `Fair`.
Each is proved from an inductive invariant: it holds at first, a step of each action
keeps it, and it gives the property.

The theorems of `SlotsProofs` and `TorpsProofs` have no hypotheses besides the
assumptions: all interleavings are in. Those of the wait queue, `QueueHolds` and `QueueFair`,
need `~Overlap` and `~KillAnywhere`, as the run does; `OrderHolds` needs `TakingTurns`
(the processes take turns, each player has a ring of its own, and writes
less than a ring between two ticks). `ReadersFollow` is proved too (`FollowHolds`), but under
`NotOvertaken` besides (all rings together hold, between two ticks, fewer messages than
`messages[]` has entries, 75). The code limits nobody's sending, and with `messages[]` of 4
instead of 5 the run `shared_live` finds a reader overtaken; so that theorem says
when the ring is long enough, not that it always is, and is not counted among the results.

| theorem | property | inductive invariant, and what it adds to the property |
|---|---|---|
| `SlotsInvariant`, `SlotsExclusive`, `SessionsOwnSlots` | `SlotExclusive`, `SessionOwnsSlot` | `TypeOK` and `Ownership`: who has the semaphore, that whoever claims saw the slot free under it and nobody else took it since, that the slot of a process which nobody has evicted stays in use, and that until it is evicted no other process is recorded there |
| `ConnHolds` | `ConnInv` | `ConnIInv`: sockets are numbered as they are opened, requests under way ask for them in that order (`Ports`), each was opened for a request (`Opened`), datagrams are of sockets that were connected (`Datagrams`), a socket that has verified is connected to what it was verified with (`Verified`), and a client that waits has the newest request or its reply on the way (`Awaited`) |
| `EntriesExclusive`, `EntriesNeverLost` | `EntryExclusive`, `NeverLost` | `WInv`: `Held`, an entry that a process works on is its own; `Stored`, a pid in an entry is that of this process or of a killed one; `Purging`, the daemon works on entries of killed processes. The list plays no part, which is why a broken list does no harm to these two |
| `QueueHolds` | `QueueInv` | `QInv`: there is a sequence of entries that `next` spells out from `first` (`Chain`), and `At` says of each statement of the three calls what is still true of it: which links are made and which not, whose count and pid is there, how far `queue_update()` has come. `MoreRoom` is the pigeonhole that bounds it, and `LineIs` that the recursive `Walk` gives this sequence |
| `QueueFair` | `Fair` | the same; each step is one of `FairQueue` or none: `SetFirst` and `Link` are `Join`, `UnlinkFront` is `Leave`, `WaitServed` and `TryEnter` are `Serve` |
| `RequeueHolds` | `RequeueInv` | `RingIInv`: no two entries with flags hold one message, and none holds what is in the log, but for the entry the daemon is about to clear |
| `OrderHolds` | `OrderKept` | `OrderIInv`: where writers and the daemon are in a ring (`Places`), how many entries lie between them, and that those are older the nearer they are to the daemon and all newer than the log |
| `TorpsInArray` | `StaysInArray` | `SearchInArray`, with all races open: the search can run off a player's slots, not off those of all players |
| `TorpsHold`, `CountsHold` | `TorpsInv`, `CountExact` | `TorpsIInv`, until a race is lost: `CountSum`, the count is that of the torpedoes and of the steps that have not caught up, hence below the limit a slot is free and the search finds it (`FindsFree`) |
| `PlanetsOwnedIffArmed`, `CountdownJust`, `ConquestDue` | `OwnedIffArmed`, `NoUnjustCountdown`, `ConquestIsDue` | `Carriers`, nobody without a team has armies aboard; `HomeCoups`, only home planets can be overturned by a coup, the exception that `NoUnjustCountdown` makes; no planet changes hands during a parade |
| `DocksHold` | `BaysInv` | `DockIInv`: until an exchange is torn, a bay that `dock()` has found stays free (`BayIsFree`), and exploding ships too are in their bays |
| `HelmHolds` | `HelmInv` | `HelmIInv`: `SoundFlags`, which every handler keeps: a flag is set by the function that clears those it excludes |
| `PhHolds` | `PhInv` | `PhIInv`: the entry says what the shot was, nobody is hit before the fuse is below its first value, and exactly one after |
| `SetupHolds` | `SetupInv` | `SetupIInv`: terms both have asked for are agreed; the robot knows of the daemon's draft |
| `GameHolds` | `GameInv` | `GameIInv`: nothing else goes on before a game or in the countdown to it; the clock is bounded by what has been given |
| `TournHolds` | `TournInv` | `TournIInv`: nothing need be added |
| `DraftHolds` | `DraftInv` | `DraftIInv`: who picks, who arrives and who is a captain (`PicksKept`, `ArrivalKept`, `CaptainsKept`), who is between the two stores of joining (`JoinKept`), and that a captain about to be put down leaves another one up (`OneIsUp`) and the team ahead waits (`LeadKept`) |
| `VotesHold` | `VoteInv` | `VoteIInv`: votes cast or counted are against the present person or one without a team, and a majority of others than the accused has somebody who is still to count |
| `UpdatesHold` | `UpdInv` | `UpdIInv`: the cache is what the client has, or the last packet under way; a cleared cache equals no planet |
| `RegisterHolds` | `RegInv` | `RegIInv`: whoever appends has the lock and his name is not in the file; a position in hand is of the name that was asked for |
| `SequenceHolds` | `SequenceKept`, an action property | `SeqKept`, that `SeqIInv` holds until `missed`: the receiver is within `Wrap - High` of the sender, and compares with the latest number or, just after a rollover, with one near it (`ComparesLatest`) |

What failing proofs showed, and the modules now have right:

- The bounds of `clock` in `GameTypeOK`, of `mc` and `tmp` in `RingTypeOK` and of `sequence`
  in `SeqTypeOK` were those of the instance. `sequence` gains a round whenever an old
  and a new number alternate after a rollover; only its low bits matter.
- Who is gone from a vote is remembered for each team (`gone`): one of another team who
  leaves does not end the promise to this one.
- `SameWire` held under two hypotheses that it does not need.
- `ListWhole` speaks of `count` too: what the client is shown is the number of those ahead.

Only model-checked:

- Liveness, which is beyond the prover: `OrphanReclaimed`, `LockReleased`, `TermEnds`,
  `DeadRemoved`, `WaiterServed`, `AllDelivered`, `SlotFreed`, `ComesBack`, `ControlReturns`,
  `ServerFollows`, `TournComes`, `GameEnds`, `DraftEnds`.

## Plan

1. `Slots`, `WaitQueue` with `FairQueue`, `MessageRing`, `Torps`, `Planets`: done.
2. `Docking`, `Helm`, `Phaser`, `Tournament`, `InlSetup`, `InlGame`, `Draft`, `Voting`,
   `Updates`, `Sequence`, `Register`, `Connection`: done.
3. Proofs of the safety properties and of `Fair`: done.
4. If a run can be freed: `Startup` (who waits for SIGUSR1, semaphores set up again
   while in use) and `Listener`.

## Not modelled

Most of the repository is not control. Of its hundred thousand lines a third are the
robots and the robot client (heuristics in floating point), several thousand are
bitmaps, viewers and tools, and much of the daemon and of `genspkt.c` is
arithmetic on positions and layout of packets. What the models can say about such
code is that its outcome is free, so the map covers a small share of all lines and will not
come near a third of them; it covers most of what synchronises, decides
and times in `ntserv` and the daemon.

- Ship movement, combat geometry, damage, sight. Their outcomes are inputs of the modules.
- Packets to clients other than planets and messages: they follow the same pattern of
  a cached packet. Short packets, and data that is sent by TCP whatever the mode.
- Daemon start and listener: `openmem.c:116` can miss the signal it waits for, and
  `openmem.c:159` sets semaphores again that may be held; both are listed as a hazard.
- `bans.c`: a table of addresses that age. Two processes can take the same free entry.
- Sturgeon, dogfight and pre-tournament galaxies: optional rules. Scores, confinement,
  trades and substitutions of league games.
- The delays before the queue (bans, duplicate addresses): they postpone `Arrive`.
- Messages that the daemon writes itself (straight into `messages[]`), ignore lists.
- Plasmas that change hands when phasered, the parade's explosions.
- Other races seen while reading, each on one word and without a property: the flags of
  a message read after it was given to the daemon (`smessage.c:210`), `PLCOUP` and
  `PLREDRAW` in one word (`coup.c:61`), `free_slots` (`slotmaint.c:100`), duplicates
  counted before they queue (`findslot.c:110`).
- Statistics, logs, advertising, configuration, the robot client's play, the X11 viewer,
  the galaxy editor, key tools.

## Running

    tlc -workers 2 -config slots_safety.cfg MCSlots
    tlapm SlotsProofs.tla

`PROJECT.json` names the MC module of each configuration. Runs end within three
minutes; the proofs take some minutes each from nothing.
