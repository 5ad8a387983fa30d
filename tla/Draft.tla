-------------------------------- MODULE Draft --------------------------------
(***************************************************************************)
(* The draft of a league game (draft.c): players gather in a pool, the two *)
(* captains pick them in turn, and when the pool is empty all go home.     *)
(*                                                                         *)
(* Captains, and selectors they name, pick in their own ntserv processes:  *)
(* inl_draft_select() is modelled store by store.  The daemon moves the    *)
(* ships and puts who joins into the pool, in two stores; the arrival of a *)
(* captain is a load and a store.  The INL robot names captains.  Players  *)
(* die, leave, join and return meanwhile; these and the captains' commands *)
(* to the robot, inl_draft_begin() among them, take seconds and are not    *)
(* put inside the few instructions of a selection, joining or arrival.     *)
(***************************************************************************)
EXTENDS Integers, FiniteSets

CONSTANTS
  Seats,        \* the slots 0 .. Seats - 1 of the players
  MaxTurnover   \* how often players die, join or resign

ASSUME DraftAssumption == Seats \in Nat /\ Seats > 2 /\ MaxTurnover \in Nat

Seat  == 0 .. Seats - 1
DTeam == {"FED", "ROM"}

Drafts == {"OFF", "MOVING_TO_POOL", "CAPTAIN_UP", "CAPTAIN_DOWN", "POOLED",
           "MOVING_TO_PICK", "PICKED", "PICKED_SELECTOR", "MOVING_TO_HOME", "END"}

VARIABLES
  d_status,       \* p_status
  p_inl_draft,    \* where a player is in the draft
  d_team,         \* p_team
  d_side,         \* the team of the player's queue, which it enters for
  p_inl_captain,  \* the flag of a captain
  captain,        \* inl_teams[].captain
  inl_draft,      \* context->inl_draft
  drafting,       \* GU_INL_DRAFTING
  pick,           \* inl_draft_select() in progress in a process
  arriving,       \* the daemon between load and store of an arrival
  joining,        \* the daemon between the stores of putting one into the pool
  snatched,       \* history: players selected just there
  raced,          \* history: two of these overlapped since the draft began
  deposed,        \* history: a captain has resigned or been overthrown
  lead,           \* history: turns of FED less turns of ROM, as long as nothing
                  \* overlapped and no captain died or resigned
  turnover        \* deaths, joins and resignations so far

draftVars == <<d_status, p_inl_draft, d_team, d_side, p_inl_captain, captain,
               inl_draft, drafting, pick, arriving, joining, snatched, raced,
               deposed, lead, turnover>>

NoPick    == [step |-> "none", k |-> 0, j |-> 0, pass |-> FALSE]
Uncounted == 9
NoArrival == [who |-> -1, store |-> "OFF"]
NoOne     == -1

DraftTypeOK ==
  /\ d_status \in [Seat -> {"PFREE", "POUTFIT", "PALIVE"}]
  /\ p_inl_draft \in [Seat -> Drafts]
  /\ d_team \in [Seat -> DTeam \cup {"NOBODY"}]
  /\ d_side \in [Seat -> DTeam]
  /\ p_inl_captain \in [Seat -> BOOLEAN]
  /\ captain \in [DTeam -> Seat \cup {-1}]
  /\ inl_draft \in {"OFF", "MOVING_TO_POOL", "MOVING_TO_HOME"}
  /\ drafting \in BOOLEAN
  /\ \A q \in Seat : /\ pick[q].step \in {"none", "down", "pick", "mark"}
                     /\ pick[q].k \in Seat /\ pick[q].j \in Seat
  /\ arriving.who \in Seat \cup {-1}
  /\ arriving.store \in {"OFF", "CAPTAIN_UP", "CAPTAIN_DOWN"}
  /\ joining \in Seat \cup {NoOne} /\ snatched \subseteq Seat
  /\ raced \in BOOLEAN /\ deposed \in BOOLEAN
  /\ lead \in -2 .. 2 \cup {Uncounted} /\ turnover \in 0 .. MaxTurnover

\* Before the draft: two captains, 0 and 1, and the others in both teams.
DraftInit ==
  /\ d_status = [q \in Seat |-> "PALIVE"]
  /\ p_inl_draft = [q \in Seat |-> "OFF"]
  /\ d_side = [q \in Seat |-> IF q % 2 = 0 THEN "FED" ELSE "ROM"]
  /\ d_team = d_side
  /\ p_inl_captain = [q \in Seat |-> q < 2]
  /\ captain = [t \in DTeam |-> IF t = "FED" THEN 0 ELSE 1]
  /\ inl_draft = "OFF" /\ drafting = FALSE
  /\ pick = [q \in Seat |-> NoPick] /\ arriving = NoArrival
  /\ joining = NoOne /\ snatched = {}
  /\ raced = FALSE /\ deposed = FALSE /\ lead = 0 /\ turnover = 0

NobodyBusy == arriving = NoArrival /\ \A q \in Seat : pick[q] = NoPick
DraftIdle == NobodyBusy /\ joining = NoOne

\* inl_draft_ignore(): robots and observers are left out.
Involved(q) == d_status[q] # "PFREE"

\* History: a step that other processes are in the middle of something for.
Overlaps ==
  /\ raced' = (raced \/ ~NobodyBusy)
  /\ lead' = IF NobodyBusy THEN lead ELSE Uncounted

-----------------------------------------------------------------------------
(* The robot *)

\* check_player() for a captain's command.
IsCaptain(t, q) ==
  captain[t] = q /\ d_status[q] = "PALIVE" /\ d_team[q] = t

\* inl_draft_begin(), once both captains have asked, again too.
Begin ==
  /\ DraftIdle /\ \A t \in DTeam : \E q \in Seat : IsCaptain(t, q)
  /\ inl_draft' = "MOVING_TO_POOL" /\ drafting' = TRUE
  /\ p_inl_draft' = [q \in Seat |-> IF Involved(q) THEN "MOVING_TO_POOL"
                                    ELSE p_inl_draft[q]]
  /\ d_team' = [q \in Seat |-> IF Involved(q) /\ ~p_inl_captain[q] THEN "NOBODY"
                               ELSE d_team[q]]
  /\ snatched' = {} /\ raced' = FALSE
  /\ lead' = IF deposed THEN Uncounted ELSE 0
  /\ UNCHANGED <<d_status, d_side, p_inl_captain, captain, pick, arriving,
                 joining, deposed, turnover>>

\* do_captain(): a place that is free; or a captain who is dead is overthrown
\* and keeps the flag.
DoCaptain(t, q) ==
  /\ DraftIdle /\ d_status[q] = "PALIVE" /\ d_team[q] = t
  /\ \/ /\ captain[t] = -1
        /\ captain' = [captain EXCEPT ![t] = q]
        /\ p_inl_captain' = [p_inl_captain EXCEPT ![q] = TRUE]
     \/ /\ captain[t] # -1 /\ d_status[captain[t]] # "PALIVE"
        /\ captain' = [captain EXCEPT ![t] = -1]
        /\ UNCHANGED p_inl_captain
  /\ deposed' = (deposed \/ captain[t] # -1)
  /\ lead' = Uncounted
  /\ UNCHANGED <<d_status, p_inl_draft, d_team, d_side, inl_draft, drafting,
                 pick, arriving, joining, snatched, raced, turnover>>

\* do_uncaptain().
DoUncaptain(t, q) ==
  /\ DraftIdle /\ turnover < MaxTurnover /\ IsCaptain(t, q)
  /\ turnover' = turnover + 1
  /\ captain' = [captain EXCEPT ![t] = -1]
  /\ p_inl_captain' = [p_inl_captain EXCEPT ![q] = FALSE]
  /\ deposed' = TRUE /\ lead' = Uncounted
  /\ UNCHANGED <<d_status, p_inl_draft, d_team, d_side, inl_draft, drafting,
                 pick, arriving, joining, snatched, raced>>

\* player_maint(): a captain who has left.
PlayerMaint(t) ==
  /\ captain[t] # -1 /\ d_status[captain[t]] = "PFREE"
  /\ captain' = [captain EXCEPT ![t] = -1]
  /\ UNCHANGED <<d_status, p_inl_draft, d_team, d_side, p_inl_captain, inl_draft,
                 drafting, pick, arriving, joining, snatched, raced, deposed,
                 lead, turnover>>

-----------------------------------------------------------------------------
(* inl_draft_update() of the daemon *)

\* inl_draft_team_to_captain().
CaptainsOf(t) ==
  {q \in Seat : /\ Involved(q) /\ p_inl_captain[q] /\ d_team[q] = t
                /\ p_inl_draft[q] \in {"CAPTAIN_UP", "CAPTAIN_DOWN"}}
FirstOf(S) == CHOOSE q \in S : \A r \in S : q <= r

\* inl_draft_assign_to_pool(): somebody who has joined stands in the pool, ...
Joins(q) ==
  /\ drafting /\ arriving = NoArrival /\ joining = NoOne
  /\ inl_draft = "MOVING_TO_POOL"
  /\ d_status[q] = "PALIVE" /\ p_inl_draft[q] = "OFF"
  /\ p_inl_draft' = [p_inl_draft EXCEPT ![q] = "MOVING_TO_POOL"]
  /\ joining' = IF p_inl_captain[q] THEN NoOne ELSE q
  /\ UNCHANGED <<d_status, d_team, d_side, p_inl_captain, captain, inl_draft,
                 drafting, pick, arriving, snatched, raced, deposed, lead,
                 turnover>>
\* ... and then, unless a captain, leaves the team.
JoinsTeam ==
  /\ joining # NoOne
  /\ d_team' = [d_team EXCEPT ![joining] = "NOBODY"]
  /\ joining' = NoOne
  /\ UNCHANGED <<d_status, p_inl_draft, d_side, p_inl_captain, captain,
                 inl_draft, drafting, pick, arriving, snatched, raced, deposed,
                 lead, turnover>>

ArrivalFrom == [s \in {"MOVING_TO_POOL", "MOVING_TO_PICK", "MOVING_TO_HOME"} |->
  CASE s = "MOVING_TO_POOL" -> "POOLED"
    [] s = "MOVING_TO_PICK" -> "PICKED"
    [] s = "MOVING_TO_HOME" -> "END"]

\* inl_draft_arrival(), of all but captains.
Arrival(q) ==
  /\ drafting /\ arriving = NoArrival /\ joining = NoOne /\ d_status[q] = "PALIVE"
  /\ p_inl_draft[q] \in DOMAIN ArrivalFrom
  /\ p_inl_draft[q] = "MOVING_TO_POOL" => ~p_inl_captain[q]
  /\ p_inl_draft' = [p_inl_draft EXCEPT ![q] = ArrivalFrom[@]]
  /\ UNCHANGED <<d_status, d_team, d_side, p_inl_captain, captain, inl_draft,
                 drafting, pick, arriving, joining, snatched, raced, deposed,
                 lead, turnover>>

\* Mutant: a captain who arrives after another waits.
NextUpFirst(q) ==
  IF CaptainsOf(IF d_team[q] = "ROM" THEN "FED" ELSE "ROM") # {}
  THEN "CAPTAIN_DOWN" ELSE "CAPTAIN_UP"

\* The captain who arrives first has the pick.
NextUp(q) ==
  LET other == CaptainsOf(IF d_team[q] = "ROM" THEN "FED" ELSE "ROM")
  IN  IF other # {} /\ p_inl_draft[FirstOf(other)] = "CAPTAIN_UP"
      THEN "CAPTAIN_DOWN" ELSE "CAPTAIN_UP"

\* inl_draft_arrival_captain(): it looks at the other captain,
CaptainArrives(q) ==
  /\ drafting /\ arriving = NoArrival /\ joining = NoOne
  /\ d_status[q] = "PALIVE" /\ p_inl_captain[q]
  /\ p_inl_draft[q] \in {"MOVING_TO_POOL", "POOLED", "PICKED"}
  /\ arriving' = [who |-> q, store |-> NextUp(q)]
  /\ Overlaps
  /\ UNCHANGED <<d_status, p_inl_draft, d_team, d_side, p_inl_captain, captain,
                 inl_draft, drafting, pick, joining, snatched, deposed,
                 turnover>>
\* and then stores what that means for this one.
CaptainPlaced ==
  /\ arriving # NoArrival
  /\ p_inl_draft' = [p_inl_draft EXCEPT ![arriving.who] = arriving.store]
  /\ arriving' = NoArrival
  /\ UNCHANGED <<d_status, d_team, d_side, p_inl_captain, captain, inl_draft,
                 drafting, pick, joining, snatched, raced, deposed, lead,
                 turnover>>

\* inl_draft_pool_size().
Pool == {q \in Seat : /\ Involved(q)
                      /\ p_inl_draft[q] \in {"MOVING_TO_POOL", "POOLED",
                                            "MOVING_TO_PICK"}}
PoolEmpty == Pool = {}

\* inl_draft_done().
Done ==
  /\ drafting /\ arriving = NoArrival /\ joining = NoOne
  /\ inl_draft = "MOVING_TO_POOL" /\ PoolEmpty
  /\ inl_draft' = "MOVING_TO_HOME"
  /\ p_inl_draft' = [q \in Seat |-> IF Involved(q) THEN "MOVING_TO_HOME"
                                    ELSE p_inl_draft[q]]
  /\ Overlaps
  /\ UNCHANGED <<d_status, d_team, d_side, p_inl_captain, captain, drafting,
                 pick, arriving, joining, snatched, deposed, turnover>>

\* Mutant: everybody must have come home.
AllHomeEnd == \A q \in Seat : Involved(q) => p_inl_draft[q] = "END"
\* inl_draft_count_by_state(INL_DRAFT_MOVING_TO_HOME) = 0.
AllHome == \A q \in Seat : Involved(q) => p_inl_draft[q] # "MOVING_TO_HOME"

\* inl_draft_end().
End ==
  /\ drafting /\ arriving = NoArrival /\ joining = NoOne
  /\ inl_draft = "MOVING_TO_HOME" /\ AllHome
  /\ inl_draft' = "OFF" /\ drafting' = FALSE
  /\ p_inl_draft' = [q \in Seat |-> "OFF"]
  /\ raced' = ~NobodyBusy /\ lead' = IF NobodyBusy THEN 0 ELSE Uncounted
  /\ UNCHANGED <<d_status, d_team, d_side, p_inl_captain, captain, pick,
                 arriving, joining, snatched, deposed, turnover>>

-----------------------------------------------------------------------------
(* inl_draft_select() *)

\* inl_draft_next(k): the first other captain, who is given the pick, ...
Others(k) == {q \in Seat \ {k} : Involved(q) /\ p_inl_captain[q]}

\* Who picks for the process of q: itself, or the captain of a selector.
Picks(q, k) ==
  \/ p_inl_draft[q] = "CAPTAIN_UP" /\ k = q
  \/ /\ p_inl_draft[q] = "PICKED_SELECTOR"
     /\ CaptainsOf(d_team[q]) # {} /\ k = FirstOf(CaptainsOf(d_team[q]))
     /\ p_inl_draft[k] = "CAPTAIN_UP"

Select(q, k, j, pass) ==
  /\ d_status[q] = "PALIVE" /\ pick[q] = NoPick
  /\ Others(k) # {}
  /\ p_inl_draft' = [p_inl_draft EXCEPT ![FirstOf(Others(k))] = "CAPTAIN_UP"]
  /\ pick' = [pick EXCEPT ![q] = [step |-> "down", k |-> k, j |-> j, pass |-> pass]]
  /\ Overlaps
  /\ snatched' = IF joining = j THEN snatched \cup {j} ELSE snatched
  /\ UNCHANGED <<d_status, d_team, d_side, p_inl_captain, captain, inl_draft,
                 drafting, arriving, joining, deposed, turnover>>

\* A pool player who is no captain is picked.
SelectPick(q, k, j) ==
  /\ Picks(q, k)
  /\ p_inl_draft[j] \in {"MOVING_TO_POOL", "POOLED"} /\ ~p_inl_captain[j]
  /\ Select(q, k, j, FALSE)

\* The captain who waits is fingered: a pass.
SelectPass(q, j) ==
  /\ p_inl_draft[q] = "CAPTAIN_UP" /\ p_inl_draft[j] = "CAPTAIN_DOWN"
  /\ Select(q, q, j, TRUE)

\* ... and the one who had it waits.  A pass ends here.
Turn(k) == IF lead = Uncounted THEN lead
           ELSE IF d_team[k] = "FED" THEN lead + 1 ELSE lead - 1
\* Mutant: the captain keeps the pick.
SelectDownUp(q) ==
  /\ pick[q].step = "down"
  /\ pick' = [pick EXCEPT ![q] = IF @.pass THEN NoPick ELSE [@ EXCEPT !.step = "pick"]]
  /\ lead' = IF pick[q].pass THEN Turn(pick[q].k) ELSE lead
  /\ UNCHANGED <<d_status, p_inl_draft, d_team, d_side, p_inl_captain, captain,
                 inl_draft, drafting, arriving, joining, snatched, raced,
                 deposed, turnover>>
SelectDown(q) ==
  /\ pick[q].step = "down"
  /\ p_inl_draft' = [p_inl_draft EXCEPT ![pick[q].k] = "CAPTAIN_DOWN"]
  /\ pick' = [pick EXCEPT ![q] = IF @.pass THEN NoPick ELSE [@ EXCEPT !.step = "pick"]]
  /\ lead' = IF pick[q].pass THEN Turn(pick[q].k) ELSE lead
  /\ UNCHANGED <<d_status, d_team, d_side, p_inl_captain, captain, inl_draft,
                 drafting, arriving, joining, snatched, raced, deposed,
                 turnover>>

\* Mutant: the player is not moved to the team.
DraftPickTeam(q) ==
  /\ pick[q].step = "pick"
  /\ pick' = [pick EXCEPT ![q].step = "mark"]
  /\ UNCHANGED <<d_status, p_inl_draft, d_team, d_side, p_inl_captain, captain,
                 inl_draft, drafting, arriving, joining, snatched, raced,
                 deposed, lead, turnover>>
\* inl_draft_pick(): the player changes to the captain's team and queue, ...
DraftPick(q) ==
  /\ pick[q].step = "pick"
  /\ LET t == d_team[pick[q].k] j == pick[q].j IN
     /\ d_team' = [d_team EXCEPT ![j] = t]
     /\ d_side' = IF t \in DTeam /\ d_team[j] # t
                  THEN [d_side EXCEPT ![j] = t] ELSE d_side
  /\ pick' = [pick EXCEPT ![q].step = "mark"]
  /\ UNCHANGED <<d_status, p_inl_draft, p_inl_captain, captain, inl_draft,
                 drafting, arriving, joining, snatched, raced, deposed, lead,
                 turnover>>
\* ... and leaves the pool.
DraftMark(q) ==
  /\ pick[q].step = "mark"
  /\ p_inl_draft' = [p_inl_draft EXCEPT ![pick[q].j] = "MOVING_TO_PICK"]
  /\ pick' = [pick EXCEPT ![q] = NoPick]
  /\ lead' = Turn(pick[q].k)
  /\ UNCHANGED <<d_status, d_team, d_side, p_inl_captain, captain, inl_draft,
                 drafting, arriving, joining, snatched, raced, deposed,
                 turnover>>

\* A captain fingers a player of the team, who becomes a selector, or a
\* selector, who is one no longer.
Delegate(q, j) ==
  /\ d_status[q] = "PALIVE" /\ pick[q] = NoPick
  /\ p_inl_draft[q] \in {"CAPTAIN_UP", "CAPTAIN_DOWN"} /\ d_team[j] = d_team[q]
  /\ \/ /\ p_inl_draft[j] \in {"MOVING_TO_PICK", "PICKED"}
        /\ p_inl_draft' = [p_inl_draft EXCEPT ![j] = "PICKED_SELECTOR"]
     \/ /\ p_inl_draft[j] = "PICKED_SELECTOR"
        /\ p_inl_draft' = [p_inl_draft EXCEPT ![j] = "PICKED"]
  /\ UNCHANGED <<d_status, d_team, d_side, p_inl_captain, captain, inl_draft,
                 drafting, pick, arriving, joining, snatched, raced, deposed,
                 lead, turnover>>

-----------------------------------------------------------------------------
(* Players come and go *)

\* The daemon: a ship is blown up, by itself if there is a draft.
DieInDraft(q) ==
  /\ turnover < MaxTurnover /\ d_status[q] = "PALIVE" /\ DraftIdle
  /\ d_status' = [d_status EXCEPT ![q] = "POUTFIT"]
  /\ turnover' = turnover + 1
  /\ lead' = IF p_inl_captain[q] THEN Uncounted ELSE lead
  /\ UNCHANGED <<p_inl_draft, d_team, d_side, p_inl_captain, captain, inl_draft,
                 drafting, pick, arriving, joining, snatched, raced, deposed>>

\* enter(), for the team of the queue.
Enter(q) ==
  /\ DraftIdle /\ d_status[q] = "POUTFIT"
  /\ d_status' = [d_status EXCEPT ![q] = "PALIVE"]
  /\ p_inl_draft' = [p_inl_draft EXCEPT ![q] = "OFF"]
  /\ d_team' = [d_team EXCEPT ![q] = d_side[q]]
  /\ snatched' = snatched \ {q}
  /\ UNCHANGED <<d_side, p_inl_captain, captain, inl_draft, drafting, pick,
                 arriving, joining, raced, deposed, lead, turnover>>

\* The outfit timeout, or the player quits.
Leave(q) ==
  /\ DraftIdle /\ d_status[q] = "POUTFIT"
  /\ d_status' = [d_status EXCEPT ![q] = "PFREE"]
  /\ UNCHANGED <<p_inl_draft, d_team, d_side, p_inl_captain, captain, inl_draft,
                 drafting, pick, arriving, joining, snatched, raced, deposed,
                 lead, turnover>>

\* The slot's next player: main() clears the captain's flag only.
Login(q, t) ==
  /\ DraftIdle /\ turnover < MaxTurnover /\ d_status[q] = "PFREE"
  /\ d_status' = [d_status EXCEPT ![q] = "POUTFIT"]
  /\ p_inl_captain' = [p_inl_captain EXCEPT ![q] = FALSE]
  /\ d_side' = [d_side EXCEPT ![q] = t]
  /\ turnover' = turnover + 1
  /\ UNCHANGED <<p_inl_draft, d_team, captain, inl_draft, drafting, pick,
                 arriving, joining, snatched, raced, deposed, lead>>

-----------------------------------------------------------------------------

DraftUpdate ==
  \/ \E q \in Seat : Joins(q) \/ Arrival(q) \/ CaptainArrives(q)
  \/ JoinsTeam \/ CaptainPlaced \/ Done \/ End
Outfit == \E q \in Seat : Enter(q) \/ Leave(q)
Process == \E q \in Seat : SelectDown(q) \/ DraftPick(q) \/ DraftMark(q)
Captains ==
  \/ \E q, j \in Seat : SelectPass(q, j) \/ Delegate(q, j)
                        \/ \E k \in Seat : SelectPick(q, k, j)
  \/ \E t \in DTeam : \/ \E q \in Seat : DoCaptain(t, q) \/ DoUncaptain(t, q)
                      \/ PlayerMaint(t)
  \/ Begin

DraftNext ==
  \/ DraftUpdate \/ Outfit \/ Process \/ Captains
  \/ \E q \in Seat : DieInDraft(q) \/ \E t \in DTeam : Login(q, t)

\* The daemon runs on, a process finishes what it does, and nobody stays in
\* the outfit screen, which has a timeout: strongly, for in the model a
\* selection in progress holds it up and in the code it does not.
DraftFair ==
  WF_draftVars(DraftUpdate) /\ WF_draftVars(Process) /\ SF_draftVars(Outfit)
DraftSpec == DraftInit /\ [][DraftNext]_draftVars /\ DraftFair

-----------------------------------------------------------------------------
(* Properties *)

Drafted == {"MOVING_TO_PICK", "PICKED", "PICKED_SELECTOR", "MOVING_TO_HOME", "END"}

\* Whoever is drafted plays for a team: nobody goes home with the pool, or
\* stands with the picked while still belonging to it, whichever of joining,
\* picking and arriving overlap -- but for who is selected just between the two
\* stores of joining the pool: the second one undoes the team of the selection.
DraftedHaveTeam ==
  \A q \in Seat : /\ d_status[q] = "PALIVE" /\ p_inl_draft[q] \in Drafted
                   /\ q \notin snatched
                  => d_team[q] \in DTeam

\* Captains pick in turn: unless two selections overlapped or a captain was
\* lost, neither team is ahead of the other by more than a turn.
TurnsAlternate == lead \in -1 .. 1 \cup {Uncounted}

\* The draft can go on after a captain has died and returned, or has left and
\* been replaced: two captains of two teams who have taken their places never
\* both wait, unless two selections overlapped, or a captain resigned
\* or was overthrown, who keeps the state or the flag of one.
SomebodyIsUp ==
  LET placed == {q \in Seat : d_status[q] = "PALIVE" /\ p_inl_captain[q]
                              /\ p_inl_draft[q] \in {"CAPTAIN_UP", "CAPTAIN_DOWN"}}
  IN  (/\ NobodyBusy /\ ~raced /\ ~deposed
       /\ \E a, b \in placed : d_team[a] # d_team[b]
       /\ \A q \in Seat : Involved(q) /\ p_inl_captain[q] => q \in placed)
      => \E q \in placed : p_inl_draft[q] = "CAPTAIN_UP"

\* The draft of draft.c is fair: everybody drafted has a team, the turn goes round
\* and never gets lost.
DraftInv ==
  DraftTypeOK /\ DraftedHaveTeam /\ TurnsAlternate /\ SomebodyIsUp

\* Once nobody is left to pick, the draft ends, whoever dies or leaves on the
\* way home, unless somebody joins or the captains begin again.
DraftEnds == (drafting /\ PoolEmpty) ~> (~drafting \/ ~PoolEmpty)
=============================================================================
