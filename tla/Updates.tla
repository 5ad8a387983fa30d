------------------------------- MODULE Updates -------------------------------
(***************************************************************************)
(* What a client is shown of a planet: updatePlanets() and clearSPackets() *)
(* of ntserv/genspkt.c, sendClientPacket(), flushSockBuf() and             *)
(* forceUpdate() of ntserv/socket.c.  ntserv keeps the packet it has sent  *)
(* last and sends another when the planet differs from it.  A packet by    *)
(* UDP may be lost, or come before or after one by TCP; by UDP alone a     *)
(* late one is dropped (Sequence.tla).                                     *)
(*                                                                         *)
(* A planet is all its data (owner, armies, flags) as one value, and the   *)
(* teams that have scouted it.  "Fat" UDP, which is to send such packets   *)
(* again, does not: issc is never set, so no packet is put on its lists.   *)
(***************************************************************************)
EXTENDS Integers, Sequences, SequencesExt

CONSTANTS
  UTeam,      \* teams
  Data,       \* what there is to know of a planet
  MaxFlight   \* bound: packets under way

ASSUME UpdatesAssumption ==
  UTeam # {} /\ Data # {} /\ "cleared" \notin Data /\ MaxFlight \in Nat

VARIABLES
  truth,      \* the planet: pl_info and the rest
  my_team,    \* me->p_team
  comm,       \* commMode
  udp_mode,   \* udpMode
  cache,      \* clientPlanets[]
  chilled,    \* within UDP_UPDATE_WAIT of the last full update
  tcp, udp,   \* packets under way
  view,       \* the client's planet
  newest,     \* history: what has become of the packet sent last
  fresh       \* history: nothing has changed since updatePlanets()

updVars == <<truth, my_team, comm, udp_mode, cache, chilled, tcp, udp, view, newest,
             fresh>>

Known   == [info : SUBSET UTeam, data : Data]
Unknown == [info |-> {}, data |-> "none"]
Packets == Known \cup {Unknown}
\* clearSPackets() leaves what compares equal to no planet.
Cleared(c) == [info |-> c.info \cup {my_team}, data |-> "cleared"]

UpdTypeOK ==
  /\ truth \in Known /\ my_team \in UTeam
  /\ comm \in {"COMM_TCP", "COMM_UDP"}
  /\ udp_mode \in {"MODE_TCP", "MODE_SIMPLE", "MODE_FAT"}
  /\ cache \in Packets \cup [info : SUBSET UTeam, data : {"cleared"}]
  /\ tcp \in Seq(Packets) /\ udp \in Seq(Packets) /\ view \in Packets
  /\ Len(tcp) + Len(udp) <= MaxFlight
  /\ newest \in {"due", "tcp", "udp", "applied", "overtaken", "lost"}
  /\ chilled \in BOOLEAN /\ fresh \in BOOLEAN

UpdInit ==
  /\ truth \in [info : {{}}, data : Data] /\ my_team \in UTeam
  /\ comm = "COMM_TCP" /\ udp_mode = "MODE_SIMPLE"
  /\ cache = Unknown /\ view = Unknown /\ tcp = <<>> /\ udp = <<>>
  /\ chilled = FALSE /\ newest = "applied" /\ fresh = FALSE

-----------------------------------------------------------------------------
(* ntserv *)

ByTcp == comm = "COMM_TCP" \/ udp_mode = "MODE_TCP"
\* sendClientPacket() and the flush at the end of updateClient(); if the write
\* to the UDP socket fails it is closed, and what it was given is gone.
SendPlanet(pkt) ==
  \/ /\ ByTcp /\ tcp' = Append(tcp, pkt) /\ newest' = "tcp"
     /\ UNCHANGED <<udp, comm>>
  \/ /\ ~ByTcp /\ udp' = Append(udp, pkt) /\ newest' = "udp"
     /\ UNCHANGED <<tcp, comm>>
  \/ /\ ~ByTcp /\ comm' = "COMM_TCP" /\ udp' = <<>> /\ newest' = "lost"
     /\ UNCHANGED tcp

Scouted == my_team \in truth.info
\* Mutant: a planet that is not scouted is of no interest.
UpdtPlanetScouted == Scouted /\ cache # truth
\* updtPlanet(): UPDT_ALL or UPDT_LITTLE.
UpdtPlanet == IF Scouted THEN cache # truth ELSE my_team \in cache.info
PlanetPacket == IF Scouted THEN truth ELSE Unknown

\* updatePlanets().  A client that does not read would be marked dead.
UpdatePlanets ==
  /\ Len(tcp) + Len(udp) < MaxFlight
  /\ fresh' = TRUE
  /\ IF UpdtPlanet
     THEN cache' = PlanetPacket /\ SendPlanet(PlanetPacket)
     ELSE UNCHANGED <<cache, tcp, udp, newest, comm>>
  /\ UNCHANGED <<truth, my_team, udp_mode, chilled, view>>

\* Mutant: the planets not scouted are left out.
ForceUpdateKnown ==
  IF chilled
  THEN UNCHANGED <<cache, chilled, newest, fresh>>
  ELSE /\ cache' = [cache EXCEPT !.data = "cleared"] /\ chilled' = TRUE
       /\ newest' = "due" /\ fresh' = FALSE
\* forceUpdate(): "Update request DENIED (chill out!)", or
ForceUpdate ==
  IF chilled
  THEN UNCHANGED <<cache, chilled, newest, fresh>>
  ELSE /\ cache' = Cleared(cache) /\ chilled' = TRUE
       /\ newest' = "due" /\ fresh' = FALSE

\* handleUdpReq(): COMM_UPDATE, and COMM_MODE, which updates for MODE_FAT.
FullUpdate ==
  /\ ForceUpdate
  /\ UNCHANGED <<truth, my_team, comm, udp_mode, tcp, udp, view>>
CommMode(m) ==
  /\ udp_mode' = m
  /\ IF m = "MODE_FAT" THEN ForceUpdate
     ELSE UNCHANGED <<cache, chilled, newest, fresh>>
  /\ UNCHANGED <<truth, my_team, comm, tcp, udp, view>>
Chill ==
  /\ chilled /\ chilled' = FALSE
  /\ UNCHANGED <<truth, my_team, comm, udp_mode, cache, tcp, udp, view, newest, fresh>>

\* handleUdpReq(COMM_UDP) and its verification, and (COMM_TCP), whose answer
\* makes the client close its socket before it reads what follows by TCP.
ToUdp ==
  /\ comm = "COMM_TCP" /\ comm' = "COMM_UDP" /\ udp_mode' = "MODE_SIMPLE"
  /\ UNCHANGED <<truth, my_team, cache, chilled, tcp, udp, view, newest, fresh>>
BackToTcp ==
  /\ comm = "COMM_UDP" /\ comm' = "COMM_TCP" /\ udp' = <<>>
  /\ newest' = IF newest = "udp" THEN "lost" ELSE newest
  /\ UNCHANGED <<truth, my_team, udp_mode, cache, chilled, tcp, view, fresh>>

-----------------------------------------------------------------------------
(* The daemon, the network and the client *)

\* The planet changes hands, is fought over or scouted; or the player is in
\* another team, for which he must have died, and updates go on all the time.
Changes ==
  /\ fresh' = FALSE
  /\ \/ truth' \in Known \ {truth} /\ UNCHANGED my_team
     \/ newest # "due" /\ my_team' \in UTeam \ {my_team} /\ UNCHANGED truth
  /\ UNCHANGED <<comm, udp_mode, cache, chilled, tcp, udp, view, newest>>

\* handlePlanet() of a packet, with "last" the last that was sent.
HandlePlanet(pkt, last) ==
  /\ view' = pkt
  /\ newest' = IF last THEN "applied"
               ELSE IF newest = "applied" THEN "overtaken" ELSE newest

ReceiveTcp ==
  /\ tcp # <<>> /\ tcp' = Tail(tcp)
  /\ HandlePlanet(Head(tcp), newest = "tcp" /\ Len(tcp) = 1)
  /\ UNCHANGED <<truth, my_team, comm, udp_mode, cache, chilled, udp, fresh>>
\* What was before it is late from now on.
ReceiveUdp ==
  /\ \E i \in 1 .. Len(udp) :
       /\ udp' = SubSeq(udp, i + 1, Len(udp))
       /\ HandlePlanet(udp[i], newest = "udp" /\ i = Len(udp))
  /\ UNCHANGED <<truth, my_team, comm, udp_mode, cache, chilled, tcp, fresh>>
LosePacket ==
  /\ \E i \in 1 .. Len(udp) :
       /\ udp' = RemoveAt(udp, i)
       /\ newest' = IF newest = "udp" /\ i = Len(udp) THEN "lost" ELSE newest
  /\ UNCHANGED <<truth, my_team, comm, udp_mode, cache, chilled, tcp, view, fresh>>

UpdNext ==
  \/ UpdatePlanets \/ FullUpdate \/ Chill \/ ToUdp \/ BackToTcp
  \/ \E m \in {"MODE_TCP", "MODE_SIMPLE", "MODE_FAT"} : CommMode(m)
  \/ Changes \/ ReceiveTcp \/ ReceiveUdp \/ LosePacket

UpdSpec == UpdInit /\ [][UpdNext]_updVars

-----------------------------------------------------------------------------
(* Properties *)

\* The client looks at pl_info itself.
Shows == my_team \in truth.info \/ my_team \in view.info => view = truth

\* After an update the client has the planet as its team knows it, as soon as
\* the packet sent last has arrived last: no change is missed, and nothing is
\* shown that the team does not know, whatever teams the player has been in.
SeenAsItIs == fresh /\ newest = "applied" => Shows

\* A full update is one: a packet goes out for every planet that the client may
\* have wrong, also when ntserv has nothing new to tell.
FullUpdateSends == fresh => newest # "due" \/ Shows

\* updatePlanets() and its cache keep the client's planet true.
UpdInv ==
  UpdTypeOK /\ SeenAsItIs /\ FullUpdateSends
=============================================================================
