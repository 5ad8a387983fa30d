----------------------------- MODULE Connection -----------------------------
(***************************************************************************)
(* How a client and its ntserv process agree on a UDP channel beside their *)
(* TCP connection: handleUdpReq() of ntserv/socket.c, and sendUdpReq() and *)
(* handleUdpReply() of the robot client, robotd/socket.c, which asks for   *)
(* CONNMODE_PACKET.  TCP is two queues; datagrams are lost, duplicated,    *)
(* late and out of order.  Sockets are numbered as they are opened: a port *)
(* is not used twice, and there is always one to be had.                   *)
(***************************************************************************)
EXTENDS Integers, Sequences

CONSTANT MaxAsks     \* requests of the user, and only these are bounded

ASSUME ConnectionAssumption == MaxAsks \in Nat

VARIABLES
  allowed,      \* udpAllowed, and the versions agree
  srv_mode,     \* ntserv: commMode
  srv_sock,     \* udpSock, 0 if there is none
  srv_peer,     \* the client's socket that it is connected to
  srv_last,     \* the last socket that was opened
  srv_out,      \* buf: packets for TCP not yet flushed
  srv_ready,    \* what is left of the result of select() in readFromClient()
  cl_mode,      \* client: commMode
  cl_req,       \* commModeReq
  cl_status,    \* commStatus
  cl_timer,     \* commSwitchTimeout > 0
  cl_sock,      \* udpSock, 0 if there is none
  cl_peer,      \* the server's socket that it is connected to, 0 if none
  cl_last,      \* the last socket that was opened
  cl_waits,     \* in recvUdpConn()
  up, down,     \* the TCP connection, in each direction
  udp_up,       \* datagrams to the server, which are all COMM_VERIFY
  udp_down,     \* datagrams to the client
  asks,         \* requests of the user so far
  apart         \* history: the client has given up, the server's UDP failed, or
                \* the last request was made before older ones were answered

srvVars  == <<srv_mode, srv_sock, srv_peer, srv_last, srv_out, srv_ready>>
clVars   == <<cl_mode, cl_req, cl_status, cl_timer, cl_sock, cl_peer, cl_last,
              cl_waits>>
connVars == <<allowed, srvVars, clVars, up, down, udp_up, udp_down, asks, apart>>

Mode == {"COMM_TCP", "COMM_UDP"}

ConnTypeOK ==
  /\ {srv_mode, cl_mode, cl_req} \subseteq Mode
  /\ {srv_sock, srv_peer, cl_sock, cl_peer, srv_last, cl_last} \subseteq 0 .. MaxAsks
  /\ srv_ready \subseteq {"tcp", "udp"}
  /\ cl_status \in {"STAT_CONNECTED", "STAT_SWITCH_UDP", "STAT_SWITCH_TCP",
                    "STAT_VERIFY_UDP"}
  /\ cl_timer \in BOOLEAN /\ cl_waits \in BOOLEAN
  /\ asks \in 0 .. MaxAsks /\ apart \in BOOLEAN /\ allowed \in BOOLEAN

ConnInit ==
  /\ srv_mode = "COMM_TCP" /\ srv_sock = 0 /\ srv_peer = 0 /\ srv_last = 0
  /\ srv_out = <<>> /\ srv_ready = {}
  /\ cl_mode = "COMM_TCP" /\ cl_req = "COMM_TCP" /\ cl_status = "STAT_CONNECTED"
  /\ cl_timer = FALSE /\ cl_sock = 0 /\ cl_peer = 0 /\ cl_last = 0
  /\ cl_waits = FALSE
  /\ up = <<>> /\ down = <<>> /\ udp_up = {} /\ udp_down = {}
  /\ asks = 0 /\ apart = FALSE /\ allowed \in BOOLEAN

-----------------------------------------------------------------------------
(* ntserv *)

\* sendClientPacket() of a reply: by UDP if the server is in that mode now.
Reply(what, mode, sock, peer) ==
  IF mode = "COMM_TCP"
  THEN srv_out' = Append(srv_out, what) /\ UNCHANGED udp_down
  ELSE /\ udp_down' = udp_down \cup {[to |-> peer, from |-> sock, what |-> what]}
       /\ UNCHANGED srv_out

\* handleUdpReq(COMM_VERIFY), the first and any other.
HandleVerify ==
  /\ srv_mode' = "COMM_UDP"
  /\ Reply("SWITCH_VERIFY", "COMM_UDP", srv_sock, srv_peer)
  /\ UNCHANGED <<srv_sock, srv_peer, srv_last>>

\* handleUdpReq(COMM_UDP): not allowed, or of another version;
Denied ==
  /\ ~allowed
  /\ srv_mode' = "COMM_TCP"
  /\ srv_sock' = IF srv_mode = "COMM_UDP" THEN 0 ELSE srv_sock
  /\ Reply("SWITCH_DENIED", "COMM_TCP", 0, 0)
  /\ UNCHANGED <<srv_peer, srv_last>>
\* Mutant: a server in UDP mode stays in it while the new socket is set up.
GrantedKeepsMode(c) ==
  /\ allowed
  /\ srv_last' = srv_last + 1 /\ srv_sock' = srv_last' /\ srv_peer' = c
  /\ srv_out' = Append(srv_out, "SWITCH_UDP_OK")
  /\ udp_down' = udp_down \cup
                   {[to |-> c, from |-> srv_sock', what |-> "SWITCH_UDP_OK"]}
  /\ UNCHANGED srv_mode
\* or a new socket, in the place of an old one, connected to the client's,
\* which is told by both ways.
Granted(c) ==
  /\ allowed
  /\ srv_mode' = "COMM_TCP"
  /\ srv_last' = srv_last + 1 /\ srv_sock' = srv_last' /\ srv_peer' = c
  /\ srv_out' = Append(srv_out, "SWITCH_UDP_OK")
  /\ udp_down' = udp_down \cup
                   {[to |-> c, from |-> srv_sock', what |-> "SWITCH_UDP_OK"]}

\* Mutant: the old mode is left only after the reply.
HandleTcpLate ==
  /\ srv_mode' = "COMM_TCP" /\ srv_sock' = 0
  /\ Reply("SWITCH_TCP_OK", srv_mode, srv_sock, srv_peer)
  /\ UNCHANGED <<srv_peer, srv_last>>
\* Mutant: the reply is forgotten when there is nothing to switch.
HandleTcpSilent ==
  /\ srv_mode' = "COMM_TCP"
  /\ IF srv_mode = "COMM_UDP"
     THEN srv_sock' = 0 /\ Reply("SWITCH_TCP_OK", "COMM_TCP", 0, 0)
     ELSE UNCHANGED <<srv_sock, srv_out, udp_down>>
  /\ UNCHANGED <<srv_peer, srv_last>>
\* Mutant: the socket is closed, the mode stays.
HandleTcpKeepsMode ==
  /\ srv_sock' = 0
  /\ Reply("SWITCH_TCP_OK", "COMM_TCP", 0, 0)
  /\ UNCHANGED <<srv_mode, srv_peer, srv_last>>
\* handleUdpReq(COMM_TCP), in either mode.
HandleTcp ==
  /\ srv_mode' = "COMM_TCP" /\ srv_sock' = 0
  /\ Reply("SWITCH_TCP_OK", "COMM_TCP", 0, 0)
  /\ UNCHANGED <<srv_peer, srv_last>>

\* Mutant: a late packet to an earlier socket is taken too.
ForServerAny == {d \in udp_up : srv_sock # 0}
\* A socket that is connected takes only what its peer has sent.
ForServer == {d \in udp_up : d.to = srv_sock /\ d.from = srv_peer}

\* readFromClient(): select() finds what has arrived.
SrvSelect ==
  /\ srv_ready = {}
  /\ srv_ready' \in SUBSET ((IF up # <<>> THEN {"tcp"} ELSE {})
                            \cup (IF ForServer # {} THEN {"udp"} ELSE {}))
  /\ srv_ready' # {}
  /\ UNCHANGED <<srv_mode, srv_sock, srv_peer, srv_last, srv_out, clVars, up, down,
                 udp_up, udp_down, asks, apart, allowed>>

\* doRead(sock): one packet, or more.
SrvTcp ==
  /\ "tcp" \in srv_ready /\ up # <<>>
  /\ up' = Tail(up)
  /\ \/ Head(up).ask = "COMM_TCP" /\ HandleTcp
     \/ Head(up).ask = "COMM_UDP" /\ (Denied \/ Granted(Head(up).port))
  /\ srv_ready' \in {srv_ready \ {"tcp"}, IF up' = <<>> THEN srv_ready \ {"tcp"}
                                                          ELSE srv_ready}
  /\ UNCHANGED <<clVars, down, udp_up, asks, apart, allowed>>

\* doRead(udpSock), unless udpSock has been closed: the descriptor that was
\* ready may be another socket by now, from which read() waits.
SrvUdp ==
  /\ srv_ready = {"udp"} /\ srv_ready' = {}
  /\ \/ srv_sock = 0 /\ UNCHANGED <<srv_mode, srv_sock, srv_peer, srv_last, srv_out,
                                     udp_up, udp_down>>
     \/ /\ srv_sock # 0
        /\ \E d \in ForServer : udp_up' \in {udp_up, udp_up \ {d}}
        /\ HandleVerify
  /\ UNCHANGED <<clVars, up, down, asks, apart, allowed>>

\* updateClient() and flushSockBuf(), between reads.
SrvFlush ==
  /\ srv_ready = {} /\ srv_out # <<>>
  /\ down' = down \o srv_out /\ srv_out' = <<>>
  /\ UNCHANGED <<srv_mode, srv_sock, srv_peer, srv_last, srv_ready, clVars, up,
                 udp_up, udp_down, asks, apart, allowed>>

\* An update by UDP, or gwrite() fails and the client is not told.
SrvUpdate ==
  /\ srv_ready = {} /\ srv_mode = "COMM_UDP"
  /\ \/ /\ udp_down' = udp_down \cup
                         {[to |-> srv_peer, from |-> srv_sock, what |-> "update"]}
        /\ UNCHANGED <<srv_mode, srv_sock, apart>>
     \/ /\ srv_mode' = "COMM_TCP" /\ srv_sock' = 0 /\ apart' = TRUE
        /\ UNCHANGED udp_down
  /\ UNCHANGED <<srv_peer, srv_last, srv_out, srv_ready, clVars, up, down, udp_up, asks,
                 allowed>>

-----------------------------------------------------------------------------
(* The client *)

CloseUdp == cl_sock' = 0 /\ cl_peer' = 0
ToTcp ==
  /\ cl_mode' = "COMM_TCP" /\ cl_req' = "COMM_TCP"
  /\ cl_status' = "STAT_CONNECTED" /\ cl_timer' = FALSE
  /\ CloseUdp

\* sendUdpReq(COMM_UDP), when none is in progress: the socket may be left from
\* a request that failed.
AskUdp ==
  /\ asks < MaxAsks /\ asks' = asks + 1
  /\ ~cl_waits /\ cl_mode = "COMM_TCP" /\ cl_req # "COMM_UDP"
  /\ IF cl_sock = 0 THEN cl_last' = cl_last + 1 /\ cl_sock' = cl_last' /\ cl_peer' = 0
                    ELSE UNCHANGED <<cl_last, cl_sock, cl_peer>>
  /\ up' = Append(up, [ask |-> "COMM_UDP", port |-> cl_sock'])
  /\ cl_req' = "COMM_UDP" /\ cl_status' = "STAT_SWITCH_UDP"
  /\ cl_timer' = TRUE /\ cl_waits' = TRUE
  /\ apart' = ~(up = <<>> /\ srv_out = <<>> /\ down = <<>>)
  /\ UNCHANGED <<srvVars, cl_mode, down, udp_up, udp_down, allowed>>

\* sendUdpReq(COMM_TCP), when none is in progress.
AskTcp ==
  /\ asks < MaxAsks /\ asks' = asks + 1
  /\ ~cl_waits /\ cl_mode = "COMM_UDP" /\ cl_req # "COMM_TCP"
  /\ up' = Append(up, [ask |-> "COMM_TCP", port |-> 0])
  /\ cl_req' = "COMM_TCP" /\ cl_status' = "STAT_SWITCH_TCP" /\ cl_timer' = TRUE
  /\ UNCHANGED <<srvVars, cl_mode, cl_sock, cl_peer, cl_last, cl_waits, down, udp_up,
                 udp_down, apart, allowed>>

\* UDP_FORCE_RESET.
ForceReset ==
  /\ asks < MaxAsks /\ asks' = asks + 1 /\ ~cl_waits
  /\ up' = IF cl_req = "COMM_TCP" THEN up
           ELSE Append(up, [ask |-> "COMM_TCP", port |-> 0])
  /\ ToTcp
  /\ UNCHANGED <<srvVars, cl_last, cl_waits, down, udp_up, udp_down, apart,
                 allowed>>

ForClient == {d \in udp_down : d.to = cl_sock /\ cl_peer \in {0, d.from}}
Reads(d) == udp_down' \in {udp_down, udp_down \ {d}}

\* recvUdpConn(): the first packet tells where to connect to, ...
RecvUdpConn ==
  /\ cl_waits /\ cl_waits' = FALSE
  /\ \E d \in ForClient : cl_peer' = d.from /\ Reads(d)
  /\ UNCHANGED <<srvVars, cl_mode, cl_req, cl_status, cl_timer, cl_sock, cl_last, up,
                 down, udp_up, asks, apart, allowed>>
\* ... or none comes, and the request is taken back.
RecvTimeout ==
  /\ cl_waits /\ cl_waits' = FALSE
  /\ up' = Append(up, [ask |-> "COMM_TCP", port |-> 0])
  /\ cl_req' = "COMM_TCP" /\ cl_status' = "STAT_CONNECTED" /\ cl_timer' = FALSE
  /\ UNCHANGED <<srvVars, cl_mode, cl_sock, cl_peer, cl_last, down, udp_up, udp_down,
                 asks, apart, allowed>>

\* SWITCH_UDP_OK is an answer: COMM_VERIFY, which fails without a connection.
SendVerify ==
  IF cl_peer # 0
  THEN /\ udp_up' = udp_up \cup {[to |-> cl_peer, from |-> cl_sock]}
       /\ cl_status' = "STAT_VERIFY_UDP" /\ cl_timer' = TRUE
       /\ UNCHANGED <<cl_mode, cl_req, cl_sock, cl_peer>>
  ELSE ToTcp /\ UNCHANGED udp_up

WantsUdp == cl_mode = "COMM_TCP" /\ cl_req = "COMM_UDP"

\* handleUdpReply(), in the mode m the client is in.
HandleReply(what) ==
  \/ /\ what = "SWITCH_TCP_OK" /\ cl_mode = "COMM_UDP"
     /\ cl_mode' = "COMM_TCP" /\ cl_status' = "STAT_CONNECTED" /\ cl_timer' = FALSE
     /\ CloseUdp
     /\ UNCHANGED <<cl_req, udp_up>>
  \/ what = "SWITCH_UDP_OK" /\ WantsUdp /\ SendVerify
  \/ /\ what = "SWITCH_DENIED"
     /\ cl_req' = cl_mode /\ cl_status' = "STAT_CONNECTED" /\ cl_timer' = FALSE
     /\ CloseUdp
     /\ UNCHANGED <<cl_mode, udp_up>>
  \/ /\ \/ what = "SWITCH_TCP_OK" /\ cl_mode = "COMM_TCP"
        \/ what = "SWITCH_UDP_OK" /\ ~WantsUdp
        \/ what = "SWITCH_VERIFY"
     /\ cl_timer' = FALSE
     /\ UNCHANGED <<cl_mode, cl_req, cl_status, cl_sock, cl_peer, udp_up>>

ClTcp ==
  /\ ~cl_waits /\ down # <<>>
  /\ down' = Tail(down)
  /\ HandleReply(Head(down))
  /\ UNCHANGED <<srvVars, cl_last, cl_waits, up, udp_down, asks, apart, allowed>>

\* readFromServer(): any packet by UDP completes the switch; replies in it are
\* then those a client in UDP mode ignores.
ClUdp ==
  /\ ~cl_waits
  /\ \E d \in ForClient :
       /\ Reads(d)
       /\ \/ /\ cl_status = "STAT_VERIFY_UDP"
             /\ cl_mode' = "COMM_UDP" /\ cl_status' = "STAT_CONNECTED"
             /\ cl_timer' = FALSE
             /\ UNCHANGED <<cl_req, cl_sock, cl_peer, udp_up>>
          \/ /\ cl_status # "STAT_VERIFY_UDP" /\ d.what # "update"
             /\ HandleReply(d.what)
          \/ /\ cl_status # "STAT_VERIFY_UDP" /\ d.what = "update"
             /\ UNCHANGED <<cl_mode, cl_req, cl_status, cl_timer, cl_sock, cl_peer,
                            udp_up>>
  /\ UNCHANGED <<srvVars, cl_last, cl_waits, up, down, asks, apart, allowed>>

\* "Timed out waiting for UDP response from server".
SwitchTimeout ==
  /\ ~cl_waits /\ cl_timer /\ ToTcp
  /\ apart' = TRUE
  /\ UNCHANGED <<srvVars, cl_last, cl_waits, up, down, udp_up, udp_down, asks,
                 allowed>>

\* The network loses a datagram, not one that select() has found.
LoseDatagram ==
  /\ \/ "udp" \notin srv_ready /\ \E d \in udp_up : udp_up' = udp_up \ {d} /\ UNCHANGED udp_down
     \/ \E d \in udp_down : udp_down' = udp_down \ {d} /\ UNCHANGED udp_up
  /\ UNCHANGED <<srvVars, clVars, up, down, asks, apart, allowed>>

-----------------------------------------------------------------------------

SrvStep  == SrvSelect \/ SrvTcp \/ SrvUdp
UserAsks == AskUdp \/ AskTcp \/ ForceReset
Deliver  == RecvUdpConn \/ RecvTimeout \/ ClTcp

ConnNext ==
  \/ SrvStep \/ SrvFlush \/ SrvUpdate
  \/ UserAsks \/ Deliver \/ ClUdp \/ SwitchTimeout \/ LoseDatagram

\* ntserv and the client keep running and TCP delivers; nothing is assumed of
\* the network under UDP.
FindsTcp == SrvSelect /\ "tcp" \in srv_ready'
ConnFair ==
  /\ WF_connVars(SrvStep) /\ SF_connVars(FindsTcp) /\ WF_connVars(SrvFlush)
  /\ WF_connVars(Deliver) /\ WF_connVars(SwitchTimeout)
ConnSpec == ConnInit /\ [][ConnNext]_connVars /\ ConnFair

-----------------------------------------------------------------------------
(* Properties *)

\* Neither side is ever in UDP mode without a socket to use.
SocketsMatch ==
  /\ srv_mode = "COMM_UDP" => srv_sock # 0
  /\ cl_mode = "COMM_UDP" => cl_sock # 0 /\ cl_peer # 0

\* "only reply when COMM_UDP is SWITCH_VERIFY": replies the client depends on
\* are never entrusted to UDP alone.
RepliesByTcp ==
  \A d \in udp_down : d.what \in {"SWITCH_UDP_OK", "SWITCH_VERIFY", "update"}

\* "Request is in progress, do not disturb" is true: while a client refuses to
\* ask again an answer is on its way, or a timeout will end the wait.
WaitsForSomething ==
  cl_req # cl_mode =>
    cl_timer \/ cl_waits \/ up # <<>> \/ srv_out # <<>> \/ down # <<>>

\* Whenever both sides are in UDP mode their sockets are connected to each other,
\* however often UDP was asked for before and whatever is late.
SameWire ==
  cl_mode = "COMM_UDP" /\ srv_mode = "COMM_UDP" => cl_peer = srv_sock /\ srv_peer = cl_sock

\* Requests of the client's sendUdpReq() and what handleUdpReq() makes of them:
\* both sides have the sockets their modes need, connected to each other, and
\* no request is left without an answer to come.
ConnInv ==
  ConnTypeOK /\ SocketsMatch /\ RepliesByTcp /\ WaitsForSomething /\ SameWire

\* In the end the server does not send updates by UDP to a client that has
\* gone back to TCP, unless since the last request the client's timeout, which
\* the server is not told of, or a failure of a socket has parted the two, or
\* an older request that was taken back was still unanswered: its late
\* SWITCH_TCP_OK takes the client out of UDP again.
ServerFollows ==
  <>[](cl_mode = "COMM_TCP" => srv_mode = "COMM_TCP" \/ apart)
=============================================================================
