---------------------------- MODULE MessageRing ----------------------------
(***************************************************************************)
(* Messages between players (ntserv/smessage.c, updateMessages() of        *)
(* genspkt.c).  A writer, an ntserv process or a tool, puts a message into *)
(* an uplink ring of shared memory; in each tick the daemon requeues the   *)
(* valid entries of every uplink ring into the one ring messages[] and     *)
(* signals the readers, the ntserv processes, each of which follows        *)
(* messages[] with an index of its own.  No lock protects any of it.       *)
(***************************************************************************)
EXTENDS Naturals, Sequences, FiniteSets

CONSTANTS
  Writer,
  RingSeq,   \* the uplink rings, in the order in which the daemon visits them
  RingOf,    \* the ring of a writer: its slot's, or the one that tools share
  Ejected,   \* writers whose messages are MINDIV|MCONQ, to Target
  Reader, Target,
  MaxUplink, \* MAXUPLINK
  MaxMessage,\* MAXMESSAGE
  MaxSend,   \* how many messages each writer sends (bound)
  MaxBurst,  \* messages of one writer between two visits of the daemon (bound)
  Overlap    \* a writer or a reader may be at work while the daemon requeues,
             \* and a reader while another one has an entry turned into one to all

ASSUME MessageRingAssumption ==
  /\ MaxUplink \in Nat \ {0, 1} /\ MaxMessage \in Nat \ {0, 1}
  /\ MaxSend \in [Writer -> Nat] /\ MaxBurst \in Nat /\ Overlap \in BOOLEAN
  /\ RingSeq \in Seq(STRING) /\ RingSeq # <<>> /\ RingOf \in [Writer -> STRING]
  /\ \A w \in Writer : \E k \in 1 .. Len(RingSeq) : RingSeq[k] = RingOf[w]
  /\ Ejected \subseteq Writer /\ Target \in Reader

Ring   == {RingSeq[k] : k \in 1 .. Len(RingSeq)}
NoMsg  == <<>>
Flag   == {"valid", "all", "indiv"}
Blank  == [msg |-> NoMsg, flags |-> {}]
Group(w) == IF w \in Ejected THEN {"indiv"} ELSE {"all"}

VARIABLES
  mc,       \* mctl->mc_uplink[], mctl->mc_oob
  uplink,   \* uplink[], oob[]
  mc_current, messages,
  wpc, tmp, slot, sent, burst,     \* the writers
  daemon_pc, dring, dmc,           \* the daemon; dmc is its mc_uplink, mc_oob
  log,      \* auxiliary: what readers may find in messages[], in order
  rpc, msgCurrent, reset, got      \* the readers

uvars == <<mc, uplink>>
mvars == <<mc_current, messages>>
wvars == <<wpc, tmp, slot, sent, burst>>
daemonVars == <<daemon_pc, dring, dmc, log>>
rvars == <<rpc, msgCurrent, reset, got>>
ringVars  == <<uvars, mvars, wvars, daemonVars, rvars>>

Msg == UNION {{w} \X (1 .. MaxSend[w]) : w \in Writer}
RingTypeOK ==
  /\ mc \in [Ring -> Nat]
  /\ uplink \in [Ring -> [0 .. MaxUplink - 1 ->
                   [msg : Msg \cup {NoMsg}, flags : SUBSET Flag]]]
  /\ mc_current \in 0 .. MaxMessage - 1
  /\ messages \in [0 .. MaxMessage - 1 ->
                   [msg : Msg \cup {NoMsg}, flags : SUBSET Flag]]
  /\ wpc \in [Writer -> {"idle", "store", "wrap", "fill", "valid", "post"}]
  /\ tmp \in [Writer -> Nat]
  /\ slot \in [Writer -> 0 .. MaxUplink - 1]
  /\ sent \in [Writer -> Nat] /\ (\A w \in Writer : sent[w] <= MaxSend[w])
  /\ burst \in [Writer -> 0 .. MaxBurst]
  /\ daemon_pc \in {"idle", "scan", "kick", "copy", "clear"}
  /\ dring \in 1 .. Len(RingSeq)
  /\ dmc \in [Ring -> 0 .. MaxUplink - 1]
  /\ log \in Seq(Msg)
  /\ rpc \in [Reader -> {"idle", "read", "reset"}]
  /\ msgCurrent \in [Reader -> 0 .. MaxMessage - 1]
  /\ got \in [Reader -> Seq(Msg)]
  /\ reset \in [Reader -> 0 .. MaxMessage - 1]

\* The daemon has called do_message_force_daemon() and nobody has written.
RingInit ==
  /\ mc = [r \in Ring |-> 0]
  /\ uplink = [r \in Ring |-> [k \in 0 .. MaxUplink - 1 |-> Blank]]
  /\ mc_current = 0 /\ messages = [k \in 0 .. MaxMessage - 1 |-> Blank]
  /\ wpc = [w \in Writer |-> "idle"]
  /\ tmp = [w \in Writer |-> 0] /\ slot = [w \in Writer |-> 0]
  /\ sent = [w \in Writer |-> 0] /\ burst = [w \in Writer |-> 0]
  /\ daemon_pc = "idle" /\ dring = 1
  /\ dmc = [r \in Ring |-> 1]
  /\ log = <<>>
  /\ rpc = [x \in Reader |-> "idle"]
  /\ msgCurrent = [x \in Reader |-> 1]
  /\ reset = [x \in Reader |-> 0]
  /\ got = [x \in Reader |-> <<>>]

-----------------------------------------------------------------------------
(* A writer: do_message() *)

WGoto(w, l) == wpc' = [wpc EXCEPT ![w] = l]

\* do_message_kick() begins: *current is loaded.
Send(w) ==
  /\ wpc[w] = "idle" /\ sent[w] < MaxSend[w] /\ burst[w] < MaxBurst
  /\ Overlap \/ daemon_pc = "idle"
  /\ tmp' = [tmp EXCEPT ![w] = mc[RingOf[w]]]
  /\ sent' = [sent EXCEPT ![w] = @ + 1]
  /\ burst' = [burst EXCEPT ![w] = @ + 1]
  /\ WGoto(w, "store")
  /\ UNCHANGED <<uvars, mvars, slot, daemonVars, rvars>>

KickStore(w) ==
  /\ wpc[w] = "store"
  /\ mc' = [mc EXCEPT ![RingOf[w]] = tmp[w] + 1]
  /\ \/ /\ tmp[w] + 1 >= MaxUplink
        /\ WGoto(w, "wrap") /\ UNCHANGED slot
     \/ /\ tmp[w] + 1 < MaxUplink
        /\ slot' = [slot EXCEPT ![w] = tmp[w] + 1]
        /\ WGoto(w, "fill")
  /\ UNCHANGED <<uplink, mvars, tmp, sent, burst, daemonVars, rvars>>

KickWrap(w) ==
  /\ wpc[w] = "wrap"
  /\ mc' = [mc EXCEPT ![RingOf[w]] = 0]
  /\ slot' = [slot EXCEPT ![w] = 0]
  /\ WGoto(w, "fill")
  /\ UNCHANGED <<uplink, mvars, tmp, sent, burst, daemonVars, rvars>>

\* bzero(), the group flags and the text.
Fill(w) ==
  /\ wpc[w] = "fill"
  /\ uplink' = [uplink EXCEPT ![RingOf[w]][slot[w]] =
                  [msg |-> <<w, sent[w]>>, flags |-> Group(w)]]
  /\ WGoto(w, "valid")
  /\ UNCHANGED <<mc, mvars, tmp, slot, sent, burst, daemonVars, rvars>>

\* m_flags |= MVALID
SetValid(w) ==
  /\ wpc[w] = "valid"
  /\ uplink' = [uplink EXCEPT ![RingOf[w]][slot[w]].flags = @ \cup {"valid"}]
  /\ WGoto(w, "post")
  /\ UNCHANGED <<mc, mvars, tmp, slot, sent, burst, daemonVars, rvars>>

\* The post-processor, which looks for a command and stores nothing here: the
\* daemon may have requeued and cleared the entry by now.
Post(w) ==
  /\ wpc[w] = "post"
  /\ WGoto(w, "idle")
  /\ UNCHANGED <<uvars, mvars, tmp, slot, sent, burst, daemonVars, rvars>>

-----------------------------------------------------------------------------
(* The daemon: do_message_requeue_all(), signal_servers() *)

R == RingSeq[dring]
Deliverable(e) == "valid" \in e.flags /\ e.flags \cap {"all", "indiv"} # {}
Idle == \A w \in Writer : wpc[w] = "idle"

Tick ==
  /\ daemon_pc = "idle"
  /\ Overlap \/ (Idle /\ \A x \in Reader : rpc[x] = "idle")
  /\ burst' = [w \in Writer |-> 0]
  /\ dring' = 1
  /\ daemon_pc' = "scan"
  /\ UNCHANGED <<uvars, mvars, wpc, tmp, slot, sent, dmc, log, rvars>>

\* An entry that is not valid is passed over.
Look ==
  /\ daemon_pc = "scan"
  /\ dmc[R] # (mc[R] + 1) % MaxUplink
  /\ \/ /\ "valid" \in uplink[R][dmc[R]].flags
        /\ daemon_pc' = "kick" /\ UNCHANGED dmc
     \/ /\ "valid" \notin uplink[R][dmc[R]].flags
        /\ dmc' = [dmc EXCEPT ![R] = (@ + 1) % MaxUplink]
        /\ UNCHANGED daemon_pc
  /\ UNCHANGED <<uvars, mvars, wvars, dring, log, rvars>>

\* Mutant: the daemon starts every tick behind the newest entry.
ScanEndEarly ==
  /\ daemon_pc = "scan"
  /\ dmc' = [dmc EXCEPT ![R] = mc[R] % MaxUplink]
  /\ \/ /\ dring < Len(RingSeq)
        /\ dring' = dring + 1
        /\ UNCHANGED <<daemon_pc, rpc>>
     \/ /\ dring = Len(RingSeq)
        /\ daemon_pc' = "idle"
        /\ rpc' = [x \in Reader |-> IF rpc[x] = "idle" THEN "read" ELSE rpc[x]]
        /\ UNCHANGED dring
  /\ UNCHANGED <<uvars, mvars, wvars, log, msgCurrent, reset, got>>

\* Mutant: the daemon's index runs one entry ahead.
ScanEndAhead ==
  /\ daemon_pc = "scan"
  /\ dmc[R] = (mc[R] + 1) % MaxUplink
  /\ dmc' = [dmc EXCEPT ![R] = (@ + 1) % MaxUplink]
  /\ \/ /\ dring < Len(RingSeq)
        /\ dring' = dring + 1
        /\ UNCHANGED <<daemon_pc, rpc>>
     \/ /\ dring = Len(RingSeq)
        /\ daemon_pc' = "idle"
        /\ rpc' = [x \in Reader |-> IF rpc[x] = "idle" THEN "read" ELSE rpc[x]]
        /\ UNCHANGED dring
  /\ UNCHANGED <<uvars, mvars, wvars, log, msgCurrent, reset, got>>

\* The end of a ring; after the last one the readers are signalled.
ScanEnd ==
  /\ daemon_pc = "scan"
  /\ dmc[R] = (mc[R] + 1) % MaxUplink
  /\ \/ /\ dring < Len(RingSeq)
        /\ dring' = dring + 1
        /\ UNCHANGED <<daemon_pc, rpc>>
     \/ /\ dring = Len(RingSeq)
        /\ daemon_pc' = "idle"
        /\ rpc' = [x \in Reader |-> IF rpc[x] = "idle" THEN "read" ELSE rpc[x]]
        /\ UNCHANGED dring
  /\ UNCHANGED <<uvars, mvars, wvars, dmc, log, msgCurrent, reset, got>>

\* do_message_next_daemon()
RequeueKick ==
  /\ daemon_pc = "kick"
  /\ mc_current' = (mc_current + 1) % MaxMessage
  /\ daemon_pc' = "copy"
  /\ UNCHANGED <<uvars, messages, wvars, dring, dmc, log, rvars>>

RequeueCopy ==
  /\ daemon_pc = "copy"
  /\ messages' = [messages EXCEPT ![mc_current] = uplink[R][dmc[R]]]
  /\ log' = IF Deliverable(uplink[R][dmc[R]])
            THEN Append(log, uplink[R][dmc[R]].msg) ELSE log
  /\ daemon_pc' = "clear"
  /\ UNCHANGED <<uvars, mc_current, wvars, dring, dmc, rvars>>

\* Mutant: the requeued entry stays valid.
RequeueClearForgets ==
  /\ daemon_pc = "clear"
  /\ dmc' = [dmc EXCEPT ![R] = (@ + 1) % MaxUplink]
  /\ daemon_pc' = "scan"
  /\ UNCHANGED <<uvars, mvars, wvars, dring, log, rvars>>

\* src->m_flags = 0, and on to the next entry.
RequeueClear ==
  /\ daemon_pc = "clear"
  /\ uplink' = [uplink EXCEPT ![R][dmc[R]].flags = {}]
  /\ dmc' = [dmc EXCEPT ![R] = (@ + 1) % MaxUplink]
  /\ daemon_pc' = "scan"
  /\ UNCHANGED <<mc, mvars, wvars, dring, log, rvars>>

-----------------------------------------------------------------------------
(* A reader: updateMessages() *)

ForMe(x, e) ==
  "valid" \in e.flags /\ ("all" \in e.flags \/ ("indiv" \in e.flags /\ x = Target))

\* Mutant: an entry that is not yet there is read again later.
ReadStays(x) ==
  /\ Overlap \/ \A y \in Reader : rpc[y] # "reset"
  /\ rpc[x] = "read" /\ msgCurrent[x] # (mc_current + 1) % MaxMessage
  /\ LET e == messages[msgCurrent[x]] IN
     got' = [got EXCEPT ![x] = IF ForMe(x, e) THEN Append(@, e.msg) ELSE @]
  /\ rpc' = [rpc EXCEPT ![x] = "idle"]
  /\ UNCHANGED <<uvars, mvars, wvars, daemonVars, reset, msgCurrent>>

\* One entry.  A message to one player that his client must show at once is
\* turned into one to all in place, and back afterwards.
Read(x) ==
  /\ Overlap \/ \A y \in Reader : rpc[y] # "reset"
  /\ rpc[x] = "read" /\ msgCurrent[x] # (mc_current + 1) % MaxMessage
  /\ LET e == messages[msgCurrent[x]] IN
     \/ /\ ForMe(x, e) /\ "indiv" \in e.flags
        /\ messages' = [messages EXCEPT ![msgCurrent[x]].flags = {"valid", "all"}]
        /\ reset' = [reset EXCEPT ![x] = msgCurrent[x]]
        /\ got' = [got EXCEPT ![x] = Append(@, e.msg)]
        /\ rpc' = [rpc EXCEPT ![x] = "reset"]
     \/ /\ ForMe(x, e) /\ "indiv" \notin e.flags
        /\ got' = [got EXCEPT ![x] = Append(@, e.msg)]
        /\ UNCHANGED <<messages, reset, rpc>>
     \/ /\ ~ForMe(x, e)
        /\ UNCHANGED <<messages, reset, rpc, got>>
  /\ msgCurrent' = [msgCurrent EXCEPT ![x] = (@ + 1) % MaxMessage]
  /\ UNCHANGED <<uvars, mc_current, wvars, daemonVars>>

\* Mutant: the entry stays one to all.
ResetForgets(x) ==
  /\ rpc[x] = "reset"
  /\ rpc' = [rpc EXCEPT ![x] = "read"]
  /\ UNCHANGED <<uvars, mvars, wvars, daemonVars, msgCurrent, reset, got>>

\* "Put eject message back as MINDIV, so everyone doesn't get it later"
Reset(x) ==
  /\ rpc[x] = "reset"
  /\ messages' = [messages EXCEPT ![reset[x]].flags = (@ \ {"all"}) \cup {"indiv"}]
  /\ rpc' = [rpc EXCEPT ![x] = "read"]
  /\ UNCHANGED <<uvars, mc_current, wvars, daemonVars, msgCurrent, reset, got>>

ReadEnd(x) ==
  /\ rpc[x] = "read" /\ msgCurrent[x] = (mc_current + 1) % MaxMessage
  /\ rpc' = [rpc EXCEPT ![x] = "idle"]
  /\ UNCHANGED <<uvars, mvars, wvars, daemonVars, msgCurrent, reset, got>>

-----------------------------------------------------------------------------
Writing(w) == KickStore(w) \/ KickWrap(w) \/ Fill(w) \/ SetValid(w) \/ Post(w)
Requeue == Look \/ ScanEnd \/ RequeueKick \/ RequeueCopy \/ RequeueClear
Reading(x) == Read(x) \/ Reset(x) \/ ReadEnd(x)

RingNext ==
  \/ \E w \in Writer : Send(w) \/ Writing(w)
  \/ Tick \/ Requeue
  \/ \E x \in Reader : Reading(x)

\* Nobody stops in the middle of a call, and the daemon ticks for ever.
RingFair ==
  /\ SF_ringVars(Tick) /\ WF_ringVars(Requeue)
  /\ \A w \in Writer : WF_ringVars(Writing(w))
  /\ \A x \in Reader : WF_ringVars(Reading(x))

RingSpec == RingInit /\ [][RingNext]_ringVars
RingLiveSpec == RingSpec /\ RingFair

-----------------------------------------------------------------------------
(* Properties *)

\* However writers, the daemon and readers interleave, even two tools that
\* share a ring, do_message_requeue() moves no message twice.
RequeuedOnce ==
  \A i, j \in 1 .. Len(log) : i # j => log[i] # log[j]

\* The indices of a ring that tools share stay in it, and each message moves once.
RequeueInv ==
  RingTypeOK /\ RequeuedOnce

\* A sender's messages, as far as they are requeued, keep their order.
OrderKept ==
  \A i, j \in 1 .. Len(log) :
    i < j /\ log[i][1] = log[j][1]
      => log[i][2] < log[j][2]

\* A message is for all, or for him who is ejected by it.
IsFor(m, x) == m[1] \notin Ejected \/ x = Target
\* What of the first n messages of s is for x, for each n.
Given(s, x) ==
  LET G[n \in 0 .. Len(s)] ==
        IF n = 0 THEN <<>>
        ELSE IF IsFor(s[n], x) THEN Append(G[n - 1], s[n]) ELSE G[n - 1]
  IN  G

\* What a reader has been given is, in order, what the daemon queued for it, up to
\* some message: nothing from an earlier round of the ring and nothing left out.
ReadersFollow ==
  \A x \in Reader : \E n \in 0 .. Len(log) : got[x] = Given(log, x)[n]

\* "requeue messages from the uplink queues to the main message queue": every
\* message that is sent reaches the readers it is for.
AllDelivered ==
  \A w \in Writer, x \in Reader : \A k \in 1 .. MaxSend[w] :
    (sent[w] >= k /\ (w \notin Ejected \/ x = Target))
      ~> \E i \in 1 .. Len(got[x]) : got[x][i] = <<w, k>>
=============================================================================
