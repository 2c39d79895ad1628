----------------------------- MODULE Ssh1Channels -----------------------------
(***************************************************************************)
(* SSH-1 channels, the throttling of the whole SSH-1 connection, and the    *)
(* queue of incoming data of a connection that is frozen:                   *)
(* src/engine/putty/ssh.c, with the plugs of portfwd.c and as much of the   *)
(* connection's own socket (epocnet.cpp) as freezing and thawing reach.     *)
(*                                                                         *)
(* SSH-1 has no windows.  When an application does not take its data, the   *)
(* whole connection is frozen, by a count of the channels that ask for it.  *)
(* A packet can do that in the middle of a segment the socket has already   *)
(* handed over; the rest of the segment is then kept in a queue.            *)
(*                                                                         *)
(* ssh_gotdata() is a loop over packets: "busy" says that it is running,    *)
(* and each of its packets is a step.  Nothing else of the program runs     *)
(* meanwhile.  Data for an application is one unit per packet, numbered     *)
(* 1, 2, ... on each channel.                                               *)
(***************************************************************************)
EXTENDS Integers, Sequences, FiniteSets

CONSTANTS
    Chan,               \* local ids of channels
    SSH1_BUFFER_LIMIT,  \* backlog of a local stream that freezes the connection
    MaxSegment,         \* packets the socket reads at once
    MaxData,            \* bound: packets of data the server sends on a channel
    MaxOpens            \* bound: how often either side asks for a channel

ASSUME Ssh1ChannelsAssumption ==
    /\ IsFiniteSet(Chan)
    /\ SSH1_BUFFER_LIMIT \in Nat \ {0}
    /\ {MaxSegment, MaxData, MaxOpens} \subseteq Nat

VARIABLES
    channel,            \* struct ssh_channel and its socket
    v1_throttle_count,  \* ssh->v1_throttle_count
    frozen,             \* ssh->frozen
    queued,             \* ssh->queued_incoming_data
    busy, data,         \* ssh_gotdata() is running, with this left of its argument
    sk_frozen, held,    \* the socket's frozen, and what it had read when it was
    net,                \* packets on their way from the server
    toServer,           \* messages on their way to the server, by channel
    srv,                \* the server's end of each channel
    opens,              \* history: how often a channel was asked for
    took,               \* history: what each application has taken
    fault               \* a failed assertion, or bombout()

conn == <<v1_throttle_count, frozen, queued, sk_frozen, held>>
vars == <<channel, conn, busy, data, net, toServer, srv, opens, took, fault>>

-------------------------------------------------------------------------------

(* What "closes" is made of: 1, 2, 4 and 8 in the code. *)
SentClose == 1
SentConfirmation == 2
SeenClose == 4
SeenConfirmation == 8
AllOfClosing == {SentClose, SentConfirmation, SeenClose, SeenConfirmation}

Channels ==
    [type : {"none", "dormant", "sockdata"}, halfopen : BOOLEAN,
     closes : SUBSET AllOfClosing, throttling : BOOLEAN,
     s : BOOLEAN, out : Seq(Nat)]

NoChannel ==
    [type |-> "none", halfopen |-> FALSE, closes |-> {}, throttling |-> FALSE,
     s |-> FALSE, out |-> <<>>]

(* An "open" is for a channel that has no local id yet. *)
PacketTypes == {"confirm", "failure", "data", "close", "confirmation"}
Packets == [t : PacketTypes, c : Chan, n : Nat] \cup [t : {"open"}]

Messages == {"open", "confirm", "close", "confirmation"}

Servers ==
    [state : {"none", "asking", "open"}, sent : Nat, sentClose : BOOLEAN,
     sentConfirmation : BOOLEAN, gotClose : BOOLEAN, gotConfirmation : BOOLEAN]

NoServer ==
    [state |-> "none", sent |-> 0, sentClose |-> FALSE, sentConfirmation |-> FALSE,
     gotClose |-> FALSE, gotConfirmation |-> FALSE]

TypeOK ==
    /\ channel \in [Chan -> Channels]
    /\ v1_throttle_count \in Nat
    /\ {frozen, sk_frozen, busy, fault} \subseteq BOOLEAN
    /\ {queued, data, held, net} \subseteq Seq(Packets)
    /\ toServer \in [Chan -> Seq(Messages)]
    /\ srv \in [Chan -> Servers]
    /\ opens \in Nat
    /\ took \in [Chan -> Seq(Nat)]

(* do_ssh1_connection() has started the session. *)
Init ==
    /\ channel = [c \in Chan |-> NoChannel]
    /\ v1_throttle_count = 0
    /\ frozen = FALSE /\ sk_frozen = FALSE
    /\ queued = <<>> /\ data = <<>> /\ held = <<>> /\ net = <<>>
    /\ busy = FALSE
    /\ toServer = [c \in Chan |-> <<>>]
    /\ srv = [c \in Chan |-> NoServer]
    /\ took = [c \in Chan |-> <<>>]
    /\ opens = 0
    /\ fault = FALSE

-------------------------------------------------------------------------------
(* Freezing.  A definition with "Faulty" in its name is the one below it    *)
(* with a plausible mistake made in it, for the properties to find.         *)

(* ssh1_throttle(ssh, +1); ssh_set_frozen() freezes the socket first. *)
Throttle ==
    /\ v1_throttle_count' = v1_throttle_count + 1
    /\ IF v1_throttle_count = 0
       THEN frozen' = TRUE /\ sk_frozen' = TRUE
       ELSE UNCHANGED <<frozen, sk_frozen>>
    /\ UNCHANGED held

ThawFaultyOvertakes ==
    /\ queued' = held \o queued
    /\ held' = <<>>
    /\ sk_frozen' = FALSE
    /\ frozen' = FALSE

(* ssh_set_frozen(ssh, 0): thawing the socket runs its receiver at once on  *)
(* what it had read, and ssh_gotdata() finds ssh->frozen still set.         *)
Thaw ==
    /\ queued' = queued \o held
    /\ held' = <<>>
    /\ sk_frozen' = FALSE
    /\ frozen' = FALSE

(* ssh1_throttle(ssh, -1), outside ssh_gotdata(). *)
Unthrottle ==
    /\ v1_throttle_count' = v1_throttle_count - 1
    /\ IF v1_throttle_count = 1
       THEN Thaw
       ELSE UNCHANGED <<frozen, sk_frozen, queued, held>>

-------------------------------------------------------------------------------
(* Incoming data                                                            *)

(* CRecver::DoRunL(): a segment is handed over or, by a frozen socket, held. *)
Receive ==
    /\ ~busy /\ held = <<>> /\ net # <<>> /\ ~fault
    /\ \E k \in 1 .. MaxSegment :
          /\ k <= Len(net)
          /\ net' = SubSeq(net, k + 1, Len(net))
          /\ IF sk_frozen
             THEN held' = SubSeq(net, 1, k) /\ UNCHANGED <<busy, data>>
             ELSE busy' = TRUE /\ data' = SubSeq(net, 1, k) /\ UNCHANGED held
    /\ UNCHANGED <<channel, v1_throttle_count, frozen, queued, sk_frozen,
                   toServer, srv, opens, took, fault>>

(* The loop of ssh_gotdata() has a packet to process: from the queue first, *)
(* which ssh_process_queued_incoming_data() empties until it is frozen.     *)
Processing ==
    /\ busy /\ ~frozen /\ ~fault
    /\ queued # <<>> \/ data # <<>>

Packet == IF queued # <<>> THEN Head(queued) ELSE Head(data)

Consumed ==
    IF queued # <<>>
    THEN queued' = Tail(queued) /\ UNCHANGED data
    ELSE data' = Tail(data) /\ UNCHANGED queued

Gets(t) == Processing /\ Packet.t = t /\ Consumed

(* ssh_queue_incoming_data() *)
QueueIncomingData ==
    /\ busy /\ frozen
    /\ queued' = queued \o data
    /\ data' = <<>>
    /\ busy' = FALSE
    /\ UNCHANGED <<channel, v1_throttle_count, frozen, sk_frozen, held,
                   net, toServer, srv, opens, took, fault>>

(* ssh_gotdata() returns. *)
OutOfData ==
    /\ busy /\ ~frozen /\ queued = <<>> /\ data = <<>>
    /\ busy' = FALSE
    /\ UNCHANGED <<channel, conn, data, net, toServer, srv, opens, took, fault>>

-------------------------------------------------------------------------------
(* The handlers of packets                                                  *)

(* A channel whose socket has been closed by pfd_close(); what that still   *)
(* writes, it writes without its plug.                                      *)
NoSocket(r) == [r EXCEPT !.s = FALSE, !.out = <<>>]

Sends(c, m) == toServer' = [toServer EXCEPT ![c] = Append(@, m)]

(* ssh1_msg_channel_open_confirmation(): a close that was waiting for it is *)
(* sent now.                                                                *)
OpenConfirmation ==
    /\ Gets("confirm")
    /\ LET c == Packet.c IN
       /\ channel' = IF channel[c].type = "dormant"
                     THEN [channel EXCEPT ![c].type = "sockdata",
                                          ![c].halfopen = FALSE,
                                          ![c].throttling = FALSE]
                     ELSE channel
       /\ IF channel[c].type # "none" /\ channel[c].closes # {}
          THEN Sends(c, "close")
          ELSE UNCHANGED toServer
    /\ UNCHANGED <<v1_throttle_count, frozen, sk_frozen, held, busy, net,
                   srv, opens, took, fault>>

(* ssh1_msg_channel_open_failure() *)
OpenFailure ==
    /\ Gets("failure")
    /\ channel' = IF channel[Packet.c].type = "dormant"
                  THEN [channel EXCEPT ![Packet.c] = NoChannel]
                  ELSE channel
    /\ UNCHANGED <<v1_throttle_count, frozen, sk_frozen, held, busy, net,
                   toServer, srv, opens, took, fault>>

DeletedFaultyUnconfirmed(closes) == {SentClose, SeenClose} \subseteq closes

Deleted(closes) == closes = AllOfClosing

(* ssh1_msg_channel_close() for CHANNEL_CLOSE and CLOSE_CONFIRMATION: what  *)
(* has not been sent of the same kind is sent, and a channel that has sent  *)
(* and seen both is deleted.                                                *)
ChannelClose(t, sent, seen) ==
    /\ Gets(t)
    /\ LET c == Packet.c
           r == IF channel[c].closes = {} /\ channel[c].type = "sockdata"
                THEN NoSocket(channel[c])
                ELSE channel[c]
           closes == channel[c].closes \cup {seen, sent} IN
       IF channel[c].type = "none" \/ channel[c].halfopen
       THEN fault' = TRUE /\ UNCHANGED <<channel, toServer>>
       ELSE /\ channel' = [channel EXCEPT ![c] =
                             IF Deleted(closes)
                             THEN NoChannel
                             ELSE [r EXCEPT !.closes = closes]]
            /\ IF sent \in channel[c].closes THEN UNCHANGED toServer ELSE Sends(c, t)
            /\ UNCHANGED fault
    /\ UNCHANGED <<v1_throttle_count, frozen, sk_frozen, held, busy, net,
                   srv, opens, took>>

(* ssh1_msg_channel_data() *)
ChannelData ==
    /\ Gets("data")
    /\ LET c == Packet.c
           open == channel[c].type = "sockdata" /\ channel[c].s
           out == Append(channel[c].out, Packet.n)
           backlog == IF open THEN Len(out) ELSE 0
           throttles == ~channel[c].throttling /\ backlog > SSH1_BUFFER_LIMIT IN
       /\ channel' = [channel EXCEPT
                        ![c].out = IF open THEN out ELSE @,
                        ![c].throttling = @ \/ throttles]
       /\ IF throttles
          THEN Throttle
          ELSE UNCHANGED <<v1_throttle_count, frozen, sk_frozen, held>>
    /\ UNCHANGED <<busy, net, toServer, srv, opens, took, fault>>

(* The id is one that nothing on its way refers to any more. *)
Unused(c) ==
    /\ channel[c].type = "none" /\ toServer[c] = <<>> /\ srv[c] = NoServer

(* ssh1_msg_port_open(), for a forwarding that is known; connecting fails,  *)
(* or the channel is open at once.                                          *)
PortOpen ==
    /\ Gets("open")
    /\ \/ UNCHANGED <<channel, toServer, srv, took>>
       \/ \E c \in Chan :
             /\ Unused(c)
             /\ channel' = [channel EXCEPT ![c] =
                              [NoChannel EXCEPT !.type = "sockdata", !.s = TRUE]]
             /\ Sends(c, "confirm")
             /\ srv' = [srv EXCEPT ![c].state = "asking"]
             /\ took' = [took EXCEPT ![c] = <<>>]
    /\ UNCHANGED <<v1_throttle_count, frozen, sk_frozen, held, busy, net, opens, fault>>

-------------------------------------------------------------------------------
(* The applications                                                         *)

Idle == ~busy /\ ~fault

(* pfd_accepting(), new_sock_channel() and ssh_send_port_open() *)
Accepting(c) ==
    /\ Idle /\ Unused(c) /\ opens < MaxOpens
    /\ opens' = opens + 1
    /\ channel' = [channel EXCEPT ![c] =
                     [NoChannel EXCEPT !.type = "dormant", !.halfopen = TRUE, !.s = TRUE]]
    /\ Sends(c, "open")
    /\ srv' = [srv EXCEPT ![c].state = "asking"]
    /\ took' = [took EXCEPT ![c] = <<>>]
    /\ UNCHANGED <<conn, busy, data, net, fault>>

UnthrottlesFaultyAny(r, bufsize) == bufsize < SSH1_BUFFER_LIMIT
UnthrottlesFaultyBound(r, bufsize) == r.throttling /\ bufsize < SSH1_BUFFER_LIMIT - 1

Unthrottles(r, bufsize) == r.throttling /\ bufsize < SSH1_BUFFER_LIMIT

(* An application takes n units; pfd_sent() and sshfwd_unthrottle() follow. *)
AppTakes(c, n) ==
    /\ Idle /\ channel[c].s
    /\ LET out == channel[c].out
           rest == SubSeq(out, n + 1, Len(out))
           unthrottles == Unthrottles(channel[c], Len(rest)) IN
       /\ n <= Len(out)
       /\ took' = [took EXCEPT ![c] = @ \o SubSeq(out, 1, n)]
       /\ channel' = [channel EXCEPT ![c].out = rest,
                                     ![c].throttling = @ /\ ~unthrottles]
       /\ IF unthrottles THEN Unthrottle ELSE UNCHANGED conn
    /\ UNCHANGED <<busy, data, net, toServer, srv, opens, fault>>

(* pfd_closing(): sshfwd_close(), then pfd_close().  The channel's          *)
(* "throttling" stays as it is.                                             *)
AppEnds(c) ==
    /\ Idle /\ channel[c].s
    /\ channel' = [channel EXCEPT ![c] = [NoSocket(@) EXCEPT !.closes = {SentClose}]]
    /\ IF channel[c].halfopen THEN UNCHANGED toServer ELSE Sends(c, "close")
    /\ UNCHANGED <<conn, busy, data, net, srv, opens, took, fault>>

-------------------------------------------------------------------------------
(* The server.  Each side of a channel sends CLOSE when it will send no     *)
(* more, and CLOSE_CONFIRMATION when it has seen the other's.  Its steps    *)
(* are left out while ssh_gotdata() is running, which they do not disturb.  *)

SrvSends(p) == net' = Append(net, p)

ForClient(t, c, n) == [t |-> t, c |-> c, n |-> n]

Finished(r) ==
    IF r.sentClose /\ r.sentConfirmation /\ r.gotClose /\ r.gotConfirmation
    THEN NoServer ELSE r

SrvTakes(c) ==
    /\ Idle /\ toServer[c] # <<>>
    /\ toServer' = [toServer EXCEPT ![c] = Tail(@)]
    /\ LET m == Head(toServer[c]) IN
       \/ /\ m = "open"
          /\ \/ SrvSends(ForClient("confirm", c, 0)) /\ srv' = [srv EXCEPT ![c].state = "open"]
             \/ SrvSends(ForClient("failure", c, 0)) /\ srv' = [srv EXCEPT ![c] = NoServer]
       \/ m = "confirm" /\ srv' = [srv EXCEPT ![c].state = "open"] /\ UNCHANGED net
       \/ m = "close" /\ srv' = [srv EXCEPT ![c] = Finished([@ EXCEPT !.gotClose = TRUE])]
                      /\ UNCHANGED net
       \/ /\ m = "confirmation"
          /\ srv' = [srv EXCEPT ![c] = Finished([@ EXCEPT !.gotConfirmation = TRUE])]
          /\ UNCHANGED net
    /\ UNCHANGED <<channel, conn, busy, data, opens, took, fault>>

SrvMaySend ==
    /\ Idle
    /\ UNCHANGED <<channel, conn, busy, data, toServer, took, fault>>

SrvWrites(c) ==
    /\ SrvMaySend
    /\ srv[c].state = "open" /\ ~srv[c].sentClose /\ srv[c].sent < MaxData
    /\ SrvSends(ForClient("data", c, srv[c].sent + 1))
    /\ srv' = [srv EXCEPT ![c].sent = @ + 1]
    /\ UNCHANGED opens

SrvCloses(c) ==
    /\ SrvMaySend
    /\ srv[c].state = "open" /\ ~srv[c].sentClose
    /\ SrvSends(ForClient("close", c, 0))
    /\ srv' = [srv EXCEPT ![c] = Finished([@ EXCEPT !.sentClose = TRUE])]
    /\ UNCHANGED opens

SrvConfirmsClose(c) ==
    /\ SrvMaySend
    /\ srv[c].gotClose /\ ~srv[c].sentConfirmation
    /\ SrvSends(ForClient("confirmation", c, 0))
    /\ srv' = [srv EXCEPT ![c] = Finished([@ EXCEPT !.sentConfirmation = TRUE])]
    /\ UNCHANGED opens

SrvOpens ==
    /\ SrvMaySend /\ opens < MaxOpens
    /\ opens' = opens + 1
    /\ SrvSends([t |-> "open"])
    /\ UNCHANGED srv

-------------------------------------------------------------------------------

GotData ==
    \/ OpenConfirmation
    \/ OpenFailure
    \/ ChannelClose("close", SentClose, SeenClose)
    \/ ChannelClose("confirmation", SentConfirmation, SeenConfirmation)
    \/ ChannelData
    \/ PortOpen
    \/ QueueIncomingData
    \/ OutOfData

Application(c) ==
    \/ Accepting(c)
    \/ \E n \in 1 .. MaxData : AppTakes(c, n)
    \/ AppEnds(c)

Server(c) ==
    \/ SrvTakes(c)
    \/ SrvWrites(c)
    \/ SrvCloses(c)
    \/ SrvConfirmsClose(c)

Next ==
    \/ Receive
    \/ GotData
    \/ \E c \in Chan : Application(c) \/ Server(c)
    \/ SrvOpens

(* Segments arrive and are processed, messages reach the server, which      *)
(* answers a CLOSE with its own and with the confirmation; an application   *)
(* takes what is written to it.                                             *)
Fairness ==
    /\ WF_vars(Receive)
    /\ WF_vars(GotData)
    /\ \A c \in Chan :
          /\ WF_vars(\E n \in 1 .. MaxData : AppTakes(c, n))
          /\ WF_vars(SrvTakes(c))
          /\ WF_vars(srv[c].gotClose /\ SrvCloses(c))
          /\ WF_vars(SrvConfirmsClose(c))

Spec == Init /\ [][Next]_vars

FairSpec == Spec /\ Fairness

-------------------------------------------------------------------------------
(* Properties                                                               *)

(* All packets that have left the server and not been processed, in order.  *)
Unprocessed == queued \o data \o held \o net

(* SelectSeq(), as a recursive function, which proofs can be about. *)
Selected(packets, kept) ==
    LET of[i \in 0 .. Len(packets)] ==
            IF i = 0 THEN <<>>
            ELSE IF packets[i] \in kept THEN Append(of[i - 1], packets[i]) ELSE of[i - 1]
    IN  of[Len(packets)]

About(c, types) == [t : types, c : {c}, n : Nat]
OfChannel(c, packets) == Selected(packets, About(c, PacketTypes))

Numbers(packets) == [i \in 1 .. Len(packets) |-> packets[i].n]

(* What the server has sent on a channel is, in order, with the application,*)
(* in its socket's buffer, in the queue of the frozen connection, in the    *)
(* segment being processed, held by the frozen socket or on its way: however*)
(* freezing, thawing and segments fall together, nothing is lost or         *)
(* overtaken.                                                               *)
DataInOrder ==
    \A c \in Chan : channel[c].s =>
        took[c] \o channel[c].out
            \o Numbers(Selected(OfChannel(c, Unprocessed), About(c, {"data"})))
        = [i \in 1 .. srv[c].sent |-> i]

Throttling == {c \in Chan : channel[c].throttling}

(* The count is the number of channels that ask for the connection to be    *)
(* frozen, and the connection and its socket are frozen when it is not zero.*)
CountIsReasons ==
    /\ v1_throttle_count = Cardinality(Throttling)
    /\ frozen <=> v1_throttle_count > 0
    /\ sk_frozen <=> frozen

(* A message is on its way at most once, and not again when it has arrived. *)
AtMostOnce(c, m, arrived) ==
    Cardinality({i \in 1 .. Len(toServer[c]) : toServer[c][i] = m})
        <= IF arrived THEN 0 ELSE 1

(* A channel is deleted when nothing more comes for it, so that its id may  *)
(* be given out again; no packet of a server that keeps to the protocol is  *)
(* refused; and CLOSE and CLOSE_CONFIRMATION are sent once each.            *)
CloseHandshake ==
    /\ ~fault
    /\ \A c \in Chan :
          /\ channel[c].type = "none" => OfChannel(c, Unprocessed) = <<>>
          /\ AtMostOnce(c, "close", srv[c].gotClose)
          /\ AtMostOnce(c, "confirmation", srv[c].gotConfirmation)

(* A channel whose application closed it while it froze the connection      *)
(* never leaves the count: sshfwd_close() does not look at "throttling".    *)
StuckCount == \E c \in Chan : channel[c].throttling /\ ~channel[c].s

(* As applications take their data the connection is thawed again, but for  *)
(* StuckCount.                                                              *)
FreezeIsLifted == []<>(~frozen \/ StuckCount)

(* "we may already have had data passed to us from the network which we     *)
(* need to delay processing until after the freeze is lifted" (ssh.c:822):  *)
(* when it has been lifted, none is left waiting.                           *)
DelayedIsProcessed ==
    []<>(queued = <<>> \/ frozen)
===============================================================================
