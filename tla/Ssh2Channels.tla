----------------------------- MODULE Ssh2Channels -----------------------------
(***************************************************************************)
(* SSH-2 channels that carry forwarded connections: the CHAN_SOCKDATA       *)
(* channels of src/engine/putty/ssh.c, their plugs in portfwd.c, and as     *)
(* much of the socket layer (epocnet.cpp) as decides when a plug is called. *)
(*                                                                         *)
(* On one side of a channel is the local application's socket, on the other *)
(* the server's end of the channel.  Data from the application goes through *)
(* the channel's outbuffer, which the server's window empties; a socket     *)
(* whose data is not taken is frozen.  Data from the server goes to the     *)
(* socket at once, and the window given to the server makes room for no     *)
(* more than OUR_V2_WINSIZE bytes.  Each channel's messages arrive in the   *)
(* order they were sent, and the server keeps to the protocol.              *)
(*                                                                         *)
(* Channels are identified by their local ids.  The main session's channel  *)
(* is one more, open all the time.  Bytes of an application are numbered    *)
(* 1, 2, 3, ...; those of the server are only counted.                      *)
(***************************************************************************)
EXTENDS Integers, SequencesExt

CONSTANTS
    Chan,            \* local ids; ssh->channels is sorted by them
    OUR_V2_WINSIZE,  \* "the maximum window size we present on SSH-2 channels"
    UINT_MAX,        \* the largest unsigned: windows are modulo UINT_MAX + 1
    Windows,         \* windows the server opens channels with
    Leftovers,       \* how many bytes may follow a SOCKS request at once
    MayBacklog,      \* whether the SSH connection itself backs up
    Replies,         \* bytes of SOCKS replies a socket may still have queued
    MaxWindow,       \* bound: the window the server presents
    MaxApp           \* bound: bytes an application writes

Unsigned == 0 .. UINT_MAX

ASSUME Ssh2ChannelsAssumption ==
    /\ Chan \subseteq Nat
    /\ OUR_V2_WINSIZE \in Nat \ {0}
    /\ UINT_MAX \in Nat /\ UINT_MAX >= 2 * OUR_V2_WINSIZE
    /\ Windows \subseteq 0 .. MaxWindow
    /\ MayBacklog \in BOOLEAN
    /\ Leftovers \subseteq 0 .. MaxApp
    /\ Replies \subseteq 0 .. OUR_V2_WINSIZE
    /\ MaxWindow \in Unsigned
    /\ MaxApp \in Nat

VARIABLES
    channel,       \* struct ssh_channel, its PFwdPrivate and its socket
    toServer,      \* messages on their way, by channel
    toClient,
    srv,           \* the server's end of each channel
    throttled_all, \* ssh->throttled_all
    app,           \* history: bytes each application has written
    fault          \* the connection has been given up (bombout)

vars == <<channel, toServer, toClient, srv, throttled_all, app, fault>>

-------------------------------------------------------------------------------

(* "buffer" is the data that followed a SOCKS request, "missed" what the    *)
(* socket read while it was frozen, "out" how much it has still to send to  *)
(* the application.                                                         *)
Channels ==
    [type : {"none", "dormant", "sockdata"}, closes : {0, 1},
     outbuffer : Seq(Nat), remwindow : Unsigned, locwindow : Unsigned,
     s : BOOLEAN, ready : BOOLEAN, throttled : BOOLEAN,
     throttle_override : BOOLEAN, buffer : Seq(Nat),
     frozen : BOOLEAN, missed : Seq(Nat), out : Nat]

Messages ==
    [t : {"open", "confirm", "failure", "data", "adjust", "eof", "close"},
     n : Nat, bytes : Seq(Nat)]

(* "inwin": what it lets the client send; "outwin": what it may send. *)
Servers ==
    [state : {"none", "asking", "open"}, inwin : Nat, outwin : Nat,
     sentEof : BOOLEAN, sentClose : BOOLEAN, gotClose : BOOLEAN, got : Seq(Nat)]

TypeOK ==
    /\ channel \in [Chan -> Channels]
    /\ toServer \in [Chan -> Seq(Messages)]
    /\ toClient \in [Chan -> Seq(Messages)]
    /\ srv \in [Chan -> Servers]
    /\ throttled_all \in BOOLEAN
    /\ app \in [Chan -> Nat]
    /\ fault \in BOOLEAN

NoSocket(r) ==
    [r EXCEPT !.s = FALSE, !.ready = FALSE, !.throttled = FALSE,
              !.throttle_override = FALSE, !.buffer = <<>>, !.frozen = FALSE,
              !.missed = <<>>, !.out = 0]

NoChannel ==
    [type |-> "none", closes |-> 0, outbuffer |-> <<>>, remwindow |-> 0,
     locwindow |-> 0, s |-> FALSE, ready |-> FALSE, throttled |-> FALSE,
     throttle_override |-> FALSE, buffer |-> <<>>, frozen |-> FALSE,
     missed |-> <<>>, out |-> 0]

NoServer ==
    [state |-> "none", inwin |-> 0, outwin |-> 0, sentEof |-> FALSE,
     sentClose |-> FALSE, gotClose |-> FALSE, got |-> <<>>]

Init ==
    /\ channel = [c \in Chan |-> NoChannel]
    /\ toServer = [c \in Chan |-> <<>>]
    /\ toClient = [c \in Chan |-> <<>>]
    /\ srv = [c \in Chan |-> NoServer]
    /\ throttled_all = FALSE
    /\ app = [c \in Chan |-> 0]
    /\ fault = FALSE

-------------------------------------------------------------------------------
(* What the functions of the program do to a channel r and to the messages  *)
(* q that are on their way to its server: st is [r |-> ..., q |-> ...].     *)

Run(m, n) == [i \in 1 .. n |-> m + i]

Msg(t, n) == [t |-> t, n |-> n, bytes |-> <<>>]
DataMsg(b) == [t |-> "data", n |-> 0, bytes |-> b]

(* ssh2_pkt_send() *)
Send(st, m) == [st EXCEPT !.q = Append(@, m)]

(* Each definition whose name has "Faulty" in it is the one that follows it *)
(* with a plausible mistake made in it: the mistakes that the properties at *)
(* the end of the module are there to find.                                 *)
(* ssh2_try_send(): as much of the outbuffer as the window allows.  (The    *)
(* packets it is cut into are one message here.)                            *)
TrySend(st) ==
    LET n == IF st.r.remwindow < Len(st.r.outbuffer)
             THEN st.r.remwindow ELSE Len(st.r.outbuffer)
        rest == [st.r EXCEPT !.outbuffer = SubSeq(@, n + 1, Len(@)),
                             !.remwindow = @ - n]
    IN  IF n = 0 THEN st
        ELSE Send([st EXCEPT !.r = rest], DataMsg(SubSeq(st.r.outbuffer, 1, n)))

(* sshfwd_write() *)
FwdWrite(st, bytes) == TrySend([st EXCEPT !.r.outbuffer = @ \o bytes])

(* pfd_receive() once a connection is forwarded. *)
PfdReceive(st, bytes) ==
    LET written == FwdWrite(st, bytes) IN
    IF ~st.r.ready THEN st
    ELSE IF written.r.outbuffer = <<>> THEN written
    ELSE [written EXCEPT !.r.throttled = TRUE, !.r.frozen = TRUE]

(* sk_set_frozen(s, 1) and sk_set_frozen(s, 0). *)
Freeze(st) == IF st.r.frozen THEN st
              ELSE [st EXCEPT !.r.frozen = TRUE, !.r.missed = <<>>]

Thaw(st) ==
    LET awake == [st EXCEPT !.r.frozen = FALSE, !.r.missed = <<>>] IN
    IF ~st.r.frozen THEN st
    ELSE IF st.r.missed = <<>> THEN awake
    ELSE PfdReceive(awake, st.r.missed)

SetFrozen(st) ==
    IF st.r.throttled \/ st.r.throttle_override THEN Freeze(st) ELSE Thaw(st)

PfdOverrideFaultyStaysFrozen(st, enable) ==
    IF ~st.r.s THEN st
    ELSE IF enable THEN SetFrozen([st EXCEPT !.r.throttle_override = TRUE])
    ELSE [st EXCEPT !.r.throttle_override = FALSE]

(* pfd_unthrottle() and pfd_override_throttle() *)
PfdUnthrottle(st) ==
    IF st.r.s THEN SetFrozen([st EXCEPT !.r.throttled = FALSE]) ELSE st

PfdOverride(st, enable) ==
    IF st.r.s THEN SetFrozen([st EXCEPT !.r.throttle_override = enable]) ELSE st

TrySendAndUnthrottleFaultyFrozen(st) == IF st.r.closes # 0 THEN st ELSE TrySend(st)

(* ssh2_try_send_and_unthrottle() *)
TrySendAndUnthrottle(st) ==
    LET sent == TrySend(st) IN
    IF st.r.closes # 0 THEN st
    ELSE IF sent.r.outbuffer = <<>> THEN PfdUnthrottle(sent) ELSE sent

SetWindowFaultyForgotten(st, newwin) ==
    LET grown == (newwin - st.r.locwindow) % (UINT_MAX + 1) IN
    IF st.r.closes = 0 /\ newwin > (2 * st.r.locwindow) % (UINT_MAX + 1)
    THEN Send(st, Msg("adjust", grown)) ELSE st

(* ssh2_set_window() *)
SetWindow(st, newwin) ==
    LET grown == (newwin - st.r.locwindow) % (UINT_MAX + 1) IN
    IF st.r.closes = 0 /\ newwin > (2 * st.r.locwindow) % (UINT_MAX + 1)
    THEN Send([st EXCEPT !.r.locwindow = newwin], Msg("adjust", grown))
    ELSE st

FwdCloseFaultyAgain(st) ==
    LET ended == [st EXCEPT !.r = NoSocket([@ EXCEPT !.closes = 1])] IN
    IF st.r.type = "dormant" THEN ended ELSE Send(ended, Msg("close", 0))

(* sshfwd_close(), and pfd_close() with it; the channel itself stays. *)
FwdClose(st) ==
    LET ended == [st EXCEPT !.r = NoSocket([@ EXCEPT !.closes = 1])] IN
    IF st.r.closes # 0 THEN st
    ELSE IF st.r.type = "dormant" THEN ended
    ELSE Send(ended, Msg("close", 0))

PfdConfirmFaultyReadyLast(st) ==
    LET thawed == Thaw(st) IN
    IF ~st.r.s THEN st
    ELSE FwdWrite([thawed EXCEPT !.r.ready = TRUE, !.r.buffer = <<>>], thawed.r.buffer)

(* pfd_confirm(): the data the socket missed goes first, then what had come *)
(* with the SOCKS request.                                                  *)
PfdConfirm(st) ==
    LET thawed == Thaw([st EXCEPT !.r.ready = TRUE]) IN
    IF ~st.r.s THEN st
    ELSE IF thawed.r.buffer = <<>> THEN thawed
    ELSE FwdWrite([thawed EXCEPT !.r.buffer = <<>>], thawed.r.buffer)

-------------------------------------------------------------------------------

State(c) == [r |-> channel[c], q |-> toServer[c]]

Becomes(c, st) ==
    /\ channel' = [channel EXCEPT ![c] = st.r]
    /\ toServer' = [toServer EXCEPT ![c] = st.q]

(* Nothing is left of the channel's last use.  (alloc_channel_id() gives an *)
(* id out again at once; the server's end is then another one.)             *)
Unused(c) ==
    /\ channel[c].type = "none" /\ srv[c].state = "none"
    /\ toServer[c] = <<>> /\ toClient[c] = <<>>

(* pfd_accepting(), or pfd_receive() at the end of a SOCKS request: the     *)
(* connection waits, frozen, for a channel.                                 *)
PortOpen(c, buffer, out) ==
    /\ Unused(c) /\ ~fault
    /\ Becomes(c, [r |-> [NoChannel EXCEPT
                            !.type = "dormant", !.locwindow = OUR_V2_WINSIZE,
                            !.s = TRUE, !.frozen = TRUE,
                            !.buffer = buffer, !.out = out],
                   q |-> <<Msg("open", OUR_V2_WINSIZE)>>])
    /\ app' = [app EXCEPT ![c] = Len(buffer)]
    /\ UNCHANGED <<toClient, srv, throttled_all, fault>>

Accepting(c) == PortOpen(c, <<>>, 0)

Connected(c) ==
    \E n \in Leftovers : \E out \in Replies : PortOpen(c, Run(0, n), out)

(* The application writes, and the socket has a Recv() to take it: frozen,  *)
(* it keeps the data.                                                       *)
AppWrites(c, n) ==
    /\ channel[c].s /\ channel[c].missed = <<>> /\ ~fault
    /\ app[c] + n <= MaxApp
    /\ app' = [app EXCEPT ![c] = @ + n]
    /\ LET bytes == Run(app[c], n) IN
       IF channel[c].frozen
       THEN Becomes(c, [State(c) EXCEPT !.r.missed = bytes])
       ELSE Becomes(c, PfdReceive(State(c), bytes))
    /\ UNCHANGED <<toClient, srv, throttled_all, fault>>

(* The application closes its connection, or it fails: pfd_closing(), also  *)
(* on a frozen socket.                                                      *)
AppEnds(c) ==
    /\ channel[c].s /\ channel[c].missed = <<>> /\ ~fault
    /\ Becomes(c, FwdClose(State(c)))
    /\ UNCHANGED <<toClient, srv, throttled_all, app, fault>>

AppTakesFaultyUntold(c, n) ==
    /\ channel[c].s /\ n <= channel[c].out /\ ~fault
    /\ Becomes(c, [State(c) EXCEPT !.r.out = @ - n])
    /\ UNCHANGED <<toClient, srv, throttled_all, app, fault>>

(* A Send() to the application completes: pfd_sent(), sshfwd_unthrottle().  *)
AppTakes(c, n) ==
    /\ channel[c].s /\ n <= channel[c].out /\ ~fault
    /\ LET left == channel[c].out - n IN
       Becomes(c, SetWindow([State(c) EXCEPT !.r.out = left],
                            (OUR_V2_WINSIZE - left) % (UINT_MAX + 1)))
    /\ UNCHANGED <<toClient, srv, throttled_all, app, fault>>

-------------------------------------------------------------------------------
(* ssh_throttle_all()                                                       *)

Forwarded(c) == channel[c].type = "sockdata"

Overridden(c, enable) ==
    IF Forwarded(c) THEN PfdOverride(State(c), enable) ELSE State(c)

AllBecome(st) ==
    /\ channel' = [c \in Chan |-> st[c].r]
    /\ toServer' = [c \in Chan |-> st[c].q]
    /\ UNCHANGED <<toClient, srv, app, fault>>

(* A packet brings the backlog above SSH_MAX_BACKLOG. *)
BacklogGrows ==
    /\ MayBacklog /\ ~throttled_all /\ ~fault
    /\ throttled_all' = TRUE
    /\ AllBecome([c \in Chan |-> Overridden(c, TRUE)])

(* ssh_sent(): the backlog is below SSH_MAX_BACKLOG again.  Thawing sockets *)
(* may send data on channels, and that of channel p may bring the backlog   *)
(* above the limit: then all are throttled again from inside the loop,      *)
(* which after that goes on to the channels behind p.                       *)
BacklogShrinks ==
    /\ throttled_all /\ ~fault
    /\ LET st == [c \in Chan |-> Overridden(c, FALSE)]
           again(p) == [c \in Chan |->
                          IF Forwarded(c) /\ c <= p THEN PfdOverride(st[c], TRUE) ELSE st[c]]
       IN  \/ AllBecome(st) /\ throttled_all' = FALSE
           \/ \E p \in Chan :
                 /\ st[p].q # toServer[p]
                 /\ AllBecome(again(p)) /\ throttled_all' = TRUE

-------------------------------------------------------------------------------
(* Messages of the server                                                   *)

Receives(c, t) ==
    /\ toClient[c] # <<>> /\ Head(toClient[c]).t = t /\ ~fault
    /\ toClient' = [toClient EXCEPT ![c] = Tail(@)]

ConfirmationFaultyNoClose(c) ==
    /\ Receives(c, "confirm")
    /\ Becomes(c, PfdConfirm([State(c) EXCEPT
                                !.r.type = "sockdata",
                                !.r.remwindow = Head(toClient[c]).n]))
    /\ UNCHANGED <<srv, throttled_all, app, fault>>

(* ssh2_msg_channel_open_confirmation() *)
Confirmation(c) ==
    /\ Receives(c, "confirm")
    /\ IF channel[c].type = "dormant"
       THEN LET st == PfdConfirm([State(c) EXCEPT
                                    !.r.type = "sockdata",
                                    !.r.remwindow = Head(toClient[c]).n])
            IN  Becomes(c, IF st.r.closes = 0 THEN st ELSE Send(st, Msg("close", 0)))
       ELSE UNCHANGED <<channel, toServer>>
    /\ UNCHANGED <<srv, throttled_all, app, fault>>

(* ssh2_msg_channel_open_failure() *)
Failure(c) ==
    /\ Receives(c, "failure")
    /\ channel' = IF channel[c].type = "dormant"
                  THEN [channel EXCEPT ![c] = NoChannel] ELSE channel
    /\ UNCHANGED <<toServer, srv, throttled_all, app, fault>>

(* ssh2_msg_channel_data() *)
Data(c) ==
    /\ Receives(c, "data")
    /\ LET n == Head(toClient[c]).n
           out == IF channel[c].s THEN channel[c].out + n ELSE 0
           st == [State(c) EXCEPT
                    !.r.out = out, !.r.locwindow = (@ - n) % (UINT_MAX + 1)]
       IN  IF channel[c].type = "none"
           THEN UNCHANGED <<channel, toServer>>
           ELSE Becomes(c, IF out < OUR_V2_WINSIZE
                           THEN SetWindow(st, OUR_V2_WINSIZE - out) ELSE st)
    /\ UNCHANGED <<srv, throttled_all, app, fault>>

(* ssh2_msg_channel_window_adjust() *)
WindowAdjust(c) ==
    /\ Receives(c, "adjust")
    /\ LET st == [State(c) EXCEPT
                    !.r.remwindow = (@ + Head(toClient[c]).n) % (UINT_MAX + 1)]
       IN  IF channel[c].type = "none" \/ channel[c].closes # 0
           THEN UNCHANGED <<channel, toServer>>
           ELSE Becomes(c, TrySendAndUnthrottle(st))
    /\ UNCHANGED <<srv, throttled_all, app, fault>>

EofFaultyDeletes(c) ==
    /\ Receives(c, "eof")
    /\ IF Forwarded(c) THEN Becomes(c, [FwdClose(State(c)) EXCEPT !.r = NoChannel])
       ELSE UNCHANGED <<channel, toServer>>
    /\ UNCHANGED <<srv, throttled_all, app, fault>>

(* ssh2_msg_channel_eof() *)
Eof(c) ==
    /\ Receives(c, "eof")
    /\ IF Forwarded(c) THEN Becomes(c, FwdClose(State(c)))
       ELSE UNCHANGED <<channel, toServer>>
    /\ UNCHANGED <<srv, throttled_all, app, fault>>

(* ssh2_msg_channel_close() *)
Close(c) ==
    /\ Receives(c, "close")
    /\ IF channel[c].type = "sockdata"
       THEN /\ Becomes(c, [FwdClose(State(c)) EXCEPT !.r = NoChannel])
            /\ UNCHANGED fault
       ELSE fault' = TRUE /\ UNCHANGED <<channel, toServer>>
    /\ UNCHANGED <<srv, throttled_all, app>>

(* ssh2_msg_channel_open(), for a remote forwarding that is known and whose *)
(* connection succeeds.                                                     *)
OpenRequest(c) ==
    /\ Unused(c) /\ ~fault
    /\ \E w \in Windows :
          /\ Becomes(c, [r |-> [NoChannel EXCEPT
                                  !.type = "sockdata", !.locwindow = OUR_V2_WINSIZE,
                                  !.remwindow = w, !.s = TRUE, !.ready = TRUE],
                         q |-> <<Msg("confirm", OUR_V2_WINSIZE)>>])
          /\ srv' = [srv EXCEPT ![c] = [NoServer EXCEPT !.state = "asking", !.inwin = w]]
    /\ app' = [app EXCEPT ![c] = 0]
    /\ UNCHANGED <<toClient, throttled_all, fault>>

-------------------------------------------------------------------------------
(* The server, which keeps to the protocol                                  *)

SrvSends(c, m) == toClient' = [toClient EXCEPT ![c] = Append(@, m)]

(* It takes the next message. *)
SrvTakes(c) ==
    /\ toServer[c] # <<>> /\ ~fault
    /\ toServer' = [toServer EXCEPT ![c] = Tail(@)]
    /\ LET m == Head(toServer[c]) IN
       \/ /\ m.t = "open"
          /\ \/ \E w \in Windows :
                   /\ SrvSends(c, Msg("confirm", w))
                   /\ srv' = [srv EXCEPT ![c] = [NoServer EXCEPT
                                !.state = "open", !.inwin = w, !.outwin = m.n]]
             \/ SrvSends(c, Msg("failure", 0)) /\ UNCHANGED srv
       \/ /\ m.t = "confirm"
          /\ srv' = [srv EXCEPT ![c].state = "open", ![c].outwin = m.n]
          /\ UNCHANGED toClient
       \/ /\ m.t = "data"
          /\ srv' = [srv EXCEPT ![c].got = @ \o m.bytes, ![c].inwin = @ - Len(m.bytes)]
          /\ UNCHANGED toClient
       \/ /\ m.t = "adjust"
          /\ srv' = [srv EXCEPT ![c].outwin = @ + m.n]
          /\ UNCHANGED toClient
       \/ /\ m.t = "close"
          /\ srv' = [srv EXCEPT ![c] =
                       IF @.sentClose THEN NoServer ELSE [@ EXCEPT !.gotClose = TRUE]]
          /\ UNCHANGED toClient
    /\ UNCHANGED <<channel, throttled_all, app, fault>>

SrvMaySend(c) ==
    /\ srv[c].state = "open" /\ ~srv[c].sentClose /\ ~fault
    /\ UNCHANGED <<channel, toServer, throttled_all, app, fault>>

SrvWrites(c, n) ==
    /\ SrvMaySend(c) /\ ~srv[c].sentEof
    /\ n <= srv[c].outwin
    /\ srv' = [srv EXCEPT ![c].outwin = @ - n]
    /\ SrvSends(c, Msg("data", n))

SrvAdjusts(c, n) ==
    /\ SrvMaySend(c)
    /\ srv[c].inwin + n <= MaxWindow
    /\ srv' = [srv EXCEPT ![c].inwin = @ + n]
    /\ SrvSends(c, Msg("adjust", n))

SrvEnds(c) ==
    /\ SrvMaySend(c) /\ ~srv[c].sentEof
    /\ srv' = [srv EXCEPT ![c].sentEof = TRUE]
    /\ SrvSends(c, Msg("eof", 0))

SrvCloses(c) ==
    /\ SrvMaySend(c)
    /\ srv' = [srv EXCEPT ![c] =
                 IF @.gotClose THEN NoServer ELSE [@ EXCEPT !.sentClose = TRUE]]
    /\ SrvSends(c, Msg("close", 0))

-------------------------------------------------------------------------------

Application(c) ==
    \/ Accepting(c)
    \/ Connected(c)
    \/ \E n \in 1 .. MaxApp : AppWrites(c, n)
    \/ AppEnds(c)
    \/ \E n \in 1 .. channel[c].out : AppTakes(c, n)

Dispatch(c) ==
    \/ Confirmation(c)
    \/ Failure(c)
    \/ Data(c)
    \/ WindowAdjust(c)
    \/ Eof(c)
    \/ Close(c)

Server(c) ==
    \/ SrvTakes(c)
    \/ \E n \in 1 .. OUR_V2_WINSIZE : SrvWrites(c, n)
    \/ \E n \in 1 .. MaxWindow : SrvAdjusts(c, n)
    \/ SrvEnds(c)
    \/ SrvCloses(c)

Next ==
    \/ \E c \in Chan : Application(c) \/ Dispatch(c) \/ OpenRequest(c) \/ Server(c)
    \/ BacklogGrows
    \/ BacklogShrinks

(* Messages arrive and are handled, what is written to an application is    *)
(* taken by it, the SSH connection's backlog clears; the server presents    *)
(* window again when there is none left and answers a CLOSE.                *)
Fairness ==
    /\ WF_vars(BacklogShrinks)
    /\ \A c \in Chan :
          /\ WF_vars(Dispatch(c))
          /\ WF_vars(SrvTakes(c))
          /\ WF_vars(\E n \in 1 .. channel[c].out : AppTakes(c, n))
          /\ WF_vars(srv[c].inwin = 0 /\ SrvAdjusts(c, MaxWindow))
          /\ WF_vars(srv[c].gotClose /\ SrvCloses(c))

Spec == Init /\ [][Next]_vars

FairSpec == Spec /\ Fairness

-------------------------------------------------------------------------------
(* Properties                                                               *)

Refused(c) == \E i \in 1 .. Len(toClient[c]) : toClient[c][i].t = "failure"

InUse(c) ==
    channel[c].type # "none" /\ channel[c].closes = 0 /\ ~Refused(c)

(* What the messages on their way amount to. *)
Total(s) ==
    LET sum[i \in 0 .. Len(s)] == IF i = 0 THEN 0 ELSE sum[i - 1] + s[i]
    IN  sum[Len(s)]

(* The sum of the numbers in those messages of q that are of one of types.  *)
Amount(q, types) ==
    Total([i \in 1 .. Len(q) |-> IF q[i].t \in types THEN q[i].n ELSE 0])

(* The data in the messages of q. *)
Contents(q) == FlattenSeq([i \in 1 .. Len(q) |-> q[i].bytes])

Granted(c) == Amount(toServer[c], {"open", "confirm", "adjust"})
Presented(c) == Amount(toClient[c], {"confirm", "adjust"})
Coming(c) == Amount(toClient[c], {"data"})
Sent(c) == Contents(toServer[c])

(* Both ends agree about both windows of a channel, given what is on its    *)
(* way: locwindow is what the server may still send, and remwindow what it  *)
(* will still take.  So neither end ever sends more than the other expects, *)
(* however data, adjustments, throttling and closing are interleaved.  And  *)
(* what the server may still send, with what is queued for the application  *)
(* already, is never more than OUR_V2_WINSIZE, "the maximum window size we  *)
(* present on SSH-2 channels".                                              *)
WindowsAgree ==
    \A c \in Chan : InUse(c) =>
        /\ channel[c].locwindow = srv[c].outwin + Granted(c) + Coming(c)
        /\ srv[c].inwin = channel[c].remwindow + Presented(c) + Len(Sent(c))
        /\ channel[c].locwindow + channel[c].out <= OUR_V2_WINSIZE

(* What an application has written is with the server, on its way, in the   *)
(* outbuffer or kept by the frozen socket: no byte is lost, repeated or     *)
(* overtaken, whatever the interleaving of freezing, thawing, confirmation  *)
(* and window adjustments.                                                  *)
StreamIntact ==
    \A c \in Chan : InUse(c) =>
        srv[c].got \o Sent(c) \o channel[c].outbuffer \o channel[c].buffer
            \o channel[c].missed = Run(0, app[c])

(* After CLOSE, nothing more is sent on a channel, and CLOSE is sent once.  *)
CloseIsLast ==
    \A c \in Chan :
        /\ \A i \in 1 .. Len(toServer[c]) - 1 : toServer[c][i].t # "close"
        /\ srv[c].gotClose => toServer[c] = <<>>

(* A channel that is deleted is one the server sends nothing more on, so    *)
(* that its id may be given out again; and a server that keeps to the       *)
(* protocol is never accused of closing a channel that is half-open or does *)
(* not exist.                                                               *)
IdIsFree ==
    /\ \A c \in Chan : channel[c].type = "none" => toClient[c] = <<>>
    /\ ~fault

(* A socket is frozen for a reason that will go away: its channel is not    *)
(* confirmed, data waits in the outbuffer, or all are throttled.            *)
FrozenForAReason ==
    \A c \in Chan : channel[c].s /\ channel[c].frozen =>
        \/ channel[c].type = "dormant"
        \/ channel[c].outbuffer # <<>> /\ channel[c].remwindow = 0
        \/ throttled_all

(* A frozen application can write again in the end, or its connection goes. *)
FrozenAreThawed ==
    \A c \in Chan : []<>(channel[c].s => ~channel[c].frozen)

(* A channel that is closed is deleted in the end. *)
ClosedAreDeleted ==
    \A c \in Chan : []<>(channel[c].closes = 0)

(* A server that has used up its window gets more in the end. *)
ServerIsFed ==
    \A c \in Chan :
        []<>(\/ srv[c].state # "open" \/ srv[c].outwin > 0
             \/ srv[c].gotClose \/ srv[c].sentClose)
===============================================================================
