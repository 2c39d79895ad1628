---------------------------- MODULE Ssh2Transport ----------------------------
(***************************************************************************)
(* The SSH-2 transport layer of src/engine/putty/ssh.c: how packets are     *)
(* constructed, queued, deferred and written; the coroutine                 *)
(* do_ssh2_transport() that exchanges keys, the first time and again; and   *)
(* what asks for another exchange - the server, the user, the rekey timer,  *)
(* too much data in one direction, a change of the configuration.           *)
(*                                                                         *)
(* The server is any that keeps to the protocol.  Keys are identified by    *)
(* the number of the exchange that made them: a packet is understood if it  *)
(* was constructed with the keys, and the sequence number, that its reader  *)
(* has come to.  Sizes are counted in packets.  The layers above are the    *)
(* packets 1, 2, 3, ... that they send.                                     *)
(*                                                                         *)
(* The model begins when do_ssh_init() has exchanged version strings and    *)
(* started the coroutine.  The front end's dialogues return their answer    *)
(* (puttyengineimp.cpp); while one is open no data is read from the server  *)
(* (its reader is waiting for the dialogue), but timers, pings and the      *)
(* forwarded connections go on.                                             *)
(***************************************************************************)
EXTENDS Integers, Sequences

Ciphers == {"stream", "cbc"}

CONSTANTS
    Offers,       \* what the server's KEXINITs may lead to
    Configs,      \* the user's configurations (0: never, no limit)
    SequenceMod,  \* sequence numbers wrap round here
    SizeCap,      \* bound: of a size above every limit no more is said than that
    MaxApp,       \* bound: packets from the layers above
    MaxSrvData,   \* bound: packets of the server's that are not for kex
    MaxRequests   \* bound: keepalives and spontaneous requests for a key exchange

ASSUME Ssh2TransportAssumption ==
    /\ Offers \subseteq [agree : BOOLEAN, gex : BOOLEAN, follows : BOOLEAN, warns : 0 .. 3]
    /\ Configs \subseteq [cipher : Ciphers, ssh_rekey_time : Nat, max_data_size : Nat]
    /\ SequenceMod \in Nat \ {0}
    /\ SizeCap \in Nat /\ \A cfg \in Configs : cfg.max_data_size < SizeCap
    /\ MaxApp \in Nat \ {0}
    /\ {MaxSrvData, MaxRequests} \subseteq Nat

VARIABLES
    ssh,       \* the fields of struct ssh_tag that matter here
    toServer,  \* the connection, each way
    toClient,
    srv,       \* the server's end
    app,       \* history: packets sent by the layers above
    used       \* history: how much of each bound has been used

vars == <<ssh, toServer, toClient, srv, app, used>>

-------------------------------------------------------------------------------

Sizes == 0 .. SizeCap

NoOffer == [agree |-> TRUE, gex |-> FALSE, follows |-> FALSE, warns |-> 0]

(* Where do_ssh2_transport() is, by what it waits for: the packets of an    *)
(* exchange, the answer to a dialogue, or ("idle") the next exchange.       *)
Dialogues == {"askalg", "hostkey"}
CrStates == {"kexinit", "ignore", "group", "reply", "newkeys", "idle"} \cup Dialogues

(* KEXINIT to NEWKEYS are the types 20 to 49, for the transport layer;      *)
(* "guess" is the packet that follows a KEXINIT that said so.               *)
KexTypes == {"kexinit", "guess", "group", "reply", "newkeys"}

(* "ep" names the keys the packet was constructed with, "seq" its place. *)
ClientPackets ==
    [t : {"app", "ignore", "unimplemented", "kexinit", "gexrequest", "dhinit", "newkeys"},
     n : 0 .. MaxApp, ep : Nat, seq : 0 .. SequenceMod - 1]
ServerPackets ==
    [t : KexTypes \cup {"data", "ignore", "unknown", "disconnect"},
     ep : Nat, offer : Offers \cup {NoOffer}, good : BOOLEAN]

(* "kexcfg" and "offer" are the coroutine's own: the preferences its        *)
(* KEXINIT was made of, and what the negotiation came to.  "next_rekey":    *)
(* a timer is set for the time in it.  "stored": the host key is known.     *)
SshStates ==
    [open : BOOLEAN, why : {"", "protocol", "negotiation", "hostkey", "user", "server"},
     cr : CrStates, kex_in_progress : BOOLEAN, queueing : BOOLEAN,
     queue : Seq([t : {"app", "ignore"}, n : 0 .. MaxApp]),
     deferred : Seq(ClientPackets),
     seq : 0 .. SequenceMod - 1, csEpoch : Nat, scEpoch : Nat, cscipher : Ciphers \cup {"none"},
     outgoing_data_size : Sizes, incoming_data_size : Sizes,
     deferred_rekey_reason : BOOLEAN, next_rekey : BOOLEAN,
     protocol_initial_phase_done : BOOLEAN, cfg : Configs,
     kexcfg : Configs, offer : Offers \cup {NoOffer}, asks : 0 .. 3,
     stored : BOOLEAN, rekeyBug : BOOLEAN]

(* "state": what the server expects next; "inKex": it has the client's      *)
(* KEXINIT and not yet its NEWKEYS; "ok": it has been able to make sense    *)
(* of everything so far.                                                    *)
Servers ==
    [state : {"idle", "kexinit", "gexrequest", "dhinit", "newkeys", "gone"}, inKex : BOOLEAN,
     csEpoch : Nat, scEpoch : Nat, seq : 0 .. SequenceMod - 1,
     offer : Offers \cup {NoOffer}, got : 0 .. MaxApp, ok : BOOLEAN]

TypeOK ==
    /\ ssh \in SshStates
    /\ toServer \in Seq(ClientPackets)
    /\ toClient \in Seq(ServerPackets)
    /\ srv \in Servers
    /\ app \in 0 .. MaxApp
    /\ used \in [data : 0 .. MaxSrvData, requests : 0 .. MaxRequests]

-------------------------------------------------------------------------------
(* What the functions of the program do to ssh and to the connection: st is *)
(* [s |-> ssh, w |-> what is on its way to the server, a |-> app].          *)
(* A definition with "Faulty" in its name is the one below it with a        *)
(* plausible mistake made in it, for the properties to find.                *)

(* Op of st; TLC evaluates st once, however often Op uses it. *)
Then(st, Op(_)) == CHOOSE result \in {Op(x) : x \in {st}} : TRUE

Grow(size, n) == IF size + n > SizeCap THEN SizeCap ELSE size + n

Item(t, n) == [t |-> t, n |-> n]

(* ssh2_pkt_construct() of some packets in turn: encrypted, with a MAC,     *)
(* under the present keys.                                                  *)
Construct(s, items) ==
    [i \in 1 .. Len(items) |-> [t |-> items[i].t, n |-> items[i].n, ep |-> s.csEpoch,
                                seq |-> (s.seq + i - 1) % SequenceMod]]

NextSeq(s, n) == [s EXCEPT !.seq = (@ + n) % SequenceMod]

(* ssh2_pkt_defer_noqueue(), of some packets in turn: with CBC, an IGNORE   *)
(* goes before the first of a block.                                        *)
DeferNoqueue(st, items) ==
    LET first == items # <<>> /\ st.s.cscipher = "cbc" /\ st.s.deferred = <<>>
        all == IF first THEN <<Item("ignore", 0)>> \o items ELSE items
    IN  [st EXCEPT !.s = [NextSeq(st.s, Len(all)) EXCEPT
                              !.deferred = @ \o Construct(st.s, all)]]

(* ssh_pkt_defersend() up to its check of the size.  (deferred_data_size is *)
(* the number of packets in the block.  The code clears it only after that  *)
(* check, and counts it twice if the check starts an exchange; the sum is   *)
(* cleared at the end of that exchange without having been looked at.)      *)
Write(st) ==
    [st EXCEPT !.w = @ \o st.s.deferred,
               !.s = [st.s EXCEPT !.deferred = <<>>,
                                  !.outgoing_data_size = Grow(@, Len(st.s.deferred))]]

(* The same of ssh2_pkt_send_noqueue(). *)
WriteNoqueue(st, p) ==
    IF st.s.cscipher = "cbc" THEN Then(DeferNoqueue(st, <<p>>), Write)
    ELSE [st EXCEPT !.w = @ \o Construct(st.s, <<p>>),
                    !.s = [NextSeq(st.s, 1) EXCEPT !.outgoing_data_size = Grow(@, 1)]]

(* begin_key_exchange: our KEXINIT.  Packets of the exchange itself are     *)
(* written while kex_in_progress is set, when sizes are not looked at.      *)
BeginKeyExchange(st) ==
    Then([st EXCEPT !.s = [@ EXCEPT !.queueing = TRUE, !.kex_in_progress = TRUE,
                                    !.kexcfg = st.s.cfg, !.cr = "kexinit"]],
         LAMBDA x : WriteNoqueue(x, Item("kexinit", 0)))

ScheduleRekey(s) == [s EXCEPT !.next_rekey = @ \/ s.cfg.ssh_rekey_time # 0]

ClientRekeyFaultyNoTimer(st) ==
    IF st.s.rekeyBug
    THEN [st EXCEPT !.s.outgoing_data_size = 0, !.s.incoming_data_size = 0]
    ELSE BeginKeyExchange(st)

(* do_ssh2_transport(ssh, reason, -1, NULL) of an idle coroutine.  A server *)
(* known not to allow it is not asked.                                      *)
ClientRekey(st) ==
    IF st.s.rekeyBug
    THEN [st EXCEPT !.s = ScheduleRekey([@ EXCEPT !.outgoing_data_size = 0,
                                                  !.incoming_data_size = 0])]
    ELSE BeginKeyExchange(st)

TooMuch(s, size) ==
    ~s.kex_in_progress /\ s.cfg.max_data_size # 0 /\ size > s.cfg.max_data_size

CheckOutgoing(st) ==
    IF TooMuch(st.s, st.s.outgoing_data_size) THEN ClientRekey(st) ELSE st

SendNoqueue(st, p) == Then(WriteNoqueue(st, p), CheckOutgoing)
Defersend(st) == Then(Write(st), CheckOutgoing)

Queue(st, p) == [st EXCEPT !.s.queue = Append(@, p)]

PktSendFaulty(st, p) == SendNoqueue(st, p)

PktSend(st, p) == IF st.s.queueing THEN Queue(st, p) ELSE SendNoqueue(st, p)

PktDefer(st, p) == IF st.s.queueing THEN Queue(st, p) ELSE DeferNoqueue(st, <<p>>)

(* ssh2_pkt_send_with_padding(): the packet and an IGNORE in one block. *)
SendWithPadding(st, p) ==
    Then(Then(PktDefer(st, p), LAMBDA x : PktDefer(x, Item("ignore", 0))), Defersend)

QueueSendFaultyKept(st) == Then(DeferNoqueue(st, st.s.queue), Defersend)
QueueSendFaultyNone(st) == st

(* ssh2_pkt_queuesend() *)
QueueSend(st) ==
    Then([DeferNoqueue(st, st.s.queue) EXCEPT !.s.queue = <<>>], Defersend)

(* ssh_do_close(), by bombout() or ssh_disconnect() *)
Close(st, why) == [st EXCEPT !.s.open = FALSE, !.s.why = why]

(* A packet of the layers above, sent with ssh2_pkt_send() or padded. *)
AppSend(st) == [PktSend(st, Item("app", st.a + 1)) EXCEPT !.a = @ + 1]
AppSendPadded(st) == [SendWithPadding(st, Item("app", st.a + 1)) EXCEPT !.a = @ + 1]
AppMaySend(st) == st.s.open /\ st.s.protocol_initial_phase_done /\ st.a < MaxApp

-------------------------------------------------------------------------------
(* do_ssh2_transport(), from one wait to the next. *)

(* The number of bits is known: ask for a group, or go on with a fixed one. *)
Goto(st, cr) == [st EXCEPT !.s.cr = cr]

SendE(st) == Goto(WriteNoqueue(st, Item("dhinit", 0)), "reply")

StartDiffieHellman(st) ==
    IF st.s.offer.gex THEN Goto(WriteNoqueue(st, Item("gexrequest", 0)), "group")
    ELSE SendE(st)

(* The algorithms are agreed: warn of the weak ones, one dialogue each, and *)
(* skip the packet that a server's wrong guess makes it send.               *)
Negotiated(st) ==
    IF st.s.asks > 0 THEN Goto(st, "askalg")
    ELSE IF st.s.offer.follows THEN Goto(st, "ignore")
    ELSE StartDiffieHellman(st)

GotKexinit(st, m) ==
    IF ~m.offer.agree THEN Close(st, "negotiation")
    ELSE Then([st EXCEPT !.s.offer = m.offer, !.s.asks = m.offer.warns], Negotiated)

(* The host key is accepted: NEWKEYS, the new client-to-server keys, and    *)
(* all that has been queued.                                                *)
SendNewkeys(st) ==
    LET newKeys == [WriteNoqueue(st, Item("newkeys", 0)) EXCEPT
                        !.s.outgoing_data_size = 0, !.s.csEpoch = @ + 1,
                        !.s.cscipher = st.s.kexcfg.cipher, !.s.queueing = FALSE]
    IN  Goto(Then(newKeys, QueueSend), "newkeys")

GotReply(st, m) ==
    IF ~m.good THEN Close(st, "hostkey")
    ELSE IF st.s.stored THEN SendNewkeys(st)
    ELSE Goto(st, "hostkey")

(* The server's NEWKEYS: the exchange is over, or starts again at once for  *)
(* a change of the configuration that came while it was going on.  The      *)
(* first time the layers above are started (and send SERVICE_REQUEST).      *)
GotNewkeys(st) ==
    LET new == [st EXCEPT !.s.incoming_data_size = 0, !.s.scEpoch = @ + 1]
    IN  IF st.s.deferred_rekey_reason
        THEN Then([new EXCEPT !.s.deferred_rekey_reason = FALSE], BeginKeyExchange)
        ELSE LET done == Goto([new EXCEPT !.s = ScheduleRekey([@ EXCEPT
                                  !.kex_in_progress = FALSE,
                                  !.protocol_initial_phase_done = TRUE])], "idle")
             IN  IF st.s.protocol_initial_phase_done THEN done ELSE Then(done, AppSend)

(* do_ssh2_transport(ssh, NULL, 0, m) *)
Transport(st, m) ==
    LET cr == st.s.cr IN
    CASE cr = "idle" -> IF m.t = "kexinit" 
                          THEN Then(BeginKeyExchange(st), LAMBDA x : GotKexinit(x, m))
                          ELSE st
      [] cr = "ignore" -> StartDiffieHellman(st)
      [] cr # "idle" /\ cr # "ignore" /\ m.t # cr -> Close(st, "protocol")
      [] cr = "kexinit" /\ m.t = cr -> GotKexinit(st, m)
      [] cr = "group" /\ m.t = cr -> SendE(st)
      [] cr = "reply" /\ m.t = cr -> GotReply(st, m)
      [] cr = "newkeys" /\ m.t = cr -> GotNewkeys(st)

(* The packet's handler, by ssh2_protocol().  What the layers above answer  *)
(* is left to AppSends.                                                     *)
Dispatch(st, m) ==
    CASE m.t = "ignore" -> st
      [] m.t = "unknown" -> SendNoqueue(st, Item("unimplemented", 0))
      [] m.t = "disconnect" -> Close(st, "server")
      [] m.t \in KexTypes -> Transport(st, m)
      [] m.t = "data" -> IF st.s.protocol_initial_phase_done THEN st ELSE Transport(st, m)

CheckIncoming(st) ==
    IF TooMuch(st.s, st.s.incoming_data_size) THEN ClientRekey(st) ELSE st

(* ssh2_rdpkt() and the first lines of ssh2_protocol(): a packet that comes *)
(* to the limit starts an exchange before it is looked at itself.           *)
GotPacket(st, m) ==
    IF m.ep # st.s.scEpoch THEN Close(st, "protocol")
    ELSE Then(Then([st EXCEPT !.s.incoming_data_size = Grow(@, 1)], CheckIncoming),
              LAMBDA x : Dispatch(x, m))

-------------------------------------------------------------------------------
(* The client's steps. *)

Now == [s |-> ssh, w |-> toServer, a |-> app]
Becomes(st) == \E new \in {st} : ssh' = new.s /\ toServer' = new.w /\ app' = new.a

InDialogue == ssh.cr \in Dialogues

Receive ==
    /\ ssh.open /\ ~InDialogue /\ toClient # <<>>
    /\ Becomes(GotPacket(Now, Head(toClient)))
    /\ toClient' = Tail(toClient)
    /\ UNCHANGED <<srv, used>>

(* askalg() and verify_ssh_host_key() return. *)
Accept(store) ==
    /\ ssh.open
    /\ \/ /\ ssh.cr = "askalg" /\ ~store
          /\ Becomes(Then([Now EXCEPT !.s.asks = @ - 1], Negotiated))
       \/ /\ ssh.cr = "hostkey"
          /\ Becomes(Then([Now EXCEPT !.s.stored = store], SendNewkeys))
    /\ UNCHANGED <<toClient, srv, used>>

Refuse ==
    /\ ssh.open /\ InDialogue
    /\ Becomes(Close(Now, "user"))
    /\ UNCHANGED <<toClient, srv, used>>

AppSends ==
    /\ AppMaySend(Now)
    /\ Becomes(AppSend(Now)) \/ Becomes(AppSendPadded(Now))
    /\ UNCHANGED <<toClient, srv, used>>

(* pinger_timer(), by ssh_special(TS_PING) *)
Ping ==
    /\ ssh.open /\ used.requests < MaxRequests
    /\ Becomes(SendNoqueue(Now, Item("ignore", 0)))
    /\ used' = [used EXCEPT !.requests = @ + 1]
    /\ UNCHANGED <<toClient, srv>>

Request ==
    /\ used.requests < MaxRequests
    /\ used' = [used EXCEPT !.requests = @ + 1]

(* ssh_special(TS_REKEY) *)
UserRekeys ==
    /\ ssh.open /\ ~InDialogue /\ ~ssh.kex_in_progress
    /\ Becomes(ClientRekey(Now))
    /\ Request /\ UNCHANGED <<toClient, srv>>

(* ssh2_timer(), at the time in next_rekey *)
Timer ==
    /\ ssh.open /\ ssh.next_rekey
    /\ LET st == [Now EXCEPT !.s.next_rekey = FALSE]
       IN  Becomes(IF ~ssh.kex_in_progress /\ ssh.cfg.ssh_rekey_time # 0
                   THEN Then(st, ClientRekey) ELSE st)
    /\ Request /\ UNCHANGED <<toClient, srv>>

ReconfigureFaulty(st, new, late) ==
    LET mandatory == new.cipher # st.s.cfg.cipher
        now == [st EXCEPT !.s.cfg = new]
    IN  IF mandatory /\ ~st.s.kex_in_progress THEN Then(now, ClientRekey) ELSE now

(* ssh_reconfig() with the configuration new.  "late": the time since the   *)
(* last exchange is over the new limit (before the first, last_rekey has no *)
(* value, and late may be anything).                                        *)
Reconfigure(st, new, late) ==
    LET old == st.s.cfg
        timeChanged == new.ssh_rekey_time \notin {old.ssh_rekey_time, 0}
        overLimit == /\ new.max_data_size \notin {old.max_data_size, 0}
                     /\ \/ st.s.outgoing_data_size > new.max_data_size
                        \/ st.s.incoming_data_size > new.max_data_size
        mandatory == new.cipher # old.cipher
        now == [st EXCEPT !.s.cfg = new, !.s.next_rekey = @ \/ (timeChanged /\ ~late)]
    IN  IF ~((timeChanged /\ late) \/ overLimit \/ mandatory) THEN now
        ELSE IF ~st.s.kex_in_progress THEN Then(now, ClientRekey)
        ELSE [now EXCEPT !.s.deferred_rekey_reason = @ \/ mandatory]

Reconfig ==
    /\ ssh.open /\ ~InDialogue
    /\ \E new \in Configs \ {ssh.cfg}, late \in BOOLEAN : Becomes(Reconfigure(Now, new, late))
    /\ Request /\ UNCHANGED <<toClient, srv>>

-------------------------------------------------------------------------------
(* The server. *)

Sent(sv, t) == [t |-> t, ep |-> sv.scEpoch, offer |-> NoOffer, good |-> TRUE]

Kexinit(sv, o) ==
    <<[Sent(sv, "kexinit") EXCEPT !.offer = o]>>
        \o (IF o.agree /\ o.follows THEN <<Sent(sv, "guess")>> ELSE <<>>)

AfterKexinits(o) == IF o.gex THEN "gexrequest" ELSE "dhinit"

(* What it expects; it takes nothing more after anything else. *)
SrvUnderstands(p) ==
    /\ p.ep = srv.csEpoch /\ p.seq = srv.seq
    /\ \/ p.t \in {"ignore", "unimplemented"}
       \/ p.t = "app" /\ ~srv.inKex
       \/ p.t = "kexinit" /\ ~srv.inKex /\ srv.state \in {"idle", "kexinit"}
       \/ p.t \in {"gexrequest", "dhinit", "newkeys"} /\ srv.state = p.t

SrvTakes(new, messages) ==
    LET p == Head(toServer) IN
    /\ toServer' = Tail(toServer)
    /\ srv' = IF SrvUnderstands(p) THEN [new EXCEPT !.seq = (@ + 1) % SequenceMod]
              ELSE [srv EXCEPT !.ok = FALSE]
    /\ toClient' = toClient \o messages
    /\ UNCHANGED <<ssh, app, used>>

SrvReceive ==
    /\ srv.state # "gone" /\ srv.ok /\ toServer # <<>>
    /\ LET p == Head(toServer)
           began == [srv EXCEPT !.inKex = TRUE]
       IN  \/ p.t \in {"ignore", "unimplemented"} /\ SrvTakes(srv, <<>>)
           \/ p.t = "app" /\ SrvTakes([srv EXCEPT !.got = p.n], <<>>)
           \/ /\ p.t = "kexinit" /\ srv.state = "idle"
              /\ \E o \in Offers :
                     SrvTakes([began EXCEPT !.state = AfterKexinits(o), !.offer = o],
                              Kexinit(srv, o))
           \/ /\ p.t = "kexinit" /\ srv.state # "idle"
              /\ SrvTakes([began EXCEPT !.state = AfterKexinits(srv.offer)], <<>>)
           \/ /\ p.t = "gexrequest"
              /\ SrvTakes([srv EXCEPT !.state = "dhinit"], <<Sent(srv, "group")>>)
           \/ /\ p.t = "dhinit"
              /\ \E good \in BOOLEAN :
                     SrvTakes([srv EXCEPT !.state = "newkeys", !.scEpoch = @ + 1],
                              <<[Sent(srv, "reply") EXCEPT !.good = good],
                                Sent(srv, "newkeys")>>)
           \/ /\ p.t = "newkeys"
              /\ SrvTakes([srv EXCEPT !.state = "idle", !.inKex = FALSE,
                                      !.csEpoch = @ + 1], <<>>)

SrvSays(new, messages) ==
    /\ srv' = new
    /\ toClient' = toClient \o messages
    /\ UNCHANGED <<ssh, toServer, app>>

(* Outside its part of an exchange it may send anything, after the client's *)
(* SERVICE_REQUEST also what is for the layers above.                       *)
SrvSends ==
    /\ srv.state \in {"idle", "newkeys"} /\ srv.scEpoch > 0 /\ srv.ok
    /\ used.data < MaxSrvData
    /\ \E t \in {"data", "ignore", "unknown", "disconnect"} :
           /\ t = "data" => srv.got > 0
           /\ SrvSays(IF t = "disconnect" THEN [srv EXCEPT !.state = "gone"] ELSE srv,
                      <<Sent(srv, t)>>)
    /\ used' = [used EXCEPT !.data = @ + 1]

SrvRekeys ==
    /\ srv.state = "idle" /\ srv.scEpoch > 0 /\ srv.ok
    /\ \E o \in Offers :
           SrvSays([srv EXCEPT !.state = "kexinit", !.offer = o], Kexinit(srv, o))
    /\ Request

-------------------------------------------------------------------------------

(* do_ssh_init() has called do_ssh2_transport() for the first time: our     *)
(* KEXINIT is on its way.                                                   *)
Init ==
    \E cfg \in Configs, bug \in BOOLEAN :
        LET s == [open |-> TRUE, why |-> "", cr |-> "idle", kex_in_progress |-> FALSE,
                  queueing |-> FALSE, queue |-> <<>>, deferred |-> <<>>, seq |-> 0,
                  csEpoch |-> 0, scEpoch |-> 0, cscipher |-> "none",
                  outgoing_data_size |-> 0, incoming_data_size |-> 0,
                  deferred_rekey_reason |-> FALSE, next_rekey |-> FALSE,
                  protocol_initial_phase_done |-> FALSE, cfg |-> cfg, kexcfg |-> cfg,
                  offer |-> NoOffer, asks |-> 0, stored |-> FALSE, rekeyBug |-> bug]
            start == BeginKeyExchange([s |-> s, w |-> <<>>, a |-> 0])
        IN  /\ \E st \in {start} : ssh = st.s /\ toServer = st.w /\ app = st.a
            /\ toClient = <<>>
            /\ srv = [state |-> "idle", inKex |-> FALSE, csEpoch |-> 0, scEpoch |-> 0, seq |-> 0,
                      offer |-> NoOffer, got |-> 0, ok |-> TRUE]
            /\ used = [data |-> 0, requests |-> 0]

Next ==
    \/ Receive \/ (\E store \in BOOLEAN : Accept(store)) \/ Refuse
    \/ AppSends \/ Ping \/ UserRekeys \/ Timer \/ Reconfig
    \/ SrvReceive \/ SrvSends \/ SrvRekeys

Spec == Init /\ [][Next]_vars

(* The connection delivers, the server answers what it is sent, and the     *)
(* user answers dialogues.                                                  *)
Fairness ==
    /\ WF_vars(Receive) /\ WF_vars(SrvReceive)
    /\ WF_vars(Refuse \/ \E store \in BOOLEAN : Accept(store))

FairSpec == Spec /\ Fairness

-------------------------------------------------------------------------------

(* Whatever happens during an exchange - pings, forwarded data, a second    *)
(* reason for an exchange, the server's own KEXINIT - each side always      *)
(* reads the other's packets with the keys and at the place in the stream   *)
(* they were made for, and finds only what the protocol allows there.       *)
PeersUnderstandEachOther == srv.ok /\ ssh.why # "protocol"

(* What the layers above have sent and the server has not got, written,     *)
(* deferred or held back, with whatever goes between. *)
Line == toServer \o ssh.deferred \o ssh.queue

Apps(q) == {i \in 1 .. Len(q) : q[i].t = "app"}
Numbers(q) == {q[i].n : i \in Apps(q)}
Ascending(q) == \A i, j \in Apps(q) : i < j => q[i].n < q[j].n

(* The packets of the layers above go out once each and in the order they   *)
(* were sent in, whether written, deferred or held back for an exchange.    *)
(* When the connection is given up, what is held back is lost; what has     *)
(* been written still arrives, and none of it after a packet that does not. *)
AppInOrder ==
    /\ ssh.open => Numbers(Line) = srv.got + 1 .. app /\ Ascending(Line)
    /\ Ascending(toServer)
    /\ \A n \in Numbers(toServer) :
           n \in srv.got + 1 .. app /\ srv.got + 1 .. n \subseteq Numbers(toServer)

(* What a transport that is not seen inside has of this: the packets that   *)
(* will arrive, and the keys of each end while the client is there.         *)
Waiting == Numbers(IF ssh.open THEN Line ELSE toServer)
Ends(out, in) == IF ssh.open THEN [out |-> out, in |-> in] ELSE [out |-> 0, in |-> 0]

Promised == INSTANCE PacketTransport WITH
    up <- ssh.open, sent <- app, received <- srv.got, waiting <- Waiting,
    client <- Ends(ssh.csEpoch, ssh.scEpoch), server <- Ends(srv.scEpoch, srv.csEpoch)

(* The transport keeps the promises of PacketTransport: every step of either *)
(* side, with all the packets, queues and dialogues of key exchanges, is one *)
(* of its steps or is not seen there.                                       *)
ImplementsPacketTransport == Promised!Spec

(* Between exchanges there is always a timer for the next one, if there is  *)
(* to be one: it is not lost in an exchange that was asked for otherwise,   *)
(* in a change of the configuration, or with a server that is not asked.    *)
RekeyTimerIsSet ==
    ssh.open /\ ~ssh.kex_in_progress /\ ssh.cfg.ssh_rekey_time # 0 => ssh.next_rekey

Over == ~ssh.open \/ srv.state = "gone"

(* What the layers above send reaches the server: no exchange holds it back *)
(* for ever.                                                                *)
AppIsReceived == \A n \in 1 .. MaxApp : app >= n ~> srv.got >= n \/ Over

(* A change of the preferred cipher is acted on, also when it comes in the  *)
(* middle of an exchange: the packets come to be encrypted by the new one   *)
(* (if it is not changed again, and the server allows another exchange).    *)
CipherIsAsConfigured ==
    \A c \in Ciphers :
        ssh.cfg.cipher = c /\ ~ssh.rekeyBug ~> ssh.cscipher = c \/ ssh.cfg.cipher # c \/ Over
===============================================================================
