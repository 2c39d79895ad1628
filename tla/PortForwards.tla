----------------------------- MODULE PortForwards -----------------------------
(***************************************************************************)
(* The forwardings of ports: src/engine/putty/ssh.c.                        *)
(*                                                                         *)
(* ssh_setup_portfwd() brings what is forwarded into line with a            *)
(* configuration, at the start and whenever the user changes it: it closes  *)
(* and opens listeners, and asks the server to listen.  The server's        *)
(* replies name no request; a queue of handlers says whose turn it is.  In  *)
(* SSH-1 the replies to the requests of do_ssh1_connection() itself are the *)
(* same packets.                                                            *)
(*                                                                         *)
(* "fault" says what the program has done that it must not do, and nothing  *)
(* happens after it: the model says where these things happen, and the      *)
(* properties are about everything else.                                    *)
(***************************************************************************)
EXTENDS Integers, Sequences

CONSTANTS
    Forwardings,  \* what may be configured, in the order of ssh_portcmp()
    Repeatable,   \* bound: those that a configuration may name twice
    Versions,     \* of the protocol: 1, 2
    MaxSetups     \* bound: configurations, with the first one

Index == DOMAIN Forwardings
Types == {"D", "L", "R"}

ASSUME PortForwardsAssumption ==
    /\ Forwardings \in Seq([type : Types, sport : Nat, dest : Nat])
    /\ Repeatable \subseteq Index
    /\ Versions \subseteq {1, 2}
    /\ MaxSetups \in Nat \ {0}

VARIABLES
    version,    \* ssh->version
    cr,         \* what do_ssh1_connection() waits for
    pf,         \* the forwardings' state, see Forwarders
    toServer,   \* packets on their way to the server
    toClient,   \* packets on their way from the server
    listening,  \* the forwardings the server listens for
    setups,     \* how often ssh_setup_portfwd() was called
    early,      \* history, for the properties only: see Reconfig
    fault

vars == <<version, cr, pf, toServer, toClient, listening, setups, early, fault>>

-------------------------------------------------------------------------------

(* pf.wanted: the configuration; pf.fwds: ssh->portfwds, a record for each  *)
(* forwarding; pf.rpfs: what ssh_rportfwds there have been, with what they  *)
(* are for; pf.tree: ssh->rportfwds; pf.freed: those that have been freed;  *)
(* pf.queue: the contexts of the queued handlers, from qhead to qtail;      *)
(* pf.open: the connection is.                                              *)
NoForward == [status |-> "none", local |-> FALSE, remote |-> 0]

Forwards ==
    [status : {"none", "DESTROY", "KEEP", "CREATE"}, local : BOOLEAN, remote : Nat]

Forwarders ==
    [wanted : SUBSET Index, fwds : [Index -> Forwards], rpfs : Seq(Index),
     tree : SUBSET Nat, freed : SUBSET Nat, queue : Seq(Nat), open : BOOLEAN]

Waits == {"pty", "compression", "session"}

(* Whose a request is: a queued handler's, with its context, or the         *)
(* connection's own.  A reply carries it for the properties only.           *)
Handlers == {"handler"} \X Nat
Connections == Waits \X {0}
Owner == Handlers \cup Connections
Handler(r) == <<"handler", r>>

Replies == [t : {"success", "failure"}, to : Owner]

Requests ==
    [t : {"request"}, of : Index, to : Handlers] \cup [t : {"cancel"}, of : Index]
        \cup [t : {"ask"}, to : Connections]

TypeOK ==
    /\ version \in Versions
    /\ cr \in Waits
    /\ pf \in Forwarders
    /\ toServer \in Seq(Requests)
    /\ toClient \in Seq(Replies)
    /\ listening \subseteq Index
    /\ setups \in 1 .. MaxSetups
    /\ early \in BOOLEAN
    /\ fault \in {"none", "reply", "freed", "channels"}

(* A definition with "Faulty" in its name is the one below it with a        *)
(* plausible mistake made in it, for the properties to find.                *)

-------------------------------------------------------------------------------
(* ssh_setup_portfwd().  Its steps are operators on a state of pf, the      *)
(* packets it sends, and the fault it runs into.                            *)

(* ssh_rportcmp_ssh1(), ssh_rportcmp_ssh2(): two requests are the same.     *)
SameRemote(i, j) ==
    IF version = 1
    THEN Forwardings[i].dest = Forwardings[j].dest
    ELSE Forwardings[i].sport = Forwardings[j].sport

TaggedFaultyUntouched(p, cfg, twice) ==
    [p EXCEPT !.wanted = cfg,
              !.fwds = [i \in Index |->
                  IF p.fwds[i].status = "none" /\ i \in cfg
                  THEN [p.fwds[i] EXCEPT !.status = IF i \in twice THEN "KEEP" ELSE "CREATE"]
                  ELSE p.fwds[i]]]

(* DESTROY what there is, KEEP what is configured again, CREATE the rest.   *)
(* What a configuration names for the second time is there already: it is   *)
(* to be KEPT, and it is not created.                                       *)
Tagged(p, cfg, twice) ==
    [p EXCEPT !.wanted = cfg,
              !.fwds = [i \in Index |->
                  [p.fwds[i] EXCEPT !.status =
                      IF i \notin cfg
                      THEN IF p.fwds[i].status = "none" THEN "none" ELSE "DESTROY"
                      ELSE IF p.fwds[i].status = "none" /\ i \notin twice THEN "CREATE"
                      ELSE "KEEP"]]]

CancelRemoteFaultySilent(st, i) ==
    LET r == st.p.fwds[i].remote
    IN  IF r \in st.p.freed
        THEN [st EXCEPT !.fault = "freed"]
        ELSE [st EXCEPT !.p.tree = @ \ {r}, !.p.freed = @ \cup {r}]

(* The request is cancelled at the server, where the protocol can do that,  *)
(* and forgotten.                                                           *)
CancelRemote(st, i) ==
    LET r == st.p.fwds[i].remote
    IN  IF r \in st.p.freed
        THEN [st EXCEPT !.fault = "freed"]
        ELSE [st EXCEPT !.p.tree = @ \ {r}, !.p.freed = @ \cup {r},
                        !.out = IF version = 1 THEN @
                                ELSE Append(@, [t |-> "cancel", of |-> i])]

Destroy(st, i) ==
    IF st.p.fwds[i].status # "DESTROY" THEN st
    ELSE [(IF st.p.fwds[i].remote # 0 THEN CancelRemote(st, i) ELSE st)
             EXCEPT !.p.fwds[i] = NoForward]

(* pfd_addforward(): "busy" are the ports other programs listen on. *)
AddForward(st, i, busy) ==
    LET taken == busy \cup {Forwardings[j].sport : j \in {k \in Index : st.p.fwds[k].local}}
    IN  [st EXCEPT !.p.fwds[i].local = Forwardings[i].sport \notin taken]

QueueHandlerFaultyFirst(queue, ctx) == <<ctx>> \o queue

(* ssh_queue_handler() *)
QueueHandler(queue, ctx) == Append(queue, ctx)

RequestRemote(st, i) ==
    LET r == Len(st.p.rpfs) + 1
        duplicate == \E q \in st.p.tree : SameRemote(i, st.p.rpfs[q])
    IN  IF duplicate THEN st
        ELSE [st EXCEPT !.p.rpfs = Append(@, i), !.p.tree = @ \cup {r},
                        !.p.fwds[i].remote = r,
                        !.p.queue = QueueHandler(@, r),
                        !.out = Append(@, [t |-> "request", of |-> i, to |-> Handler(r)])]

Create(st, i, busy) ==
    IF st.p.fwds[i].status # "CREATE" THEN st
    ELSE IF Forwardings[i].type = "R" THEN RequestRemote(st, i)
    ELSE AddForward(st, i, busy)

(* Both loops, forwarding by forwarding. *)
Setup(p, cfg, twice, busy) ==
    LET n == Len(Forwardings)
        start == [p |-> Tagged(p, cfg, twice), out |-> <<>>, fault |-> "none"]
        destroyed[i \in 0 .. n] ==
            IF i = 0 THEN start ELSE Destroy(destroyed[i - 1], i)
        created[i \in 0 .. n] ==
            IF i = 0 THEN destroyed[n] ELSE Create(created[i - 1], i, busy)
    IN  created[n]

Ports == {Forwardings[i].sport : i \in Index}

-------------------------------------------------------------------------------
(* The program                                                              *)

Ask(what) == [t |-> "ask", to |-> <<what, 0>>]

(* The forwardings of the first configuration are set up, and in SSH-1 the  *)
(* request for a terminal is sent.                                          *)
Init ==
    /\ version \in Versions
    /\ cr = IF version = 1 THEN "pty" ELSE "session"
    /\ \E cfg \in SUBSET Index : \E twice \in SUBSET (cfg \cap Repeatable), busy \in {{}, Ports} :
         LET none == [wanted |-> {}, fwds |-> [i \in Index |-> NoForward], rpfs |-> <<>>,
                      tree |-> {}, freed |-> {}, queue |-> <<>>, open |-> TRUE]
             st == Setup(none, cfg, twice, busy)
         IN  /\ pf = st.p
             /\ toServer = st.out \o IF version = 1 THEN <<Ask("pty")>> ELSE <<>>
             /\ fault = st.fault
    /\ toClient = <<>>
    /\ listening = {}
    /\ setups = 1
    /\ early = FALSE

Alive == pf.open /\ fault = "none"

(* The server may still reply to one of do_ssh1_connection()'s own requests. *)
Awaited ==
    \/ \E i \in 1 .. Len(toServer) : toServer[i].t = "ask"
    \/ \E i \in 1 .. Len(toClient) : toClient[i].to[1] # "handler"

(* ssh_reconfig(), at any time.  It does not look whether Awaited; "early"  *)
(* remembers that it has sent requests then.                                *)
Reconfig ==
    /\ Alive /\ setups < MaxSetups
    /\ \E cfg \in SUBSET Index : \E twice \in SUBSET (cfg \cap Repeatable), busy \in {{}, Ports} :
       \E st \in {Setup(pf, cfg, twice, busy)} :
          /\ pf' = st.p
          /\ toServer' = toServer \o st.out
          /\ fault' = st.fault
          /\ early' = (early \/ (Awaited /\ st.out # <<>>))
    /\ setups' = setups + 1
    /\ UNCHANGED <<version, cr, toClient, listening>>

Incoming == Alive /\ toClient # <<>>

(* ssh_rportfwd_succfail().  A refused request is freed; its forwarding     *)
(* still points to it.                                                      *)
SuccFail(r, reply) ==
    IF r \in pf.freed
    THEN pf' = [pf EXCEPT !.queue = Tail(@)] /\ fault' = "freed"
    ELSE /\ pf' = IF reply.t = "success"
                  THEN [pf EXCEPT !.queue = Tail(@)]
                  ELSE [pf EXCEPT !.queue = Tail(@), !.tree = @ \ {r}, !.freed = @ \cup {r}]
         /\ fault' = IF reply.to = Handler(r) THEN "none" ELSE "reply"

(* ssh_queueing_handler(), which is in the dispatch table while there are   *)
(* queued handlers.                                                         *)
QueueingHandler ==
    /\ Incoming
    /\ pf.queue # <<>>
    /\ SuccFail(Head(pf.queue), Head(toClient))
    /\ toClient' = Tail(toClient)
    /\ UNCHANGED <<version, cr, toServer, listening, setups, early>>

(* do_ssh1_connection() goes on.  Compression is asked for or not. *)
Connection ==
    /\ Incoming
    /\ pf.queue = <<>>
    /\ \/ /\ cr = "pty"
          /\ \/ cr' = "compression" /\ toServer' = Append(toServer, Ask("compression"))
             \/ cr' = "session" /\ toServer' = Append(toServer, Ask("session"))
       \/ cr = "compression" /\ cr' = "session" /\ toServer' = Append(toServer, Ask("session"))
       \/ cr = "session" /\ UNCHANGED <<cr, toServer>>
    /\ fault' = IF Head(toClient).to[1] = cr THEN "none" ELSE "reply"
    /\ toClient' = Tail(toClient)
    /\ UNCHANGED <<version, pf, listening, setups, early>>

(* pfd_accepting(): an application connects.  Before the session,           *)
(* do_ssh1_connection() has not made the tree of channels yet.              *)
Accepting ==
    /\ Alive
    /\ cr # "session"
    /\ \E i \in Index : pf.fwds[i].local
    /\ fault' = "channels"
    /\ UNCHANGED <<version, cr, pf, toServer, toClient, listening, setups, early>>

(* ssh_do_close() *)
Close ==
    /\ Alive
    /\ pf' = [pf EXCEPT !.open = FALSE, !.fwds = [i \in Index |-> NoForward]]
    /\ UNCHANGED <<version, cr, toServer, toClient, listening, setups, early, fault>>

(* ssh_free(): with more than one handler queued, the list is read after it *)
(* has been freed.                                                          *)
Free ==
    /\ ~pf.open /\ fault = "none"
    /\ fault' = IF Len(pf.queue) > 1 THEN "freed" ELSE "none"
    /\ pf' = [pf EXCEPT !.queue = <<>>, !.freed = @ \cup pf.tree, !.tree = {}]
    /\ UNCHANGED <<version, cr, toServer, toClient, listening, setups, early>>
-------------------------------------------------------------------------------
(* The server: it listens if it will and if the port is free.               *)

SamePort(i, j) == Forwardings[i].sport = Forwardings[j].sport

SrvReplies(t, to) == toClient' = Append(toClient, [t |-> t, to |-> to])

SrvListens(m) ==
    \/ /\ ~ \E j \in listening : SamePort(m.of, j)
       /\ listening' = listening \cup {m.of}
       /\ SrvReplies("success", m.to)
    \/ SrvReplies("failure", m.to) /\ UNCHANGED listening

(* The reply to the request for a shell is left out by most servers. *)
SrvAnswers(m) ==
    /\ \/ \E t \in {"success", "failure"} : SrvReplies(t, m.to)
       \/ m.to[1] = "session" /\ UNCHANGED toClient
    /\ UNCHANGED listening

SrvTakes ==
    /\ Alive /\ toServer # <<>>
    /\ toServer' = Tail(toServer)
    /\ LET m == Head(toServer) IN
       \/ m.t = "request" /\ SrvListens(m)
       \/ m.t = "ask" /\ SrvAnswers(m)
       \/ /\ m.t = "cancel"
          /\ listening' = {j \in listening : ~SamePort(m.of, j)}
          /\ UNCHANGED toClient
    /\ UNCHANGED <<version, cr, pf, setups, early, fault>>

-------------------------------------------------------------------------------

Next == Reconfig \/ QueueingHandler \/ Connection \/ Accepting \/ Close \/ Free \/ SrvTakes

Spec == Init /\ [][Next]_vars

-------------------------------------------------------------------------------
(* Properties                                                               *)

(* Replies carry no name of their request; each goes to the one it answers, *)
(* be it queued or one that do_ssh1_connection() waits for, however setting *)
(* up, replies and the connection's own requests are interleaved, with one  *)
(* exception: in SSH-1, ssh_reconfig() has asked for a remote forwarding    *)
(* while do_ssh1_connection() was owed a reply.  The handlers come first,   *)
(* so one of them takes that reply.  In SSH-2 there is no exception.        *)
RepliesMatch == fault = "reply" => early /\ version = 1

(* Forwardings are those of the last configuration: nothing else is         *)
(* listened for here or known as a request, each request known belongs to   *)
(* one forwarding, and no port has two listeners.                           *)
ForwardsAsConfigured ==
    Alive =>
        /\ \A i \in Index : pf.fwds[i].status # "none" <=> i \in pf.wanted
        /\ \A r \in pf.tree : pf.fwds[pf.rpfs[r]].remote = r
        /\ \A i, j \in Index :
              pf.fwds[i].local /\ pf.fwds[j].local /\ SamePort(i, j) => i = j

Requested == {pf.rpfs[r] : r \in pf.tree}

(* When all is answered, the server listens for what has been requested and *)
(* not refused or cancelled, and in SSH-2 for nothing else.                 *)
ServerAgrees ==
    Alive /\ toServer = <<>> /\ toClient = <<>> =>
        /\ pf.queue = <<>>
        /\ Requested \subseteq listening
        /\ version = 2 => listening \subseteq Requested
===============================================================================
