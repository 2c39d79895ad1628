------------------------------ MODULE PuttyEngine -----------------------------
(***************************************************************************)
(* The life of a connection as the engine sees it (CPuttyEngineImp,         *)
(* src/engine/puttyengineimp.cpp), with the bookkeeping of sockets it rests *)
(* on (src/engine/puttysymbian/epocnet.cpp): the tree of sockets ordered by *)
(* id, the counter of the socket watcher, sk_init() and sk_cleanup().       *)
(*                                                                         *)
(* The engine learns that a connection is over from its sockets: when the   *)
(* last one has been closed it completes its own request, and RunL(), at    *)
(* the next turn of the active scheduler, tears everything down and tells   *)
(* the client.  A socket closed while it has data to send is only marked    *)
(* ("killing") and is closed by its CSender when the data is gone; EpocNet  *)
(* describes that part in detail.                                           *)
(***************************************************************************)
EXTENDS Integers, FiniteSets, SequencesExt

CONSTANTS
    Sock,              \* the Socket_tag structures, each used once
    MayFail,           \* whether sk_new(), sk_newlistener(), Send() may fail
    MayListen,         \* whether there are port forwarding listeners
    MayWait,           \* whether sockets are closed with data outstanding
    MaxConnects        \* bound: calls of Connect()

ASSUME PuttyEngineAssumption ==
    /\ IsFiniteSet(Sock)
    /\ {MayFail, MayListen, MayWait} \subseteq BOOLEAN
    /\ MaxConnects \in Nat

VARIABLES
    iState,       \* TState of the engine; "none" when it has been deleted
    iNumSockets,  \* the engine's count of open sockets
    pending,      \* the engine has completed its own request
    netUp,        \* net_state # NULL
    iSocketTree,  \* the sockets in the tree
    iNextId,      \* the id of the next socket
    socket,       \* what the sockets are
    fault,        \* an assertion or a NULL pointer that was hit
    connects,     \* history: number of calls of Connect()
    cut           \* history: the client has called Disconnect()

vars == <<iState, iNumSockets, pending, netUp, iSocketTree, iNextId, socket,
          fault, connects, cut>>

net == <<netUp, iSocketTree, iNextId>>

-------------------------------------------------------------------------------

(* "failed": sk_new() returned it with an error.  "stuck": being killed,    *)
(* but its Send() has failed.  "owned": the backend closes the socket when  *)
(* it is freed.  It does not do so for a connection that a listener has     *)
(* accepted as long as its channel is dormant (or, for SOCKS, not there).   *)
(* "acceptId": the id the listener's CAcceptor gives to the next socket.    *)
Sockets ==
    [phase : {"unused", "failed", "open", "killing", "stuck", "closed"},
     role : {"main", "forward", "listener"},
     id : Nat, owned : BOOLEAN, acceptId : Nat]

TypeOK ==
    /\ iState \in {"none", "initialized", "connected", "disconnected"}
    /\ iNumSockets \in Int
    /\ pending \in BOOLEAN
    /\ netUp \in BOOLEAN
    /\ iSocketTree \in SUBSET Sock
    /\ iNextId \in Nat
    /\ socket \in [Sock -> Sockets]
    /\ fault \in SUBSET {"assert", "active", "null"}
    /\ connects \in Nat
    /\ cut \in BOOLEAN

Init ==
    /\ iState = "initialized"
    /\ iNumSockets = 0
    /\ pending = FALSE
    /\ netUp = FALSE
    /\ iSocketTree = {}
    /\ iNextId = 0
    /\ socket = [s \in Sock |->
                    [phase |-> "unused", role |-> "main", id |-> 0,
                     owned |-> FALSE, acceptId |-> 0]]
    /\ fault = {}
    /\ connects = 0
    /\ cut = FALSE

-------------------------------------------------------------------------------

Open(s) == socket[s].phase = "open"
Waiting(s) == socket[s].phase \in {"killing", "stuck"}
Live(s) == Open(s) \/ Waiting(s)

(* The SSH connection, or the only socket of another backend, is open. *)
MainOpen ==
    /\ iState = "connected"
    /\ fault = {}
    /\ \E s \in Sock : Open(s) /\ socket[s].role = "main"

(* Sets of sockets that may have data outstanding when they are closed. *)
Outstanding ==
    IF MayWait
    THEN SUBSET {s \in Sock : Open(s) /\ socket[s].role # "listener"}
    ELSE {{}}

(* add234() with cmpfortree(): nothing is added if the id is in the tree. *)
Added(tree, sockets, s) ==
    IF \E t \in tree : sockets[t].id = sockets[s].id THEN tree ELSE tree \cup {s}

(* Each definition whose name has "Faulty" in it is the one that follows it *)
(* with a plausible mistake made in it: the mistakes that the properties at *)
(* the end of the module are there to find.                                 *)
RemovedFaultyKillingStays(tree, s) ==
    {t \in tree : socket[t].id # socket[s].id \/ Waiting(s)}

(* del234() with cmpfortree(): deletes the entry that has the id of s. *)
Removed(tree, s) == {t \in tree : socket[t].id # socket[s].id}

(* sk_close() on each of the sockets of "set", of which "data" have data to *)
(* send: those that have some, and are not being killed yet, are marked.    *)
Closed(set, data) ==
    [s \in Sock |->
        IF s \notin set THEN socket[s]
        ELSE [socket[s] EXCEPT
                !.phase = IF s \in data /\ ~Waiting(s) THEN "killing" ELSE "closed"]]

GoneFaultyMarkedToo(set, data) == set

(* Those of "set" that sk_close() really closes. *)
Gone(set, data) == {s \in set : s \notin data \/ Waiting(s)}

CountdownFaultyNoSignal(n) ==
    /\ iNumSockets' = iNumSockets - n
    /\ IF iState = "connected" /\ iNumSockets > 0 /\ iNumSockets - n <= 0
       THEN iState' = "disconnected" /\ UNCHANGED <<pending, fault>>
       ELSE UNCHANGED <<iState, pending, fault>>

(* SocketClosed(), called n times. *)
Countdown(n) ==
    /\ iNumSockets' = iNumSockets - n
    /\ IF iState = "connected" /\ iNumSockets > 0 /\ iNumSockets - n <= 0
       THEN /\ iState' = "disconnected"
            /\ pending' = TRUE
            /\ fault' = IF pending THEN fault \cup {"active"} ELSE fault
       ELSE UNCHANGED <<iState, pending, fault>>

(* sk_close() by the plugs of the sockets in "set". *)
CloseSet(set, data) ==
    /\ socket' = Closed(set, data)
    /\ iSocketTree' =
         {t \in iSocketTree : \A s \in Gone(set, data) : t \in Removed(iSocketTree, s)}
    /\ Countdown(Cardinality(Gone(set, data)))
    /\ UNCHANGED <<netUp, iNextId, connects, cut>>

-------------------------------------------------------------------------------
(* Teardown                                                                 *)

(* The sockets that sk_cleanup() finds, by position in the tree: closing    *)
(* the one at position i moves its successor to position i, which the loop  *)
(* then passes over.  "data": see Closed.                                   *)
Swept(tree, data) ==
    LET at == SetToSortSeq(tree, LAMBDA s, t : socket[s].id < socket[t].id)
        stays(s) == s \in data /\ ~Waiting(s)
        removed[k \in 0 .. Len(at)] ==
            k > 0 /\ ~removed[k - 1] /\ ~stays(at[k])
    IN  {at[k] : k \in {j \in 1 .. Len(at) : ~removed[j - 1]}}

(* The sockets that the backend closes when it is freed (ssh_free()), or    *)
(* when the SSH connection ends (ssh_do_close()).                           *)
Owned == {s \in Sock : Open(s) /\ socket[s].owned}

(* CPuttyEngineImp::Disconnect(): frees the backend with the watcher still  *)
(* set, then sk_cleanup() without it.  A socket that the backend has just   *)
(* marked is closed for good if sk_cleanup() comes to it.                   *)
Teardown(data) ==
    LET byBackend == Gone(Owned, data)
        tree == {t \in iSocketTree : \A s \in byBackend : t \in Removed(iSocketTree, s)}
        swept == Swept(tree, data \ Owned)
    IN  /\ socket' = [s \in Sock |->
                        IF s \in Owned \cap swept
                        THEN [socket[s] EXCEPT !.phase = "closed"]
                        ELSE Closed(Owned \cup swept, data)[s]]
        /\ iNumSockets' = iNumSockets - Cardinality(byBackend)
        /\ iSocketTree' = {}
        /\ netUp' = FALSE
        /\ UNCHANGED <<iNextId, connects>>

(* Whether closing the backend's sockets makes SocketClosed() complete the  *)
(* engine's request.                                                        *)
CompletesItself(data) ==
    /\ iState = "connected"
    /\ iNumSockets > 0
    /\ iNumSockets <= Cardinality(Gone(Owned, data))

-------------------------------------------------------------------------------
(* The client's calls                                                       *)

(* Connect() succeeds: a new network state, with one socket. *)
Connect(s) ==
    /\ iState = "initialized" /\ fault = {}
    /\ socket[s].phase = "unused"
    /\ connects < MaxConnects
    /\ connects' = connects + 1
    /\ iState' = "connected"
    /\ iNumSockets' = 1
    /\ netUp' = TRUE
    /\ iNextId' = 2
    /\ iSocketTree' = {s}
    /\ socket' = [socket EXCEPT ![s] =
                    [@ EXCEPT !.phase = "open", !.role = "main", !.id = 1,
                              !.owned = TRUE]]
    /\ UNCHANGED <<pending, fault, cut>>

(* Connect() fails: connect_to_host() closes the socket it got from         *)
(* sk_new(), and the network state goes again.                              *)
ConnectFails(s) ==
    /\ MayFail
    /\ iState = "initialized" /\ fault = {}
    /\ socket[s].phase = "unused"
    /\ connects < MaxConnects
    /\ connects' = connects + 1
    /\ iNumSockets' = 0
    /\ netUp' = FALSE
    /\ iNextId' = 2
    /\ iSocketTree' = {}
    /\ socket' = [socket EXCEPT ![s].phase = "closed", ![s].id = 1]
    /\ UNCHANGED <<iState, pending, fault, cut>>

(* MPuttyEngine::Disconnect() called by the client. *)
Disconnect ==
    /\ iState \in {"connected", "disconnected"} /\ fault = {}
    /\ \E data \in Outstanding :
          /\ Teardown(data)
          /\ pending' = (pending \/ CompletesItself(data))
          /\ fault' = IF pending /\ CompletesItself(data) THEN {"active"} ELSE {}
    /\ iState' = "initialized"
    /\ cut' = TRUE

(* The destructor: it cancels the engine's own request. *)
Delete ==
    /\ iState # "none" /\ fault = {}
    /\ IF iState = "initialized"
       THEN UNCHANGED <<iNumSockets, net, socket, fault, connects>>
       ELSE \E data \in Outstanding :
               /\ Teardown(data)
               /\ fault' = IF pending /\ CompletesItself(data) THEN {"active"} ELSE {}
    /\ iState' = "none"
    /\ pending' = FALSE
    /\ UNCHANGED cut

(* The client makes another engine (the S80 user interface, to reconnect). *)
NewEngine ==
    /\ iState = "none" /\ fault = {}
    /\ connects < MaxConnects
    /\ iState' = "initialized"
    /\ iNumSockets' = 0
    /\ cut' = FALSE
    /\ UNCHANGED <<pending, net, socket, fault, connects>>

-------------------------------------------------------------------------------
(* The engine's own event                                                   *)

RunLFaultyKeepsState ==
    /\ pending /\ fault = {}
    /\ pending' = FALSE
    /\ IF iState = "disconnected"
       THEN /\ \E data \in Outstanding : Teardown(data)
            /\ UNCHANGED <<iState, fault>>
       ELSE /\ fault' = {"assert"}
            /\ UNCHANGED <<iState, iNumSockets, net, socket, connects>>
    /\ UNCHANGED cut

RunL ==
    /\ pending /\ fault = {}
    /\ pending' = FALSE
    /\ IF iState = "disconnected"
       THEN /\ \E data \in Outstanding : Teardown(data)
            /\ iState' = "initialized"
            /\ UNCHANGED fault
       ELSE /\ fault' = {"assert"}
            /\ UNCHANGED <<iState, iNumSockets, net, socket, connects>>
    /\ UNCHANGED cut

-------------------------------------------------------------------------------
(* Sockets come and go                                                      *)

(* pfd_newconnect() or x11_init(), on a request of the server: a socket     *)
(* that fails is dropped without being closed.                              *)
NewConnection(s) ==
    /\ MainOpen
    /\ socket[s].phase = "unused"
    /\ iNumSockets' = iNumSockets + 1
    /\ iNextId' = iNextId + 1
    /\ \/ /\ socket' = [socket EXCEPT ![s] =
                          [@ EXCEPT !.phase = "open", !.role = "forward",
                                    !.id = iNextId, !.owned = TRUE]]
          /\ iSocketTree' = Added(iSocketTree, socket', s)
       \/ /\ MayFail
          /\ socket' = [socket EXCEPT ![s].phase = "failed", ![s].id = iNextId]
          /\ UNCHANGED iSocketTree
    /\ UNCHANGED <<iState, pending, netUp, fault, connects, cut>>

(* pfd_addforward(): a listener, whose CAcceptor is started at once. *)
NewListener(s) ==
    /\ MayListen
    /\ MainOpen
    /\ socket[s].phase = "unused"
    /\ iNumSockets' = iNumSockets + 1
    /\ iNextId' = iNextId + 1
    /\ \/ /\ socket' = [socket EXCEPT ![s] =
                          [@ EXCEPT !.phase = "open", !.role = "listener",
                                    !.id = iNextId, !.owned = TRUE,
                                    !.acceptId = iNextId']]
          /\ iSocketTree' = Added(iSocketTree, socket', s)
       \/ /\ MayFail
          /\ socket' = [socket EXCEPT ![s].phase = "failed", ![s].id = iNextId]
          /\ UNCHANGED iSocketTree
    /\ UNCHANGED <<iState, pending, netUp, fault, connects, cut>>

(* CAcceptor::DoRunL(), pfd_accepting() and sk_register(): the socket has   *)
(* the id that was next when the acceptor was started, and nothing uses it  *)
(* up.  The next one is prepared in the same way.                           *)
Accept(l, s) ==
    /\ iState = "connected" /\ fault = {}
    /\ Open(l) /\ socket[l].role = "listener"
    /\ socket[s].phase = "unused"
    /\ iNumSockets' = iNumSockets + 1
    /\ socket' = [socket EXCEPT
                    ![s] = [@ EXCEPT !.phase = "open", !.role = "forward",
                                     !.id = socket[l].acceptId, !.owned = FALSE],
                    ![l].acceptId = iNextId]
    /\ iSocketTree' = Added(iSocketTree, socket', s)
    /\ UNCHANGED <<iState, pending, netUp, iNextId, fault, connects, cut>>

(* The server confirms the channel of an accepted connection: it is no      *)
(* longer CHAN_SOCKDATA_DORMANT.                                            *)
Adopt(s) ==
    /\ MainOpen
    /\ Open(s) /\ ~socket[s].owned
    /\ socket' = [socket EXCEPT ![s].owned = TRUE]
    /\ UNCHANGED <<iState, iNumSockets, pending, net, fault, connects, cut>>

(* One forwarded connection, or one listener, is closed. *)
CloseOne(s) ==
    /\ iState = "connected" /\ fault = {}
    /\ Open(s) /\ socket[s].role # "main"
    /\ \E data \in Outstanding : data \subseteq {s} /\ CloseSet({s}, data)

(* The SSH connection ends: ssh_do_close() closes all that ssh knows. *)
CloseAll ==
    /\ MainOpen
    /\ \E data \in Outstanding : CloseSet(Owned, data)

(* A socket being killed has sent its data: CSender closes it, whatever has *)
(* become of the network state in the meantime.                             *)
Drained(s) ==
    /\ socket[s].phase = "killing" /\ fault = {}
    /\ IF netUp
       THEN CloseSet({s}, {})
       ELSE /\ fault' = {"null"}
            /\ UNCHANGED <<iState, iNumSockets, pending, net, socket, connects, cut>>

(* Its Send() fails: net_pending_errors(), which would close it, is never   *)
(* called.                                                                  *)
DrainFails(s) ==
    /\ MayFail
    /\ socket[s].phase = "killing" /\ fault = {}
    /\ socket' = [socket EXCEPT ![s].phase = "stuck"]
    /\ UNCHANGED <<iState, iNumSockets, pending, net, fault, connects, cut>>

-------------------------------------------------------------------------------

ClientCall ==
    \/ \E s \in Sock : Connect(s) \/ ConnectFails(s)
    \/ Disconnect
    \/ Delete
    \/ NewEngine

SocketEvent(s) ==
    \/ NewConnection(s)
    \/ NewListener(s)
    \/ \E l \in Sock : Accept(l, s)
    \/ Adopt(s)
    \/ CloseOne(s)
    \/ Drained(s)
    \/ DrainFails(s)

Next ==
    \/ ClientCall
    \/ RunL
    \/ CloseAll
    \/ \E s \in Sock : SocketEvent(s)

(* The active scheduler runs what has completed, and data that is being     *)
(* sent is sent or fails.                                                   *)
Fairness ==
    /\ WF_vars(RunL)
    /\ \A s \in Sock : WF_vars(Drained(s) \/ DrainFails(s))

Spec == Init /\ [][Next]_vars

FairSpec == Spec /\ Fairness

-------------------------------------------------------------------------------
(* Properties                                                               *)

(* Unless the client calls Disconnect(), the engine completes its own       *)
(* request exactly when it goes to EStateDisconnected, and it is in that    *)
(* state when RunL() runs: whatever closes sockets - a plug, a CSender, the *)
(* backend being freed from the destructor - RunL()'s assertions do not     *)
(* fail, and SetActive() is never called on the engine while it is active.  *)
RunLIsExpected ==
    ~cut =>
        /\ pending <=> iState = "disconnected"
        /\ fault \cap {"assert", "active"} = {}

(* The tree never holds a socket that has been freed, even though deletion  *)
(* is by an id that several sockets may share: sk_cleanup() never closes    *)
(* freed memory.                                                            *)
NoDanglingEntries == \A s \in iSocketTree : Live(s)

(* Two entries of the tree never have the same id. *)
TreeIsOrdered ==
    \A s, t \in iSocketTree : socket[s].id = socket[t].id => s = t

(* "Used by the engine to keep track of the number of open sockets."        *)
(* (class MSocketWatcher, epocnet.h)  During an engine's first connection   *)
(* the count is exact but for the sockets that sk_new() returned with an    *)
(* error, which it counts for ever; it is never low, which would end the    *)
(* connection while a socket is alive.                                      *)
CountIsExplained ==
    connects = 1 /\ iState \in {"connected", "disconnected"} =>
        iNumSockets =
            Cardinality({s \in Sock : Live(s) \/ socket[s].phase = "failed"})

(* When the last socket has been closed the client hears of it, unless it   *)
(* deletes the engine first, or a socket has failed: one that failed to     *)
(* open stays counted, and one whose last data cannot be sent stays open.   *)
EndIsReported ==
    (iState = "connected" /\ \A s \in Sock : ~Open(s) /\ socket[s].phase # "failed")
        ~> \/ iState \in {"initialized", "none"}
           \/ \E s \in Sock : socket[s].phase = "stuck"
           \/ fault # {}

(* When the connection to the host has been closed the client hears of it:  *)
(* "Reports that the connection has been closed normally."                  *)
(* (MPuttyClient::ConnectionClosed(), puttyclient.h)                        *)
ClosedIsReported ==
    (/\ iState = "connected"
     /\ \E s \in Sock : socket[s].role = "main" /\ socket[s].phase = "closed"
     /\ ~\E s \in Sock : socket[s].role = "main" /\ Live(s))
        ~> iState \in {"initialized", "none"} \/ fault # {}
===============================================================================
