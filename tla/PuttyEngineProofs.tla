--------------------------- MODULE PuttyEngineProofs ---------------------------
(***************************************************************************)
(* Proofs about PuttyEngine, for any number of sockets and of connections:  *)
(* types, the tree of sockets, and the request that the engine completes    *)
(* itself.                                                                  *)
(***************************************************************************)
EXTENDS PuttyEngine, FiniteSetTheorems, TLAPS

(* The number of sockets that are really closed is a number. *)
LEMMA GoneIsFinite ==
    ASSUME NEW set \in SUBSET Sock, NEW data
    PROVE  /\ Gone(set, data) \subseteq set
           /\ Cardinality(Gone(set, data)) \in Nat
  <1>1. Gone(set, data) \subseteq set
    BY DEF Gone
  <1>2. IsFiniteSet(Gone(set, data))
    BY <1>1, FS_Subset, PuttyEngineAssumption
  <1> QED
    BY <1>1, <1>2, FS_CardinalityType

(* sk_close() makes sockets of sockets. *)
LEMMA ClosedType ==
    ASSUME socket \in [Sock -> Sockets], NEW set, NEW data
    PROVE  Closed(set, data) \in [Sock -> Sockets]
  BY DEF Closed, Sockets

(* So does tearing down the connection; the tree is then empty. *)
LEMMA TeardownType ==
    ASSUME TypeOK, NEW data, Teardown(data)
    PROVE  /\ socket' \in [Sock -> Sockets]
           /\ iNumSockets' \in Int
           /\ iSocketTree' = {}
           /\ netUp' = FALSE
           /\ iNextId' \in Nat
           /\ connects' \in Nat
  <1> DEFINE tree == {t \in iSocketTree : \A s \in Gone(Owned, data) :
                                              t \in Removed(iSocketTree, s)}
             swept == Swept(tree, data \ Owned)
  <1>1. /\ socket' = [s \in Sock |->
                        IF s \in Owned \cap swept
                        THEN [socket[s] EXCEPT !.phase = "closed"]
                        ELSE Closed(Owned \cup swept, data)[s]]
        /\ iNumSockets' = iNumSockets - Cardinality(Gone(Owned, data))
        /\ iSocketTree' = {} /\ netUp' = FALSE
        /\ UNCHANGED <<iNextId, connects>>
    BY DEF Teardown
  <1> HIDE DEF swept
  <1>2. Closed(Owned \cup swept, data) \in [Sock -> Sockets]
    BY ClosedType DEF TypeOK
  <1>3. \A s \in Sock : [socket[s] EXCEPT !.phase = "closed"] \in Sockets
    BY DEF TypeOK, Sockets
  <1>4. socket' \in [Sock -> Sockets]
    BY <1>1, <1>2, <1>3
  <1>5. Owned \in SUBSET Sock
    BY DEF Owned
  <1>6. Cardinality(Gone(Owned, data)) \in Nat
    BY <1>5, GoneIsFinite
  <1>7. iNumSockets' \in Int
    BY <1>1, <1>6 DEF TypeOK
  <1> QED
    BY <1>1, <1>4, <1>7 DEF TypeOK

-------------------------------------------------------------------------------
(* Types                                                                    *)

(* CloseSet and Countdown preserve the types. *)
LEMMA CloseSetType ==
    ASSUME TypeOK, NEW set \in SUBSET Sock, NEW data, CloseSet(set, data)
    PROVE  TypeOK'
  <1>1. socket' \in [Sock -> Sockets]
    BY ClosedType DEF CloseSet, TypeOK
  <1>2. iSocketTree' \in SUBSET Sock
    BY DEF CloseSet, TypeOK
  <1>3. Cardinality(Gone(set, data)) \in Nat
    BY GoneIsFinite
  <1>5. iNumSockets' \in Int
    BY <1>3 DEF CloseSet, Countdown, TypeOK
  <1>4. /\ iState' \in {"none", "initialized", "connected", "disconnected"}
        /\ pending' \in BOOLEAN
        /\ fault' \in SUBSET {"assert", "active", "null"}
    BY DEF CloseSet, Countdown, TypeOK
  <1> QED
    BY <1>1, <1>2, <1>4, <1>5 DEF CloseSet, TypeOK

(* Every action of a socket preserves the types. *)
LEMMA SocketType ==
    ASSUME TypeOK, NEW s \in Sock, SocketEvent(s)
    PROVE  TypeOK'
  <1>1. CASE NewConnection(s)
    <2>1. [socket[s] EXCEPT !.phase = "open", !.role = "forward",
                            !.id = iNextId, !.owned = TRUE] \in Sockets
      BY DEF TypeOK, Sockets
    <2>2. [socket[s] EXCEPT !.phase = "failed", !.id = iNextId] \in Sockets
      BY DEF TypeOK, Sockets
    <2>3. socket' \in [Sock -> Sockets]
      BY <1>1, <2>1, <2>2 DEF NewConnection, TypeOK
    <2> QED
      BY <1>1, <2>3 DEF NewConnection, Added, TypeOK
  <1>2. CASE NewListener(s)
    <2>0. iNextId' \in Nat
      BY <1>2 DEF NewListener, TypeOK
    <2>1. [socket[s] EXCEPT !.phase = "open", !.role = "listener",
                            !.id = iNextId, !.owned = TRUE,
                            !.acceptId = iNextId'] \in Sockets
      BY <2>0 DEF TypeOK, Sockets
    <2>2. [socket[s] EXCEPT !.phase = "failed", !.id = iNextId] \in Sockets
      BY DEF TypeOK, Sockets
    <2>3. socket' \in [Sock -> Sockets]
      BY <1>2, <2>1, <2>2 DEF NewListener, TypeOK
    <2> QED
      BY <1>2, <2>0, <2>3 DEF NewListener, Added, TypeOK
  <1>3. ASSUME NEW l \in Sock, Accept(l, s)
        PROVE  TypeOK'
    <2>1. socket' = [socket EXCEPT
                        ![s] = [@ EXCEPT !.phase = "open", !.role = "forward",
                                         !.id = socket[l].acceptId, !.owned = FALSE],
                        ![l].acceptId = iNextId]
      BY <1>3 DEF Accept
    <2>2. s # l
      BY <1>3 DEF Accept, Open
    <2>3. [socket[s] EXCEPT !.phase = "open", !.role = "forward",
                            !.id = socket[l].acceptId, !.owned = FALSE] \in Sockets
      BY DEF TypeOK, Sockets
    <2>4. [socket[l] EXCEPT !.acceptId = iNextId] \in Sockets
      BY DEF TypeOK, Sockets
    <2>5. socket' \in [Sock -> Sockets]
      BY <2>1, <2>2, <2>3, <2>4 DEF TypeOK
    <2> QED
      BY <1>3, <2>5 DEF Accept, Added, TypeOK
  <1>4. CASE Adopt(s)
    <2>1. [socket[s] EXCEPT !.owned = TRUE] \in Sockets
      BY DEF TypeOK, Sockets
    <2> QED
      BY <1>4, <2>1 DEF Adopt, net, TypeOK
  <1>5. CASE CloseOne(s)
    BY <1>5, CloseSetType DEF CloseOne
  <1>6. CASE Drained(s)
    <2>1. CASE netUp
      BY <1>6, <2>1, CloseSetType DEF Drained
    <2>2. CASE ~netUp
      BY <1>6, <2>2 DEF Drained, net, TypeOK
    <2> QED
      BY <2>1, <2>2
  <1>7. CASE DrainFails(s)
    <2>1. [socket[s] EXCEPT !.phase = "stuck"] \in Sockets
      BY DEF TypeOK, Sockets
    <2> QED
      BY <1>7, <2>1 DEF DrainFails, net, TypeOK
  <1> QED
    BY <1>1, <1>2, <1>3, <1>4, <1>5, <1>6, <1>7 DEF SocketEvent

(* Every call of the client preserves the types. *)
LEMMA ClientType ==
    ASSUME TypeOK, ClientCall
    PROVE  TypeOK'
  <1>1. ASSUME NEW s \in Sock, Connect(s)
        PROVE  TypeOK'
    <2>1. [socket[s] EXCEPT !.phase = "open", !.role = "main", !.id = 1,
                            !.owned = TRUE] \in Sockets
      BY DEF TypeOK, Sockets
    <2>2. socket' \in [Sock -> Sockets]
      BY <1>1, <2>1 DEF Connect, TypeOK
    <2> QED
      BY <1>1, <2>2 DEF Connect, TypeOK
  <1>2. ASSUME NEW s \in Sock, ConnectFails(s)
        PROVE  TypeOK'
    <2>1. [socket[s] EXCEPT !.phase = "closed", !.id = 1] \in Sockets
      BY DEF TypeOK, Sockets
    <2>2. socket' \in [Sock -> Sockets]
      BY <1>2, <2>1 DEF ConnectFails, TypeOK
    <2>3. /\ connects' = connects + 1
          /\ iNumSockets' = 0 /\ netUp' = FALSE /\ iNextId' = 2
          /\ iSocketTree' = {}
          /\ UNCHANGED <<iState, pending, fault, cut>>
      BY <1>2 DEF ConnectFails
    <2>4. iNextId' \in Nat /\ iNumSockets' \in Int /\ connects' \in Nat
      BY <2>3 DEF TypeOK
    <2>5. netUp' \in BOOLEAN /\ iSocketTree' \in SUBSET Sock
      BY <2>3
    <2> QED
      BY <2>2, <2>3, <2>4, <2>5 DEF TypeOK
  <1>3. CASE Disconnect
    <2>1. PICK data \in Outstanding :
             /\ Teardown(data)
             /\ pending' = (pending \/ CompletesItself(data))
             /\ fault' = IF pending /\ CompletesItself(data) THEN {"active"} ELSE {}
      BY <1>3 DEF Disconnect
    <2>2. pending' \in BOOLEAN
      BY <2>1 DEF CompletesItself, TypeOK
    <2> QED
      BY <1>3, <2>1, <2>2, TeardownType DEF Disconnect, TypeOK
  <1>4. CASE Delete
    <2>1. CASE iState = "initialized"
      BY <1>4, <2>1 DEF Delete, net, TypeOK
    <2>2. CASE iState # "initialized"
      <3>1. PICK data \in Outstanding :
               /\ Teardown(data)
               /\ fault' = IF pending /\ CompletesItself(data) THEN {"active"} ELSE {}
        BY <1>4, <2>2 DEF Delete
      <3> QED
        BY <1>4, <3>1, TeardownType DEF Delete, TypeOK
    <2> QED
      BY <2>1, <2>2
  <1>5. CASE NewEngine
    <2>1. /\ iState' = "initialized" /\ iNumSockets' = 0 /\ cut' = FALSE
          /\ UNCHANGED <<pending, netUp, iSocketTree, iNextId, socket, fault, connects>>
      BY <1>5 DEF NewEngine, net
    <2>2. iNumSockets' \in Int
      BY <2>1
    <2> QED
      BY <2>1, <2>2 DEF TypeOK
  <1> QED
    BY <1>1, <1>2, <1>3, <1>4, <1>5 DEF ClientCall

(* Types: every reachable state has them. *)
THEOREM EngineTypeCorrect == Spec => []TypeOK
  <1>1. Init => TypeOK
    <2>1. [phase |-> "unused", role |-> "main", id |-> 0, owned |-> FALSE,
           acceptId |-> 0] \in Sockets
      BY DEF Sockets
    <2>2. ASSUME Init PROVE socket \in [Sock -> Sockets]
      BY <2>1, <2>2 DEF Init
    <2>3. ASSUME Init PROVE iNextId \in Nat /\ iNumSockets \in Int /\ connects \in Nat
      BY <2>3 DEF Init
    <2>4. ASSUME Init PROVE netUp \in BOOLEAN /\ iSocketTree \in SUBSET Sock
                            /\ fault \in SUBSET {"assert", "active", "null"}
      BY <2>4 DEF Init
    <2> QED
      BY <2>2, <2>3, <2>4 DEF Init, TypeOK
  <1>2. TypeOK /\ [Next]_vars => TypeOK'
    <2> SUFFICES ASSUME TypeOK, [Next]_vars
                 PROVE  TypeOK'
      OBVIOUS
    <2>1. CASE ClientCall
      BY <2>1, ClientType
    <2>2. CASE RunL
      <3>1. CASE iState = "disconnected"
        BY <2>2, <3>1, TeardownType DEF RunL, TypeOK
      <3>2. CASE iState # "disconnected"
        BY <2>2, <3>2 DEF RunL, net, TypeOK
      <3> QED
        BY <3>1, <3>2
    <2>3. CASE CloseAll
      <3>1. Owned \in SUBSET Sock
        BY DEF Owned
      <3> QED
        BY <2>3, <3>1, CloseSetType DEF CloseAll
    <2>4. CASE \E s \in Sock : SocketEvent(s)
      BY <2>4, SocketType
    <2>5. CASE UNCHANGED vars
      BY <2>5 DEF vars, TypeOK
    <2> QED
      BY <2>1, <2>2, <2>3, <2>4, <2>5 DEF Next
  <1> QED
    BY <1>1, <1>2, PTL DEF Spec

-------------------------------------------------------------------------------
(* The tree of sockets                                                      *)

(* The inductive invariant: the two properties of the tree together.        *)
(* Neither is inductive alone: an entry would survive del234() of itself if *)
(* the ids were not kept apart, and add234() keeps ids apart only among     *)
(* entries whose ids do not change any more, those of live sockets.         *)
TreeInv == NoDanglingEntries /\ TreeIsOrdered

(* Closing sockets removes them from the tree and changes no id. *)
LEMMA CloseSetTree ==
    ASSUME TypeOK, TreeInv, NEW set \in SUBSET Sock, NEW data,
           \A s \in set : Live(s),
           CloseSet(set, data)
    PROVE  TreeInv'
  <1>1. socket' = Closed(set, data)
    BY DEF CloseSet
  <1>2. iSocketTree' = {t \in iSocketTree : \A s \in Gone(set, data) :
                            t \in Removed(iSocketTree, s)}
    BY DEF CloseSet
  <1>3. \A t \in Sock : socket'[t].id = socket[t].id
    BY <1>1 DEF Closed, TypeOK, Sockets
  <1>4. iSocketTree' \subseteq iSocketTree
    BY <1>2
  <1>5. \A t \in iSocketTree' : t \notin Gone(set, data)
    BY <1>2 DEF Removed
  <1>6. ASSUME NEW t \in iSocketTree'
        PROVE  Live(t)'
    <2>1. t \in Sock /\ Live(t)
      BY <1>4 DEF TypeOK, TreeInv, NoDanglingEntries
    <2>2. CASE t \notin set
      BY <1>1, <2>1, <2>2 DEF Closed, Live, Open, Waiting
    <2>3. CASE t \in set
      <3>1. t \in data /\ ~Waiting(t)
        BY <1>5, <2>3 DEF Gone
      <3>2. socket[t] \in Sockets
        BY <2>1 DEF TypeOK
      <3>3. socket'[t] = [socket[t] EXCEPT !.phase = "killing"]
        BY <1>1, <2>1, <2>3, <3>1 DEF Closed
      <3>4. socket'[t].phase = "killing"
        BY <3>2, <3>3 DEF Sockets
      <3> QED
        BY <3>4 DEF Live, Waiting
    <2> QED
      BY <2>2, <2>3
  <1>7. TreeIsOrdered'
    BY <1>3, <1>4 DEF TreeInv, TreeIsOrdered, TypeOK
  <1> QED
    BY <1>6, <1>7 DEF TreeInv, NoDanglingEntries

(* Adding a socket that has just been opened keeps the tree as it must be,  *)
(* whatever id the socket has.                                              *)
LEMMA AddedTree ==
    ASSUME TypeOK, TreeInv, NEW s \in Sock, socket[s].phase = "unused",
           socket' \in [Sock -> Sockets], socket'[s].phase = "open",
           \A t \in Sock \ {s} : /\ socket'[t].id = socket[t].id
                                 /\ socket'[t].phase = socket[t].phase,
           iSocketTree' = Added(iSocketTree, socket', s)
    PROVE  TreeInv'
  <1>1. s \notin iSocketTree
    BY DEF TreeInv, NoDanglingEntries, Live, Open, Waiting
  <1>2. iSocketTree \subseteq Sock \ {s}
    BY <1>1 DEF TypeOK
  <1>3. \A t \in iSocketTree : Live(t)'
    BY <1>2 DEF TreeInv, NoDanglingEntries, Live, Open, Waiting
  <1>4. Live(s)'
    BY DEF Live, Open
  <1>5. \A t, u \in iSocketTree : socket'[t].id = socket'[u].id => t = u
    BY <1>2 DEF TreeInv, TreeIsOrdered
  <1>6. CASE \E t \in iSocketTree : socket'[t].id = socket'[s].id
    <2>1. iSocketTree' = iSocketTree
      BY <1>6 DEF Added
    <2> QED
      BY <1>3, <1>5, <2>1 DEF TreeInv, NoDanglingEntries, TreeIsOrdered
  <1>7. CASE ~(\E t \in iSocketTree : socket'[t].id = socket'[s].id)
    <2>1. iSocketTree' = iSocketTree \cup {s}
      BY <1>7 DEF Added
    <2> QED
      BY <1>3, <1>4, <1>5, <1>7, <2>1 DEF TreeInv, NoDanglingEntries, TreeIsOrdered
  <1> QED
    BY <1>6, <1>7

(* A tree that does not change, of sockets whose ids and lives do not. *)
LEMMA SameTree ==
    ASSUME TypeOK, TreeInv, iSocketTree' \subseteq iSocketTree,
           \A t \in iSocketTree : /\ socket'[t].id = socket[t].id
                                 /\ Live(t)'
    PROVE  TreeInv'
  BY DEF TreeInv, NoDanglingEntries, TreeIsOrdered

(* Every action of a socket keeps the tree as it must be. *)
LEMMA SocketTree ==
    ASSUME TypeOK, TypeOK', TreeInv, NEW s \in Sock, SocketEvent(s)
    PROVE  TreeInv'
  <1>0. socket[s] \in Sockets /\ socket' \in [Sock -> Sockets]
    BY DEF TypeOK
  <1>1. ASSUME socket[s].phase = "unused",
               NEW r \in Sockets,
               r.phase = "open",
               socket' = [socket EXCEPT ![s] = r],
               iSocketTree' = Added(iSocketTree, socket', s)
        PROVE  TreeInv'
    <2>1. /\ socket'[s].phase = "open"
          /\ \A t \in Sock \ {s} : /\ socket'[t].id = socket[t].id
                                  /\ socket'[t].phase = socket[t].phase
      BY <1>1 DEF TypeOK
    <2> QED
      BY <1>0, <1>1, <2>1, AddedTree
  <1>2. ASSUME socket[s].phase = "unused",
               NEW r,
               socket' = [socket EXCEPT ![s] = r],
               UNCHANGED iSocketTree
        PROVE  TreeInv'
    <2>1. s \notin iSocketTree
      BY <1>2 DEF TreeInv, NoDanglingEntries, Live, Open, Waiting
    <2>2. \A t \in iSocketTree : socket'[t] = socket[t]
      BY <1>2, <2>1 DEF TypeOK
    <2> QED
      BY <1>2, <2>2 DEF TreeInv, NoDanglingEntries, TreeIsOrdered, Live, Open, Waiting
  <1>3. CASE NewConnection(s)
    <2>1. DEFINE r == [socket[s] EXCEPT !.phase = "open", !.role = "forward",
                                        !.id = iNextId, !.owned = TRUE]
    <2>2. r \in Sockets /\ r.phase = "open"
      BY <1>0 DEF TypeOK, Sockets
    <2>3. socket[s].phase = "unused"
      BY <1>3 DEF NewConnection
    <2>4. CASE /\ socket' = [socket EXCEPT ![s] = r]
               /\ iSocketTree' = Added(iSocketTree, socket', s)
      <3> HIDE DEF r
      <3> QED BY <1>1, <2>2, <2>3, <2>4
    <2>5. CASE /\ socket' = [socket EXCEPT ![s].phase = "failed", ![s].id = iNextId]
               /\ UNCHANGED iSocketTree
      <3>1. socket' = [socket EXCEPT ![s] = [socket[s] EXCEPT !.phase = "failed",
                                                              !.id = iNextId]]
        BY <2>5 DEF TypeOK
      <3> QED BY <1>2, <2>3, <2>5, <3>1
    <2> QED
      BY <1>3, <2>4, <2>5 DEF NewConnection
  <1>4. CASE NewListener(s)
    <2>1. DEFINE r == [socket[s] EXCEPT !.phase = "open", !.role = "listener",
                                        !.id = iNextId, !.owned = TRUE,
                                        !.acceptId = iNextId']
    <2>2. r \in Sockets /\ r.phase = "open"
      BY <1>0 DEF TypeOK, Sockets
    <2>3. socket[s].phase = "unused"
      BY <1>4 DEF NewListener
    <2>4. CASE /\ socket' = [socket EXCEPT ![s] = r]
               /\ iSocketTree' = Added(iSocketTree, socket', s)
      <3> HIDE DEF r
      <3> QED BY <1>1, <2>2, <2>3, <2>4
    <2>5. CASE /\ socket' = [socket EXCEPT ![s].phase = "failed", ![s].id = iNextId]
               /\ UNCHANGED iSocketTree
      <3>1. socket' = [socket EXCEPT ![s] = [socket[s] EXCEPT !.phase = "failed",
                                                              !.id = iNextId]]
        BY <2>5 DEF TypeOK
      <3> QED BY <1>2, <2>3, <2>5, <3>1
    <2> QED
      BY <1>4, <2>4, <2>5 DEF NewListener
  <1>5. ASSUME NEW l \in Sock, Accept(l, s)
        PROVE  TreeInv'
    <2>1. socket' = [socket EXCEPT
                        ![s] = [@ EXCEPT !.phase = "open", !.role = "forward",
                                         !.id = socket[l].acceptId, !.owned = FALSE],
                        ![l].acceptId = iNextId]
      BY <1>5 DEF Accept
    <2>2. s # l /\ socket[s].phase = "unused"
      BY <1>5 DEF Accept, Open
    <2>3. socket'[s] = [socket[s] EXCEPT !.phase = "open", !.role = "forward",
                            !.id = socket[l].acceptId, !.owned = FALSE]
      BY <2>1, <2>2 DEF TypeOK
    <2>4. socket'[l] = [socket[l] EXCEPT !.acceptId = iNextId]
      BY <2>1, <2>2 DEF TypeOK
    <2>5. \A t \in Sock \ {s, l} : socket'[t] = socket[t]
      BY <2>1 DEF TypeOK
    <2>6. socket'[s].phase = "open"
      BY <1>0, <2>3 DEF Sockets
    <2>7. socket'[l].id = socket[l].id /\ socket'[l].phase = socket[l].phase
      <3>1. socket[l] \in Sockets
        BY DEF TypeOK
      <3> QED
        BY <2>4, <3>1 DEF Sockets
    <2>8. \A t \in Sock \ {s} : /\ socket'[t].id = socket[t].id
                                /\ socket'[t].phase = socket[t].phase
      BY <2>5, <2>7
    <2>9. iSocketTree' = Added(iSocketTree, socket', s)
      BY <1>5 DEF Accept
    <2> QED
      BY <1>0, <2>2, <2>6, <2>8, <2>9, AddedTree
  <1>6. CASE Adopt(s)
    <2>1. iSocketTree' = iSocketTree
      BY <1>6 DEF Adopt, net
    <2>2. \A t \in Sock : /\ socket'[t].id = socket[t].id
                          /\ socket'[t].phase = socket[t].phase
      BY <1>6 DEF Adopt, TypeOK, Sockets
    <2>3. \A t \in iSocketTree : Live(t)'
      BY <2>2 DEF TreeInv, NoDanglingEntries, Live, Open, Waiting, TypeOK
    <2> QED
      BY <2>1, <2>2, <2>3, SameTree DEF TypeOK
  <1>7. CASE CloseOne(s)
    <2>1. PICK data \in Outstanding : CloseSet({s}, data)
      BY <1>7 DEF CloseOne
    <2>2. \A t \in {s} : Live(t)
      BY <1>7 DEF CloseOne, Live
    <2> QED
      BY <2>1, <2>2, CloseSetTree
  <1>8. CASE Drained(s)
    <2>1. CASE netUp
      <3>1. \A t \in {s} : Live(t)
        BY <1>8 DEF Drained, Live, Waiting
      <3> QED
        BY <1>8, <2>1, <3>1, CloseSetTree DEF Drained
    <2>2. CASE ~netUp
      BY <1>8, <2>2 DEF Drained, net, TreeInv, NoDanglingEntries, TreeIsOrdered,
                        Live, Open, Waiting
    <2> QED
      BY <2>1, <2>2
  <1>9. CASE DrainFails(s)
    <2>1. iSocketTree' = iSocketTree
      BY <1>9 DEF DrainFails, net
    <2>2. socket'[s] = [socket[s] EXCEPT !.phase = "stuck"]
      BY <1>9 DEF DrainFails, TypeOK
    <2>3. socket'[s].id = socket[s].id /\ socket'[s].phase = "stuck"
      BY <1>0, <2>2 DEF Sockets
    <2>4. \A t \in Sock \ {s} : socket'[t] = socket[t]
      BY <1>9 DEF DrainFails, TypeOK
    <2>5. \A t \in iSocketTree : socket'[t].id = socket[t].id /\ Live(t)'
      BY <2>3, <2>4 DEF TreeInv, NoDanglingEntries, Live, Open, Waiting, TypeOK
    <2> QED
      BY <2>1, <2>5, SameTree
  <1> QED
    BY <1>3, <1>4, <1>5, <1>6, <1>7, <1>8, <1>9 DEF SocketEvent

(* An empty tree is as it must be. *)
LEMMA EmptyTree == iSocketTree' = {} => TreeInv'
  BY DEF TreeInv, NoDanglingEntries, TreeIsOrdered

(* The calls of the client keep the tree as it must be. *)
LEMMA ClientTree ==
    ASSUME TypeOK, TreeInv, ClientCall
    PROVE  TreeInv'
  <1>1. ASSUME NEW s \in Sock, Connect(s)
        PROVE  TreeInv'
    <2>1. socket[s] \in Sockets
      BY DEF TypeOK
    <2>2. socket'[s] = [socket[s] EXCEPT !.phase = "open", !.role = "main", !.id = 1,
                                         !.owned = TRUE]
      BY <1>1 DEF Connect, TypeOK
    <2>3. socket'[s].phase = "open"
      BY <2>1, <2>2 DEF Sockets
    <2> QED
      BY <1>1, <2>3 DEF Connect, TreeInv, NoDanglingEntries, TreeIsOrdered, Live, Open
  <1>2. ASSUME NEW s \in Sock, ConnectFails(s)
        PROVE  TreeInv'
    BY <1>2, EmptyTree DEF ConnectFails
  <1>3. CASE Disconnect
    BY <1>3, TeardownType, EmptyTree DEF Disconnect
  <1>4. CASE Delete
    <2>1. CASE iState = "initialized"
      BY <1>4, <2>1 DEF Delete, net, TreeInv, NoDanglingEntries, TreeIsOrdered, Live,
                        Open, Waiting
    <2>2. CASE iState # "initialized"
      BY <1>4, <2>2, TeardownType, EmptyTree DEF Delete
    <2> QED
      BY <2>1, <2>2
  <1>5. CASE NewEngine
    BY <1>5 DEF NewEngine, net, TreeInv, NoDanglingEntries, TreeIsOrdered, Live, Open,
                Waiting
  <1> QED
    BY <1>1, <1>2, <1>3, <1>4, <1>5 DEF ClientCall

(* The tree holds live sockets only, and no id twice: whatever collisions   *)
(* of ids there are, sk_cleanup() closes no freed socket.                   *)
THEOREM TreeCorrect == Spec => [](NoDanglingEntries /\ TreeIsOrdered)
  <1>1. Init => TreeInv
    BY DEF Init, TreeInv, NoDanglingEntries, TreeIsOrdered
  <1>2. TypeOK /\ TypeOK' /\ TreeInv /\ [Next]_vars => TreeInv'
    <2> SUFFICES ASSUME TypeOK, TypeOK', TreeInv, [Next]_vars
                 PROVE  TreeInv'
      OBVIOUS
    <2>1. CASE ClientCall
      BY <2>1, ClientTree
    <2>2. CASE RunL
      <3>1. CASE iState = "disconnected"
        BY <2>2, <3>1, TeardownType, EmptyTree DEF RunL
      <3>2. CASE iState # "disconnected"
        BY <2>2, <3>2 DEF RunL, net, TreeInv, NoDanglingEntries, TreeIsOrdered, Live,
                          Open, Waiting
      <3> QED
        BY <3>1, <3>2
    <2>3. CASE CloseAll
      <3>1. Owned \in SUBSET Sock /\ \A t \in Owned : Live(t)
        BY DEF Owned, Live
      <3> QED
        BY <2>3, <3>1, CloseSetTree DEF CloseAll
    <2>4. CASE \E s \in Sock : SocketEvent(s)
      BY <2>4, SocketTree
    <2>5. CASE UNCHANGED vars
      BY <2>5 DEF vars, TreeInv, NoDanglingEntries, TreeIsOrdered, Live, Open, Waiting
    <2> QED
      BY <2>1, <2>2, <2>3, <2>4, <2>5 DEF Next
  <1>3. TreeInv => NoDanglingEntries /\ TreeIsOrdered
    BY DEF TreeInv
  <1> QED
    BY <1>1, <1>2, <1>3, EngineTypeCorrect, PTL DEF Spec

-------------------------------------------------------------------------------
(* The engine's own request                                                 *)

(* The inductive invariant.  A deleted engine has no request of its own:    *)
(* without that, one that has been Disconnect()ed and deleted could leave   *)
(* its request to the next engine.                                          *)
RunLInv == RunLIsExpected /\ (iState = "none" => ~pending)

(* SocketClosed() completes the request when, and only when, it moves the   *)
(* engine to EStateDisconnected.                                            *)
LEMMA CountdownSignals ==
    ASSUME TypeOK, RunLInv, NEW n, Countdown(n), UNCHANGED cut
    PROVE  RunLInv'
  <1>1. CASE iState = "connected" /\ iNumSockets > 0 /\ iNumSockets - n <= 0
    <2>1. ~cut => ~pending
      BY <1>1 DEF RunLInv, RunLIsExpected
    <2> QED
      BY <1>1, <2>1 DEF Countdown, RunLInv, RunLIsExpected
  <1>2. CASE ~(iState = "connected" /\ iNumSockets > 0 /\ iNumSockets - n <= 0)
    BY <1>2 DEF Countdown, RunLInv, RunLIsExpected
  <1> QED
    BY <1>1, <1>2

(* As long as the client leaves disconnecting to the destructor, RunL()     *)
(* runs in EStateDisconnected only, and is signalled once.                  *)
THEOREM RunLCorrect == Spec => []RunLIsExpected
  <1>1. Init => RunLInv
    BY DEF Init, RunLInv, RunLIsExpected
  <1>2. TypeOK /\ RunLInv /\ [Next]_vars => RunLInv'
    <2> SUFFICES ASSUME TypeOK, RunLInv, [Next]_vars
                 PROVE  RunLInv'
      OBVIOUS
    <2>1. CASE ClientCall
      <3>1. ASSUME NEW s \in Sock, Connect(s) \/ ConnectFails(s)
            PROVE  RunLInv'
        BY <3>1 DEF Connect, ConnectFails, RunLInv, RunLIsExpected
      <3>2. CASE Disconnect
        BY <3>2 DEF Disconnect, RunLInv, RunLIsExpected
      <3>3. CASE Delete
        <4>1. CASE iState = "initialized"
          BY <3>3, <4>1 DEF Delete, RunLInv, RunLIsExpected
        <4>2. CASE iState # "initialized"
          <5>1. PICK data \in Outstanding :
                   fault' = IF pending /\ CompletesItself(data) THEN {"active"} ELSE {}
            BY <3>3, <4>2 DEF Delete
          <5>2. ~cut => ~(pending /\ CompletesItself(data))
            BY DEF CompletesItself, RunLInv, RunLIsExpected
          <5> QED
            BY <3>3, <5>1, <5>2 DEF Delete, RunLInv, RunLIsExpected
        <4> QED
          BY <4>1, <4>2
      <3>4. CASE NewEngine
        BY <3>4 DEF NewEngine, RunLInv, RunLIsExpected
      <3> QED
        BY <2>1, <3>1, <3>2, <3>3, <3>4 DEF ClientCall
    <2>2. CASE RunL
      BY <2>2 DEF RunL, RunLInv, RunLIsExpected
    <2>3. CASE CloseAll
      BY <2>3, CountdownSignals DEF CloseAll, CloseSet
    <2>4. ASSUME NEW s \in Sock, SocketEvent(s)
          PROVE  RunLInv'
      <3>1. CASE NewConnection(s) \/ NewListener(s) \/ \E l \in Sock : Accept(l, s)
        <4>1. UNCHANGED <<iState, pending, fault, cut>>
          BY <3>1 DEF NewConnection, NewListener, Accept
        <4> QED
          BY <4>1, SMTT(40) DEF RunLInv, RunLIsExpected
      <3>2. CASE Adopt(s) \/ DrainFails(s)
        BY <3>2 DEF Adopt, DrainFails, RunLInv, RunLIsExpected
      <3>3. CASE CloseOne(s)
        BY <3>3, CountdownSignals DEF CloseOne, CloseSet
      <3>4. CASE Drained(s)
        <4>1. CASE netUp
          BY <3>4, <4>1, CountdownSignals DEF Drained, CloseSet
        <4>2. CASE ~netUp
          BY <3>4, <4>2 DEF Drained, RunLInv, RunLIsExpected
        <4> QED
          BY <4>1, <4>2
      <3> QED
        BY <2>4, <3>1, <3>2, <3>3, <3>4 DEF SocketEvent
    <2>5. CASE UNCHANGED vars
      BY <2>5 DEF vars, RunLInv, RunLIsExpected
    <2> QED
      BY <2>1, <2>2, <2>3, <2>4, <2>5 DEF Next
  <1>3. RunLInv => RunLIsExpected
    BY DEF RunLInv
  <1> QED
    BY <1>1, <1>2, <1>3, EngineTypeCorrect, PTL DEF Spec

-------------------------------------------------------------------------------
(* The count of sockets.  CountIsExplained becomes inductive with what is   *)
(* so before the first connection; the count and the set that explains it   *)
(* then move together.                                                      *)

Counted == {s \in Sock : Live(s) \/ socket[s].phase = "failed"}

CountInv ==
    /\ connects = 0 => /\ iState \in {"initialized", "none"}
                       /\ \A s \in Sock : socket[s].phase = "unused"
    /\ CountIsExplained

LEMMA CountedFinite ==
    IsFiniteSet(Counted) /\ Cardinality(Counted) \in Nat
  <1>1. IsFiniteSet(Counted)
    BY FS_Subset, PuttyEngineAssumption DEF Counted
  <1> QED
    BY <1>1, FS_CardinalityType

LEMMA CountedPrimeFinite ==
    IsFiniteSet(Counted') /\ Cardinality(Counted') \in Nat
  <1>1. IsFiniteSet(Counted')
    BY FS_Subset, PuttyEngineAssumption DEF Counted
  <1> QED
    BY <1>1, FS_CardinalityType

(* Sockets that are closed are sockets that were counted. *)
LEMMA CloseSetCounted ==
    ASSUME TypeOK, CountInv, NEW set \in SUBSET Sock, NEW data, CloseSet(set, data),
           \A s \in set : Live(s)
    PROVE  CountInv'
  <1> DEFINE gone == Gone(set, data)
  <1>1. Counted' = Counted \ gone /\ gone \subseteq Counted
    <2>1. socket' = Closed(set, data)
      BY DEF CloseSet
    <2>2. \A s \in set : s \in Sock /\ socket[s].phase \in {"open", "killing", "stuck"}
      BY DEF Live, Open, Waiting
    <2>3. ASSUME NEW s \in Sock
          PROVE  s \in Counted' <=> s \in Counted /\ s \notin gone
      <3>1. socket[s] \in Sockets
        BY DEF TypeOK
      <3>2. CASE s \notin set
        <4>1. socket'[s] = socket[s] /\ s \notin gone
          BY <2>1, <3>2 DEF Closed, Gone
        <4> QED
          BY <4>1 DEF Counted, Live, Open, Waiting
      <3>3. CASE s \in set /\ s \in data /\ ~Waiting(s)
        <4>1. socket'[s] = [socket[s] EXCEPT !.phase = "killing"] /\ s \notin gone
          BY <2>1, <3>3 DEF Closed, Gone
        <4>2. socket'[s].phase = "killing"
          BY <3>1, <4>1 DEF Sockets
        <4> QED
          BY <2>2, <3>3, <4>1, <4>2 DEF Counted, Live, Open, Waiting
      <3>4. CASE s \in set /\ ~(s \in data /\ ~Waiting(s))
        <4>1. socket'[s] = [socket[s] EXCEPT !.phase = "closed"] /\ s \in gone
          BY <2>1, <3>4 DEF Closed, Gone
        <4>2. socket'[s].phase = "closed"
          BY <3>1, <4>1 DEF Sockets
        <4> QED
          BY <2>2, <3>4, <4>1, <4>2 DEF Counted, Live, Open, Waiting
      <3> QED
        BY <3>2, <3>3, <3>4
    <2>4. gone \subseteq Counted
      BY <2>2 DEF Gone, Counted, Live, Open, Waiting
    <2>5. Counted' \subseteq Sock /\ Counted \subseteq Sock
      BY DEF Counted
    <2> QED
      BY <2>3, <2>4, <2>5
  <1>2. /\ Cardinality(Counted) = Cardinality(Counted') + Cardinality(gone)
        /\ Cardinality(gone) \in Nat /\ Cardinality(Counted') \in Nat
    <2>1. IsFiniteSet(Counted') /\ IsFiniteSet(gone)
      BY <1>1, CountedFinite, CountedPrimeFinite, FS_Subset
    <2>2. Counted' \cup gone = Counted /\ Counted' \cap gone = {}
      BY <1>1
    <2>3. Cardinality(Counted' \cup gone)
             = Cardinality(Counted') + Cardinality(gone) - Cardinality(Counted' \cap gone)
      BY <2>1, FS_Union
    <2>4. Cardinality({}) = 0
      BY FS_EmptySet
    <2>5. Cardinality(gone) \in Nat /\ Cardinality(Counted') \in Nat
      BY <2>1, FS_CardinalityType
    <2>6. Cardinality(Counted)
             = Cardinality(Counted') + Cardinality(gone) - Cardinality({})
      BY <2>2, <2>3
    <2> HIDE DEF gone
    <2> QED
      BY <2>4, <2>5, <2>6
  <1>3. /\ iNumSockets' = iNumSockets - Cardinality(gone) /\ connects' = connects
        /\ iState' = iState \/ (iState = "connected" /\ iState' = "disconnected")
    BY DEF CloseSet, Countdown
  <1>4. connects = 0 => iState' \in {"initialized", "none"}
                        /\ \A s \in Sock : socket'[s].phase = "unused"
    <2> SUFFICES ASSUME connects = 0
                 PROVE  /\ iState' \in {"initialized", "none"}
                        /\ \A s \in Sock : socket'[s].phase = "unused"
      OBVIOUS
    <2>1. \A s \in Sock : socket[s].phase = "unused"
      BY DEF CountInv
    <2>2. \A s \in Sock : s \notin set
      BY <2>1 DEF Live, Open, Waiting
    <2>3. \A s \in Sock : socket'[s] = socket[s]
      BY <2>2 DEF CloseSet, Closed
    <2> QED
      BY <1>3, <2>1, <2>3 DEF CountInv
  <1>5. CountIsExplained'
    <2> SUFFICES ASSUME connects = 1, iState \in {"connected", "disconnected"}
                 PROVE  iNumSockets' = Cardinality(Counted')
      BY <1>3 DEF CountIsExplained, Counted
    <2>1. iNumSockets = Cardinality(Counted)
      BY DEF CountInv, CountIsExplained, Counted
    <2> QED
      BY <1>2, <1>3, <2>1
  <1> QED
    BY <1>3, <1>4, <1>5 DEF CountInv

(* One more socket, which is counted.                                       *)
LEMMA OneMoreCounted ==
    ASSUME TypeOK, CountInv, NEW s \in Sock, socket[s].phase = "unused",
           socket'[s].phase \in {"open", "failed"},
           \A t \in Sock \ {s} : socket'[t].phase = socket[t].phase,
           iNumSockets' = iNumSockets + 1, iState = "connected",
           UNCHANGED <<iState, connects>>
    PROVE  CountInv'
  <1>1. s \notin Counted /\ Counted' = Counted \cup {s}
    BY DEF Counted, Live, Open, Waiting
  <1>2. Cardinality(Counted') = Cardinality(Counted) + 1
    BY <1>1, CountedFinite, FS_AddElement
  <1>3. connects # 0
    BY DEF CountInv
  <1>4. CountIsExplained'
    <2> SUFFICES ASSUME connects = 1
                 PROVE  iNumSockets' = Cardinality(Counted')
      BY DEF CountIsExplained, Counted
    <2>1. iNumSockets = Cardinality(Counted)
      BY DEF CountInv, CountIsExplained, Counted
    <2> QED
      BY <1>2, <2>1
  <1> QED
    BY <1>3, <1>4 DEF CountInv

(* No socket joins or leaves those that are counted.                        *)
LEMMA SameCounted ==
    ASSUME CountInv, iNumSockets' = iNumSockets, UNCHANGED <<iState, connects>>,
           connects # 0 \/ UNCHANGED socket, Counted' = Counted
    PROVE  CountInv'
  BY DEF CountInv, CountIsExplained, Counted

(* While an engine has never been connected, and when it is not any more,   *)
(* nothing is claimed.                                                      *)
LEMMA NotCounted ==
    ASSUME CountInv, iState' \in {"initialized", "none"}, connects' # 0
    PROVE  CountInv'
  BY DEF CountInv, CountIsExplained

(* The property of the count: during an engine's first connection it is     *)
(* the number of sockets that are alive, with those that failed to open.    *)
THEOREM CountCorrect == Spec => []CountIsExplained
  <1>1. Init => CountInv
    BY DEF Init, CountInv, CountIsExplained
  <1>2. TypeOK /\ CountInv /\ [Next]_vars => CountInv'
    <2> SUFFICES ASSUME TypeOK, CountInv, [Next]_vars
                 PROVE  CountInv'
      OBVIOUS
    <2>s. ASSUME NEW s \in Sock PROVE socket[s] \in Sockets
      BY DEF TypeOK
    <2>1. CASE ClientCall
      <3>1. ASSUME NEW s \in Sock, Connect(s) PROVE CountInv'
        <4>1. /\ connects' = connects + 1 /\ connects \in Nat /\ iNumSockets' = 1
              /\ socket' = [socket EXCEPT ![s] =
                    [@ EXCEPT !.phase = "open", !.role = "main", !.id = 1, !.owned = TRUE]]
          BY <3>1 DEF Connect, TypeOK
        <4>2. connects' = 1 => Counted' = {s}
          <5> SUFFICES ASSUME connects = 0 PROVE Counted' = {s}
            BY <4>1
          <5>1. \A t \in Sock : socket[t].phase = "unused"
            BY DEF CountInv
          <5>2. socket'[s].phase = "open"
            BY <2>s, <4>1 DEF TypeOK, Sockets
          <5>3. \A t \in Sock \ {s} : socket'[t] = socket[t]
            BY <4>1 DEF TypeOK
          <5> QED
            BY <5>1, <5>2, <5>3 DEF Counted, Live, Open, Waiting
        <4>3. Cardinality({s}) = 1
          BY FS_Singleton
        <4>4. CountIsExplained'
          BY <4>1, <4>2, <4>3 DEF CountIsExplained, Counted
        <4> QED
          BY <4>1, <4>4 DEF CountInv
      <3>2. ASSUME NEW s \in Sock, ConnectFails(s) PROVE CountInv'
        BY <3>2, NotCounted DEF ConnectFails, TypeOK
      <3>3. ASSUME Disconnect PROVE CountInv'
        <4>1. connects # 0
          BY <3>3 DEF Disconnect, CountInv
        <4> QED
          BY <3>3, <4>1, NotCounted DEF Disconnect, Teardown
      <3>4. ASSUME Delete PROVE CountInv'
        <4>1. CASE iState = "initialized"
          BY <3>4, <4>1 DEF Delete, CountInv, CountIsExplained
        <4>2. CASE iState # "initialized"
          <5>1. connects # 0
            BY <3>4, <4>2 DEF Delete, CountInv
          <5> QED
            BY <3>4, <4>2, <5>1, NotCounted DEF Delete, Teardown
        <4> QED
          BY <4>1, <4>2
      <3>5. ASSUME NewEngine PROVE CountInv'
        BY <3>5 DEF NewEngine, CountInv, CountIsExplained
      <3> QED
        BY <2>1, <3>1, <3>2, <3>3, <3>4, <3>5 DEF ClientCall
    <2>2. CASE RunL
      <3>1. CASE iState = "disconnected"
        <4>1. connects # 0
          BY <3>1 DEF CountInv
        <4> QED
          BY <2>2, <3>1, <4>1, NotCounted DEF RunL, Teardown
      <3>2. CASE iState # "disconnected"
        BY <2>2, <3>2, SameCounted DEF RunL, Counted, Live, Open, Waiting
      <3> QED
        BY <3>1, <3>2
    <2>3. CASE CloseAll
      <3>1. Owned \in SUBSET Sock /\ \A s \in Owned : Live(s)
        BY DEF Owned, Live
      <3>2. PICK data \in Outstanding : CloseSet(Owned, data)
        BY <2>3 DEF CloseAll
      <3> QED
        BY <3>1, <3>2, CloseSetCounted
    <2>4. ASSUME NEW s \in Sock, SocketEvent(s) PROVE CountInv'
      <3>0. ASSUME socket'[s].phase \in {"open", "failed"}, socket[s].phase = "unused",
                   \A t \in Sock \ {s} : socket'[t].phase = socket[t].phase,
                   iNumSockets' = iNumSockets + 1, iState = "connected",
                   UNCHANGED <<iState, connects>>
            PROVE  CountInv'
        BY <3>0, OneMoreCounted
      <3>1. CASE NewConnection(s) \/ NewListener(s)
        <4>1. /\ iState = "connected" /\ UNCHANGED <<iState, connects>>
              /\ iNumSockets' = iNumSockets + 1 /\ socket[s].phase = "unused"
          BY <3>1 DEF NewConnection, NewListener, MainOpen
        <4>2. /\ \A t \in Sock \ {s} : socket'[t] = socket[t]
              /\ \/ socket'[s] = [socket[s] EXCEPT !.phase = "open", !.role = "forward",
                                    !.id = iNextId, !.owned = TRUE]
                 \/ socket'[s] = [socket[s] EXCEPT !.phase = "open", !.role = "listener",
                                    !.id = iNextId, !.owned = TRUE, !.acceptId = iNextId']
                 \/ socket'[s] = [socket[s] EXCEPT !.phase = "failed", !.id = iNextId]
          BY <3>1, <2>s DEF NewConnection, NewListener, TypeOK, Sockets
        <4>3. socket'[s].phase \in {"open", "failed"}
          BY <2>s, <4>2 DEF Sockets
        <4> QED
          BY <3>0, <4>1, <4>2, <4>3
      <3>2. ASSUME NEW l \in Sock, Accept(l, s) PROVE CountInv'
        <4>1. /\ iState = "connected" /\ UNCHANGED <<iState, connects>>
              /\ iNumSockets' = iNumSockets + 1 /\ socket[s].phase = "unused"
              /\ socket[l].phase = "open"
              /\ socket' = [socket EXCEPT
                    ![s] = [@ EXCEPT !.phase = "open", !.role = "forward",
                                     !.id = socket[l].acceptId, !.owned = FALSE],
                    ![l].acceptId = iNextId]
          BY <3>2 DEF Accept, Open
        <4>2. l # s
          BY <4>1
        <4>3. /\ socket'[s] = [socket[s] EXCEPT !.phase = "open", !.role = "forward",
                                     !.id = socket[l].acceptId, !.owned = FALSE]
              /\ socket'[l] = [socket[l] EXCEPT !.acceptId = iNextId]
              /\ \A t \in Sock \ {s, l} : socket'[t] = socket[t]
          BY <4>1, <4>2 DEF TypeOK
        <4>4. socket'[s].phase = "open" /\ socket'[l].phase = socket[l].phase
          BY <2>s, <4>3 DEF Sockets
        <4> QED
          BY <3>0, <4>1, <4>3, <4>4
      <3>3. CASE Adopt(s) \/ DrainFails(s)
        <4>1. /\ iNumSockets' = iNumSockets /\ UNCHANGED <<iState, connects>>
              /\ socket[s].phase \in {"open", "killing"}
              /\ \/ socket' = [socket EXCEPT ![s].owned = TRUE]
                 \/ socket[s].phase = "killing" /\ socket' = [socket EXCEPT ![s].phase = "stuck"]
          BY <3>3 DEF Adopt, DrainFails, Open
        <4>2. /\ \/ socket'[s].phase = socket[s].phase
                 \/ socket[s].phase = "killing" /\ socket'[s].phase = "stuck"
              /\ \A t \in Sock \ {s} : socket'[t] = socket[t]
          BY <2>s, <4>1 DEF TypeOK, Sockets
        <4>3. connects # 0
          BY <4>1 DEF CountInv
        <4>4. Counted' = Counted
          BY <4>1, <4>2 DEF Counted, Live, Open, Waiting
        <4> QED
          BY <4>1, <4>3, <4>4, SameCounted
      <3>4. CASE CloseOne(s)
        <4>1. Live(s)
          BY <3>4 DEF CloseOne, Live
        <4>2. PICK data \in Outstanding : CloseSet({s}, data)
          BY <3>4 DEF CloseOne
        <4> QED
          BY <4>1, <4>2, CloseSetCounted
      <3>5. CASE Drained(s)
        <4>1. CASE netUp
          <5>1. Live(s) /\ CloseSet({s}, {})
            BY <3>5, <4>1 DEF Drained, Live, Waiting
          <5> QED
            BY <5>1, CloseSetCounted
        <4>2. CASE ~netUp
          BY <3>5, <4>2, SameCounted DEF Drained, Counted, Live, Open, Waiting
        <4> QED
          BY <4>1, <4>2
      <3> QED
        BY <2>4, <3>1, <3>2, <3>3, <3>4, <3>5 DEF SocketEvent
    <2>5. CASE UNCHANGED vars
      BY <2>5 DEF vars, CountInv, CountIsExplained, Live, Open, Waiting
    <2> QED
      BY <2>1, <2>2, <2>3, <2>4, <2>5 DEF Next
  <1>3. CountInv => CountIsExplained
    BY DEF CountInv
  <1> QED
    BY <1>1, <1>2, <1>3, EngineTypeCorrect, PTL DEF Spec
===============================================================================
