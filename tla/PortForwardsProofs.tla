--------------------------- MODULE PortForwardsProofs ---------------------------
(***************************************************************************)
(* Proofs about PortForwards, for any forwardings, both versions of the     *)
(* protocol and any number of configurations.                               *)
(***************************************************************************)
EXTENDS PortForwards, SequenceTheorems, NaturalsInduction, WellFoundedInduction, TLAPS

(* The messages, by what they are about.                                    *)
Answers(m, r) == m.to = Handler(r)
Own(m) == m.to[1] # "handler"
Asks(m, r) == m.t = "request" /\ m.to = Handler(r)
Cancels(m, i) == m.t = "cancel" /\ SamePort(m.of, i)

(* A reply to r is on its way, or a request that will be replied to.        *)
Coming(r, ts, tc) ==
    \/ \E k \in 1 .. Len(tc) : Answers(tc[k], r)
    \/ \E k \in 1 .. Len(ts) : Asks(ts[k], r)

InQueue(q, r) == \E k \in 1 .. Len(q) : q[k] = r

(* The queued handlers are those that something is on its way for, and in   *)
(* the order of it.                                                         *)
Matched(q, ts, tc) ==
    /\ \A i, j \in 1 .. Len(q) : i < j => q[i] < q[j]
    /\ \A i, j \in 1 .. Len(tc) : \A r, s \in Nat :
          i < j /\ Answers(tc[i], r) /\ Answers(tc[j], s) => r < s
    /\ \A i, j \in 1 .. Len(ts) : \A r, s \in Nat :
          i < j /\ Asks(ts[i], r) /\ Asks(ts[j], s) => r < s
    /\ \A i \in 1 .. Len(tc), j \in 1 .. Len(ts) : \A r, s \in Nat :
          Answers(tc[i], r) /\ Asks(ts[j], s) => r < s
    /\ \A r \in Nat : InQueue(q, r) <=> Coming(r, ts, tc)

(* The connection's own request comes after all of the handlers', and it is *)
(* what do_ssh1_connection() waits for.                                     *)
OwnLast(ts, tc) ==
    /\ \A i \in 1 .. Len(tc) : Own(tc[i]) => tc[i].to = <<cr, 0>> /\ i = Len(tc) /\ ts = <<>>
    /\ \A j \in 1 .. Len(ts) : ts[j].t = "ask" => ts[j].to = <<cr, 0>> /\ j = Len(ts)

(* There is none. *)
Quiet(ts, tc) ==
    /\ \A j \in 1 .. Len(ts) : ts[j].t # "ask"
    /\ \A i \in 1 .. Len(tc) : ~Own(tc[i])

(* What is asked for is what the records of the requests say, and only what *)
(* can be cancelled is.                                                     *)
Recorded(rpfs, ts) ==
    /\ \A j \in 1 .. Len(ts) : \A r \in Nat :
          Asks(ts[j], r) => r \in 1 .. Len(rpfs) /\ ts[j].of = rpfs[r]
    /\ version = 1 => \A j \in 1 .. Len(ts) : ts[j].t # "cancel"

(* The requests: each one is known or has been freed.                       *)
Kept(p) ==
    /\ p.tree \cup p.freed = 1 .. Len(p.rpfs)
    /\ p.tree \cap p.freed = {}
    /\ \A k \in 1 .. Len(p.queue) : p.queue[k] \in 1 .. Len(p.rpfs)
    /\ \A r \in p.tree : p.fwds[p.rpfs[r]].remote = r
    /\ \A r, q \in p.tree : SameRemote(p.rpfs[r], p.rpfs[q]) => r = q
    /\ \A i \in Index : p.fwds[i].remote # 0 =>
          p.fwds[i].remote \in 1 .. Len(p.rpfs) /\ p.rpfs[p.fwds[i].remote] = i
    /\ \A i, j \in Index : p.fwds[i].local /\ p.fwds[j].local /\ SamePort(i, j) => i = j

(* While forwardings up to d have been destroyed and those up to c created. *)
Statuses(fwds, cfg, d, c) ==
    \A i \in Index :
        /\ fwds[i].status \in {"KEEP", "CREATE"} => i \in cfg
        /\ fwds[i].status = "none" => i \notin cfg /\ fwds[i] = NoForward
        /\ fwds[i].status = "DESTROY" => i \notin cfg /\ i > d
        /\ fwds[i].status = "CREATE" /\ i > c => fwds[i] = [NoForward EXCEPT !.status = "CREATE"]

(* A handler is queued for a request that has been freed.                   *)
Doomed(p) == \E k \in 1 .. Len(p.queue) : p.queue[k] \in p.freed

Clear(i, ts) == \A k \in 1 .. Len(ts) : ~Cancels(ts[k], i)

(* What the server listens for is what the client knows of, but for what is *)
(* on its way.                                                              *)
Granted(p, ts, tc, ls) ==
    /\ \A r \in p.tree : ~InQueue(p.queue, r) => p.rpfs[r] \in ls /\ Clear(p.rpfs[r], ts)
    /\ \A r \in p.tree : \A k \in 1 .. Len(tc) :
          Answers(tc[k], r) /\ tc[k].t = "success" => p.rpfs[r] \in ls /\ Clear(p.rpfs[r], ts)

Released(p, ts, tc, ls) ==
    /\ \A r \in p.tree : \A k \in 1 .. Len(ts) : Asks(ts[k], r) =>
          /\ \A j \in ls : SamePort(j, p.rpfs[r]) =>
                \E l \in 1 .. Len(ts) : l < k /\ Cancels(ts[l], p.rpfs[r])
          /\ \A l \in 1 .. Len(ts) : l > k => ~Cancels(ts[l], p.rpfs[r])
    /\ \A r \in p.tree : \A k \in 1 .. Len(tc) :
          Answers(tc[k], r) /\ tc[k].t = "failure" => \A j \in ls : ~SamePort(j, p.rpfs[r])
    /\ \A j \in ls :
          \/ ~Clear(j, ts)
          \/ \E r \in p.tree :
                /\ p.rpfs[r] = j
                /\ \/ ~InQueue(p.queue, r)
                   \/ \E k \in 1 .. Len(tc) : Answers(tc[k], r) /\ tc[k].t = "success"

Agreed(p, ts, tc, ls) ==
    Granted(p, ts, tc, ls) /\ (version = 2 => Released(p, ts, tc, ls))

Good(p, ts, tc, ls) ==
    /\ Matched(p.queue, ts, tc) /\ Recorded(p.rpfs, ts) /\ Kept(p)
    /\ Doomed(p) \/ Agreed(p, ts, tc, ls)

(* In SSH-2 the connection asks for nothing.  In SSH-1 its request comes    *)
(* last, unless a reconfiguration has asked for something after it.         *)
InTurn(ts, tc) ==
    /\ early \/ OwnLast(ts, tc)
    /\ version # 1 => Quiet(ts, tc)

IInv ==
    /\ TypeOK
    /\ fault = "reply" => early
    /\ early => version = 1
    /\ Alive => /\ Statuses(pf.fwds, pf.wanted, Len(Forwardings), Len(Forwardings))
                /\ Good(pf, toServer, toClient, listening)
                /\ InTurn(toServer, toClient)

-------------------------------------------------------------------------------
(* The loops of ssh_setup_portfwd().                                        *)

(* A set of natural numbers that contains 0 and the successors of its       *)
(* members below m contains all up to m.                                    *)
LEMMA UpTo ==
    ASSUME NEW m \in Nat, NEW G, 0 \in G,
           \A k \in Nat : k < m /\ k \in G => k + 1 \in G
    PROVE  \A k \in 0 .. m : k \in G
<1> DEFINE Bad == {k \in Nat : k <= m /\ k \notin G}
<1>1. SUFFICES ASSUME Bad # {} PROVE FALSE
  BY <1>1
<1>2. Bad \subseteq Nat
  OBVIOUS
<1>3. PICK x \in Bad : \A y \in Bad : ~(<<y, x>> \in OpToRel(<, Nat))
  <2> HIDE DEF Bad
  <2> QED
    BY <1>1, <1>2, NatLessThanWellFounded, WFMin
<1>4. \A y \in Bad : ~(y < x)
  BY <1>2, <1>3 DEF OpToRel
<1>5. x \in Nat /\ x <= m /\ x \notin G /\ x # 0
  BY <1>3
<1>6. x - 1 \in Nat /\ x - 1 < x /\ x - 1 < m /\ x - 1 <= m
  BY <1>5
<1>7. x - 1 \notin Bad
  BY <1>4, <1>6
<1>8. x - 1 \in G
  BY <1>6, <1>7
<1>9. (x - 1) + 1 \in G
  BY <1>6, <1>8
<1> QED
  BY <1>5, <1>9

(* A loop over 1 .. n whose body is F has a function of its states.         *)
Bodies(n, S) == [(1 .. n) \X S -> S]
Loops(f, n, S, start, F) ==
    /\ f \in [0 .. n -> S]
    /\ f[0] = start /\ \A i \in 1 .. n : f[i] = F[<<i, f[i - 1]>>]

LEMMA LoopsExist ==
    ASSUME NEW n \in Nat, NEW S, NEW start \in S, NEW F \in Bodies(n, S)
    PROVE  \E f : Loops(f, n, S, start, F)
<1> DEFINE Runs(f, k) == /\ f \in [0 .. k -> S]
                         /\ f[0] = start
                         /\ \A i \in 1 .. k : f[i] = F[<<i, f[i - 1]>>]
           G == {k \in Nat : \E f : Runs(f, k)}
<1>1. 0 \in G
  <2>1. Runs([i \in 0 .. 0 |-> start], 0)
    OBVIOUS
  <2> QED
    BY <2>1
<1>2. ASSUME NEW k \in Nat, k < n, k \in G PROVE k + 1 \in G
  <2>1. PICK f : Runs(f, k)
    BY <1>2
  <2> DEFINE g == [i \in 0 .. (k + 1) |-> IF i = k + 1 THEN F[<<k + 1, f[k]>>] ELSE f[i]]
  <2>2. f[k] \in S /\ k + 1 \in 1 .. n
    BY <1>2, <2>1
  <2>3. F[<<k + 1, f[k]>>] \in S
    BY <2>2 DEF Bodies
  <2>4. \A i \in 0 .. k : g[i] = f[i] /\ f[i] \in S
    BY <2>1
  <2>5. g[k + 1] = F[<<k + 1, f[k]>>]
    OBVIOUS
  <2>6. g \in [0 .. (k + 1) -> S]
    BY <2>1, <2>3
  <2> HIDE DEF g
  <2>7. g[0] = start
    BY <2>1, <2>4
  <2>8. ASSUME NEW i \in 1 .. (k + 1) PROVE g[i] = F[<<i, g[i - 1]>>]
    <3>1. CASE i = k + 1
      <4>1. i - 1 = k /\ k \in 0 .. k
        BY <3>1
      <4>2. g[i - 1] = f[k]
        BY <2>4, <4>1
      <4> QED
        BY <2>5, <3>1, <4>2
    <3>2. CASE i \in 1 .. k
      <4>1. i - 1 \in 0 .. k /\ i \in 0 .. k
        BY <3>2
      <4> QED
        BY <2>1, <2>4, <3>2, <4>1
    <3> QED
      BY <3>1, <3>2
  <2>9. Runs(g, k + 1)
    BY <2>6, <2>7, <2>8
  <2>10. k + 1 \in Nat
    OBVIOUS
  <2> HIDE DEF Runs
  <2> QED
    BY <2>9, <2>10
<1>3. n \in G
  <2> HIDE DEF G
  <2>1. \A k \in 0 .. n : k \in G
    BY <1>1, <1>2, UpTo
  <2> QED
    BY <2>1
<1> QED
  BY <1>3 DEF Loops

(* The states of the loops.                                                 *)
States == [p : Forwarders, out : Seq(Requests), fault : {"none", "freed"}]

LEMMA ForwarderFields ==
    ASSUME NEW p \in Forwarders
    PROVE  /\ p.wanted \subseteq Index /\ p.fwds \in [Index -> Forwards]
           /\ p.rpfs \in Seq(Index) /\ p.tree \subseteq Nat /\ p.freed \subseteq Nat
           /\ p.queue \in Seq(Nat) /\ p.open \in BOOLEAN
BY DEF Forwarders

LEMMA ForwardFields ==
    ASSUME NEW f \in [Index -> Forwards], NEW i \in Index
    PROVE  /\ f[i] \in Forwards
           /\ f[i].status \in {"none", "DESTROY", "KEEP", "CREATE"}
           /\ f[i].local \in BOOLEAN /\ f[i].remote \in Nat
           /\ [f EXCEPT ![i] = NoForward] \in [Index -> Forwards]
BY DEF Forwards, NoForward

Without(p, i) == [p EXCEPT !.fwds[i] = NoForward]

LEMMA Forgets ==
    ASSUME NEW p \in Forwarders, NEW i \in Index, NEW q, q = Without(p, i)
    PROVE  /\ q \in Forwarders
           /\ q.fwds = [p.fwds EXCEPT ![i] = NoForward]
           /\ q.wanted = p.wanted /\ q.rpfs = p.rpfs /\ q.tree = p.tree
           /\ q.freed = p.freed /\ q.queue = p.queue /\ q.open = p.open
<1>1. p.fwds \in [Index -> Forwards] /\ [p.fwds EXCEPT ![i] = NoForward] \in [Index -> Forwards]
  BY ForwarderFields, ForwardFields
<1>2. q = [p EXCEPT !.fwds = [p.fwds EXCEPT ![i] = NoForward]]
  BY DEF Forwarders, Without
<1> QED
  BY <1>1, <1>2 DEF Forwarders

CancelOf(i) == [t |-> "cancel", of |-> i]

(* What one turn of the first loop does: nothing, ...                       *)
Passes(st, i, u) == st.p.fwds[i].status # "DESTROY" /\ u = st
(* ... or i is closed, and a request of its that is known goes.             *)
Destroys(st, i, u) ==
    /\ st.p.fwds[i].status = "DESTROY"
    /\ u \in States
    /\ u.p.fwds = [st.p.fwds EXCEPT ![i] = NoForward]
    /\ u.p.wanted = st.p.wanted /\ u.p.rpfs = st.p.rpfs
    /\ u.p.queue = st.p.queue /\ u.p.open = st.p.open
    /\ LET r == st.p.fwds[i].remote IN
       \/ /\ r = 0
          /\ u.out = st.out /\ u.fault = st.fault
          /\ u.p.tree = st.p.tree /\ u.p.freed = st.p.freed
       \/ u.fault = "freed"
       \/ /\ r # 0 /\ r \notin st.p.freed
          /\ u.fault = st.fault
          /\ u.p.tree = st.p.tree \ {r} /\ u.p.freed = st.p.freed \cup {r}
          /\ u.out = IF version = 1 THEN st.out ELSE Append(st.out, CancelOf(i))

LEMMA StateFields ==
    ASSUME NEW st \in States
    PROVE  st.p \in Forwarders /\ st.out \in Seq(Requests) /\ st.fault \in {"none", "freed"}
BY DEF States

LEMMA CancelIs ==
    ASSUME NEW st \in States, NEW i \in Index, st.p.fwds[i].remote # 0,
           NEW u, u = CancelRemote(st, i)
    PROVE  /\ u \in States
           /\ u.p.fwds = st.p.fwds
           /\ u.p.wanted = st.p.wanted /\ u.p.rpfs = st.p.rpfs
           /\ u.p.queue = st.p.queue /\ u.p.open = st.p.open
           /\ \/ u.fault = "freed"
              \/ /\ st.p.fwds[i].remote \notin st.p.freed
                 /\ u.fault = st.fault
                 /\ u.p.tree = st.p.tree \ {st.p.fwds[i].remote}
                 /\ u.p.freed = st.p.freed \cup {st.p.fwds[i].remote}
                 /\ u.out = IF version = 1 THEN st.out ELSE Append(st.out, CancelOf(i))
<1> DEFINE r == st.p.fwds[i].remote
           out == IF version = 1 THEN st.out ELSE Append(st.out, CancelOf(i))
           p == [st.p EXCEPT !.tree = @ \ {r}, !.freed = @ \cup {r}]
<1>1. st.p \in Forwarders /\ st.out \in Seq(Requests) /\ st.fault \in {"none", "freed"}
  BY StateFields
<1>2. r \in Nat
  BY <1>1, ForwarderFields, ForwardFields
<1>3. CancelOf(i) \in Requests
  BY DEF CancelOf, Requests
<1>4. out \in Seq(Requests)
  BY <1>1, <1>3, AppendProperties
<1>5. /\ p \in Forwarders /\ p.fwds = st.p.fwds /\ p.wanted = st.p.wanted
      /\ p.rpfs = st.p.rpfs /\ p.queue = st.p.queue /\ p.open = st.p.open
      /\ p.tree = st.p.tree \ {r} /\ p.freed = st.p.freed \cup {r}
  <2> HIDE DEF r
  <2> QED
    BY <1>1, <1>2 DEF Forwarders
<1>6. CASE r \in st.p.freed
  <2>1. u = [st EXCEPT !.fault = "freed"]
    BY <1>6 DEF CancelRemote
  <2> QED
    BY <1>1, <2>1 DEF States
<1>7. CASE r \notin st.p.freed
  <2>1. u = [st EXCEPT !.p = p, !.out = out]
    BY <1>1, <1>7 DEF CancelRemote, CancelOf, States, Forwarders
  <2>2. u \in States /\ u.p = p /\ u.out = out /\ u.fault = st.fault
    <3> HIDE DEF p, out
    <3> QED
      BY <1>1, <1>4, <1>5, <2>1 DEF States
  <2> HIDE DEF p
  <2> QED
    BY <1>5, <1>7, <2>2
<1> QED
  BY <1>6, <1>7

LEMMA DestroyIs ==
    ASSUME NEW st \in States, NEW i \in Index
    PROVE  Destroy(st, i) \in States
           /\ (Passes(st, i, Destroy(st, i)) \/ Destroys(st, i, Destroy(st, i)))
<1>1. CASE st.p.fwds[i].status # "DESTROY"
  BY <1>1 DEF Destroy, Passes
<1>2. CASE st.p.fwds[i].status = "DESTROY"
  <2> DEFINE c == IF st.p.fwds[i].remote # 0 THEN CancelRemote(st, i) ELSE st
             u == [c EXCEPT !.p.fwds[i] = NoForward]
             q == Without(c.p, i)
  <2>1. Destroy(st, i) = u
    BY <1>2 DEF Destroy
  <2>2. c \in States
    BY CancelIs
  <2>3. /\ c.p.fwds = st.p.fwds
        /\ c.p.wanted = st.p.wanted /\ c.p.rpfs = st.p.rpfs
        /\ c.p.queue = st.p.queue /\ c.p.open = st.p.open
    BY CancelIs
  <2>4. c.p \in Forwarders
    <3> HIDE DEF c
    <3> QED
      BY <2>2, StateFields
  <2>5. /\ q \in Forwarders /\ q.fwds = [c.p.fwds EXCEPT ![i] = NoForward]
        /\ q.wanted = c.p.wanted /\ q.rpfs = c.p.rpfs /\ q.tree = c.p.tree
        /\ q.freed = c.p.freed /\ q.queue = c.p.queue /\ q.open = c.p.open
    <3> HIDE DEF c
    <3> QED
      BY <2>4, Forgets
  <2>6. u \in States /\ u.p = q /\ u.out = c.out /\ u.fault = c.fault
    <3>1. u = [c EXCEPT !.p = q]
      <4> HIDE DEF c
      <4> QED
        BY <2>2, <2>4 DEF States, Forwarders, Without
    <3> HIDE DEF c, q, u
    <3> QED
      BY <2>2, <2>5, <3>1 DEF States
  <2>7. \/ /\ st.p.fwds[i].remote = 0 /\ c = st
        \/ c.fault = "freed"
        \/ /\ st.p.fwds[i].remote # 0 /\ st.p.fwds[i].remote \notin st.p.freed
           /\ c.fault = st.fault
           /\ c.p.tree = st.p.tree \ {st.p.fwds[i].remote}
           /\ c.p.freed = st.p.freed \cup {st.p.fwds[i].remote}
           /\ c.out = IF version = 1 THEN st.out ELSE Append(st.out, CancelOf(i))
    BY CancelIs
  <2> HIDE DEF c, q, u
  <2>8. Destroys(st, i, u)
    BY <1>2, <2>3, <2>5, <2>6, <2>7 DEF Destroys
  <2> QED
    BY <2>1, <2>6, <2>8
<1> QED
  BY <1>1, <1>2

RequestOf(i, r) == [t |-> "request", of |-> i, to |-> Handler(r)]

(* What one turn of the second loop does: nothing, ...                      *)
Skips(st, i, u) ==
    u = st /\ (st.p.fwds[i].status = "CREATE" =>
                   \E q \in st.p.tree : SameRemote(i, st.p.rpfs[q]))
(* ... or a listener is opened, if the port is free, ...                    *)
Listens(st, i, u) ==
    /\ st.p.fwds[i].status = "CREATE"
    /\ u \in States
    /\ \E b \in BOOLEAN :
          /\ u.p.fwds = [st.p.fwds EXCEPT ![i].local = b]
          /\ b => \A j \in Index : st.p.fwds[j].local => ~SamePort(i, j)
    /\ u.p.wanted = st.p.wanted /\ u.p.rpfs = st.p.rpfs /\ u.p.tree = st.p.tree
    /\ u.p.freed = st.p.freed /\ u.p.queue = st.p.queue /\ u.p.open = st.p.open
    /\ u.out = st.out /\ u.fault = st.fault
(* ... or the server is asked to listen.                                    *)
AsksFor(st, i, u) ==
    LET r == Len(st.p.rpfs) + 1 IN
    /\ st.p.fwds[i].status = "CREATE"
    /\ u \in States
    /\ \A q \in st.p.tree : ~SameRemote(i, st.p.rpfs[q])
    /\ u.p.fwds = [st.p.fwds EXCEPT ![i].remote = r]
    /\ u.p.wanted = st.p.wanted /\ u.p.open = st.p.open
    /\ u.p.rpfs = Append(st.p.rpfs, i)
    /\ u.p.tree = st.p.tree \cup {r} /\ u.p.freed = st.p.freed
    /\ u.p.queue = Append(st.p.queue, r)
    /\ u.out = Append(st.out, RequestOf(i, r)) /\ u.fault = st.fault

LEMMA AddForwardIs ==
    ASSUME NEW st \in States, NEW i \in Index, NEW busy,
           st.p.fwds[i].status = "CREATE"
    PROVE  Listens(st, i, AddForward(st, i, busy))
<1> DEFINE taken == busy \cup {Forwardings[j].sport : j \in {k \in Index : st.p.fwds[k].local}}
           b == Forwardings[i].sport \notin taken
           f == [st.p.fwds EXCEPT ![i].local = b]
           p == [st.p EXCEPT !.fwds = f]
           u == [st EXCEPT !.p = p]
<1>1. st.p \in Forwarders /\ st.out \in Seq(Requests) /\ st.fault \in {"none", "freed"}
  BY StateFields
<1>2. AddForward(st, i, busy) = u
  <2>1. AddForward(st, i, busy) = [st EXCEPT !.p.fwds[i].local = b]
    BY DEF AddForward
  <2> HIDE DEF b
  <2> QED
    BY <1>1, <2>1 DEF States, Forwarders
<1>3. b \in BOOLEAN /\ (b => \A j \in Index : st.p.fwds[j].local => ~SamePort(i, j))
  BY DEF SamePort
<1> HIDE DEF b
<1>4. f \in [Index -> Forwards]
  <2>1. st.p.fwds \in [Index -> Forwards]
    BY <1>1, ForwarderFields
  <2> QED
    BY <1>3, <2>1 DEF Forwards
<1> HIDE DEF f
<1>5. /\ p \in Forwarders /\ p.fwds = f /\ p.wanted = st.p.wanted /\ p.rpfs = st.p.rpfs
      /\ p.tree = st.p.tree /\ p.freed = st.p.freed /\ p.queue = st.p.queue
      /\ p.open = st.p.open
  BY <1>1, <1>4 DEF Forwarders
<1> HIDE DEF p
<1>6. u \in States /\ u.p = p /\ u.out = st.out /\ u.fault = st.fault
  BY <1>1, <1>5 DEF States
<1> HIDE DEF u
<1>7. \E x \in BOOLEAN :
         /\ u.p.fwds = [st.p.fwds EXCEPT ![i].local = x]
         /\ x => \A j \in Index : st.p.fwds[j].local => ~SamePort(i, j)
  BY <1>3, <1>5, <1>6 DEF f
<1>8. Listens(st, i, u)
  BY <1>5, <1>6, <1>7 DEF Listens
<1> QED
  BY <1>2, <1>8

LEMMA RequestIs ==
    ASSUME NEW r \in Nat, NEW i \in Index
    PROVE  RequestOf(i, r) \in Requests
BY DEF RequestOf, Requests, Handlers, Handler

LEMMA RequestRemoteIs ==
    ASSUME NEW st \in States, NEW i \in Index,
           st.p.fwds[i].status = "CREATE"
    PROVE  \/ Skips(st, i, RequestRemote(st, i))
           \/ AsksFor(st, i, RequestRemote(st, i))
<1>1. CASE \E q \in st.p.tree : SameRemote(i, st.p.rpfs[q])
  BY <1>1 DEF RequestRemote, Skips
<1>2. CASE ~(\E q \in st.p.tree : SameRemote(i, st.p.rpfs[q]))
  <2> DEFINE r == Len(st.p.rpfs) + 1
             f == [st.p.fwds EXCEPT ![i].remote = r]
             p == [st.p EXCEPT !.rpfs = Append(st.p.rpfs, i), !.tree = st.p.tree \cup {r},
                               !.fwds = f, !.queue = Append(st.p.queue, r)]
             out == Append(st.out, RequestOf(i, r))
             u == [st EXCEPT !.p = p, !.out = out]
  <2>1. st.p \in Forwarders /\ st.out \in Seq(Requests) /\ st.fault \in {"none", "freed"}
    BY StateFields
  <2>2. /\ st.p.fwds \in [Index -> Forwards] /\ st.p.rpfs \in Seq(Index)
        /\ st.p.queue \in Seq(Nat) /\ st.p.tree \subseteq Nat
    BY <2>1, ForwarderFields
  <2>3. r \in Nat
    BY <2>2, LenProperties
  <2>4. RequestRemote(st, i) = u
    <3>1. RequestRemote(st, i)
            = [st EXCEPT !.p.rpfs = Append(@, i), !.p.tree = @ \cup {r},
                         !.p.fwds[i].remote = r, !.p.queue = Append(@, r),
                         !.out = Append(@, RequestOf(i, r))]
      BY <1>2 DEF RequestRemote, QueueHandler, RequestOf
    <3> HIDE DEF r
    <3> QED
      BY <2>1, <3>1 DEF States, Forwarders
  <2>5. RequestOf(i, r) \in Requests
    BY <2>3, RequestIs
  <2>6. /\ Append(st.p.rpfs, i) \in Seq(Index) /\ Append(st.p.queue, r) \in Seq(Nat)
        /\ out \in Seq(Requests)
    <3> HIDE DEF r
    <3> QED
      BY <2>1, <2>2, <2>3, <2>5, AppendProperties
  <2>7. f \in [Index -> Forwards]
    <3> HIDE DEF r
    <3> QED
      BY <2>2, <2>3 DEF Forwards
  <2>8. /\ p \in Forwarders /\ p.fwds = f /\ p.wanted = st.p.wanted
        /\ p.rpfs = Append(st.p.rpfs, i)
        /\ p.tree = st.p.tree \cup {r} /\ p.freed = st.p.freed
        /\ p.queue = Append(st.p.queue, r)
        /\ p.open = st.p.open
    <3> HIDE DEF r, f
    <3> QED
      BY <2>1, <2>2, <2>3, <2>6, <2>7 DEF Forwarders
  <2>9. u \in States /\ u.p = p /\ u.out = out /\ u.fault = st.fault
    <3> HIDE DEF p, out
    <3> QED
      BY <2>1, <2>6, <2>8 DEF States
  <2> HIDE DEF p, u
  <2>10. AsksFor(st, i, u)
    BY <1>2, <2>8, <2>9 DEF AsksFor
  <2> QED
    BY <2>4, <2>10
<1> QED
  BY <1>1, <1>2

Creates(st, i, u) == Skips(st, i, u) \/ Listens(st, i, u) \/ AsksFor(st, i, u)

LEMMA CreateIs ==
    ASSUME NEW st \in States, NEW i \in Index, NEW busy
    PROVE  Create(st, i, busy) \in States /\ Creates(st, i, Create(st, i, busy))
<1>1. CASE st.p.fwds[i].status # "CREATE"
  BY <1>1 DEF Create, Creates, Skips
<1>2. CASE st.p.fwds[i].status = "CREATE" /\ Forwardings[i].type = "R"
  <2>1. Create(st, i, busy) = RequestRemote(st, i)
    BY <1>2 DEF Create
  <2>2. Creates(st, i, RequestRemote(st, i))
    BY <1>2, RequestRemoteIs DEF Creates
  <2>3. RequestRemote(st, i) \in States
    BY <1>2, RequestRemoteIs DEF Skips, AsksFor
  <2> QED
    BY <2>1, <2>2, <2>3
<1>3. CASE st.p.fwds[i].status = "CREATE" /\ Forwardings[i].type # "R"
  <2>1. Create(st, i, busy) = AddForward(st, i, busy)
    BY <1>3 DEF Create
  <2>2. Listens(st, i, AddForward(st, i, busy))
    BY <1>3, AddForwardIs
  <2> QED
    BY <2>1, <2>2 DEF Creates, Listens
<1> QED
  BY <1>1, <1>2, <1>3

-------------------------------------------------------------------------------
(* What the loops keep of Good(): about the forwardings first.              *)

LEMMA NoForwardIs ==
    NoForward.status = "none" /\ NoForward.local = FALSE /\ NoForward.remote = 0
BY DEF NoForward

LEMMA ForgottenKept ==
    ASSUME NEW p \in Forwarders, NEW u \in Forwarders, NEW i \in Index, Kept(p),
           u.fwds = [p.fwds EXCEPT ![i] = NoForward],
           u.rpfs = p.rpfs, u.queue = p.queue, u.tree = p.tree, u.freed = p.freed,
           p.fwds[i].remote = 0
    PROVE  Kept(u)
<1>1. p.fwds \in [Index -> Forwards] /\ p.rpfs \in Seq(Index) /\ p.tree \subseteq Nat
  BY ForwarderFields
<1>2. /\ u.fwds[i].remote = 0 /\ u.fwds[i].local = FALSE
      /\ \A j \in Index : j # i => u.fwds[j] = p.fwds[j]
  BY <1>1, NoForwardIs
<1>3. \A r \in p.tree : r \in 1 .. Len(p.rpfs) /\ p.rpfs[r] \in Index /\ r # 0
  BY <1>1 DEF Kept
<1>4. \A r \in u.tree : u.fwds[u.rpfs[r]].remote = r
  <2> TAKE r \in u.tree
  <2>1. p.fwds[p.rpfs[r]].remote = r /\ r # 0 /\ p.rpfs[r] \in Index
    BY <1>3 DEF Kept
  <2>2. p.rpfs[r] # i
    BY <2>1
  <2> QED
    BY <1>2, <2>1, <2>2
<1>5. \A j \in Index : u.fwds[j].remote # 0 =>
          u.fwds[j].remote \in 1 .. Len(u.rpfs) /\ u.rpfs[u.fwds[j].remote] = j
  BY <1>2 DEF Kept
<1>6. \A j, k \in Index : u.fwds[j].local /\ u.fwds[k].local /\ SamePort(j, k) => j = k
  BY <1>2 DEF Kept
<1> QED
  BY <1>4, <1>5, <1>6 DEF Kept

LEMMA CancelledKept ==
    ASSUME NEW p \in Forwarders, NEW u \in Forwarders, NEW i \in Index, Kept(p),
           NEW r, r = p.fwds[i].remote, r # 0, r \notin p.freed,
           u.fwds = [p.fwds EXCEPT ![i] = NoForward],
           u.rpfs = p.rpfs, u.queue = p.queue,
           u.tree = p.tree \ {r}, u.freed = p.freed \cup {r}
    PROVE  /\ Kept(u)
           /\ r \in p.tree /\ p.rpfs[r] = i
<1>1. p.fwds \in [Index -> Forwards] /\ p.rpfs \in Seq(Index) /\ p.tree \subseteq Nat
  BY ForwarderFields
<1>2. /\ u.fwds[i].remote = 0 /\ u.fwds[i].local = FALSE
      /\ \A j \in Index : j # i => u.fwds[j] = p.fwds[j]
  BY <1>1, NoForwardIs
<1>3. r \in 1 .. Len(p.rpfs) /\ p.rpfs[r] = i
  BY DEF Kept
<1>4. r \in p.tree
  BY <1>3 DEF Kept
<1>5. \A s \in p.tree : s \in 1 .. Len(p.rpfs) /\ p.rpfs[s] \in Index
  BY <1>1 DEF Kept
<1>6. \A s \in u.tree : u.fwds[u.rpfs[s]].remote = s
  <2> TAKE s \in u.tree
  <2>1. p.fwds[p.rpfs[s]].remote = s /\ s # r /\ p.rpfs[s] \in Index
    BY <1>5 DEF Kept
  <2>2. p.rpfs[s] # i
    BY <2>1
  <2> QED
    BY <1>2, <2>1, <2>2
<1>7. \A j \in Index : u.fwds[j].remote # 0 =>
          u.fwds[j].remote \in 1 .. Len(u.rpfs) /\ u.rpfs[u.fwds[j].remote] = j
  BY <1>2 DEF Kept
<1>8. \A j, k \in Index : u.fwds[j].local /\ u.fwds[k].local /\ SamePort(j, k) => j = k
  BY <1>2 DEF Kept
<1>9. u.tree \cup u.freed = 1 .. Len(u.rpfs) /\ u.tree \cap u.freed = {}
  BY <1>4 DEF Kept
<1>10. /\ \A k \in 1 .. Len(u.queue) : u.queue[k] \in 1 .. Len(u.rpfs)
       /\ \A s, q \in u.tree : SameRemote(u.rpfs[s], u.rpfs[q]) => s = q
  BY DEF Kept
<1> QED
  BY <1>3, <1>4, <1>6, <1>7, <1>8, <1>9, <1>10 DEF Kept

LEMMA ListenedKept ==
    ASSUME NEW p \in Forwarders, NEW u \in Forwarders, NEW i \in Index, Kept(p),
           NEW b \in BOOLEAN, b => \A j \in Index : p.fwds[j].local => ~SamePort(i, j),
           u.fwds = [p.fwds EXCEPT ![i].local = b],
           u.rpfs = p.rpfs, u.queue = p.queue, u.tree = p.tree, u.freed = p.freed
    PROVE  Kept(u)
<1>1. p.fwds \in [Index -> Forwards] /\ p.rpfs \in Seq(Index) /\ p.tree \subseteq Nat
  BY ForwarderFields
<1>2. /\ u.fwds[i].remote = p.fwds[i].remote /\ u.fwds[i].local = b
      /\ \A j \in Index : j # i => u.fwds[j] = p.fwds[j]
  BY <1>1 DEF Forwards
<1>3. \A r \in p.tree : r \in 1 .. Len(p.rpfs) /\ p.rpfs[r] \in Index
  BY <1>1 DEF Kept
<1>4. \A j \in Index : u.fwds[j].remote = p.fwds[j].remote
  BY <1>2
<1>5. \A r \in u.tree : u.fwds[u.rpfs[r]].remote = r
  BY <1>3, <1>4 DEF Kept
<1>6. \A j \in Index : u.fwds[j].remote # 0 =>
          u.fwds[j].remote \in 1 .. Len(u.rpfs) /\ u.rpfs[u.fwds[j].remote] = j
  BY <1>4 DEF Kept
<1>7. \A j, k \in Index : u.fwds[j].local /\ u.fwds[k].local /\ SamePort(j, k) => j = k
  BY <1>2 DEF Kept, SamePort
<1> QED
  BY <1>5, <1>6, <1>7 DEF Kept

(* b is a with m at its end. *)
Grows(a, b, m) ==
    /\ Len(a) \in Nat /\ Len(b) = Len(a) + 1
    /\ b[Len(b)] = m
    /\ \A k \in 1 .. Len(a) : b[k] = a[k]

LEMMA AppendGrows ==
    ASSUME NEW S, NEW a \in Seq(S), NEW m \in S
    PROVE  Grows(a, Append(a, m), m)
BY AppendProperties, LenProperties DEF Grows

LEMMA RequestedKept ==
    ASSUME NEW p \in Forwarders, NEW u \in Forwarders, NEW i \in Index, Kept(p),
           NEW r, r = Len(p.rpfs) + 1, p.fwds[i].remote = 0,
           \A q \in p.tree : ~SameRemote(i, p.rpfs[q]),
           u.fwds = [p.fwds EXCEPT ![i].remote = r],
           Grows(p.rpfs, u.rpfs, i), Grows(p.queue, u.queue, r),
           u.tree = p.tree \cup {r}, u.freed = p.freed
    PROVE  Kept(u)
<1> DEFINE n == Len(p.rpfs)
<1>1. /\ p.fwds \in [Index -> Forwards] /\ p.rpfs \in Seq(Index) /\ p.tree \subseteq Nat
      /\ u.rpfs \in Seq(Index)
  BY ForwarderFields
<1>2. n \in Nat /\ r \in Nat /\ r # 0 /\ Len(u.rpfs) = n + 1 /\ r = n + 1 /\ u.rpfs[r] = i
  BY DEF Grows
<1>3. /\ u.fwds[i].remote = r /\ u.fwds[i].local = p.fwds[i].local
      /\ \A j \in Index : j # i => u.fwds[j] = p.fwds[j]
  BY <1>1 DEF Forwards
<1>4. \A k \in 1 .. n : u.rpfs[k] = p.rpfs[k] /\ k # r
  BY <1>2 DEF Grows
<1>5. \A s \in p.tree : s \in 1 .. n /\ u.rpfs[s] = p.rpfs[s] /\ p.rpfs[s] \in Index /\ s # 0
  BY <1>1, <1>4 DEF Kept
<1>6. \A s \in u.tree : u.fwds[u.rpfs[s]].remote = s
  <2> TAKE s \in u.tree
  <2>1. CASE s = r
    BY <1>2, <1>3, <2>1
  <2>2. CASE s \in p.tree
    <3>1. p.fwds[p.rpfs[s]].remote = s /\ p.rpfs[s] # i
      BY <1>5, <2>2 DEF Kept
    <3> QED
      BY <1>3, <1>5, <2>2, <3>1
  <2> QED
    BY <2>1, <2>2
<1>7. \A j \in Index : u.fwds[j].remote # 0 =>
          u.fwds[j].remote \in 1 .. Len(u.rpfs) /\ u.rpfs[u.fwds[j].remote] = j
  <2> TAKE j \in Index
  <2>1. CASE j = i
    BY <1>2, <1>3, <2>1
  <2>2. CASE j # i
    <3>1. u.fwds[j].remote = p.fwds[j].remote
      BY <1>3, <2>2
    <3>2. p.fwds[j].remote # 0 => p.fwds[j].remote \in 1 .. n /\ p.rpfs[p.fwds[j].remote] = j
      BY DEF Kept
    <3> HIDE DEF n
    <3> QED
      BY <1>2, <1>4, <3>1, <3>2
  <2> QED
    BY <2>1, <2>2
<1>8. \A j, k \in Index : u.fwds[j].local /\ u.fwds[k].local /\ SamePort(j, k) => j = k
  <2>1. \A j \in Index : u.fwds[j].local = p.fwds[j].local
    BY <1>3
  <2> QED
    BY <2>1 DEF Kept
<1>9. u.tree \cup u.freed = 1 .. Len(u.rpfs) /\ u.tree \cap u.freed = {}
  <2>1. p.tree \cup p.freed = 1 .. n /\ p.tree \cap p.freed = {}
    BY DEF Kept
  <2>2. r \notin 1 .. n /\ 1 .. (n + 1) = (1 .. n) \cup {r}
    BY <1>2
  <2> HIDE DEF n
  <2> QED
    BY <1>2, <2>1, <2>2
<1>10. \A k \in 1 .. Len(u.queue) : u.queue[k] \in 1 .. Len(u.rpfs)
  <2> TAKE k \in 1 .. Len(u.queue)
  <2>1. CASE k = Len(u.queue)
    BY <1>2, <2>1 DEF Grows
  <2>2. CASE k # Len(u.queue)
    <3>1. k \in 1 .. Len(p.queue) /\ u.queue[k] = p.queue[k]
      BY <2>2 DEF Grows
    <3>2. p.queue[k] \in 1 .. n
      BY <3>1 DEF Kept
    <3> HIDE DEF n
    <3> QED
      BY <1>2, <3>1, <3>2
  <2> QED
    BY <2>1, <2>2
<1>11. \A s, q \in u.tree : SameRemote(u.rpfs[s], u.rpfs[q]) => s = q
  <2> SUFFICES ASSUME NEW s \in u.tree, NEW q \in u.tree,
                      SameRemote(u.rpfs[s], u.rpfs[q])
               PROVE  s = q
    OBVIOUS
  <2>1. CASE s \in p.tree /\ q \in p.tree
    BY <1>5, <2>1 DEF Kept
  <2>2. CASE s = r /\ q \in p.tree
    BY <1>2, <1>5, <2>2
  <2>3. CASE s \in p.tree /\ q = r
    <3>1. SameRemote(i, p.rpfs[s])
      BY <1>2, <1>5, <2>3 DEF SameRemote
    <3> QED
      BY <2>3, <3>1
  <2> QED
    BY <2>1, <2>2, <2>3
<1> QED
  BY <1>6, <1>7, <1>8, <1>9, <1>10, <1>11 DEF Kept

(* What is on its way.                                                      *)

LEMMA Grown ==
    ASSUME NEW a, NEW b, NEW m, Grows(a, b, m)
    PROVE  /\ \A k \in 1 .. Len(b) : (k \in 1 .. Len(a) /\ b[k] = a[k]) \/ (k = Len(b) /\ b[k] = m)
           /\ \A k \in 1 .. Len(a) : k \in 1 .. Len(b) /\ b[k] = a[k] /\ k < Len(b)
           /\ Len(b) \in 1 .. Len(b) /\ b[Len(b)] = m /\ Len(b) \in Nat
<1> DEFINE n == Len(a)
           l == Len(b)
<1>1. n \in Nat /\ l = n + 1 /\ b[l] = m /\ \A k \in 1 .. n : b[k] = a[k]
  BY DEF Grows
<1> HIDE DEF n, l
<1>2. \A k \in 1 .. l : k \in 1 .. n \/ k = l
  BY <1>1
<1>3. \A k \in 1 .. n : k \in 1 .. l /\ k < l
  BY <1>1
<1>4. l \in 1 .. l /\ l \in Nat
  BY <1>1
<1>5. /\ \A k \in 1 .. l : (k \in 1 .. n /\ b[k] = a[k]) \/ (k = l /\ b[k] = m)
      /\ \A k \in 1 .. n : k \in 1 .. l /\ b[k] = a[k] /\ k < l
      /\ l \in 1 .. l /\ b[l] = m /\ l \in Nat
  BY <1>1, <1>2, <1>3, <1>4
<1> QED
  BY <1>5, Zenon DEF n, l

LEMMA CancelSent ==
    ASSUME NEW q, NEW ts, NEW us, NEW tc, NEW i \in Index,
           Matched(q, ts, tc), Grows(ts, us, CancelOf(i))
    PROVE  Matched(q, us, tc) /\ (Quiet(ts, tc) => Quiet(us, tc))
<1> DEFINE m == CancelOf(i)
<1>1. m.t = "cancel"
  BY DEF CancelOf
<1>2. \A r : ~Asks(m, r)
  BY <1>1 DEF Asks
<1> HIDE DEF m
<1>3. \A k \in 1 .. Len(us) : (k \in 1 .. Len(ts) /\ us[k] = ts[k]) \/ (k = Len(us) /\ us[k] = m)
  BY Grown DEF m
<1>4. \A k \in 1 .. Len(ts) : k \in 1 .. Len(us) /\ us[k] = ts[k]
  BY Grown DEF m
<1>5. Quiet(ts, tc) => Quiet(us, tc)
  BY <1>1, <1>3 DEF Quiet
<1>6. \A k \in 1 .. Len(us) : \A r : Asks(us[k], r) => k \in 1 .. Len(ts) /\ Asks(ts[k], r)
  BY <1>2, <1>3
<1>7. \A k \in 1 .. Len(ts) : \A r : Asks(ts[k], r) => k \in 1 .. Len(us) /\ Asks(us[k], r)
  BY <1>4
<1>8. \A r : Coming(r, us, tc) <=> Coming(r, ts, tc)
  BY <1>6, <1>7 DEF Coming
<1>9. \A j, k \in 1 .. Len(us) : \A r, s \in Nat :
        j < k /\ Asks(us[j], r) /\ Asks(us[k], s) => r < s
  BY <1>6 DEF Matched
<1>10. \A j \in 1 .. Len(tc), k \in 1 .. Len(us) : \A r, s \in Nat :
        Answers(tc[j], r) /\ Asks(us[k], s) => r < s
  BY <1>6 DEF Matched
<1> QED
  BY <1>5, <1>8, <1>9, <1>10 DEF Matched

LEMMA CancelRecorded ==
    ASSUME NEW rpfs, NEW ts, NEW us, NEW i \in Index, version # 1,
           Recorded(rpfs, ts), Grows(ts, us, CancelOf(i))
    PROVE  Recorded(rpfs, us)
<1> DEFINE m == CancelOf(i)
<1>1. \A r : ~Asks(m, r)
  BY DEF Asks, CancelOf
<1> HIDE DEF m
<1>2. \A k \in 1 .. Len(us) : (k \in 1 .. Len(ts) /\ us[k] = ts[k]) \/ (k = Len(us) /\ us[k] = m)
  BY Grown DEF m
<1> QED
  BY <1>1, <1>2 DEF Recorded

LEMMA RequestSent ==
    ASSUME NEW q \in Seq(Nat), NEW p, NEW ts, NEW us, NEW tc, NEW i \in Index, NEW n \in Nat,
           Matched(q, ts, tc), Grows(ts, us, RequestOf(i, n + 1)),
           Grows(q, p, n + 1), \A k \in 1 .. Len(q) : q[k] \in 1 .. n
    PROVE  Matched(p, us, tc) /\ (Quiet(ts, tc) => Quiet(us, tc))
<1> DEFINE r0 == n + 1
           m == RequestOf(i, n + 1)
<1>1. m.t = "request" /\ m.to = Handler(r0)
  BY DEF RequestOf
<1>2. \A r \in Nat : Asks(m, r) <=> r = r0
  BY <1>1 DEF Asks, Handler
<1> HIDE DEF m
<1>3. \A k \in 1 .. Len(us) : (k \in 1 .. Len(ts) /\ us[k] = ts[k]) \/ (k = Len(us) /\ us[k] = m)
  BY Grown DEF m
<1>4. \A k \in 1 .. Len(ts) : k \in 1 .. Len(us) /\ us[k] = ts[k] /\ k < Len(us)
  BY Grown DEF m
<1>5. Len(us) \in 1 .. Len(us) /\ us[Len(us)] = m /\ Len(us) \in Nat
  BY Grown DEF m
<1>6. \A k \in 1 .. Len(p) : (k \in 1 .. Len(q) /\ p[k] = q[k]) \/ (k = Len(p) /\ p[k] = r0)
  BY Grown
<1>7. \A k \in 1 .. Len(q) : k \in 1 .. Len(p) /\ p[k] = q[k] /\ k < Len(p)
  BY Grown
<1>8. Len(p) \in 1 .. Len(p) /\ p[Len(p)] = r0 /\ Len(p) \in Nat
  BY Grown
<1>9. Quiet(ts, tc) => Quiet(us, tc)
  BY <1>1, <1>3 DEF Quiet
<1>10. \A r \in Nat : InQueue(q, r) => r \in 1 .. n
  BY DEF InQueue
<1>11. \A r \in Nat : Coming(r, ts, tc) => r \in 1 .. n
  BY <1>10 DEF Matched
<1>12. r0 \in Nat /\ \A r \in 1 .. n : r < r0
  OBVIOUS
<1> HIDE DEF r0
<1>13. \A r \in Nat : InQueue(p, r) <=> InQueue(q, r) \/ r = r0
  BY <1>6, <1>7, <1>8 DEF InQueue
<1>14. \A r \in Nat : Coming(r, us, tc) <=> Coming(r, ts, tc) \/ r = r0
  BY <1>2, <1>3, <1>4, <1>5 DEF Coming
<1>15. \A j, k \in 1 .. Len(p) : j < k => p[j] < p[k]
  <2> SUFFICES ASSUME NEW j \in 1 .. Len(p), NEW k \in 1 .. Len(p), j < k PROVE p[j] < p[k]
    OBVIOUS
  <2>1. j \in 1 .. Len(q) /\ p[j] = q[j] /\ q[j] \in 1 .. n
    BY <1>6, <1>8
  <2>2. CASE k = Len(p)
    BY <1>8, <1>12, <2>1, <2>2
  <2>3. CASE k \in 1 .. Len(q) /\ p[k] = q[k]
    BY <2>1, <2>3 DEF Matched
  <2> QED
    BY <1>6, <2>2, <2>3
<1>16. \A j, k \in 1 .. Len(us) : \A r, s \in Nat :
        j < k /\ Asks(us[j], r) /\ Asks(us[k], s) => r < s
  <2> SUFFICES ASSUME NEW j \in 1 .. Len(us), NEW k \in 1 .. Len(us), NEW r \in Nat, NEW s \in Nat,
                      j < k, Asks(us[j], r), Asks(us[k], s)
               PROVE  r < s
    OBVIOUS
  <2>1. j \in 1 .. Len(ts) /\ us[j] = ts[j]
    BY <1>3, <1>5
  <2>2. r \in 1 .. n
    BY <1>11, <2>1 DEF Coming
  <2>3. CASE k = Len(us)
    BY <1>2, <1>5, <1>12, <2>2, <2>3
  <2>4. CASE k \in 1 .. Len(ts) /\ us[k] = ts[k]
    BY <2>1, <2>4 DEF Matched
  <2> QED
    BY <1>3, <2>3, <2>4
<1>17. \A j \in 1 .. Len(tc), k \in 1 .. Len(us) : \A r, s \in Nat :
        Answers(tc[j], r) /\ Asks(us[k], s) => r < s
  <2> SUFFICES ASSUME NEW j \in 1 .. Len(tc), NEW k \in 1 .. Len(us), NEW r \in Nat, NEW s \in Nat,
                      Answers(tc[j], r), Asks(us[k], s)
               PROVE  r < s
    OBVIOUS
  <2>1. r \in 1 .. n
    BY <1>11 DEF Coming
  <2>2. CASE k = Len(us)
    BY <1>2, <1>5, <1>12, <2>1, <2>2
  <2>3. CASE k \in 1 .. Len(ts) /\ us[k] = ts[k]
    BY <2>3 DEF Matched
  <2> QED
    BY <1>3, <2>2, <2>3
<1>18. \A r \in Nat : InQueue(p, r) <=> Coming(r, us, tc)
  BY <1>13, <1>14 DEF Matched
<1> QED
  BY <1>9, <1>15, <1>16, <1>17, <1>18 DEF Matched

LEMMA RequestRecorded ==
    ASSUME NEW rpfs, NEW new, NEW ts, NEW us, NEW i \in Index,
           NEW r0 \in Nat, Recorded(rpfs, ts), Grows(rpfs, new, i),
           Grows(ts, us, RequestOf(i, r0)), r0 = Len(rpfs) + 1
    PROVE  Recorded(new, us)
<1> DEFINE m == RequestOf(i, r0)
<1>1. m.t = "request" /\ m.to = Handler(r0) /\ m.of = i
  BY DEF RequestOf
<1>2. \A r \in Nat : Asks(m, r) <=> r = r0
  BY <1>1 DEF Asks, Handler
<1> HIDE DEF m
<1>3. \A k \in 1 .. Len(us) : (k \in 1 .. Len(ts) /\ us[k] = ts[k]) \/ (k = Len(us) /\ us[k] = m)
  BY Grown DEF m
<1>4. \A k \in 1 .. Len(rpfs) : k \in 1 .. Len(new) /\ new[k] = rpfs[k]
  BY Grown
<1>5. r0 \in 1 .. Len(new) /\ new[r0] = i
  BY DEF Grows
<1>6. \A k \in 1 .. Len(us) : \A r \in Nat :
         Asks(us[k], r) => r \in 1 .. Len(new) /\ us[k].of = new[r]
  <2> SUFFICES ASSUME NEW k \in 1 .. Len(us), NEW r \in Nat, Asks(us[k], r)
               PROVE  r \in 1 .. Len(new) /\ us[k].of = new[r]
    OBVIOUS
  <2>1. CASE k \in 1 .. Len(ts) /\ us[k] = ts[k]
    <3>1. r \in 1 .. Len(rpfs) /\ ts[k].of = rpfs[r]
      BY <2>1 DEF Recorded
    <3> QED
      BY <1>4, <2>1, <3>1
  <2>2. CASE us[k] = m
    BY <1>1, <1>2, <1>5, <2>2
  <2> QED
    BY <1>3, <2>1, <2>2
<1> QED
  BY <1>1, <1>3, <1>6 DEF Recorded

(* What the server knows.                                                   *)

LEMMA CancelClears ==
    ASSUME NEW ts, NEW us, NEW i, NEW j, Grows(ts, us, CancelOf(i))
    PROVE  Clear(j, us) <=> Clear(j, ts) /\ ~SamePort(i, j)
<1> DEFINE m == CancelOf(i)
<1>1. \A k \in 1 .. Len(us) : (k \in 1 .. Len(ts) /\ us[k] = ts[k]) \/ (k = Len(us) /\ us[k] = m)
  BY Grown
<1>2. \A k \in 1 .. Len(ts) : k \in 1 .. Len(us) /\ us[k] = ts[k]
  BY Grown
<1>3. Len(us) \in 1 .. Len(us) /\ us[Len(us)] = m
  BY Grown
<1>4. Cancels(m, j) <=> SamePort(i, j)
  BY DEF Cancels, CancelOf
<1> HIDE DEF m
<1> QED
  BY <1>1, <1>2, <1>3, <1>4 DEF Clear

LEMMA CancelledGranted ==
    ASSUME NEW p \in Forwarders, NEW u \in Forwarders, NEW i \in Index, Kept(p),
           NEW ts, NEW us, NEW tc, NEW ls \in SUBSET Index, version \in {1, 2},
           NEW r \in p.tree, p.rpfs[r] = i,
           u.rpfs = p.rpfs, u.queue = p.queue, u.tree = p.tree \ {r},
           IF version = 1 THEN us = ts ELSE Grows(ts, us, CancelOf(i)),
           Granted(p, ts, tc, ls)
    PROVE  Granted(u, us, tc, ls)
<1>1. ASSUME NEW s \in u.tree, Clear(p.rpfs[s], ts) PROVE Clear(p.rpfs[s], us)
  <2>1. s \in p.tree /\ s # r
    OBVIOUS
  <2>2. ~SameRemote(i, p.rpfs[s])
    BY <2>1 DEF Kept
  <2>3. CASE version = 1
    BY <1>1, <2>3
  <2>4. CASE version = 2
    <3>1. ~SamePort(i, p.rpfs[s])
      BY <2>2, <2>4 DEF SameRemote, SamePort
    <3> QED
      BY <1>1, <2>4, <3>1, CancelClears
  <2> QED
    BY <2>3, <2>4
<1> QED
  BY <1>1 DEF Granted

LEMMA CancelledReleased ==
    ASSUME NEW p \in Forwarders, NEW u \in Forwarders, NEW i \in Index, Kept(p),
           NEW ts, NEW us, NEW tc, NEW ls \in SUBSET Index, version = 2,
           NEW r \in p.tree, p.rpfs[r] = i,
           u.rpfs = p.rpfs, u.queue = p.queue, u.tree = p.tree \ {r},
           Grows(ts, us, CancelOf(i)),
           Released(p, ts, tc, ls)
    PROVE  Released(u, us, tc, ls)
<1> DEFINE m == CancelOf(i)
<1>1. \A k \in 1 .. Len(us) : (k \in 1 .. Len(ts) /\ us[k] = ts[k]) \/ (k = Len(us) /\ us[k] = m)
  BY Grown
<1>2. \A k \in 1 .. Len(ts) : k \in 1 .. Len(us) /\ us[k] = ts[k] /\ k < Len(us)
  BY Grown
<1>3. Len(us) \in 1 .. Len(us) /\ us[Len(us)] = m
  BY Grown
<1>4. \A s : ~Asks(m, s)
  BY DEF Asks, CancelOf
<1>5. \A j : Cancels(m, j) <=> SamePort(i, j)
  BY DEF Cancels, CancelOf
<1> HIDE DEF m
<1>6. \A s \in u.tree : s \in p.tree /\ ~SamePort(i, p.rpfs[s])
  <2> TAKE s \in u.tree
  <2>1. s \in p.tree /\ ~SameRemote(i, p.rpfs[s])
    BY DEF Kept
  <2> QED
    BY <2>1 DEF SameRemote, SamePort
<1>7. ASSUME NEW s \in u.tree, NEW k \in 1 .. Len(us), Asks(us[k], s)
      PROVE  /\ \A j \in ls : SamePort(j, u.rpfs[s]) =>
                   \E l \in 1 .. Len(us) : l < k /\ Cancels(us[l], u.rpfs[s])
             /\ \A l \in 1 .. Len(us) : l > k => ~Cancels(us[l], u.rpfs[s])
  <2>1. k \in 1 .. Len(ts) /\ us[k] = ts[k] /\ s \in p.tree
    BY <1>1, <1>4, <1>6, <1>7
  <2>2. /\ \A j \in ls : SamePort(j, p.rpfs[s]) =>
              \E l \in 1 .. Len(ts) : l < k /\ Cancels(ts[l], p.rpfs[s])
        /\ \A l \in 1 .. Len(ts) : l > k => ~Cancels(ts[l], p.rpfs[s])
    BY <1>7, <2>1 DEF Released
  <2>3. \A l \in 1 .. Len(us) : l > k => ~Cancels(us[l], u.rpfs[s])
    BY <1>1, <1>5, <1>6, <2>2
  <2> QED
    BY <1>2, <2>2, <2>3
<1>8. \A s \in u.tree : \A k \in 1 .. Len(tc) :
          Answers(tc[k], s) /\ tc[k].t = "failure" => \A j \in ls : ~SamePort(j, u.rpfs[s])
  BY DEF Released
<1>9. ASSUME NEW j \in ls
      PROVE  \/ ~Clear(j, us)
             \/ \E s \in u.tree :
                   /\ u.rpfs[s] = j
                   /\ \/ ~InQueue(u.queue, s)
                      \/ \E k \in 1 .. Len(tc) : Answers(tc[k], s) /\ tc[k].t = "success"
  <2>1. CASE ~Clear(j, ts)
    BY <2>1, CancelClears
  <2>2. CASE \E s \in p.tree :
                   /\ p.rpfs[s] = j
                   /\ \/ ~InQueue(p.queue, s)
                      \/ \E k \in 1 .. Len(tc) : Answers(tc[k], s) /\ tc[k].t = "success"
    <3>1. CASE i = j
      <4>1. SamePort(i, j)
        BY <3>1 DEF SamePort
      <4> QED
        BY <4>1, CancelClears
    <3>2. CASE i # j
      BY <2>2, <3>2
    <3> QED
      BY <3>1, <3>2
  <2> QED
    BY <2>1, <2>2 DEF Released
<1> QED
  BY <1>7, <1>8, <1>9 DEF Released

(* With the same requests and what is on its way, only the records of the   *)
(* forwardings differ.                                                      *)
LEMMA AgreedStays ==
    ASSUME NEW p, NEW u, NEW ts, NEW tc, NEW ls,
           u.rpfs = p.rpfs, u.queue = p.queue, u.tree = p.tree, u.freed = p.freed
    PROVE  /\ Agreed(p, ts, tc, ls) => Agreed(u, ts, tc, ls)
           /\ Doomed(p) => Doomed(u)
BY DEF Agreed, Granted, Released, Doomed

LEMMA RequestClears ==
    ASSUME NEW ts, NEW us, NEW i, NEW j, NEW r, Grows(ts, us, RequestOf(i, r))
    PROVE  Clear(j, us) <=> Clear(j, ts)
<1> DEFINE m == RequestOf(i, r)
<1>1. \A k \in 1 .. Len(us) : (k \in 1 .. Len(ts) /\ us[k] = ts[k]) \/ (k = Len(us) /\ us[k] = m)
  BY Grown
<1>2. \A k \in 1 .. Len(ts) : k \in 1 .. Len(us) /\ us[k] = ts[k]
  BY Grown
<1>3. ~Cancels(m, j)
  BY DEF Cancels, RequestOf
<1> HIDE DEF m
<1> QED
  BY <1>1, <1>2, <1>3 DEF Clear

LEMMA RequestQueued ==
    ASSUME NEW q, NEW p, NEW r, NEW s, Grows(q, p, r), InQueue(q, s) \/ s = r
    PROVE  InQueue(p, s)
BY Grown DEF InQueue

LEMMA QueuedBefore ==
    ASSUME NEW q, NEW p, NEW r, NEW s, Grows(q, p, r), InQueue(p, s), s # r
    PROVE  InQueue(q, s)
BY Grown DEF InQueue

LEMMA RequestedGranted ==
    ASSUME NEW p \in Forwarders, NEW u \in Forwarders, NEW i \in Index, Kept(p),
           NEW ts, NEW us, NEW tc, NEW ls \in SUBSET Index,
           NEW r \in Nat, r = Len(p.rpfs) + 1,
           Grows(p.rpfs, u.rpfs, i), Grows(p.queue, u.queue, r),
           u.tree = p.tree \cup {r},
           Grows(ts, us, RequestOf(i, r)),
           Matched(p.queue, ts, tc),
           Granted(p, ts, tc, ls)
    PROVE  Granted(u, us, tc, ls)
<1>1. \A s \in p.tree : s # r /\ u.rpfs[s] = p.rpfs[s]
  BY DEF Kept, Grows
<1>2. InQueue(u.queue, r)
  BY RequestQueued
<1>3. \A s \in p.tree : ~InQueue(u.queue, s) => ~InQueue(p.queue, s)
  BY RequestQueued
<1>4. ~InQueue(p.queue, r)
  <2>1. \A k \in 1 .. Len(p.queue) : p.queue[k] \in 1 .. Len(p.rpfs)
    BY DEF Kept
  <2> QED
    BY <2>1 DEF InQueue, Grows
<1>5. \A k \in 1 .. Len(tc) : ~Answers(tc[k], r)
  BY <1>4 DEF Matched, Coming
<1>6. \A j : Clear(j, us) <=> Clear(j, ts)
  BY RequestClears
<1> QED
  BY <1>1, <1>2, <1>3, <1>5, <1>6 DEF Granted

LEMMA RequestedReleased ==
    ASSUME NEW p \in Forwarders, NEW u \in Forwarders, NEW i \in Index, Kept(p),
           NEW ts, NEW us, NEW tc, NEW ls \in SUBSET Index, version = 2,
           NEW r \in Nat, r = Len(p.rpfs) + 1,
           \A q \in p.tree : ~SameRemote(i, p.rpfs[q]),
           Grows(p.rpfs, u.rpfs, i), Grows(p.queue, u.queue, r),
           u.tree = p.tree \cup {r},
           Grows(ts, us, RequestOf(i, r)),
           Matched(p.queue, ts, tc), Recorded(p.rpfs, ts),
           Released(p, ts, tc, ls)
    PROVE  Released(u, us, tc, ls)
<1> DEFINE m == RequestOf(i, r)
<1>1. \A k \in 1 .. Len(us) : (k \in 1 .. Len(ts) /\ us[k] = ts[k]) \/ (k = Len(us) /\ us[k] = m)
  BY Grown
<1>2. \A k \in 1 .. Len(ts) : k \in 1 .. Len(us) /\ us[k] = ts[k] /\ k < Len(us)
  BY Grown
<1>3. Len(us) \in 1 .. Len(us) /\ us[Len(us)] = m /\ Len(us) \in Nat
  BY Grown
<1>4. \A j : ~Cancels(m, j)
  BY DEF Cancels, RequestOf
<1>5. \A s \in Nat : Asks(m, s) => s = r
  BY DEF Asks, RequestOf, Handler
<1> HIDE DEF m
<1>6. \A s \in p.tree : s # r /\ u.rpfs[s] = p.rpfs[s] /\ s \in Nat
  BY SMTT(40) DEF Kept, Grows
<1>7. r \in 1 .. Len(u.rpfs) /\ u.rpfs[r] = i /\ r \notin 1 .. Len(p.rpfs)
  BY DEF Grows
<1>8. ~InQueue(p.queue, r)
  <2>1. \A k \in 1 .. Len(p.queue) : p.queue[k] \in 1 .. Len(p.rpfs)
    BY DEF Kept
  <2> QED
    BY <1>7, <2>1 DEF InQueue
<1>9. \A k \in 1 .. Len(tc) : ~Answers(tc[k], r)
  BY <1>8 DEF Matched, Coming
<1>10. \A k \in 1 .. Len(ts) : ~Asks(ts[k], r)
  BY <1>7 DEF Recorded
<1>11. \A j : Clear(j, us) <=> Clear(j, ts)
  BY RequestClears
<1>12. \A j \in ls : SamePort(j, i) => ~Clear(j, ts)
  <2> SUFFICES ASSUME NEW j \in ls, SamePort(j, i), Clear(j, ts) PROVE FALSE
    OBVIOUS
  <2>1. PICK s \in p.tree : p.rpfs[s] = j
    BY DEF Released
  <2>2. SameRemote(i, p.rpfs[s])
    BY <2>1 DEF SameRemote, SamePort
  <2> QED
    BY <2>2
<1>13. ASSUME NEW s \in u.tree, NEW k \in 1 .. Len(us), Asks(us[k], s)
      PROVE  /\ \A j \in ls : SamePort(j, u.rpfs[s]) =>
                   \E l \in 1 .. Len(us) : l < k /\ Cancels(us[l], u.rpfs[s])
             /\ \A l \in 1 .. Len(us) : l > k => ~Cancels(us[l], u.rpfs[s])
  <2>1. CASE s \in p.tree
    <3>1. k \in 1 .. Len(ts) /\ us[k] = ts[k] /\ u.rpfs[s] = p.rpfs[s]
      BY <1>1, <1>5, <1>6, <1>13, <2>1
    <3>2. /\ \A j \in ls : SamePort(j, p.rpfs[s]) =>
                \E l \in 1 .. Len(ts) : l < k /\ Cancels(ts[l], p.rpfs[s])
          /\ \A l \in 1 .. Len(ts) : l > k => ~Cancels(ts[l], p.rpfs[s])
      BY <1>13, <2>1, <3>1 DEF Released
    <3>3. \A l \in 1 .. Len(us) : l > k => ~Cancels(us[l], u.rpfs[s])
      BY <1>1, <1>4, <3>1, <3>2
    <3> QED
      BY <1>2, <3>1, <3>2, <3>3
  <2>2. CASE s = r
    <3>1. k = Len(us)
      BY <1>1, <1>10, <1>13, <2>2
    <3>2. \A l \in 1 .. Len(us) : ~(l > k)
      BY <1>3, <3>1
    <3>3. ASSUME NEW j \in ls, SamePort(j, i)
          PROVE  \E l \in 1 .. Len(us) : l < k /\ Cancels(us[l], i)
      <4>1. PICK l \in 1 .. Len(ts) : Cancels(ts[l], j)
        BY <1>12, <3>3 DEF Clear
      <4>2. Cancels(ts[l], i)
        BY <3>3, <4>1 DEF Cancels, SamePort
      <4> QED
        BY <1>2, <3>1, <4>2
    <3> QED
      BY <1>7, <2>2, <3>2, <3>3
  <2> QED
    BY <2>1, <2>2
<1>14. \A s \in u.tree : \A k \in 1 .. Len(tc) :
          Answers(tc[k], s) /\ tc[k].t = "failure" => \A j \in ls : ~SamePort(j, u.rpfs[s])
  BY <1>6, <1>9 DEF Released
<1>15. ASSUME NEW j \in ls
       PROVE \/ ~Clear(j, us)
             \/ \E s \in u.tree :
                   /\ u.rpfs[s] = j
                   /\ \/ ~InQueue(u.queue, s)
                      \/ \E k \in 1 .. Len(tc) : Answers(tc[k], s) /\ tc[k].t = "success"
  <2>1. CASE ~Clear(j, ts)
    BY <1>11, <2>1
  <2>2. CASE \E s \in p.tree :
                   /\ p.rpfs[s] = j
                   /\ \/ ~InQueue(p.queue, s)
                      \/ \E k \in 1 .. Len(tc) : Answers(tc[k], s) /\ tc[k].t = "success"
    <3>1. PICK s \in p.tree :
                   /\ p.rpfs[s] = j
                   /\ \/ ~InQueue(p.queue, s)
                      \/ \E k \in 1 .. Len(tc) : Answers(tc[k], s) /\ tc[k].t = "success"
      BY <2>2
    <3>2. ~InQueue(p.queue, s) => ~InQueue(u.queue, s)
      BY <1>6, QueuedBefore
    <3> QED
      BY <1>6, <3>1, <3>2
  <2> QED
    BY <2>1, <2>2 DEF Released
<1> QED
  BY <1>13, <1>14, <1>15 DEF Released

-------------------------------------------------------------------------------
(* The loops keep the invariant.  q is what was on its way to the server    *)
(* before the first turn.                                                   *)

LEMMA CatGrows ==
    ASSUME NEW S, NEW q \in Seq(S), NEW a \in Seq(S), NEW m \in S
    PROVE  /\ Grows(q \o a, q \o Append(a, m), m)
           /\ q \o a \in Seq(S)
<1>1. q \o a \in Seq(S) /\ Len(q \o a) = Len(q) + Len(a)
  BY ConcatProperties
<1>2. q \o Append(a, m) = Append(q \o a, m)
  OBVIOUS
<1> QED
  BY <1>1, <1>2, AppendGrows

OnItsWay(q, st) == q \o st.out

(* What was quiet before still is.                                          *)
StillQuiet(q, ts, tc) == Quiet(q, tc) => Quiet(ts, tc)

Turn(st, cfg, d, c, q, tc, ls) ==
    /\ st \in States
    /\ st.p.wanted = cfg /\ st.p.open
    /\ Statuses(st.p.fwds, cfg, d, c)
    /\ st.fault = "none" =>
          Good(st.p, OnItsWay(q, st), tc, ls) /\ StillQuiet(q, OnItsWay(q, st), tc)

LEMMA DestroyedStatuses ==
    ASSUME NEW f \in [Index -> Forwards], NEW g, NEW cfg, NEW i \in Nat \ {0}, i \in Index,
           NEW c, Statuses(f, cfg, i - 1, c),
           \/ g = f /\ f[i].status # "DESTROY"
           \/ g = [f EXCEPT ![i] = NoForward] /\ f[i].status = "DESTROY"
    PROVE  Statuses(g, cfg, i, c)
<1>0. Index \subseteq Int
  BY PortForwardsAssumption DEF Index
<1>1. \A j \in Index : j > i - 1 /\ j # i => j > i
  BY <1>0
<1>2. CASE g = f /\ f[i].status # "DESTROY"
  BY <1>1, <1>2 DEF Statuses
<1>3. CASE g = [f EXCEPT ![i] = NoForward] /\ f[i].status = "DESTROY"
  <2>1. g[i] = NoForward /\ i \notin cfg
    BY <1>3 DEF Statuses
  <2>2. \A j \in Index : j # i => g[j] = f[j]
    BY <1>3
  <2> QED
    BY <1>1, <2>1, <2>2, NoForwardIs DEF Statuses
<1> QED
  BY <1>2, <1>3

Touches(f, g, i) ==
    \E b : g = [f EXCEPT ![i].local = b] \/ g = [f EXCEPT ![i].remote = b]

LEMMA CreatedStatuses ==
    ASSUME NEW f \in [Index -> Forwards], NEW g, NEW cfg, NEW i \in Nat \ {0}, i \in Index,
           NEW d, Statuses(f, cfg, d, i - 1),
           g = f \/ (f[i].status = "CREATE" /\ Touches(f, g, i))
    PROVE  Statuses(g, cfg, d, i)
<1>0. Index \subseteq Int
  BY PortForwardsAssumption DEF Index
<1>1. \A j \in Index : j > i => j > i - 1 /\ j # i
  BY <1>0
<1>2. CASE g = f
  BY <1>1, <1>2 DEF Statuses
<1>3. CASE g # f
  <2>1. f[i] \in Forwards
    OBVIOUS
  <2>2. g[i].status = "CREATE" /\ f[i].status = "CREATE"
    BY <1>3, <2>1 DEF Forwards, Touches
  <2>3. \A j \in Index : j # i => g[j] = f[j]
    BY <1>3 DEF Touches
  <2>4. i \in cfg
    BY <2>2 DEF Statuses
  <2>5. ~(i > i)
    OBVIOUS
  <2> QED
    BY <1>1, <2>2, <2>3, <2>4, <2>5 DEF Statuses
<1> QED
  BY <1>2, <1>3

LEMMA FreshIs ==
    ASSUME NEW f, NEW cfg, NEW d, NEW i \in Nat, i \in Index, Statuses(f, cfg, d, i - 1),
           f[i].status = "CREATE"
    PROVE  f[i].remote = 0
<1>1. i > i - 1
  OBVIOUS
<1>2. f[i] = [NoForward EXCEPT !.status = "CREATE"]
  BY <1>1 DEF Statuses
<1> QED
  BY <1>2 DEF NoForward

LEMMA DestroyKeepsGood ==
    ASSUME NEW st \in States, NEW i \in Index, NEW u, Destroys(st, i, u), u.fault = "none",
           NEW q \in Seq(Requests), NEW tc, NEW ls \in SUBSET Index, version \in {1, 2},
           Good(st.p, OnItsWay(q, st), tc, ls), StillQuiet(q, OnItsWay(q, st), tc)
    PROVE  Good(u.p, OnItsWay(q, u), tc, ls) /\ StillQuiet(q, OnItsWay(q, u), tc)
<1> DEFINE r == st.p.fwds[i].remote
           ts == OnItsWay(q, st)
           us == OnItsWay(q, u)
           p == st.p
           v == u.p
<1>1. st.p \in Forwarders /\ st.out \in Seq(Requests) /\ u.p \in Forwarders
  BY StateFields DEF Destroys
<1>2. v.fwds = [p.fwds EXCEPT ![i] = NoForward] /\ v.rpfs = p.rpfs /\ v.queue = p.queue
  BY DEF Destroys
<1>3. Kept(p) /\ Matched(p.queue, ts, tc) /\ Recorded(p.rpfs, ts)
  BY DEF Good
<1>4. Doomed(p) \/ Agreed(p, ts, tc, ls)
  BY DEF Good
<1>5. CASE r = 0 /\ u.out = st.out /\ v.tree = p.tree /\ v.freed = p.freed
  <2>1. us = ts
    BY <1>5 DEF OnItsWay
  <2>2. Kept(v)
    <3> HIDE DEF v, p
    <3> QED
      BY <1>1, <1>2, <1>3, <1>5, ForgottenKept DEF v, p
  <2>3. Doomed(v) \/ Agreed(v, ts, tc, ls)
    <3> HIDE DEF v, p, ts
    <3> QED
      BY <1>2, <1>4, <1>5, AgreedStays
  <2> HIDE DEF v, p, ts, us
  <2>4. Good(v, us, tc, ls) /\ StillQuiet(q, us, tc)
    BY <1>2, <1>3, <2>1, <2>2, <2>3 DEF Good, ts
  <2> QED
    BY <2>4 DEF v, us
<1>6. CASE /\ r # 0 /\ r \notin p.freed
           /\ v.tree = p.tree \ {r} /\ v.freed = p.freed \cup {r}
           /\ u.out = IF version = 1 THEN st.out ELSE Append(st.out, CancelOf(i))
  <2>1. CancelOf(i) \in Requests
    BY DEF CancelOf, Requests
  <2>2. IF version = 1 THEN us = ts ELSE Grows(ts, us, CancelOf(i))
    <3>1. Grows(q \o st.out, q \o Append(st.out, CancelOf(i)), CancelOf(i))
      BY <1>1, <2>1, CatGrows
    <3> QED
      BY <1>6, <3>1 DEF OnItsWay
  <2>3. Kept(v) /\ r \in p.tree /\ p.rpfs[r] = i
    <3> HIDE DEF v, p, r
    <3>1. p \in Forwarders /\ v \in Forwarders /\ r = p.fwds[i].remote
      BY <1>1 DEF p, v, r
    <3> QED
      BY <1>2, <1>3, <1>6, <3>1, CancelledKept
  <2>4. Matched(v.queue, us, tc) /\ Recorded(v.rpfs, us) /\ StillQuiet(q, us, tc)
    <3> HIDE DEF v, p, ts, us
    <3>1. CASE version = 1
      BY <1>2, <1>3, <2>2, <3>1 DEF ts
    <3>2. CASE version # 1
      BY <1>2, <1>3, <2>2, <3>2, CancelSent, CancelRecorded DEF ts, StillQuiet
    <3> QED
      BY <3>1, <3>2
  <2>5. Doomed(v) \/ Agreed(v, us, tc, ls)
    <3>1. p \in Forwarders /\ v \in Forwarders /\ r \in p.tree
      BY <1>1, <2>3
    <3> HIDE DEF v, p, ts, us, r
    <3>2. CASE Doomed(p)
      BY <1>2, <1>6, <3>2 DEF Doomed
    <3>3. CASE InQueue(p.queue, r)
      BY <1>2, <1>6, <3>3 DEF Doomed, InQueue
    <3>4. CASE Agreed(p, ts, tc, ls) /\ ~InQueue(p.queue, r)
      <4>1. Granted(p, ts, tc, ls) /\ (version = 2 => Released(p, ts, tc, ls))
        BY <3>4 DEF Agreed
      <4>2. Granted(v, us, tc, ls)
        BY <1>2, <1>3, <1>6, <2>2, <2>3, <3>1, <4>1, CancelledGranted
      <4>3. version = 2 => Released(v, us, tc, ls)
        BY <1>2, <1>3, <1>6, <2>2, <2>3, <3>1, <4>1, CancelledReleased
      <4> QED
        BY <4>2, <4>3 DEF Agreed
    <3> QED
      BY <1>4, <3>2, <3>3, <3>4
  <2> HIDE DEF v, p, ts, us, r
  <2>6. Good(v, us, tc, ls) /\ StillQuiet(q, us, tc)
    BY <2>3, <2>4, <2>5 DEF Good
  <2> QED
    BY <2>6 DEF v, us
<1> QED
  BY <1>5, <1>6 DEF Destroys

LEMMA ListenKeepsGood ==
    ASSUME NEW st \in States, NEW i \in Index, NEW u, Listens(st, i, u),
           NEW q \in Seq(Requests), NEW tc, NEW ls \in SUBSET Index,
           Good(st.p, OnItsWay(q, st), tc, ls), StillQuiet(q, OnItsWay(q, st), tc)
    PROVE  Good(u.p, OnItsWay(q, u), tc, ls) /\ StillQuiet(q, OnItsWay(q, u), tc)
<1> DEFINE ts == OnItsWay(q, st)
           p == st.p
           v == u.p
<1>1. p \in Forwarders /\ v \in Forwarders
  BY StateFields DEF Listens
<1>2. /\ v.rpfs = p.rpfs /\ v.queue = p.queue /\ v.tree = p.tree /\ v.freed = p.freed
      /\ OnItsWay(q, u) = ts
  BY DEF Listens, OnItsWay
<1>3. PICK b \in BOOLEAN :
         /\ v.fwds = [p.fwds EXCEPT ![i].local = b]
         /\ b => \A j \in Index : p.fwds[j].local => ~SamePort(i, j)
  BY DEF Listens
<1>4. Kept(p) /\ Matched(p.queue, ts, tc) /\ Recorded(p.rpfs, ts)
  BY DEF Good
<1>5. Doomed(p) \/ Agreed(p, ts, tc, ls)
  BY DEF Good
<1> HIDE DEF p, v, ts
<1>6. Kept(v)
  BY <1>1, <1>2, <1>3, <1>4, ListenedKept
<1>7. Doomed(v) \/ Agreed(v, ts, tc, ls)
  BY <1>2, <1>5, AgreedStays
<1>8. Good(v, ts, tc, ls)
  BY <1>2, <1>4, <1>6, <1>7 DEF Good
<1> QED
  BY <1>2, <1>8 DEF v, ts

LEMMA AskKeepsGood ==
    ASSUME NEW st \in States, NEW i \in Index, NEW u, AsksFor(st, i, u),
           st.p.fwds[i].remote = 0,
           NEW q \in Seq(Requests), NEW tc, NEW ls \in SUBSET Index,
           Good(st.p, OnItsWay(q, st), tc, ls), StillQuiet(q, OnItsWay(q, st), tc)
    PROVE  Good(u.p, OnItsWay(q, u), tc, ls) /\ StillQuiet(q, OnItsWay(q, u), tc)
<1> DEFINE n == Len(st.p.rpfs)
           r == n + 1
           ts == OnItsWay(q, st)
           us == OnItsWay(q, u)
           p == st.p
           v == u.p
<1>1. p \in Forwarders /\ v \in Forwarders /\ st.out \in Seq(Requests)
  BY StateFields DEF AsksFor
<1>2. p.rpfs \in Seq(Index) /\ p.queue \in Seq(Nat)
  BY <1>1, ForwarderFields
<1>3. n \in Nat /\ r \in Nat /\ r = Len(p.rpfs) + 1
  BY <1>2, LenProperties
<1>4. /\ v.fwds = [p.fwds EXCEPT ![i].remote = r]
      /\ v.rpfs = Append(p.rpfs, i) /\ v.queue = Append(p.queue, r)
      /\ v.tree = p.tree \cup {r} /\ v.freed = p.freed
      /\ u.out = Append(st.out, RequestOf(i, r))
      /\ \A s \in p.tree : ~SameRemote(i, p.rpfs[s])
  BY DEF AsksFor
<1>5. Kept(p) /\ Matched(p.queue, ts, tc) /\ Recorded(p.rpfs, ts)
  BY DEF Good
<1>6. Doomed(p) \/ Agreed(p, ts, tc, ls)
  BY DEF Good
<1> HIDE DEF n
<1>7. RequestOf(i, r) \in Requests
  BY <1>3, RequestIs
<1>8. Grows(ts, us, RequestOf(i, r))
  BY <1>1, <1>4, <1>7, CatGrows DEF OnItsWay
<1> HIDE DEF p, v, ts, us
<1>9. Grows(p.rpfs, v.rpfs, i) /\ Grows(p.queue, v.queue, r)
  BY <1>2, <1>3, <1>4, AppendGrows
<1>10. p.fwds[i].remote = 0
  BY DEF p
<1>11. \A k \in 1 .. Len(p.queue) : p.queue[k] \in 1 .. n
  BY <1>5 DEF Kept, n, p
<1>12. Matched(v.queue, us, tc) /\ StillQuiet(q, us, tc)
  BY <1>2, <1>3, <1>5, <1>8, <1>9, <1>11, RequestSent DEF ts, StillQuiet
<1> HIDE DEF r
<1>13. Kept(v)
  BY <1>1, <1>3, <1>4, <1>5, <1>9, <1>10, RequestedKept
<1>14. Recorded(v.rpfs, us)
  BY <1>3, <1>5, <1>8, <1>9, RequestRecorded
<1>15. Doomed(v) \/ Agreed(v, us, tc, ls)
  <2>1. CASE Doomed(p)
    <3>1. PICK k \in 1 .. Len(p.queue) : p.queue[k] \in p.freed
      BY <2>1 DEF Doomed
    <3>2. k \in 1 .. Len(v.queue) /\ v.queue[k] = p.queue[k]
      BY <1>9, <3>1, Grown
    <3> QED
      BY <1>4, <3>1, <3>2 DEF Doomed
  <2>2. CASE Agreed(p, ts, tc, ls)
    <3>1. Granted(p, ts, tc, ls) /\ (version = 2 => Released(p, ts, tc, ls))
      BY <2>2 DEF Agreed
    <3>2. Granted(v, us, tc, ls)
      BY <1>1, <1>3, <1>4, <1>5, <1>8, <1>9, <3>1, RequestedGranted, ZenonT(60)
    <3>3. ASSUME version = 2 PROVE Released(v, us, tc, ls)
      <4>1. Released(p, ts, tc, ls)
        BY <3>1, <3>3
      <4>2. i \in Index /\ ls \in SUBSET Index
        OBVIOUS
      <4> QED
        BY <1>1, <1>3, <1>4, <1>5, <1>8, <1>9, <3>3, <4>1, <4>2, RequestedReleased, ZenonT(60)
    <3> QED
      BY <3>2, <3>3 DEF Agreed
  <2> QED
    BY <1>6, <2>1, <2>2
<1>16. Good(v, us, tc, ls)
  BY <1>12, <1>13, <1>14, <1>15 DEF Good
<1> QED
  BY <1>12, <1>16 DEF v, us

LEMMA DestroyTurn ==
    ASSUME NEW st, NEW cfg, NEW i \in Nat \ {0}, i \in Index, NEW c,
           NEW q \in Seq(Requests), NEW tc, NEW ls \in SUBSET Index, version \in {1, 2},
           Turn(st, cfg, i - 1, c, q, tc, ls)
    PROVE  Turn(Destroy(st, i), cfg, i, c, q, tc, ls)
<1> DEFINE u == Destroy(st, i)
<1>1. st \in States /\ st.p \in Forwarders
  BY StateFields DEF Turn
<1>2. u \in States /\ (Passes(st, i, u) \/ Destroys(st, i, u))
  BY <1>1, DestroyIs
<1>3. st.p.fwds \in [Index -> Forwards] /\ Statuses(st.p.fwds, cfg, i - 1, c)
  BY <1>1, ForwarderFields DEF Turn
<1>4. st.p.wanted = cfg /\ st.p.open
  BY DEF Turn
<1> HIDE DEF u
<1>5. CASE Passes(st, i, u)
  <2>1. u = st /\ st.p.fwds[i].status # "DESTROY"
    BY <1>5 DEF Passes
  <2>2. Statuses(u.p.fwds, cfg, i, c)
    BY <1>3, <2>1, DestroyedStatuses
  <2> QED
    BY <2>1, <2>2 DEF Turn, u
<1>6. CASE Destroys(st, i, u)
  <2>1. /\ u.p.fwds = [st.p.fwds EXCEPT ![i] = NoForward] /\ st.p.fwds[i].status = "DESTROY"
        /\ u.p.wanted = cfg /\ u.p.open
    BY <1>4, <1>6 DEF Destroys
  <2>2. Statuses(u.p.fwds, cfg, i, c)
    BY <1>3, <2>1, DestroyedStatuses
  <2>3. ASSUME u.fault = "none"
        PROVE  Good(u.p, OnItsWay(q, u), tc, ls) /\ StillQuiet(q, OnItsWay(q, u), tc)
    <3>1. st.fault = "none"
      BY <1>6, <2>3 DEF Destroys
    <3>2. Good(st.p, OnItsWay(q, st), tc, ls) /\ StillQuiet(q, OnItsWay(q, st), tc)
      BY <3>1 DEF Turn
    <3> QED
      BY <1>1, <1>6, <2>3, <3>2, DestroyKeepsGood
  <2> QED
    BY <1>2, <2>1, <2>2, <2>3 DEF Turn, u
<1> QED
  BY <1>2, <1>5, <1>6

LEMMA CreateTurn ==
    ASSUME NEW st, NEW cfg, NEW i \in Nat \ {0}, i \in Index, NEW d, NEW busy,
           NEW q \in Seq(Requests), NEW tc, NEW ls \in SUBSET Index,
           Turn(st, cfg, d, i - 1, q, tc, ls)
    PROVE  Turn(Create(st, i, busy), cfg, d, i, q, tc, ls)
<1> DEFINE u == Create(st, i, busy)
<1>1. st \in States /\ st.p \in Forwarders
  BY StateFields DEF Turn
<1>2. u \in States /\ Creates(st, i, u)
  BY <1>1, CreateIs
<1>3. st.p.fwds \in [Index -> Forwards] /\ Statuses(st.p.fwds, cfg, d, i - 1)
  BY <1>1, ForwarderFields DEF Turn
<1>4. st.p.wanted = cfg /\ st.p.open
  BY DEF Turn
<1>5. st.fault = "none" => Good(st.p, OnItsWay(q, st), tc, ls) /\ StillQuiet(q, OnItsWay(q, st), tc)
  BY DEF Turn
<1> HIDE DEF u
<1>6. CASE Skips(st, i, u)
  <2>1. u = st
    BY <1>6 DEF Skips
  <2>2. Statuses(u.p.fwds, cfg, d, i)
    BY <1>3, <2>1, CreatedStatuses
  <2> QED
    BY <2>1, <2>2 DEF Turn, u
<1>7. CASE Listens(st, i, u)
  <2>1. /\ Touches(st.p.fwds, u.p.fwds, i)
        /\ st.p.fwds[i].status = "CREATE"
        /\ u.p.wanted = cfg /\ u.p.open /\ u.fault = st.fault
    BY <1>4, <1>7 DEF Listens, Touches
  <2>2. Statuses(u.p.fwds, cfg, d, i)
    BY <1>3, <2>1, CreatedStatuses
  <2>3. u.fault = "none" => Good(u.p, OnItsWay(q, u), tc, ls) /\ StillQuiet(q, OnItsWay(q, u), tc)
    BY <1>1, <1>5, <1>7, <2>1, ListenKeepsGood
  <2> QED
    BY <1>2, <2>1, <2>2, <2>3 DEF Turn, u
<1>8. CASE AsksFor(st, i, u)
  <2>1. /\ Touches(st.p.fwds, u.p.fwds, i)
        /\ st.p.fwds[i].status = "CREATE"
        /\ u.p.wanted = cfg /\ u.p.open /\ u.fault = st.fault
    BY <1>4, <1>8 DEF AsksFor, Touches
  <2>2. Statuses(u.p.fwds, cfg, d, i)
    BY <1>3, <2>1, CreatedStatuses
  <2>3. st.p.fwds[i].remote = 0
    BY <1>3, <2>1, FreshIs
  <2>4. u.fault = "none" => Good(u.p, OnItsWay(q, u), tc, ls) /\ StillQuiet(q, OnItsWay(q, u), tc)
    BY <1>1, <1>5, <1>8, <2>1, <2>3, AskKeepsGood
  <2> QED
    BY <1>2, <2>1, <2>2, <2>4 DEF Turn, u
<1> QED
  BY <1>2, <1>6, <1>7, <1>8 DEF Creates

LEMMA IndexIs == Len(Forwardings) \in Nat /\ Index = 1 .. Len(Forwardings)
BY PortForwardsAssumption, LenProperties DEF Index

IsTagged(u, p, cfg) ==
    /\ u \in Forwarders /\ u.wanted = cfg /\ Statuses(u.fwds, cfg, 0, 0)
    /\ \A i \in Index : u.fwds[i].remote = p.fwds[i].remote /\ u.fwds[i].local = p.fwds[i].local
    /\ u.rpfs = p.rpfs /\ u.tree = p.tree /\ u.freed = p.freed /\ u.queue = p.queue
    /\ u.open = p.open

LEMMA TaggedIs ==
    ASSUME NEW p \in Forwarders, NEW cfg \in SUBSET Index, NEW twice,
           NEW n \in Nat, Index = 1 .. n, Statuses(p.fwds, p.wanted, n, n)
    PROVE  IsTagged(Tagged(p, cfg, twice), p, cfg)
<1> DEFINE S(i) == IF i \notin cfg
                   THEN IF p.fwds[i].status = "none" THEN "none" ELSE "DESTROY"
                   ELSE IF p.fwds[i].status = "none" /\ i \notin twice THEN "CREATE"
                   ELSE "KEEP"
           f == [i \in Index |-> [p.fwds[i] EXCEPT !.status = S(i)]]
           u == [p EXCEPT !.wanted = cfg, !.fwds = f]
<1>1. Tagged(p, cfg, twice) = u
  BY DEF Tagged
<1>2. p.fwds \in [Index -> Forwards]
  BY ForwarderFields
<1>3. \A i \in Index : S(i) \in {"none", "DESTROY", "KEEP", "CREATE"}
  OBVIOUS
<1>4. \A i \in Index : /\ (S(i) \in {"KEEP", "CREATE"} <=> i \in cfg)
                       /\ (S(i) = "CREATE" \/ S(i) = "none" => p.fwds[i].status = "none")
  OBVIOUS
<1> HIDE DEF S
<1>5. \A i \in Index : /\ f[i] \in Forwards /\ f[i].status = S(i)
                       /\ f[i].remote = p.fwds[i].remote /\ f[i].local = p.fwds[i].local
                       /\ f[i] = [p.fwds[i] EXCEPT !.status = S(i)]
  BY <1>2, <1>3 DEF Forwards
<1>6. f \in [Index -> Forwards]
  BY <1>5
<1> HIDE DEF f
<1>7. /\ u \in Forwarders /\ u.wanted = cfg /\ u.fwds = f /\ u.rpfs = p.rpfs
      /\ u.tree = p.tree /\ u.freed = p.freed /\ u.queue = p.queue /\ u.open = p.open
  BY <1>6 DEF Forwarders
<1> HIDE DEF u
<1>8. \A i \in Index : i > 0
  OBVIOUS
<1>9. \A i \in Index : p.fwds[i].status = "none" => p.fwds[i] = NoForward
  BY DEF Statuses
<1>10. Statuses(f, cfg, 0, 0)
  <2> SUFFICES ASSUME NEW i \in Index
               PROVE  /\ f[i].status \in {"KEEP", "CREATE"} => i \in cfg
                      /\ f[i].status = "none" => i \notin cfg /\ f[i] = NoForward
                      /\ f[i].status = "DESTROY" => i \notin cfg /\ i > 0
                      /\ f[i].status = "CREATE" /\ i > 0
                            => f[i] = [NoForward EXCEPT !.status = "CREATE"]
    BY DEF Statuses
  <2>1. f[i].status \in {"KEEP", "CREATE"} <=> i \in cfg
    BY <1>4, <1>5
  <2>2. f[i].status = "none" => i \notin cfg /\ f[i] = NoForward
    <3> SUFFICES ASSUME f[i].status = "none" PROVE f[i] = NoForward
      BY <2>1
    <3>1. S(i) = "none"
      BY <1>5
    <3>2. p.fwds[i] = NoForward
      BY <1>4, <1>9, <3>1
    <3>3. f[i] = [NoForward EXCEPT !.status = "none"]
      BY <1>5, <3>1, <3>2
    <3> QED
      BY <3>3 DEF NoForward
  <2>3. f[i].status = "CREATE" => f[i] = [NoForward EXCEPT !.status = "CREATE"]
    BY <1>4, <1>5, <1>9
  <2> QED
    BY <1>8, <2>1, <2>2, <2>3
<1> QED
  BY <1>1, <1>5, <1>7, <1>10 DEF IsTagged

LEMMA SetupKeeps ==
    ASSUME NEW p \in Forwarders, p.open, NEW cfg \in SUBSET Index, NEW twice, NEW busy,
           NEW q \in Seq(Requests), NEW tc, NEW ls \in SUBSET Index, version \in {1, 2},
           Statuses(p.fwds, p.wanted, Len(Forwardings), Len(Forwardings)),
           Good(p, q, tc, ls)
    PROVE  Turn(Setup(p, cfg, twice, busy), cfg, Len(Forwardings), Len(Forwardings), q, tc, ls)
<1> DEFINE n == Len(Forwardings)
           start == [p |-> Tagged(p, cfg, twice), out |-> <<>>, fault |-> "none"]
           DRec(f) == f = [i \in 0 .. n |-> IF i = 0 THEN start ELSE Destroy(f[i - 1], i)]
           D == CHOOSE f : DRec(f)
           CRec(f) == f = [i \in 0 .. n |-> IF i = 0 THEN D[n] ELSE Create(f[i - 1], i, busy)]
           C == CHOOSE f : CRec(f)
<1>0. n \in Nat /\ Index = 1 .. n
  BY IndexIs
<1>1. Setup(p, cfg, twice, busy) = C[n]
  BY DEF Setup
<1>2. start \in States /\ start.p = Tagged(p, cfg, twice) /\ start.out = <<>> /\ start.fault = "none"
  <2>1. Tagged(p, cfg, twice) \in Forwarders
    BY <1>0, TaggedIs DEF IsTagged
  <2>2. <<>> \in Seq(Requests)
    BY EmptySeq
  <2> QED
    BY <2>1, <2>2 DEF States
<1>3. Turn(start, cfg, 0, 0, q, tc, ls)
  <2> DEFINE t == Tagged(p, cfg, twice)
  <2>1. /\ t \in Forwarders /\ t.wanted = cfg /\ Statuses(t.fwds, cfg, 0, 0)
        /\ \A i \in Index : t.fwds[i].remote = p.fwds[i].remote /\ t.fwds[i].local = p.fwds[i].local
        /\ t.rpfs = p.rpfs /\ t.tree = p.tree /\ t.freed = p.freed /\ t.queue = p.queue
        /\ t.open = p.open
    <3>1. IsTagged(t, p, cfg)
      BY <1>0, TaggedIs
    <3> HIDE DEF t
    <3> QED
      BY <3>1 DEF IsTagged
  <2>2. start.p = t /\ OnItsWay(q, start) = q
    BY <1>2, ConcatEmptySeq DEF OnItsWay
  <2> HIDE DEF t, start
  <2>3. \A r \in p.tree : p.rpfs[r] \in Index
    <3>1. p.rpfs \in Seq(Index)
      BY ForwarderFields
    <3>2. \A r \in p.tree : r \in 1 .. Len(p.rpfs)
      BY DEF Good, Kept
    <3> QED
      BY <3>1, <3>2
  <2>4. Kept(t)
    BY <2>1, <2>3 DEF Good, Kept
  <2>5. Good(t, q, tc, ls)
    BY <2>1, <2>4, AgreedStays DEF Good
  <2>6. start.p.wanted = cfg /\ start.p.open /\ Statuses(start.p.fwds, cfg, 0, 0)
    BY <2>1, <2>2
  <2> QED
    BY <1>2, <2>2, <2>5, <2>6 DEF Turn, StillQuiet
<1> HIDE DEF start
<1>4. DRec(D)
  <2> DEFINE F == [x \in (1 .. n) \X States |-> Destroy(x[2], x[1])]
  <2>1. \A i \in 1 .. n, s \in States : F[<<i, s>>] = Destroy(s, i) /\ Destroy(s, i) \in States
    BY <1>0, DestroyIs
  <2>2. F \in Bodies(n, States)
    BY <1>0, DestroyIs DEF Bodies
  <2> HIDE DEF F, n
  <2>3. PICK f : Loops(f, n, States, start, F)
    <3>1. n \in Nat /\ start \in States
      BY <1>0, <1>2
    <3> QED
      BY <2>2, <3>1, LoopsExist
  <2>4. \A i \in 0 .. n : f[i] = IF i = 0 THEN start ELSE Destroy(f[i - 1], i)
    <3> TAKE i \in 0 .. n
    <3>1. CASE i = 0
      BY <2>3, <3>1 DEF Loops
    <3>2. CASE i # 0
      <4>1. i \in 1 .. n /\ i - 1 \in 0 .. n
        BY <1>0, <3>2
      <4> QED
        BY <2>1, <2>3, <3>2, <4>1 DEF Loops
    <3> QED
      BY <3>1, <3>2
  <2>5. DRec(f)
    BY <2>3, <2>4 DEF Loops
  <2> HIDE DEF DRec
  <2> QED
    BY <2>5
<1>5. \A k \in 0 .. n : Turn(D[k], cfg, k, 0, q, tc, ls)
  <2> DEFINE G == {k \in Nat : k <= n => Turn(D[k], cfg, k, 0, q, tc, ls)}
  <2>1. \A i \in 0 .. n : D[i] = IF i = 0 THEN start ELSE Destroy(D[i - 1], i)
    <3> HIDE DEF D, n
    <3> QED
      BY <1>4
  <2> HIDE DEF D, n
  <2>2. 0 \in G
    BY <1>0, <1>3, <2>1
  <2>3. ASSUME NEW k \in Nat, k < n, k \in G PROVE k + 1 \in G
    <3>1. k + 1 \in 0 .. n /\ k + 1 # 0 /\ (k + 1) - 1 = k /\ k + 1 \in Nat \ {0}
          /\ k + 1 \in Index
      BY <1>0, <2>3
    <3>2. Turn(D[k], cfg, (k + 1) - 1, 0, q, tc, ls)
      <4>1. k <= n
        BY <1>0, <2>3
      <4>2. Turn(D[k], cfg, k, 0, q, tc, ls)
        BY <2>3, <4>1
      <4> QED
        BY <3>1, <4>2
    <3>3. D[k + 1] = Destroy(D[k], k + 1)
      BY <2>1, <3>1
    <3>4. Turn(Destroy(D[k], k + 1), cfg, k + 1, 0, q, tc, ls)
      BY <3>1, <3>2, DestroyTurn
    <3>5. Turn(D[k + 1], cfg, k + 1, 0, q, tc, ls) /\ k + 1 \in Nat
      BY <3>1, <3>3, <3>4
    <3> QED
      BY <3>5
  <2>4. \A k \in 0 .. n : k \in G
    <3> HIDE DEF G
    <3> QED
      BY <1>0, <2>2, <2>3, UpTo
  <2> QED
    BY <1>0, <2>4
<1>6. Turn(D[n], cfg, n, 0, q, tc, ls) /\ D[n] \in States
  <2>1. n \in 0 .. n
    BY <1>0
  <2>2. Turn(D[n], cfg, n, 0, q, tc, ls)
    BY <1>5, <2>1
  <2> QED
    BY <2>2 DEF Turn
<1> HIDE DEF D
<1>7. CRec(C)
  <2> DEFINE F == [x \in (1 .. n) \X States |-> Create(x[2], x[1], busy)]
  <2>1. \A i \in 1 .. n, s \in States : F[<<i, s>>] = Create(s, i, busy) /\ Create(s, i, busy) \in States
    BY <1>0, CreateIs
  <2>2. F \in Bodies(n, States)
    BY <1>0, CreateIs DEF Bodies
  <2> HIDE DEF F, n
  <2>3. PICK f : Loops(f, n, States, D[n], F)
    <3>1. n \in Nat /\ D[n] \in States
      BY <1>0, <1>6
    <3> QED
      BY <2>2, <3>1, LoopsExist
  <2>4. \A i \in 0 .. n : f[i] = IF i = 0 THEN D[n] ELSE Create(f[i - 1], i, busy)
    <3> TAKE i \in 0 .. n
    <3>1. CASE i = 0
      BY <2>3, <3>1 DEF Loops
    <3>2. CASE i # 0
      <4>1. i \in 1 .. n /\ i - 1 \in 0 .. n
        BY <1>0, <3>2
      <4> QED
        BY <2>1, <2>3, <3>2, <4>1 DEF Loops
    <3> QED
      BY <3>1, <3>2
  <2>5. CRec(f)
    BY <2>3, <2>4 DEF Loops
  <2> HIDE DEF CRec
  <2> QED
    BY <2>5
<1>8. \A k \in 0 .. n : Turn(C[k], cfg, n, k, q, tc, ls)
  <2> DEFINE G == {k \in Nat : k <= n => Turn(C[k], cfg, n, k, q, tc, ls)}
  <2>1. \A i \in 0 .. n : C[i] = IF i = 0 THEN D[n] ELSE Create(C[i - 1], i, busy)
    <3> HIDE DEF C, n
    <3> QED
      BY <1>7
  <2> HIDE DEF C, n
  <2>2. 0 \in G
    BY <1>0, <1>6, <2>1
  <2>3. ASSUME NEW k \in Nat, k < n, k \in G PROVE k + 1 \in G
    <3>1. k + 1 \in 0 .. n /\ k + 1 # 0 /\ (k + 1) - 1 = k /\ k + 1 \in Nat \ {0}
          /\ k + 1 \in Index
      BY <1>0, <2>3
    <3>2. Turn(C[k], cfg, n, (k + 1) - 1, q, tc, ls)
      <4>1. k <= n
        BY <1>0, <2>3
      <4>2. Turn(C[k], cfg, n, k, q, tc, ls)
        BY <2>3, <4>1
      <4> QED
        BY <3>1, <4>2
    <3>3. C[k + 1] = Create(C[k], k + 1, busy)
      BY <2>1, <3>1
    <3>4. Turn(Create(C[k], k + 1, busy), cfg, n, k + 1, q, tc, ls)
      BY <3>1, <3>2, CreateTurn
    <3>5. Turn(C[k + 1], cfg, n, k + 1, q, tc, ls) /\ k + 1 \in Nat
      BY <3>1, <3>3, <3>4
    <3> QED
      BY <3>5
  <2>4. \A k \in 0 .. n : k \in G
    <3> HIDE DEF G
    <3> QED
      BY <1>0, <2>2, <2>3, UpTo
  <2> QED
    BY <1>0, <2>4
<1>9. Turn(C[n], cfg, n, n, q, tc, ls)
  <2>1. n \in 0 .. n
    BY <1>0
  <2> QED
    BY <1>8, <2>1
<1> HIDE DEF C
<1> QED
  BY <1>1, <1>9

-------------------------------------------------------------------------------
(* The head of a queue is taken.                                            *)

(* a is b with m before it. *)
Shrinks(a, b, m) ==
    /\ Len(b) \in Nat /\ Len(a) = Len(b) + 1
    /\ a[1] = m
    /\ \A k \in 1 .. Len(b) : b[k] = a[k + 1]

LEMMA TailShrinks ==
    ASSUME NEW S, NEW a \in Seq(S), a # <<>>
    PROVE  Shrinks(a, Tail(a), Head(a)) /\ Tail(a) \in Seq(S) /\ Head(a) \in S
BY HeadTailProperties, EmptySeq, LenProperties DEF Shrinks

LEMMA Shrunk ==
    ASSUME NEW a, NEW b, NEW m, Shrinks(a, b, m)
    PROVE  /\ \A k \in 1 .. Len(b) : k + 1 \in 1 .. Len(a) /\ b[k] = a[k + 1] /\ 1 < k + 1
           /\ \A k \in 1 .. Len(a) :
                 (k = 1 /\ a[k] = m) \/ (k - 1 \in 1 .. Len(b) /\ b[k - 1] = a[k] /\ 1 < k)
           /\ 1 \in 1 .. Len(a) /\ a[1] = m
           /\ Len(b) \in Nat /\ Len(a) = Len(b) + 1
<1> DEFINE n == Len(b)
           l == Len(a)
<1>1. n \in Nat /\ l = n + 1 /\ a[1] = m /\ \A k \in 1 .. n : b[k] = a[k + 1]
  BY DEF Shrinks
<1> HIDE DEF n, l
<1>2. \A k \in 1 .. n : k + 1 \in 1 .. l /\ 1 < k + 1
  BY <1>1
<1>3. \A k \in 1 .. l : k = 1 \/ (k - 1 \in 1 .. n /\ (k - 1) + 1 = k /\ 1 < k)
  BY <1>1
<1>4. 1 \in 1 .. l
  BY <1>1
<1>5. /\ \A k \in 1 .. n : k + 1 \in 1 .. l /\ b[k] = a[k + 1] /\ 1 < k + 1
      /\ \A k \in 1 .. l : (k = 1 /\ a[k] = m) \/ (k - 1 \in 1 .. n /\ b[k - 1] = a[k] /\ 1 < k)
      /\ 1 \in 1 .. l /\ a[1] = m
      /\ n \in Nat /\ l = n + 1
  BY <1>1, <1>2, <1>3, <1>4
<1> QED
  BY <1>5, Zenon DEF n, l

LEMMA ReplyIs ==
    ASSUME NEW m \in Replies
    PROVE  /\ m.t \in {"success", "failure"}
           /\ \/ ~Own(m) /\ \E r \in Nat : Answers(m, r)
              \/ Own(m)
BY DEF Replies, Owner, Handlers, Connections, Own, Answers, Handler

LEMMA AnswersOne ==
    /\ \A m : \A r, s \in Nat : Answers(m, r) /\ Answers(m, s) => r = s
    /\ \A m : \A r \in Nat : Answers(m, r) => ~Own(m)
    /\ \A m : \A r, s \in Nat : Asks(m, r) /\ Asks(m, s) => r = s
BY DEF Answers, Asks, Own, Handler

(* The first of the queued handlers is the one that the first reply is for. *)
LEMMA HeadAnswers ==
    ASSUME NEW q, NEW v, NEW ts \in Seq(Requests), NEW tc \in Seq(Replies), NEW vc,
           NEW r \in Nat, NEW m \in Replies, ~Own(m),
           Matched(q, ts, tc), Shrinks(q, v, r), Shrinks(tc, vc, m),
           \A k \in 1 .. Len(q) : q[k] \in Nat
    PROVE  Answers(m, r)
<1>1. 1 \in 1 .. Len(q) /\ q[1] = r /\ 1 \in 1 .. Len(tc) /\ tc[1] = m
  BY Shrunk
<1>2. \A k \in 1 .. Len(tc) : k = 1 \/ 1 < k
  BY Shrunk
<1>3. \A k \in 1 .. Len(q) : q[k] = r \/ r < q[k]
  <2> TAKE k \in 1 .. Len(q)
  <2>1. k = 1 \/ 1 < k
    BY Shrunk
  <2> QED
    BY <1>1, <2>1 DEF Matched
<1>4. Coming(r, ts, tc)
  BY <1>1 DEF Matched, InQueue
<1>5. PICK s \in Nat : Answers(m, s)
  BY ReplyIs
<1>6. r = s \/ r < s
  <2>1. Coming(s, ts, tc)
    BY <1>1, <1>5 DEF Coming
  <2>2. PICK l \in 1 .. Len(q) : q[l] = s
    BY <2>1 DEF Matched, InQueue
  <2> QED
    BY <1>3, <2>2
<1>7. CASE \E k \in 1 .. Len(tc) : Answers(tc[k], r)
  <2>1. PICK k \in 1 .. Len(tc) : Answers(tc[k], r)
    BY <1>7
  <2>2. CASE k = 1
    BY <1>1, <2>1, <2>2
  <2>3. CASE 1 < k
    <3>1. s < r
      BY <1>1, <1>5, <2>1, <2>3 DEF Matched
    <3> QED
      BY <1>6, <3>1
  <2> QED
    BY <1>2, <2>2, <2>3
<1>8. CASE \E k \in 1 .. Len(ts) : Asks(ts[k], r)
  <2>1. s < r
    BY <1>1, <1>5, <1>8 DEF Matched
  <2> QED
    BY <1>6, <2>1
<1> QED
  BY <1>4, <1>7, <1>8 DEF Coming

Ascending(q) == \A k, l \in 1 .. Len(q) : k < l => q[k] < q[l]

LEMMA HeadLeaves ==
    ASSUME NEW q, NEW v, NEW r \in Nat, Shrinks(q, v, r), Ascending(q),
           \A k \in 1 .. Len(q) : q[k] \in Nat
    PROVE  \A s \in Nat : InQueue(v, s) <=> InQueue(q, s) /\ s # r
<1>1. 1 \in 1 .. Len(q) /\ q[1] = r
  BY Shrunk
<1>2. \A k \in 1 .. Len(v) : k + 1 \in 1 .. Len(q) /\ v[k] = q[k + 1] /\ 1 < k + 1
  BY Shrunk
<1>3. \A k \in 1 .. Len(q) : q[k] = r \/ (k - 1 \in 1 .. Len(v) /\ v[k - 1] = q[k])
  BY Shrunk
<1>4. \A k \in 1 .. Len(v) : r < v[k]
  BY <1>1, <1>2 DEF Ascending
<1> TAKE s \in Nat
<1>5. ASSUME InQueue(v, s) PROVE InQueue(q, s) /\ s # r
  <2>1. PICK k \in 1 .. Len(v) : v[k] = s
    BY <1>5 DEF InQueue
  <2>2. r < s
    BY <1>4, <2>1
  <2> QED
    BY <1>2, <2>1, <2>2 DEF InQueue
<1>6. ASSUME InQueue(q, s), s # r PROVE InQueue(v, s)
  BY <1>3, <1>6 DEF InQueue
<1> QED
  BY <1>5, <1>6

(* With it goes what was coming for it, and nothing else.                   *)
LEMMA HeadGoes ==
    ASSUME NEW q, NEW v, NEW ts \in Seq(Requests), NEW tc \in Seq(Replies), NEW vc,
           NEW r \in Nat, NEW m \in Replies, ~Own(m),
           Matched(q, ts, tc), Shrinks(q, v, r), Shrinks(tc, vc, m),
           \A k \in 1 .. Len(q) : q[k] \in Nat
    PROVE  Matched(v, ts, vc)
<1>0. Answers(m, r)
  BY HeadAnswers
<1>1. 1 \in 1 .. Len(q) /\ q[1] = r /\ 1 \in 1 .. Len(tc) /\ tc[1] = m
  BY Shrunk
<1>2. \A k \in 1 .. Len(v) : k + 1 \in 1 .. Len(q) /\ v[k] = q[k + 1] /\ 1 < k + 1
  BY Shrunk
<1>4. \A k \in 1 .. Len(vc) : k + 1 \in 1 .. Len(tc) /\ vc[k] = tc[k + 1] /\ 1 < k + 1
  BY Shrunk
<1>5. \A k \in 1 .. Len(tc) : (k = 1 /\ tc[k] = m) \/ (k - 1 \in 1 .. Len(vc) /\ vc[k - 1] = tc[k])
  BY Shrunk
<1>6. Len(vc) \in Nat /\ Len(tc) = Len(vc) + 1
  BY Shrunk
<1>8. \A s \in Nat : InQueue(v, s) <=> InQueue(q, s) /\ s # r
  <2>1. Ascending(q)
    BY DEF Matched, Ascending
  <2> QED
    BY <2>1, HeadLeaves
<1>9. \A s \in Nat : Coming(s, ts, vc) <=> Coming(s, ts, tc) /\ s # r
  <2> TAKE s \in Nat
  <2>1. ASSUME NEW k \in 1 .. Len(vc), Answers(vc[k], s) PROVE Coming(s, ts, tc) /\ s # r
    <3>1. Answers(tc[k + 1], s) /\ 1 < k + 1 /\ k + 1 \in 1 .. Len(tc)
      BY <1>4, <2>1
    <3>2. r < s
      BY <1>0, <1>1, <3>1 DEF Matched
    <3> QED
      BY <3>1, <3>2 DEF Coming
  <2>2. ASSUME NEW k \in 1 .. Len(ts), Asks(ts[k], s) PROVE Coming(s, ts, tc) /\ s # r
    <3>1. r < s
      BY <1>0, <1>1, <2>2 DEF Matched
    <3> QED
      BY <2>2, <3>1 DEF Coming
  <2>3. ASSUME NEW k \in 1 .. Len(tc), Answers(tc[k], s), s # r PROVE Coming(s, ts, vc)
    <3>1. k # 1
      BY <1>0, <1>1, <2>3, AnswersOne
    <3> QED
      BY <1>5, <2>3, <3>1 DEF Coming
  <2>4. Coming(s, ts, vc) => Coming(s, ts, tc) /\ s # r
    BY <2>1, <2>2 DEF Coming
  <2>5. Coming(s, ts, tc) /\ s # r => Coming(s, ts, vc)
    BY <2>3 DEF Coming
  <2> QED
    BY <2>4, <2>5
<1>10. \A j, k \in 1 .. Len(v) : j < k => v[j] < v[k]
  <2> TAKE j, k \in 1 .. Len(v)
  <2>1. j < k => j + 1 < k + 1
    BY Shrunk
  <2> QED
    BY <1>2, <2>1 DEF Matched
<1>11. \A j, k \in 1 .. Len(vc) : \A s, x \in Nat :
         j < k /\ Answers(vc[j], s) /\ Answers(vc[k], x) => s < x
  <2> TAKE j, k \in 1 .. Len(vc)
  <2>1. j < k => j + 1 < k + 1
    BY <1>6
  <2> QED
    BY <1>4, <2>1 DEF Matched
<1>12. \A j \in 1 .. Len(vc), k \in 1 .. Len(ts) : \A s, x \in Nat :
         Answers(vc[j], s) /\ Asks(ts[k], x) => s < x
  BY <1>4 DEF Matched
<1>14. \A s \in Nat : InQueue(v, s) <=> Coming(s, ts, vc)
  BY <1>8, <1>9 DEF Matched
<1> QED
  BY <1>10, <1>11, <1>12, <1>14 DEF Matched
(* The others keep their turn.                                              *)
LEMMA HeadInTurn ==
    ASSUME NEW ts, NEW tc, NEW vc, NEW m, Shrinks(tc, vc, m)
    PROVE  /\ OwnLast(ts, tc) => OwnLast(ts, vc)
           /\ Quiet(ts, tc) => Quiet(ts, vc)
<1>1. \A k \in 1 .. Len(vc) : k + 1 \in 1 .. Len(tc) /\ vc[k] = tc[k + 1]
  BY Shrunk
<1>2. Len(vc) \in Nat /\ Len(tc) = Len(vc) + 1
  BY Shrunk
<1>3. ASSUME OwnLast(ts, tc), NEW j \in 1 .. Len(vc), Own(vc[j])
      PROVE  vc[j].to = <<cr, 0>> /\ j = Len(vc) /\ ts = <<>>
  <2>1. tc[j + 1].to = <<cr, 0>> /\ j + 1 = Len(tc) /\ ts = <<>>
    BY <1>1, <1>3 DEF OwnLast
  <2> QED
    BY <1>1, <1>2, <2>1
<1>4. OwnLast(ts, tc) => OwnLast(ts, vc)
  BY <1>3 DEF OwnLast
<1>5. Quiet(ts, tc) => Quiet(ts, vc)
  BY <1>1 DEF Quiet
<1> QED
  BY <1>4, <1>5

LEMMA RepliedAgreed ==
    ASSUME NEW p \in Forwarders, NEW u \in Forwarders, NEW ts, NEW tc, NEW vc, NEW ls \in SUBSET Index,
           NEW r \in Nat, NEW m \in Replies, r \in p.tree, p.tree \subseteq Nat,
           Answers(m, r), Shrinks(tc, vc, m),
           \A s \in Nat : InQueue(u.queue, s) <=> InQueue(p.queue, s) /\ s # r,
           u.rpfs = p.rpfs,
           IF m.t = "success" THEN u.tree = p.tree ELSE u.tree = p.tree \ {r},
           Agreed(p, ts, tc, ls)
    PROVE  Agreed(u, ts, vc, ls)
<1>1. 1 \in 1 .. Len(tc) /\ tc[1] = m
  BY Shrunk
<1>2. \A k \in 1 .. Len(vc) : k + 1 \in 1 .. Len(tc) /\ vc[k] = tc[k + 1]
  BY Shrunk
<1>3. \A k \in 1 .. Len(tc) : (k = 1 /\ tc[k] = m) \/ (k - 1 \in 1 .. Len(vc) /\ vc[k - 1] = tc[k])
  BY Shrunk
<1>4. Granted(p, ts, tc, ls) /\ (version = 2 => Released(p, ts, tc, ls))
  BY DEF Agreed
<1>5. u.tree \subseteq p.tree /\ \A s \in u.tree : s \in Nat
  OBVIOUS
<1>6. m.t = "success" \/ m.t = "failure"
  BY DEF Replies
<1>7. m.t = "success" => p.rpfs[r] \in ls /\ Clear(p.rpfs[r], ts)
  BY <1>1, <1>4 DEF Granted
<1>8. Granted(u, ts, vc, ls)
  <2>1. ASSUME NEW s \in u.tree, ~InQueue(u.queue, s)
        PROVE  p.rpfs[s] \in ls /\ Clear(p.rpfs[s], ts)
    <3>1. CASE s = r
      BY <1>6, <1>7, <2>1, <3>1
    <3>2. CASE s # r
      <4>1. ~InQueue(p.queue, s) /\ s \in p.tree
        BY <1>5, <2>1, <3>2
      <4> QED
        BY <1>4, <4>1 DEF Granted
    <3> QED
      BY <3>1, <3>2
  <2>2. ASSUME NEW s \in u.tree, NEW k \in 1 .. Len(vc), Answers(vc[k], s), vc[k].t = "success"
        PROVE  p.rpfs[s] \in ls /\ Clear(p.rpfs[s], ts)
    BY <1>2, <1>4, <1>5, <2>2 DEF Granted
  <2> QED
    BY <2>1, <2>2 DEF Granted
<1>9. ASSUME version = 2 PROVE Released(u, ts, vc, ls)
  <2>1. Released(p, ts, tc, ls)
    BY <1>4, <1>9
  <2>2. \A s \in u.tree : \A k \in 1 .. Len(ts) : Asks(ts[k], s) =>
          /\ \A j \in ls : SamePort(j, u.rpfs[s]) =>
                \E l \in 1 .. Len(ts) : l < k /\ Cancels(ts[l], u.rpfs[s])
          /\ \A l \in 1 .. Len(ts) : l > k => ~Cancels(ts[l], u.rpfs[s])
    BY <1>5, <2>1 DEF Released
  <2>3. \A s \in u.tree : \A k \in 1 .. Len(vc) :
          Answers(vc[k], s) /\ vc[k].t = "failure" => \A j \in ls : ~SamePort(j, u.rpfs[s])
    BY <1>2, <1>5, <2>1 DEF Released
  <2>4. ASSUME NEW j \in ls, Clear(j, ts)
        PROVE  \E s \in u.tree :
                  /\ u.rpfs[s] = j
                  /\ \/ ~InQueue(u.queue, s)
                     \/ \E k \in 1 .. Len(vc) : Answers(vc[k], s) /\ vc[k].t = "success"
    <3>1. PICK s \in p.tree :
                  /\ p.rpfs[s] = j
                  /\ \/ ~InQueue(p.queue, s)
                     \/ \E k \in 1 .. Len(tc) : Answers(tc[k], s) /\ tc[k].t = "success"
      BY <2>1, <2>4 DEF Released
    <3>2. CASE s = r
      <4>1. m.t # "failure"
        <5>1. SamePort(j, p.rpfs[r])
          BY <3>1, <3>2 DEF SamePort
        <5> QED
          BY <1>1, <2>1, <5>1 DEF Released
      <4>2. s \in u.tree /\ ~InQueue(u.queue, s)
        BY <1>6, <3>2, <4>1
      <4> QED
        BY <3>1, <4>2
    <3>3. CASE s # r
      <4>1. s \in u.tree
        BY <3>3
      <4>2. CASE ~InQueue(p.queue, s)
        BY <1>5, <3>1, <4>1, <4>2
      <4>3. CASE \E k \in 1 .. Len(tc) : Answers(tc[k], s) /\ tc[k].t = "success"
        <5>1. PICK k \in 1 .. Len(tc) : Answers(tc[k], s) /\ tc[k].t = "success"
          BY <4>3
        <5>2. ~Answers(m, s)
          BY <3>3, AnswersOne
        <5>3. k - 1 \in 1 .. Len(vc) /\ vc[k - 1] = tc[k]
          BY <1>3, <5>1, <5>2
        <5> QED
          BY <3>1, <4>1, <5>1, <5>3
      <4> QED
        BY <3>1, <4>2, <4>3
    <3> QED
      BY <3>2, <3>3
  <2> QED
    BY <2>2, <2>3, <2>4 DEF Released
<1> QED
  BY <1>8, <1>9 DEF Agreed

LEMMA RepliedKept ==
    ASSUME NEW p \in Forwarders, NEW u \in Forwarders, NEW r \in Nat, r \in p.tree,
           Kept(p), Shrinks(p.queue, u.queue, r), u.rpfs = p.rpfs, u.fwds = p.fwds,
           \/ u.tree = p.tree /\ u.freed = p.freed
           \/ u.tree = p.tree \ {r} /\ u.freed = p.freed \cup {r}
    PROVE  Kept(u)
<1>1. u.tree \cup u.freed = p.tree \cup p.freed /\ u.tree \cap u.freed = {} /\ u.tree \subseteq p.tree
  BY DEF Kept
<1>2. \A k \in 1 .. Len(u.queue) : u.queue[k] \in 1 .. Len(u.rpfs)
  <2> TAKE k \in 1 .. Len(u.queue)
  <2>1. k + 1 \in 1 .. Len(p.queue) /\ u.queue[k] = p.queue[k + 1]
    BY Shrunk
  <2> QED
    BY <2>1 DEF Kept
<1> QED
  BY <1>1, <1>2 DEF Kept

LEMMA RepliedKeeps ==
    ASSUME NEW p \in Forwarders, NEW u \in Forwarders, NEW ts \in Seq(Requests),
           NEW tc \in Seq(Replies), NEW vc, NEW ls \in SUBSET Index,
           NEW r \in Nat, NEW m \in Replies, ~Own(m), r \notin p.freed,
           Shrinks(p.queue, u.queue, r), Shrinks(tc, vc, m),
           u.rpfs = p.rpfs, u.fwds = p.fwds,
           IF m.t = "success" THEN u.tree = p.tree /\ u.freed = p.freed
           ELSE u.tree = p.tree \ {r} /\ u.freed = p.freed \cup {r},
           Good(p, ts, tc, ls)
    PROVE  Answers(m, r) /\ Good(u, ts, vc, ls)
<1>1. Matched(p.queue, ts, tc) /\ Recorded(p.rpfs, ts) /\ Kept(p)
  BY DEF Good
<1>2. p.tree \subseteq Nat /\ \A k \in 1 .. Len(p.queue) : p.queue[k] \in Nat
  <2>1. p.queue \in Seq(Nat) /\ p.tree \subseteq Nat
    BY ForwarderFields
  <2> QED
    BY <2>1
<1>3. Answers(m, r)
  BY <1>1, <1>2, HeadAnswers
<1>4. /\ Matched(u.queue, ts, vc)
      /\ \A s \in Nat : InQueue(u.queue, s) <=> InQueue(p.queue, s) /\ s # r
  <2> DEFINE q == p.queue
             v == u.queue
  <2>1. /\ Matched(q, ts, tc) /\ Shrinks(q, v, r) /\ Shrinks(tc, vc, m)
        /\ \A k \in 1 .. Len(q) : q[k] \in Nat
    BY <1>1, <1>2
  <2> HIDE DEF q, v
  <2>2. Matched(v, ts, vc)
    BY <2>1, HeadGoes
  <2>3. \A s \in Nat : InQueue(v, s) <=> InQueue(q, s) /\ s # r
    <3>1. Ascending(q)
      BY <2>1 DEF Matched, Ascending
    <3> QED
      BY <2>1, <3>1, HeadLeaves
  <2> QED
    BY <2>2, <2>3 DEF q, v
<1>5. r \in p.tree
  <2>1. p.queue[1] = r /\ 1 \in 1 .. Len(p.queue)
    BY Shrunk
  <2> QED
    BY <1>1, <2>1 DEF Kept
<1>6. Kept(u)
  BY <1>1, <1>5, RepliedKept
<1>7. Doomed(p) => Doomed(u)
  <2> SUFFICES ASSUME Doomed(p) PROVE Doomed(u)
    OBVIOUS
  <2>1. PICK k \in 1 .. Len(p.queue) : p.queue[k] \in p.freed
    BY DEF Doomed
  <2>2. (k = 1 /\ p.queue[k] = r) \/ (k - 1 \in 1 .. Len(u.queue) /\ u.queue[k - 1] = p.queue[k])
    BY Shrunk, SMTT(40)
  <2> QED
    BY <2>1, <2>2 DEF Doomed
<1>8. Agreed(p, ts, tc, ls) => Agreed(u, ts, vc, ls)
  BY <1>2, <1>3, <1>4, <1>5, RepliedAgreed
<1> QED
  BY <1>1, <1>3, <1>4, <1>6, <1>7, <1>8 DEF Good
-------------------------------------------------------------------------------
(* What the server takes.                                                   *)

LEMMA RequestFields ==
    ASSUME NEW m \in Requests
    PROVE  \/ m.t = "request" /\ m.of \in Index /\ \E r \in Nat : Asks(m, r)
           \/ m.t = "cancel" /\ m.of \in Index
           \/ m.t = "ask" /\ m.to \in Connections
BY DEF Requests, Handlers, Asks, Handler

LEMMA RecordedStays ==
    ASSUME NEW rpfs, NEW ts, NEW us, NEW m, Recorded(rpfs, ts), Shrinks(ts, us, m)
    PROVE  Recorded(rpfs, us)
<1>1. \A k \in 1 .. Len(us) : k + 1 \in 1 .. Len(ts) /\ us[k] = ts[k + 1]
  BY Shrunk
<1>2. \A k \in 1 .. Len(us) : \A r \in Nat :
         Asks(us[k], r) => r \in 1 .. Len(rpfs) /\ us[k].of = rpfs[r]
  BY <1>1 DEF Recorded
<1>3. version = 1 => \A k \in 1 .. Len(us) : us[k].t # "cancel"
  BY <1>1 DEF Recorded
<1> QED
  BY <1>2, <1>3 DEF Recorded

LEMMA ClearStays ==
    ASSUME NEW ts, NEW us, NEW m, NEW i, Shrinks(ts, us, m)
    PROVE  Clear(i, ts) <=> Clear(i, us) /\ ~Cancels(m, i)
<1>1. \A k \in 1 .. Len(us) : k + 1 \in 1 .. Len(ts) /\ us[k] = ts[k + 1]
  BY Shrunk
<1>2. \A k \in 1 .. Len(ts) : (k = 1 /\ ts[k] = m) \/ (k - 1 \in 1 .. Len(us) /\ us[k - 1] = ts[k])
  BY Shrunk
<1>3. 1 \in 1 .. Len(ts) /\ ts[1] = m
  BY Shrunk
<1> QED
  BY <1>1, <1>2, <1>3 DEF Clear

LEMMA CancelTaken ==
    ASSUME NEW q, NEW ts, NEW us, NEW tc, NEW m,
           Matched(q, ts, tc), Shrinks(ts, us, m), m.t = "cancel"
    PROVE  Matched(q, us, tc)
<1>1. \A k \in 1 .. Len(us) : k + 1 \in 1 .. Len(ts) /\ us[k] = ts[k + 1]
  BY Shrunk
<1>2. \A k \in 1 .. Len(ts) : (k = 1 /\ ts[k] = m) \/ (k - 1 \in 1 .. Len(us) /\ us[k - 1] = ts[k])
  BY Shrunk
<1>3. Len(us) \in Nat /\ Len(ts) = Len(us) + 1
  BY Shrunk
<1>4. \A r : ~Asks(m, r)
  BY DEF Asks
<1>5. \A r \in Nat : Coming(r, us, tc) <=> Coming(r, ts, tc)
  <2> TAKE r \in Nat
  <2>1. ASSUME NEW k \in 1 .. Len(us), Asks(us[k], r) PROVE Coming(r, ts, tc)
    BY <1>1, <2>1 DEF Coming
  <2>2. ASSUME NEW k \in 1 .. Len(ts), Asks(ts[k], r) PROVE Coming(r, us, tc)
    BY <1>2, <1>4, <2>2 DEF Coming
  <2> QED
    BY <2>1, <2>2 DEF Coming
<1>6. \A j, k \in 1 .. Len(us) : \A r, s \in Nat :
        j < k /\ Asks(us[j], r) /\ Asks(us[k], s) => r < s
  <2> TAKE j, k \in 1 .. Len(us)
  <2>1. j < k => j + 1 < k + 1
    BY <1>3
  <2> QED
    BY <1>1, <2>1 DEF Matched
<1>7. \A j \in 1 .. Len(tc), k \in 1 .. Len(us) : \A r, s \in Nat :
        Answers(tc[j], r) /\ Asks(us[k], s) => r < s
  BY <1>1 DEF Matched
<1>8. \A r \in Nat : InQueue(q, r) <=> Coming(r, us, tc)
  BY <1>5 DEF Matched
<1> QED
  BY <1>6, <1>7, <1>8 DEF Matched

LEMMA RequestTaken ==
    ASSUME NEW q, NEW ts, NEW us, NEW tc, NEW vc, NEW m, NEW x, NEW r \in Nat,
           Matched(q, ts, tc), Shrinks(ts, us, m), Asks(m, r), Grows(tc, vc, x), Answers(x, r)
    PROVE  Matched(q, us, vc)
<1>1. \A k \in 1 .. Len(us) : k + 1 \in 1 .. Len(ts) /\ us[k] = ts[k + 1] /\ 1 < k + 1
  BY Shrunk
<1>2. \A k \in 1 .. Len(ts) : (k = 1 /\ ts[k] = m) \/ (k - 1 \in 1 .. Len(us) /\ us[k - 1] = ts[k])
  BY Shrunk
<1>3. Len(us) \in Nat /\ Len(ts) = Len(us) + 1
  BY Shrunk
<1>4. 1 \in 1 .. Len(ts) /\ ts[1] = m
  BY Shrunk
<1>5. \A k \in 1 .. Len(vc) : (k \in 1 .. Len(tc) /\ vc[k] = tc[k]) \/ (k = Len(vc) /\ vc[k] = x)
  BY Grown
<1>6. \A k \in 1 .. Len(tc) : k \in 1 .. Len(vc) /\ vc[k] = tc[k] /\ k < Len(vc)
  BY Grown
<1>7. Len(vc) \in 1 .. Len(vc) /\ vc[Len(vc)] = x /\ Len(vc) \in Nat
  BY Grown
<1>8. \A s \in Nat : (Asks(m, s) => s = r) /\ (Answers(x, s) => s = r)
  BY AnswersOne
<1>10. \A s \in Nat : Coming(s, us, vc) <=> Coming(s, ts, tc)
  <2> TAKE s \in Nat
  <2>1. ASSUME NEW k \in 1 .. Len(us), Asks(us[k], s) PROVE Coming(s, ts, tc)
    BY <1>1, <2>1 DEF Coming
  <2>2. ASSUME NEW k \in 1 .. Len(vc), Answers(vc[k], s) PROVE Coming(s, ts, tc)
    <3>1. CASE k \in 1 .. Len(tc) /\ vc[k] = tc[k]
      BY <2>2, <3>1 DEF Coming
    <3>2. CASE vc[k] = x
      <4>1. s = r
        BY <1>8, <2>2, <3>2
      <4> QED
        BY <1>4, <4>1 DEF Coming
    <3> QED
      BY <1>5, <3>1, <3>2
  <2>3. ASSUME NEW k \in 1 .. Len(ts), Asks(ts[k], s) PROVE Coming(s, us, vc)
    <3>1. CASE ts[k] = m
      <4>1. s = r
        BY <1>8, <2>3, <3>1
      <4> QED
        BY <1>7, <4>1 DEF Coming
    <3>2. CASE k - 1 \in 1 .. Len(us) /\ us[k - 1] = ts[k]
      BY <2>3, <3>2 DEF Coming
    <3> QED
      BY <1>2, <3>1, <3>2
  <2>4. ASSUME NEW k \in 1 .. Len(tc), Answers(tc[k], s) PROVE Coming(s, us, vc)
    BY <1>6, <2>4 DEF Coming
  <2>5. Coming(s, us, vc) => Coming(s, ts, tc)
    BY <2>1, <2>2 DEF Coming
  <2>6. Coming(s, ts, tc) => Coming(s, us, vc)
    BY <2>3, <2>4 DEF Coming
  <2> QED
    BY <2>5, <2>6
<1>11. \A j, k \in 1 .. Len(us) : \A s, y \in Nat :
        j < k /\ Asks(us[j], s) /\ Asks(us[k], y) => s < y
  <2> TAKE j, k \in 1 .. Len(us)
  <2>1. j < k => j + 1 < k + 1
    BY <1>3
  <2> QED
    BY <1>1, <2>1 DEF Matched
<1>12. \A k \in 1 .. Len(us) : \A s \in Nat : Asks(us[k], s) => r < s
  BY <1>1, <1>4 DEF Matched
<1>13. \A k \in 1 .. Len(tc) : \A s \in Nat : Answers(tc[k], s) => s < r
  BY <1>4 DEF Matched
<1>14. \A j \in 1 .. Len(vc), k \in 1 .. Len(us) : \A s, y \in Nat :
        Answers(vc[j], s) /\ Asks(us[k], y) => s < y
  <2> SUFFICES ASSUME NEW j \in 1 .. Len(vc), NEW k \in 1 .. Len(us), NEW s \in Nat, NEW y \in Nat,
                      Answers(vc[j], s), Asks(us[k], y)
               PROVE  s < y
    OBVIOUS
  <2>1. CASE j \in 1 .. Len(tc) /\ vc[j] = tc[j]
    BY <1>1, <2>1 DEF Matched
  <2>2. CASE vc[j] = x
    BY <1>8, <1>12, <2>2
  <2> QED
    BY <1>5, <2>1, <2>2
<1>15. \A j, k \in 1 .. Len(vc) : \A s, y \in Nat :
        j < k /\ Answers(vc[j], s) /\ Answers(vc[k], y) => s < y
  <2> SUFFICES ASSUME NEW j \in 1 .. Len(vc), NEW k \in 1 .. Len(vc), NEW s \in Nat, NEW y \in Nat,
                      j < k, Answers(vc[j], s), Answers(vc[k], y)
               PROVE  s < y
    OBVIOUS
  <2>1. j \in 1 .. Len(tc) /\ vc[j] = tc[j]
    BY <1>5, <1>7
  <2>2. CASE k \in 1 .. Len(tc) /\ vc[k] = tc[k]
    BY <2>1, <2>2 DEF Matched
  <2>3. CASE vc[k] = x
    BY <1>8, <1>13, <2>1, <2>3
  <2> QED
    BY <1>5, <2>2, <2>3
<1>16. \A s \in Nat : InQueue(q, s) <=> Coming(s, us, vc)
  BY <1>10 DEF Matched
<1> QED
  BY <1>11, <1>14, <1>15, <1>16 DEF Matched

LEMMA AskTaken ==
    ASSUME NEW q, NEW ts, NEW us, NEW tc, NEW vc, NEW m, NEW x, m.to \in Connections,
           Matched(q, ts, tc), Shrinks(ts, us, m), m.t = "ask",
           vc = tc \/ (Grows(tc, vc, x) /\ x.to = m.to)
    PROVE  Matched(q, us, vc)
<1>1. \A k \in 1 .. Len(us) : k + 1 \in 1 .. Len(ts) /\ us[k] = ts[k + 1]
  BY Shrunk
<1>2. \A k \in 1 .. Len(ts) : (k = 1 /\ ts[k] = m) \/ (k - 1 \in 1 .. Len(us) /\ us[k - 1] = ts[k])
  BY Shrunk
<1>3. Len(us) \in Nat
  BY Shrunk
<1>4. \A k \in 1 .. Len(vc) : (k \in 1 .. Len(tc) /\ vc[k] = tc[k]) \/ (k = Len(vc) /\ vc[k] = x /\ x.to = m.to)
  BY Grown
<1>5. \A k \in 1 .. Len(tc) : k \in 1 .. Len(vc) /\ vc[k] = tc[k]
  BY Grown
<1>6. \A s : ~Asks(m, s)
  BY DEF Asks
<1>7. \A s \in Nat : x.to = m.to => ~Answers(x, s)
  BY DEF Answers, Handler, Connections, Waits
<1>8. \A k \in 1 .. Len(vc) : \A s \in Nat : Answers(vc[k], s) =>
          k \in 1 .. Len(tc) /\ Answers(tc[k], s)
  BY <1>4, <1>7
<1>9. \A s \in Nat : Coming(s, us, vc) <=> Coming(s, ts, tc)
  <2> TAKE s \in Nat
  <2>1. ASSUME NEW k \in 1 .. Len(us), Asks(us[k], s) PROVE Coming(s, ts, tc)
    BY <1>1, <2>1 DEF Coming
  <2>2. ASSUME NEW k \in 1 .. Len(ts), Asks(ts[k], s) PROVE Coming(s, us, vc)
    BY <1>2, <1>6, <2>2 DEF Coming
  <2>3. ASSUME NEW k \in 1 .. Len(vc), Answers(vc[k], s) PROVE Coming(s, ts, tc)
    BY <1>8, <2>3 DEF Coming
  <2>4. ASSUME NEW k \in 1 .. Len(tc), Answers(tc[k], s) PROVE Coming(s, us, vc)
    BY <1>5, <2>4 DEF Coming
  <2>5. Coming(s, us, vc) => Coming(s, ts, tc)
    BY <2>1, <2>3 DEF Coming
  <2>6. Coming(s, ts, tc) => Coming(s, us, vc)
    BY <2>2, <2>4 DEF Coming
  <2> QED
    BY <2>5, <2>6
<1>10. \A j, k \in 1 .. Len(us) : \A s, y \in Nat :
        j < k /\ Asks(us[j], s) /\ Asks(us[k], y) => s < y
  <2> TAKE j, k \in 1 .. Len(us)
  <2>1. j < k => j + 1 < k + 1
    BY <1>3
  <2> QED
    BY <1>1, <2>1 DEF Matched
<1>11. \A j \in 1 .. Len(vc), k \in 1 .. Len(us) : \A s, y \in Nat :
        Answers(vc[j], s) /\ Asks(us[k], y) => s < y
  <2> SUFFICES ASSUME NEW j \in 1 .. Len(vc), NEW k \in 1 .. Len(us), NEW s \in Nat, NEW y \in Nat,
                      Answers(vc[j], s), Asks(us[k], y)
               PROVE  s < y
    OBVIOUS
  <2>1. j \in 1 .. Len(tc) /\ Answers(tc[j], s)
    BY <1>8
  <2>2. k + 1 \in 1 .. Len(ts) /\ Asks(ts[k + 1], y)
    BY <1>1
  <2> QED
    BY <2>1, <2>2 DEF Matched
<1>12. \A j, k \in 1 .. Len(vc) : \A s, y \in Nat :
        j < k /\ Answers(vc[j], s) /\ Answers(vc[k], y) => s < y
  BY <1>8 DEF Matched
<1>13. \A s \in Nat : InQueue(q, s) <=> Coming(s, us, vc)
  BY <1>9 DEF Matched
<1> QED
  BY <1>10, <1>11, <1>12, <1>13 DEF Matched

(* The server replies to the connection when the connection has asked.      *)
LEMMA TakenInTurn ==
    ASSUME NEW ts, NEW us \in Seq(Requests), NEW tc, NEW vc, NEW m, NEW x, Shrinks(ts, us, m),
           vc = tc \/ (Grows(tc, vc, x) /\ (Own(x) => m.t = "ask" /\ x.to = m.to))
    PROVE  /\ OwnLast(ts, tc) => OwnLast(us, vc)
           /\ Quiet(ts, tc) => Quiet(us, vc)
<1>1. \A k \in 1 .. Len(us) : k + 1 \in 1 .. Len(ts) /\ us[k] = ts[k + 1]
  BY Shrunk
<1>2. Len(us) \in Nat /\ Len(ts) = Len(us) + 1 /\ 1 \in 1 .. Len(ts) /\ ts[1] = m
  BY Shrunk
<1>3. \A k \in 1 .. Len(vc) :
        \/ k \in 1 .. Len(tc) /\ vc[k] = tc[k]
        \/ k = Len(vc) /\ vc[k] = x /\ (Own(x) => m.t = "ask" /\ x.to = m.to)
  BY Grown
<1>4. ASSUME OwnLast(ts, tc) PROVE OwnLast(us, vc)
  <2>1. \A k \in 1 .. Len(tc) : ~Own(tc[k])
    <3>1. ts # <<>>
      BY <1>2
    <3> QED
      BY <1>4, <3>1 DEF OwnLast
  <2>2. ASSUME NEW k \in 1 .. Len(vc), Own(vc[k])
        PROVE  vc[k].to = <<cr, 0>> /\ k = Len(vc) /\ us = <<>>
    <3>1. k = Len(vc) /\ vc[k] = x /\ m.t = "ask" /\ x.to = m.to
      BY <1>3, <2>1, <2>2
    <3>2. m.to = <<cr, 0>> /\ 1 = Len(ts)
      BY <1>2, <1>4, <3>1 DEF OwnLast
    <3>3. us = <<>>
      BY <1>2, <3>2, EmptySeq
    <3> QED
      BY <3>1, <3>2, <3>3
  <2>3. ASSUME NEW k \in 1 .. Len(us), us[k].t = "ask"
        PROVE  us[k].to = <<cr, 0>> /\ k = Len(us)
    <3>1. ts[k + 1].to = <<cr, 0>> /\ k + 1 = Len(ts)
      BY <1>1, <1>4, <2>3 DEF OwnLast
    <3> QED
      BY <1>1, <1>2, <2>3, <3>1
  <2> QED
    BY <2>2, <2>3 DEF OwnLast
<1>5. ASSUME Quiet(ts, tc) PROVE Quiet(us, vc)
  <2>1. m.t # "ask"
    BY <1>2, <1>5 DEF Quiet
  <2> QED
    BY <1>1, <1>3, <1>5, <2>1 DEF Quiet
<1> QED
  BY <1>4, <1>5

(* The server refuses, or listens, ...                                      *)
LEMMA TakenGranted ==
    ASSUME NEW p \in Forwarders, NEW ts, NEW us, NEW tc, NEW vc, NEW m, NEW x,
           NEW ls \in SUBSET Index, NEW gs \in SUBSET Index, NEW r \in Nat,
           p.tree \subseteq Nat, version \in {1, 2},
           Recorded(p.rpfs, ts), Shrinks(ts, us, m), Asks(m, r),
           Grows(tc, vc, x), Answers(x, r),
           \/ x.t = "failure" /\ gs = ls
           \/ x.t = "success" /\ gs = ls \cup {m.of},
           Agreed(p, ts, tc, ls)
    PROVE  Granted(p, us, vc, gs)
<1>1. Granted(p, ts, tc, ls) /\ (version = 2 => Released(p, ts, tc, ls))
  BY DEF Agreed
<1>2. 1 \in 1 .. Len(ts) /\ ts[1] = m
  BY Shrunk
<1>3. m.of = p.rpfs[r]
  BY <1>2 DEF Recorded
<1>4. \A i : Clear(i, ts) => Clear(i, us)
  BY ClearStays
<1>5. \A k \in 1 .. Len(vc) : (k \in 1 .. Len(tc) /\ vc[k] = tc[k]) \/ (k = Len(vc) /\ vc[k] = x)
  BY Grown
<1>6. ls \subseteq gs
  OBVIOUS
<1>7. r \in p.tree => Clear(p.rpfs[r], us)
  <2> SUFFICES ASSUME r \in p.tree PROVE Clear(p.rpfs[r], us)
    OBVIOUS
  <2>1. \A k \in 1 .. Len(us) : k + 1 \in 1 .. Len(ts) /\ us[k] = ts[k + 1] /\ 1 < k + 1
    BY Shrunk
  <2>2. CASE version = 1
    <3>1. \A k \in 1 .. Len(ts) : ts[k].t # "cancel"
      BY <2>2 DEF Recorded
    <3> QED
      BY <2>1, <3>1 DEF Clear, Cancels
  <2>3. CASE version = 2
    <3>1. \A l \in 1 .. Len(ts) : l > 1 => ~Cancels(ts[l], p.rpfs[r])
      BY <1>1, <1>2, <2>3 DEF Released
    <3> QED
      BY <2>1, <3>1 DEF Clear
  <2> QED
    BY <2>2, <2>3
<1>8. \A s \in p.tree : ~InQueue(p.queue, s) => p.rpfs[s] \in gs /\ Clear(p.rpfs[s], us)
  BY <1>1, <1>4, <1>6 DEF Granted
<1>9. ASSUME NEW s \in p.tree, NEW k \in 1 .. Len(vc), Answers(vc[k], s), vc[k].t = "success"
      PROVE  p.rpfs[s] \in gs /\ Clear(p.rpfs[s], us)
  <2>1. CASE k \in 1 .. Len(tc) /\ vc[k] = tc[k]
    BY <1>1, <1>4, <1>6, <1>9, <2>1 DEF Granted
  <2>2. CASE vc[k] = x
    <3>1. s = r
      BY <1>9, <2>2, AnswersOne
    <3>2. x.t = "success" /\ gs = ls \cup {m.of}
      BY <1>9, <2>2
    <3> QED
      BY <1>3, <1>7, <3>1, <3>2
  <2> QED
    BY <1>5, <2>1, <2>2
<1> QED
  BY <1>8, <1>9 DEF Granted

LEMMA TakenReleased ==
    ASSUME NEW p \in Forwarders, NEW ts, NEW us, NEW tc, NEW vc, NEW m, NEW x,
           NEW ls \in SUBSET Index, NEW gs \in SUBSET Index, NEW r \in p.tree,
           p.tree \subseteq Nat, version = 2, Kept(p), Matched(p.queue, ts, tc),
           Recorded(p.rpfs, ts), Shrinks(ts, us, m), Asks(m, r),
           Grows(tc, vc, x), Answers(x, r),
           \/ x.t = "failure" /\ gs = ls
           \/ x.t = "success" /\ gs = ls \cup {m.of},
           Released(p, ts, tc, ls)
    PROVE  Released(p, us, vc, gs)
<1>1. \A k \in 1 .. Len(us) : k + 1 \in 1 .. Len(ts) /\ us[k] = ts[k + 1] /\ 1 < k + 1
  BY Shrunk
<1>2. 1 \in 1 .. Len(ts) /\ ts[1] = m
  BY Shrunk
<1>3. \A k \in 1 .. Len(ts) :
         (k = 1 /\ ts[k] = m) \/ (k - 1 \in 1 .. Len(us) /\ us[k - 1] = ts[k])
  BY Shrunk
<1>4. Len(us) \in Nat
  BY Shrunk
<1>5. \A k \in 1 .. Len(vc) : (k \in 1 .. Len(tc) /\ vc[k] = tc[k]) \/ (k = Len(vc) /\ vc[k] = x)
  BY Grown
<1>6. \A k \in 1 .. Len(tc) : k \in 1 .. Len(vc) /\ vc[k] = tc[k]
  BY Grown
<1>7. Len(vc) \in 1 .. Len(vc) /\ vc[Len(vc)] = x
  BY Grown
<1>8. r \in Nat /\ m.of = p.rpfs[r]
  BY <1>2 DEF Recorded
<1>9. \A j : ~Cancels(m, j)
  BY DEF Asks, Cancels
<1>10. \A s \in p.tree : SamePort(p.rpfs[r], p.rpfs[s]) => s = r
  <2> TAKE s \in p.tree
  <2>1. SamePort(p.rpfs[r], p.rpfs[s]) => SameRemote(p.rpfs[r], p.rpfs[s])
    BY DEF SameRemote, SamePort
  <2> QED
    BY <2>1 DEF Kept
<1>11. \A k \in 1 .. Len(us) : ~Asks(us[k], r)
  <2> TAKE k \in 1 .. Len(us)
  <2>1. Asks(ts[k + 1], r) => r < r
    BY <1>1, <1>2, <1>8 DEF Matched
  <2> QED
    BY <1>1, <1>8, <2>1
<1>12. \A k \in 1 .. Len(tc) : ~Answers(tc[k], r)
  <2> TAKE k \in 1 .. Len(tc)
  <2>1. Answers(tc[k], r) => r < r
    BY <1>2, <1>8 DEF Matched
  <2> QED
    BY <1>8, <2>1
<1>13. \A j \in gs : j \in ls \/ (j = p.rpfs[r] /\ x.t = "success")
  BY <1>8
<1>14. ASSUME NEW s \in p.tree, NEW k \in 1 .. Len(us), Asks(us[k], s)
       PROVE  /\ \A j \in gs : SamePort(j, p.rpfs[s]) =>
                     \E l \in 1 .. Len(us) : l < k /\ Cancels(us[l], p.rpfs[s])
              /\ \A l \in 1 .. Len(us) : l > k => ~Cancels(us[l], p.rpfs[s])
  <2>1. k + 1 \in 1 .. Len(ts) /\ Asks(ts[k + 1], s) /\ s # r
    BY <1>1, <1>11, <1>14
  <2>2. /\ \A j \in ls : SamePort(j, p.rpfs[s]) =>
               \E l \in 1 .. Len(ts) : l < k + 1 /\ Cancels(ts[l], p.rpfs[s])
        /\ \A l \in 1 .. Len(ts) : l > k + 1 => ~Cancels(ts[l], p.rpfs[s])
    BY <2>1 DEF Released
  <2>3. ASSUME NEW j \in gs, SamePort(j, p.rpfs[s])
        PROVE  \E l \in 1 .. Len(us) : l < k /\ Cancels(us[l], p.rpfs[s])
    <3>1. j \in ls
      BY <1>10, <1>13, <2>1, <2>3
    <3>2. PICK l \in 1 .. Len(ts) : l < k + 1 /\ Cancels(ts[l], p.rpfs[s])
      BY <2>2, <2>3, <3>1
    <3>3. l - 1 \in 1 .. Len(us) /\ us[l - 1] = ts[l]
      BY <1>3, <1>9, <3>2
    <3>4. l - 1 < k
      BY <3>2, <1>4
    <3> QED
      BY <3>2, <3>3, <3>4
  <2>4. ASSUME NEW l \in 1 .. Len(us), l > k PROVE ~Cancels(us[l], p.rpfs[s])
    <3>1. l + 1 > k + 1
      BY <1>4, <2>4
    <3> QED
      BY <1>1, <2>2, <3>1
  <2> QED
    BY <2>3, <2>4
<1>15. ASSUME NEW s \in p.tree, NEW k \in 1 .. Len(vc), Answers(vc[k], s), vc[k].t = "failure",
              NEW j \in gs, SamePort(j, p.rpfs[s])
       PROVE  FALSE
  <2>1. CASE k \in 1 .. Len(tc) /\ vc[k] = tc[k]
    <3>1. \A i \in ls : ~SamePort(i, p.rpfs[s])
      BY <1>15, <2>1 DEF Released
    <3>2. s # r
      BY <1>12, <1>15, <2>1
    <3> QED
      BY <1>10, <1>13, <1>15, <3>1, <3>2
  <2>2. CASE vc[k] = x
    <3>1. s = r
      BY <1>8, <1>15, <2>2, AnswersOne
    <3>2. j \in ls
      BY <1>13, <1>15, <2>2
    <3>3. PICK l \in 1 .. Len(ts) : l < 1 /\ Cancels(ts[l], p.rpfs[r])
      BY <1>2, <1>15, <3>1, <3>2 DEF Released
    <3> QED
      BY <3>3
  <2> QED
    BY <1>5, <2>1, <2>2
<1>16. ASSUME NEW j \in gs, Clear(j, us)
       PROVE  \E s \in p.tree :
                   /\ p.rpfs[s] = j
                   /\ \/ ~InQueue(p.queue, s)
                      \/ \E k \in 1 .. Len(vc) : Answers(vc[k], s) /\ vc[k].t = "success"
  <2>1. CASE j \in ls
    <3>1. Clear(j, ts)
      BY <1>9, <1>16, ClearStays
    <3>2. PICK s \in p.tree :
                   /\ p.rpfs[s] = j
                   /\ \/ ~InQueue(p.queue, s)
                      \/ \E k \in 1 .. Len(tc) : Answers(tc[k], s) /\ tc[k].t = "success"
      BY <2>1, <3>1 DEF Released
    <3> QED
      BY <1>6, <3>2
  <2>2. CASE j = p.rpfs[r] /\ x.t = "success"
    BY <1>7, <2>2
  <2> QED
    BY <1>13, <2>1, <2>2
<1> QED
  BY <1>14, <1>15, <1>16 DEF Released

(* ... or no longer does, ...                                               *)
LEMMA CancelledAgreed ==
    ASSUME NEW p \in Forwarders, NEW ts, NEW us, NEW tc, NEW m,
           NEW ls \in SUBSET Index, NEW gs, gs = {j \in ls : ~SamePort(m.of, j)},
           version = 2, Shrinks(ts, us, m), m.t = "cancel",
           Agreed(p, ts, tc, ls)
    PROVE  Agreed(p, us, tc, gs)
<1>1. \A k \in 1 .. Len(us) : k + 1 \in 1 .. Len(ts) /\ us[k] = ts[k + 1] /\ 1 < k + 1
  BY Shrunk
<1>2. \A k \in 1 .. Len(ts) :
         (k = 1 /\ ts[k] = m) \/ (k - 1 \in 1 .. Len(us) /\ us[k - 1] = ts[k])
  BY Shrunk
<1>3. Len(us) \in Nat
  BY Shrunk
<1>4. \A j : Cancels(m, j) <=> SamePort(m.of, j)
  BY DEF Cancels
<1>5. \A j : Clear(j, ts) <=> Clear(j, us) /\ ~SamePort(m.of, j)
  BY <1>4, ClearStays
<1>6. Granted(p, ts, tc, ls) /\ Released(p, ts, tc, ls)
  BY DEF Agreed
<1>7. Granted(p, us, tc, gs)
  BY <1>5, <1>6 DEF Granted
<1>8. ASSUME NEW s \in p.tree, NEW k \in 1 .. Len(us), Asks(us[k], s)
       PROVE  /\ \A j \in gs : SamePort(j, p.rpfs[s]) =>
                     \E l \in 1 .. Len(us) : l < k /\ Cancels(us[l], p.rpfs[s])
              /\ \A l \in 1 .. Len(us) : l > k => ~Cancels(us[l], p.rpfs[s])
  <2>1. k + 1 \in 1 .. Len(ts) /\ Asks(ts[k + 1], s)
    BY <1>1, <1>8
  <2>2. /\ \A j \in ls : SamePort(j, p.rpfs[s]) =>
               \E l \in 1 .. Len(ts) : l < k + 1 /\ Cancels(ts[l], p.rpfs[s])
        /\ \A l \in 1 .. Len(ts) : l > k + 1 => ~Cancels(ts[l], p.rpfs[s])
    BY <1>6, <2>1 DEF Released
  <2>3. ASSUME NEW j \in gs, SamePort(j, p.rpfs[s])
        PROVE  \E l \in 1 .. Len(us) : l < k /\ Cancels(us[l], p.rpfs[s])
    <3>1. j \in ls /\ ~SamePort(m.of, j)
      OBVIOUS
    <3>2. PICK l \in 1 .. Len(ts) : l < k + 1 /\ Cancels(ts[l], p.rpfs[s])
      BY <2>2, <2>3, <3>1
    <3>3. ~Cancels(m, p.rpfs[s])
      BY <1>4, <2>3, <3>1 DEF SamePort
    <3>4. l - 1 \in 1 .. Len(us) /\ us[l - 1] = ts[l]
      BY <1>2, <3>2, <3>3
    <3>5. l - 1 < k
      BY <1>3, <3>2
    <3> QED
      BY <3>2, <3>4, <3>5
  <2>4. ASSUME NEW l \in 1 .. Len(us), l > k PROVE ~Cancels(us[l], p.rpfs[s])
    <3>1. l + 1 > k + 1
      BY <1>3, <2>4
    <3> QED
      BY <1>1, <2>2, <3>1
  <2> QED
    BY <2>3, <2>4
<1>9. \A s \in p.tree : \A k \in 1 .. Len(tc) :
          Answers(tc[k], s) /\ tc[k].t = "failure" => \A j \in gs : ~SamePort(j, p.rpfs[s])
  BY <1>6 DEF Released
<1>10. \A j \in gs :
          \/ ~Clear(j, us)
          \/ \E r \in p.tree :
                /\ p.rpfs[r] = j
                /\ \/ ~InQueue(p.queue, r)
                   \/ \E k \in 1 .. Len(tc) : Answers(tc[k], r) /\ tc[k].t = "success"
  <2> TAKE j \in gs
  <2>1. j \in ls /\ ~SamePort(m.of, j)
    OBVIOUS
  <2>2. Clear(j, us) => Clear(j, ts)
    BY <1>5, <2>1
  <2> QED
    BY <1>6, <2>1, <2>2 DEF Released
<1> QED
  BY <1>7, <1>8, <1>9, <1>10 DEF Agreed, Released

(* ... or replies to a request of the connection's own, or does not.        *)
LEMMA AskedAgreed ==
    ASSUME NEW p \in Forwarders, NEW ts, NEW us, NEW tc, NEW vc, NEW m, NEW x,
           NEW ls \in SUBSET Index, p.tree \subseteq Nat,
           version = 1, Shrinks(ts, us, m), m.t = "ask",
           vc = tc \/ (Grows(tc, vc, x) /\ Own(x)),
           Agreed(p, ts, tc, ls)
    PROVE  Agreed(p, us, vc, ls)
<1>1. \A k \in 1 .. Len(vc) :
         (k \in 1 .. Len(tc) /\ vc[k] = tc[k]) \/ (k = Len(vc) /\ vc[k] = x /\ Own(x))
  BY Grown
<1>2. \A j : Clear(j, ts) <=> Clear(j, us)
  BY ClearStays DEF Cancels
<1>3. \A k \in 1 .. Len(vc) : \A s \in Nat : Answers(vc[k], s) =>
         k \in 1 .. Len(tc) /\ vc[k] = tc[k]
  BY <1>1, AnswersOne
<1>4. Granted(p, ts, tc, ls)
  BY DEF Agreed
<1>5. Granted(p, us, vc, ls)
  <2>1. \A s \in p.tree : ~InQueue(p.queue, s) => p.rpfs[s] \in ls /\ Clear(p.rpfs[s], us)
    BY <1>2, <1>4 DEF Granted
  <2>2. \A s \in p.tree : \A k \in 1 .. Len(vc) :
          Answers(vc[k], s) /\ vc[k].t = "success" => p.rpfs[s] \in ls /\ Clear(p.rpfs[s], us)
    BY <1>2, <1>3, <1>4 DEF Granted
  <2> QED
    BY <2>1, <2>2 DEF Granted
<1> QED
  BY <1>5 DEF Agreed

LEMMA TakeRequest ==
    ASSUME NEW p \in Forwarders, NEW ts, NEW us, NEW tc, NEW vc, NEW m \in Requests, NEW x,
           NEW ls \in SUBSET Index, NEW gs \in SUBSET Index, version \in {1, 2},
           Shrinks(ts, us, m), m.t = "request", Grows(tc, vc, x), x.to = m.to,
           \/ x.t = "failure" /\ gs = ls
           \/ x.t = "success" /\ gs = ls \cup {m.of},
           Good(p, ts, tc, ls)
    PROVE  Good(p, us, vc, gs)
<1>1. PICK r \in Nat : Asks(m, r)
  BY RequestFields
<1>2. Answers(x, r)
  BY <1>1 DEF Asks, Answers
<1>3. Matched(p.queue, ts, tc) /\ Recorded(p.rpfs, ts) /\ Kept(p) /\ p.tree \subseteq Nat
  BY ForwarderFields DEF Good
<1>4. Matched(p.queue, us, vc)
  BY <1>1, <1>2, <1>3, RequestTaken
<1>5. Recorded(p.rpfs, us)
  BY <1>3, RecordedStays
<1>6. ASSUME ~Doomed(p) PROVE Agreed(p, us, vc, gs)
  <2>1. Agreed(p, ts, tc, ls)
    BY <1>6 DEF Good
  <2>2. 1 \in 1 .. Len(ts) /\ ts[1] = m
    BY Shrunk
  <2>3. r \in 1 .. Len(p.rpfs)
    BY <1>1, <1>3, <2>2 DEF Recorded
  <2>4. InQueue(p.queue, r)
    BY <1>1, <1>3, <2>2 DEF Matched, Coming
  <2>5. r \notin p.freed
    BY <1>6, <2>4 DEF Doomed, InQueue
  <2>6. r \in p.tree
    BY <1>3, <2>3, <2>5 DEF Kept
  <2>7. Granted(p, us, vc, gs)
    BY <1>1, <1>2, <1>3, <2>1, TakenGranted
  <2>8. ASSUME version = 2 PROVE Released(p, us, vc, gs)
    <3>1. Released(p, ts, tc, ls)
      BY <2>1, <2>8 DEF Agreed
    <3> QED
      BY <1>1, <1>2, <1>3, <2>6, <2>8, <3>1, TakenReleased
  <2> QED
    BY <2>7, <2>8 DEF Agreed
<1> QED
  BY <1>3, <1>4, <1>5, <1>6 DEF Good

LEMMA TakeAsk ==
    ASSUME NEW p \in Forwarders, NEW ts, NEW us, NEW tc, NEW vc,
           NEW m \in Requests, NEW x, NEW ls \in SUBSET Index, version = 1,
           Shrinks(ts, us, m), m.t = "ask",
           vc = tc \/ (Grows(tc, vc, x) /\ x.to = m.to),
           Good(p, ts, tc, ls)
    PROVE  Good(p, us, vc, ls)
<1>1. m.to \in Connections
  BY RequestFields
<1>2. Matched(p.queue, ts, tc) /\ Recorded(p.rpfs, ts) /\ Kept(p) /\ p.tree \subseteq Nat
  BY ForwarderFields DEF Good
<1>3. Matched(p.queue, us, vc)
  BY <1>1, <1>2, AskTaken
<1>4. Recorded(p.rpfs, us)
  BY <1>2, RecordedStays
<1>5. x.to = m.to => Own(x)
  BY <1>1 DEF Own, Connections, Waits
<1>6. Agreed(p, ts, tc, ls) => Agreed(p, us, vc, ls)
  BY <1>2, <1>5, AskedAgreed
<1> QED
  BY <1>2, <1>3, <1>4, <1>6 DEF Good

LEMMA TakeCancel ==
    ASSUME NEW p \in Forwarders, NEW ts, NEW us, NEW tc, NEW m \in Requests,
           NEW ls \in SUBSET Index, NEW gs, gs = {j \in ls : ~SamePort(m.of, j)},
           version \in {1, 2}, Shrinks(ts, us, m), m.t = "cancel",
           Good(p, ts, tc, ls)
    PROVE  Good(p, us, tc, gs)
<1>1. Matched(p.queue, ts, tc) /\ Recorded(p.rpfs, ts) /\ Kept(p)
  BY DEF Good
<1>2. version = 2
  <2>1. 1 \in 1 .. Len(ts) /\ ts[1] = m
    BY Shrunk
  <2> QED
    BY <1>1, <2>1 DEF Recorded
<1>3. Matched(p.queue, us, tc) /\ Recorded(p.rpfs, us)
  BY <1>1, CancelTaken, RecordedStays
<1>4. Agreed(p, ts, tc, ls) => Agreed(p, us, tc, gs)
  BY <1>2, CancelledAgreed
<1> QED
  BY <1>1, <1>3, <1>4 DEF Good

(* The connection's own request is sent.                                    *)
LEMMA OwnAsked ==
    ASSUME NEW p, NEW ts, NEW us, NEW tc, NEW ls, NEW c,
           Grows(ts, us, Ask(c)), Good(p, ts, tc, ls)
    PROVE  Good(p, us, tc, ls)
<1> DEFINE m == Ask(c)
<1>1. m.t = "ask"
  BY DEF Ask
<1>2. (\A s : ~Asks(m, s)) /\ \A i : ~Cancels(m, i)
  BY <1>1 DEF Asks, Cancels
<1> HIDE DEF m
<1>3. \A k \in 1 .. Len(us) : (k \in 1 .. Len(ts) /\ us[k] = ts[k]) \/ (k = Len(us) /\ us[k] = m)
  BY Grown DEF m
<1>4. \A k \in 1 .. Len(ts) : k \in 1 .. Len(us) /\ us[k] = ts[k] /\ k < Len(us)
  BY Grown DEF m
<1>5. Matched(p.queue, ts, tc) /\ Recorded(p.rpfs, ts) /\ Kept(p)
      /\ (Doomed(p) \/ Agreed(p, ts, tc, ls))
  BY DEF Good
<1>6. \A k \in 1 .. Len(us) : \A s : Asks(us[k], s) => k \in 1 .. Len(ts) /\ Asks(ts[k], s)
  BY <1>2, <1>3
<1>7. \A s : Coming(s, us, tc) <=> Coming(s, ts, tc)
  <2> TAKE s
  <2>1. Coming(s, us, tc) => Coming(s, ts, tc)
    BY <1>6 DEF Coming
  <2>2. Coming(s, ts, tc) => Coming(s, us, tc)
    BY <1>4 DEF Coming
  <2> QED
    BY <2>1, <2>2
<1>8. Matched(p.queue, us, tc)
  <2>1. \A j, k \in 1 .. Len(us) : \A r, s \in Nat :
          j < k /\ Asks(us[j], r) /\ Asks(us[k], s) => r < s
    BY <1>5, <1>6 DEF Matched
  <2>2. \A j \in 1 .. Len(tc), k \in 1 .. Len(us) : \A r, s \in Nat :
          Answers(tc[j], r) /\ Asks(us[k], s) => r < s
    BY <1>5, <1>6 DEF Matched
  <2>3. \A r \in Nat : InQueue(p.queue, r) <=> Coming(r, us, tc)
    BY <1>5, <1>7 DEF Matched
  <2> QED
    BY <1>5, <2>1, <2>2, <2>3 DEF Matched
<1>9. Recorded(p.rpfs, us)
  <2>1. version = 1 => \A k \in 1 .. Len(us) : us[k].t # "cancel"
    BY <1>1, <1>3, <1>5 DEF Recorded
  <2>2. \A k \in 1 .. Len(us) : \A r \in Nat :
          Asks(us[k], r) => r \in 1 .. Len(p.rpfs) /\ us[k].of = p.rpfs[r]
    BY <1>5, <1>6, <1>4 DEF Recorded
  <2> QED
    BY <2>1, <2>2 DEF Recorded
<1>10. \A i : Clear(i, us) <=> Clear(i, ts)
  <2> TAKE i
  <2>1. Clear(i, us) => Clear(i, ts)
    BY <1>4 DEF Clear
  <2>2. Clear(i, ts) => Clear(i, us)
    BY <1>2, <1>3 DEF Clear
  <2> QED
    BY <2>1, <2>2
<1>11. Granted(p, ts, tc, ls) => Granted(p, us, tc, ls)
  BY <1>10 DEF Granted
<1>12. Released(p, ts, tc, ls) => Released(p, us, tc, ls)
  <2> SUFFICES ASSUME Released(p, ts, tc, ls) PROVE Released(p, us, tc, ls)
    OBVIOUS
  <2>1. ASSUME NEW s \in p.tree, NEW k \in 1 .. Len(us), Asks(us[k], s)
        PROVE  /\ \A j \in ls : SamePort(j, p.rpfs[s]) =>
                      \E l \in 1 .. Len(us) : l < k /\ Cancels(us[l], p.rpfs[s])
               /\ \A l \in 1 .. Len(us) : l > k => ~Cancels(us[l], p.rpfs[s])
    <3>1. k \in 1 .. Len(ts) /\ Asks(ts[k], s)
      BY <1>6, <2>1
    <3>2. /\ \A j \in ls : SamePort(j, p.rpfs[s]) =>
                \E l \in 1 .. Len(ts) : l < k /\ Cancels(ts[l], p.rpfs[s])
          /\ \A l \in 1 .. Len(ts) : l > k => ~Cancels(ts[l], p.rpfs[s])
      BY <3>1 DEF Released
    <3>3. \A l \in 1 .. Len(us) : l > k => ~Cancels(us[l], p.rpfs[s])
      BY <1>2, <1>3, <3>2
    <3> QED
      BY <1>4, <3>2, <3>3
  <2> QED
    BY <1>10, <2>1 DEF Released
<1> QED
  BY <1>5, <1>8, <1>9, <1>11, <1>12 DEF Good, Agreed

LEMMA AskedLast ==
    ASSUME NEW ts, NEW us, NEW tc, NEW c, c = cr, Grows(ts, us, Ask(c)), Quiet(ts, tc)
    PROVE  OwnLast(us, tc)
<1> DEFINE m == Ask(c)
<1>1. m.to = <<cr, 0>>
  BY DEF Ask
<1> HIDE DEF m
<1>2. \A k \in 1 .. Len(us) : (k \in 1 .. Len(ts) /\ us[k] = ts[k]) \/ (k = Len(us) /\ us[k] = m)
  BY Grown DEF m
<1> QED
  BY <1>1, <1>2 DEF OwnLast, Quiet

(* A reply to it comes.                                                     *)
LEMMA OwnReplied ==
    ASSUME NEW p, NEW ts, NEW tc, NEW vc, NEW ls, NEW m, p.tree \subseteq Nat,
           Own(m), Shrinks(tc, vc, m), Good(p, ts, tc, ls)
    PROVE  Good(p, ts, vc, ls)
<1>1. \A k \in 1 .. Len(vc) : k + 1 \in 1 .. Len(tc) /\ vc[k] = tc[k + 1]
  BY Shrunk
<1>2. \A k \in 1 .. Len(tc) : (k = 1 /\ tc[k] = m) \/ (k - 1 \in 1 .. Len(vc) /\ vc[k - 1] = tc[k])
  BY Shrunk
<1>3. Len(vc) \in Nat
  BY Shrunk
<1>4. \A s \in Nat : ~Answers(m, s)
  BY AnswersOne
<1>5. Matched(p.queue, ts, tc) /\ Recorded(p.rpfs, ts) /\ Kept(p)
      /\ (Doomed(p) \/ Agreed(p, ts, tc, ls))
  BY DEF Good
<1>6. \A s \in Nat : Coming(s, ts, vc) <=> Coming(s, ts, tc)
  <2> TAKE s \in Nat
  <2>1. ASSUME NEW k \in 1 .. Len(tc), Answers(tc[k], s) PROVE Coming(s, ts, vc)
    BY <1>2, <1>4, <2>1 DEF Coming
  <2>2. ASSUME NEW k \in 1 .. Len(vc), Answers(vc[k], s) PROVE Coming(s, ts, tc)
    BY <1>1, <2>2 DEF Coming
  <2>3. Coming(s, ts, tc) => Coming(s, ts, vc)
    BY <2>1 DEF Coming
  <2>4. Coming(s, ts, vc) => Coming(s, ts, tc)
    BY <2>2 DEF Coming
  <2> QED
    BY <2>3, <2>4
<1>7. Matched(p.queue, ts, vc)
  <2>1. \A j, k \in 1 .. Len(vc) : \A s, x \in Nat :
           j < k /\ Answers(vc[j], s) /\ Answers(vc[k], x) => s < x
    <3> TAKE j, k \in 1 .. Len(vc)
    <3>1. j < k => j + 1 < k + 1
      BY <1>3
    <3> QED
      BY <1>1, <1>5, <3>1 DEF Matched
  <2>2. \A j \in 1 .. Len(vc), k \in 1 .. Len(ts) : \A s, x \in Nat :
           Answers(vc[j], s) /\ Asks(ts[k], x) => s < x
    BY <1>1, <1>5 DEF Matched
  <2>3. \A s \in Nat : InQueue(p.queue, s) <=> Coming(s, ts, vc)
    BY <1>5, <1>6 DEF Matched
  <2> QED
    BY <1>5, <2>1, <2>2, <2>3 DEF Matched
<1>8. Granted(p, ts, tc, ls) => Granted(p, ts, vc, ls)
  BY <1>1 DEF Granted
<1>9. ASSUME Released(p, ts, tc, ls) PROVE Released(p, ts, vc, ls)
  <2>1. \A s \in p.tree : \A k \in 1 .. Len(vc) :
          Answers(vc[k], s) /\ vc[k].t = "failure" => \A j \in ls : ~SamePort(j, p.rpfs[s])
    BY <1>1, <1>9 DEF Released
  <2>2. \A s \in p.tree :
          (\E k \in 1 .. Len(tc) : Answers(tc[k], s) /\ tc[k].t = "success") =>
             \E k \in 1 .. Len(vc) : Answers(vc[k], s) /\ vc[k].t = "success"
    BY <1>2, <1>4
  <2> QED
    BY <1>9, <2>1, <2>2 DEF Released
<1> QED
  BY <1>5, <1>7, <1>8, <1>9 DEF Good, Agreed

-------------------------------------------------------------------------------
(* The invariant holds at the start, ...                                    *)

None == [wanted |-> {}, fwds |-> [i \in Index |-> NoForward], rpfs |-> <<>>,
         tree |-> {}, freed |-> {}, queue |-> <<>>, open |-> TRUE]

LEMMA NoneIs ==
    /\ None \in Forwarders /\ None.open /\ None.wanted = {} /\ None.queue = <<>>
    /\ None.rpfs = <<>> /\ None.tree = {} /\ None.freed = {}
    /\ None.fwds = [i \in Index |-> NoForward]
<1>1. NoForward \in Forwards
  BY DEF NoForward, Forwards
<1>2. [i \in Index |-> NoForward] \in [Index -> Forwards]
  BY <1>1
<1>3. <<>> \in Seq(Index) /\ <<>> \in Seq(Nat)
  BY EmptySeq
<1> QED
  BY <1>2, <1>3 DEF None, Forwarders

LEMMA NoneGood ==
    /\ Good(None, <<>>, <<>>, {})
    /\ Statuses(None.fwds, None.wanted, Len(Forwardings), Len(Forwardings))
<1>1. \A i \in Index : None.fwds[i] = NoForward /\ NoForward.status = "none"
                       /\ NoForward.remote = 0 /\ NoForward.local = FALSE
  BY NoneIs, NoForwardIs
<1>2. Statuses(None.fwds, None.wanted, Len(Forwardings), Len(Forwardings))
  BY <1>1, NoneIs DEF Statuses
<1>3. Matched(<<>>, <<>>, <<>>)
  BY DEF Matched, InQueue, Coming
<1>4. Recorded(<<>>, <<>>)
  BY DEF Recorded
<1>5. Kept(None)
  BY <1>1, NoneIs DEF Kept
<1>6. Agreed(None, <<>>, <<>>, {})
  BY NoneIs DEF Agreed, Granted, Released
<1> QED
  BY <1>2, <1>3, <1>4, <1>5, <1>6, NoneIs DEF Good

LEMMA AskIs ==
    ASSUME NEW c \in Waits
    PROVE  Ask(c) \in Requests
BY DEF Ask, Requests, Connections

LEMMA InitIInv == Init => IInv
<1> SUFFICES ASSUME Init PROVE IInv
  OBVIOUS
<1>1. version \in {1, 2} /\ version \in Versions
  BY PortForwardsAssumption DEF Init
<1>2. PICK cfg \in SUBSET Index : \E twice \in SUBSET (cfg \cap Repeatable), busy \in {{}, Ports} :
        /\ pf = Setup(None, cfg, twice, busy).p
        /\ toServer = Setup(None, cfg, twice, busy).out \o IF version = 1 THEN <<Ask("pty")>> ELSE <<>>
        /\ fault = Setup(None, cfg, twice, busy).fault
  BY DEF Init, None
<1>3. PICK twice \in SUBSET (cfg \cap Repeatable), busy \in {{}, Ports} :
        /\ pf = Setup(None, cfg, twice, busy).p
        /\ toServer = Setup(None, cfg, twice, busy).out \o IF version = 1 THEN <<Ask("pty")>> ELSE <<>>
        /\ fault = Setup(None, cfg, twice, busy).fault
  BY <1>2
<1> DEFINE st == Setup(None, cfg, twice, busy)
           n == Len(Forwardings)
<1>4. <<>> \in Seq(Requests) /\ <<>> \in Seq(Replies)
  BY EmptySeq
<1>5. Turn(st, cfg, n, n, <<>>, <<>>, {})
  <2>1. {} \in SUBSET Index
    OBVIOUS
  <2> HIDE DEF n
  <2> QED
    BY <1>1, <1>4, <2>1, NoneIs, NoneGood, SetupKeeps DEF n
<1> HIDE DEF st
<1>6. /\ st \in States /\ st.p \in Forwarders /\ st.out \in Seq(Requests)
      /\ st.fault \in {"none", "freed"}
  BY <1>5, StateFields DEF Turn
<1>7. OnItsWay(<<>>, st) = st.out /\ Quiet(<<>>, <<>>)
  BY <1>6, ConcatEmptySeq DEF OnItsWay, Quiet
<1>8. /\ Statuses(st.p.fwds, st.p.wanted, n, n)
      /\ st.fault = "none" => Good(st.p, st.out, <<>>, {}) /\ Quiet(st.out, <<>>)
  BY <1>5, <1>7 DEF Turn, StillQuiet
<1>9. toClient = <<>> /\ listening = {} /\ setups = 1 /\ early = FALSE
      /\ cr = IF version = 1 THEN "pty" ELSE "session"
  BY DEF Init
<1>10. pf = st.p /\ fault = st.fault
  BY <1>3 DEF st
<1>11. toServer \in Seq(Requests)
       /\ (fault = "none" => /\ Good(pf, toServer, toClient, listening)
                             /\ InTurn(toServer, toClient))
  <2>1. CASE version = 1
    <3>1. cr = "pty" /\ Ask(cr) \in Requests
      BY <1>9, <2>1, AskIs DEF Waits
    <3>2. toServer = Append(st.out, Ask(cr))
      BY <1>3, <1>6, <2>1, <3>1 DEF st
    <3>3. Grows(st.out, toServer, Ask(cr))
      BY <1>6, <3>1, <3>2, AppendGrows
    <3>4. toServer \in Seq(Requests)
      BY <1>6, <3>1, <3>2, AppendProperties
    <3>5. fault = "none" => Good(pf, toServer, toClient, listening)
      BY <1>8, <1>9, <1>10, <3>3, OwnAsked
    <3>6. fault = "none" => InTurn(toServer, toClient)
      BY <1>8, <1>9, <1>10, <2>1, <3>3, AskedLast DEF InTurn
    <3> QED
      BY <3>4, <3>5, <3>6
  <2>2. CASE version = 2
    <3>1. toServer = st.out
      BY <1>3, <1>6, <2>2, ConcatEmptySeq DEF st
    <3>2. fault = "none" => InTurn(toServer, toClient)
      BY <1>8, <1>9, <1>10, <3>1 DEF InTurn, OwnLast, Quiet
    <3> QED
      BY <1>6, <1>8, <1>9, <1>10, <3>1, <3>2
  <2> QED
    BY <1>1, <2>1, <2>2
<1>12. TypeOK
  <2>1. setups \in 1 .. MaxSetups /\ cr \in Waits
    BY <1>9, PortForwardsAssumption, SMTT(40) DEF Waits
  <2> QED
    BY <1>1, <1>4, <1>6, <1>9, <1>10, <1>11, <2>1 DEF TypeOK
<1> QED
  BY <1>6, <1>8, <1>9, <1>10, <1>11, <1>12 DEF IInv, Alive

-------------------------------------------------------------------------------
(* ... and every step keeps it.                                             *)

LEMMA GoodAfter ==
    ASSUME version' = version, Good(pf', toServer', toClient', listening')
    PROVE  Good(pf, toServer, toClient, listening)'
BY DEF Good, Matched, Recorded, Kept, Doomed, Agreed, Granted, Released, SameRemote, SamePort,
       Clear, Cancels, Coming, InQueue, Asks, Answers, Handler

LEMMA InTurnAfter ==
    ASSUME version' = version, cr' = cr,
           early' \/ OwnLast(toServer', toClient'),
           version # 1 => Quiet(toServer', toClient')
    PROVE  InTurn(toServer, toClient)'
BY DEF InTurn, OwnLast, Quiet, Own

LEMMA TypeFields ==
    ASSUME TypeOK
    PROVE  /\ version \in {1, 2} /\ version \in Versions /\ cr \in Waits
           /\ pf \in Forwarders /\ toServer \in Seq(Requests) /\ toClient \in Seq(Replies)
           /\ early \in BOOLEAN /\ listening \in SUBSET Index /\ setups \in 1 .. MaxSetups
           /\ fault \in {"none", "reply", "freed", "channels"}
BY PortForwardsAssumption DEF TypeOK

LEMMA ReconfigKeeps == IInv /\ Reconfig => IInv'
<1> SUFFICES ASSUME IInv, Reconfig PROVE IInv'
  OBVIOUS
<1> DEFINE n == Len(Forwardings)
<1>1. /\ version \in {1, 2} /\ pf \in Forwarders /\ toServer \in Seq(Requests)
      /\ toClient \in Seq(Replies) /\ listening \in SUBSET Index
  BY TypeFields DEF IInv
<1>2. /\ Statuses(pf.fwds, pf.wanted, n, n) /\ pf.open
      /\ Good(pf, toServer, toClient, listening) /\ InTurn(toServer, toClient)
  BY DEF IInv, Reconfig, Alive
<1>3. Awaited \/ Quiet(toServer, toClient)
  BY DEF Awaited, Quiet, Own
<1>4. PICK cfg \in SUBSET Index, twice \in SUBSET Index, busy \in {{}, Ports} :
        /\ pf' = Setup(pf, cfg, twice, busy).p
        /\ toServer' = toServer \o Setup(pf, cfg, twice, busy).out
        /\ fault' = Setup(pf, cfg, twice, busy).fault
        /\ early' = (early \/ (Awaited /\ Setup(pf, cfg, twice, busy).out # <<>>))
  BY DEF Reconfig
<1>5. /\ UNCHANGED <<version, cr, toClient, listening>>
      /\ setups < MaxSetups /\ setups' = setups + 1
  BY DEF Reconfig
<1> DEFINE st == Setup(pf, cfg, twice, busy)
<1>6. Turn(st, cfg, n, n, toServer, toClient, listening)
  <2> DEFINE p == pf
             q == toServer
             tc == toClient
             ls == listening
  <2>1. /\ p \in Forwarders /\ p.open /\ q \in Seq(Requests) /\ ls \in SUBSET Index
        /\ Statuses(p.fwds, p.wanted, n, n) /\ Good(p, q, tc, ls)
    BY <1>1, <1>2
  <2> HIDE DEF p, q, tc, ls
  <2>2. Turn(Setup(p, cfg, twice, busy), cfg, n, n, q, tc, ls)
    BY <1>1, <2>1, SetupKeeps
  <2> QED
    BY <2>2 DEF p, q, tc, ls
<1> HIDE DEF st, n
<1>7. pf' = st.p /\ toServer' = OnItsWay(toServer, st) /\ fault' = st.fault
      /\ early' = (early \/ (Awaited /\ st.out # <<>>))
  BY <1>4 DEF st, OnItsWay
<1>8. st.p \in Forwarders /\ st.out \in Seq(Requests) /\ st.fault \in {"none", "freed"}
  BY <1>6, StateFields DEF Turn
<1>9. toServer' \in Seq(Requests)
  BY <1>1, <1>7, <1>8, ConcatProperties DEF OnItsWay
<1>10. TypeOK'
  <2>1. (setups + 1) \in 1 .. MaxSetups
    BY <1>5, PortForwardsAssumption DEF IInv, TypeOK
  <2> QED
    BY <1>5, <1>7, <1>8, <1>9, <2>1, TypeFields DEF IInv, TypeOK
<1>11. Statuses(pf'.fwds, pf'.wanted, n, n)
  BY <1>6, <1>7 DEF Turn
<1>12. fault' = "none" => Good(pf', toServer', toClient', listening')
  BY <1>5, <1>6, <1>7 DEF Turn
<1>13. fault' = "none" => Good(pf, toServer, toClient, listening)'
  BY <1>5, <1>12, GoodAfter
<1>14. Statuses(pf.fwds, pf.wanted, Len(Forwardings), Len(Forwardings))'
  BY <1>11 DEF n
<1>15. ASSUME fault' = "none" PROVE InTurn(toServer, toClient)'
  <2>1. Quiet(toServer, toClient) => Quiet(toServer', toClient')
    BY <1>5, <1>6, <1>7, <1>15 DEF Turn, StillQuiet
  <2>2. Quiet(toServer', toClient') => OwnLast(toServer', toClient')
    BY DEF Quiet, OwnLast
  <2>3. st.out = <<>> => toServer' = toServer
    BY <1>1, <1>7, ConcatEmptySeq DEF OnItsWay
  <2>4. early' \/ OwnLast(toServer', toClient')
    BY <1>2, <1>3, <1>5, <1>7, <2>1, <2>2, <2>3 DEF InTurn
  <2>5. version # 1 => Quiet(toServer', toClient')
    BY <1>2, <2>1 DEF InTurn
  <2> QED
    BY <1>5, <2>4, <2>5, InTurnAfter
<1>16. early' => version' = 1
  BY <1>2, <1>5, <1>7 DEF IInv, InTurn, Quiet, Awaited, Own
<1> QED
  BY <1>7, <1>8, <1>10, <1>13, <1>14, <1>15, <1>16 DEF IInv, Alive
LEMMA QueueingHandlerKeeps == IInv /\ QueueingHandler => IInv'
<1> SUFFICES ASSUME IInv, QueueingHandler PROVE IInv'
  OBVIOUS
<1> DEFINE n == Len(Forwardings)
           r == Head(pf.queue)
           m == Head(toClient)
<1>1. /\ version \in {1, 2} /\ pf \in Forwarders /\ toServer \in Seq(Requests)
      /\ toClient \in Seq(Replies) /\ listening \in SUBSET Index
  BY TypeFields DEF IInv
<1>2. /\ Statuses(pf.fwds, pf.wanted, n, n) /\ pf.open
      /\ Good(pf, toServer, toClient, listening) /\ InTurn(toServer, toClient)
  BY DEF IInv, QueueingHandler, Incoming, Alive
<1>3. /\ toClient # <<>> /\ pf.queue # <<>>
      /\ toClient' = Tail(toClient) /\ UNCHANGED <<version, cr, toServer, listening, setups, early>>
  BY DEF QueueingHandler, Incoming
<1>4. pf.queue \in Seq(Nat) /\ pf.tree \subseteq Nat /\ pf.freed \subseteq Nat
  BY <1>1, ForwarderFields
<1>5. Shrinks(toClient, toClient', m) /\ toClient' \in Seq(Replies) /\ m \in Replies
  BY <1>1, <1>3, TailShrinks
<1>6. Shrinks(pf.queue, Tail(pf.queue), r) /\ Tail(pf.queue) \in Seq(Nat) /\ r \in Nat
  BY <1>3, <1>4, TailShrinks
<1> HIDE DEF r, m, n
<1>7. CASE r \in pf.freed
  <2>1. pf' = [pf EXCEPT !.queue = Tail(@)] /\ fault' = "freed"
    BY <1>7 DEF QueueingHandler, SuccFail, r
  <2>2. pf' \in Forwarders
    BY <1>1, <1>6, <2>1 DEF Forwarders
  <2>3. TypeOK'
    BY <1>3, <1>5, <2>1, <2>2 DEF IInv, TypeOK
  <2> QED
    BY <1>3, <2>1, <2>3 DEF IInv, Alive
<1>8. CASE r \notin pf.freed /\ Own(m)
  <2>1. /\ pf' = IF m.t = "success"
                 THEN [pf EXCEPT !.queue = Tail(@)]
                 ELSE [pf EXCEPT !.queue = Tail(@), !.tree = @ \ {r}, !.freed = @ \cup {r}]
        /\ fault' = "reply"
    BY <1>8 DEF QueueingHandler, SuccFail, r, m, Own, Handler
  <2>2. early
    <3> SUFFICES ASSUME OwnLast(toServer, toClient) PROVE FALSE
      BY <1>2 DEF InTurn
    <3>1. 1 \in 1 .. Len(toClient) /\ toClient[1] = m
      BY <1>5, Shrunk
    <3>2. Len(toClient) = 1 /\ toServer = <<>>
      BY <1>8, <3>1 DEF OwnLast
    <3>3. InQueue(pf.queue, r)
      BY <1>6, Shrunk DEF InQueue
    <3>4. PICK k \in 1 .. Len(toClient) : Answers(toClient[k], r)
      BY <1>2, <1>6, <3>2, <3>3 DEF Good, Matched, Coming
    <3>5. k = 1
      BY <3>2, <3>4
    <3> QED
      BY <1>6, <1>8, <3>1, <3>4, <3>5, AnswersOne
  <2>3. pf' \in Forwarders
    BY <1>1, <1>4, <1>6, <2>1 DEF Forwarders
  <2>4. TypeOK'
    BY <1>3, <1>5, <2>1, <2>3 DEF IInv, TypeOK
  <2> QED
    BY <1>3, <2>1, <2>2, <2>4 DEF IInv, Alive
<1>9. CASE r \notin pf.freed /\ ~Own(m)
  <2>1. /\ pf' = IF m.t = "success"
                 THEN [pf EXCEPT !.queue = Tail(@)]
                 ELSE [pf EXCEPT !.queue = Tail(@), !.tree = @ \ {r}, !.freed = @ \cup {r}]
        /\ fault' = IF m.to = Handler(r) THEN "none" ELSE "reply"
    BY <1>9 DEF QueueingHandler, SuccFail, r, m
  <2>2. /\ pf' \in Forwarders /\ pf'.fwds = pf.fwds /\ pf'.rpfs = pf.rpfs
        /\ pf'.wanted = pf.wanted /\ pf'.queue = Tail(pf.queue)
        /\ IF m.t = "success" THEN pf'.tree = pf.tree /\ pf'.freed = pf.freed
           ELSE pf'.tree = pf.tree \ {r} /\ pf'.freed = pf.freed \cup {r}
    BY <1>1, <1>4, <1>6, <2>1 DEF Forwarders
  <2>3. Answers(m, r) /\ Good(pf', toServer, toClient', listening)
    <3> DEFINE p == pf
               u == pf'
               ts == toServer
               tc == toClient
               vc == toClient'
               ls == listening
    <3>1. /\ p \in Forwarders /\ u \in Forwarders /\ ts \in Seq(Requests) /\ tc \in Seq(Replies)
          /\ ls \in SUBSET Index /\ Shrinks(p.queue, u.queue, r) /\ Shrinks(tc, vc, m)
          /\ u.rpfs = p.rpfs /\ u.fwds = p.fwds /\ r \notin p.freed
          /\ IF m.t = "success" THEN u.tree = p.tree /\ u.freed = p.freed
             ELSE u.tree = p.tree \ {r} /\ u.freed = p.freed \cup {r}
          /\ Good(p, ts, tc, ls)
      BY <1>1, <1>2, <1>5, <1>6, <1>9, <2>2
    <3> HIDE DEF p, u, ts, tc, vc, ls
    <3>2. Answers(m, r) /\ Good(u, ts, vc, ls)
      BY <1>5, <1>6, <1>9, <3>1, RepliedKeeps
    <3> QED
      BY <3>2 DEF u, ts, vc, ls
  <2>4. fault' = "none"
    BY <2>1, <2>3 DEF Answers
  <2>5. Good(pf, toServer, toClient, listening)'
    BY <1>3, <2>3, GoodAfter
  <2>6. TypeOK'
    BY <1>3, <1>5, <2>2, <2>4 DEF IInv, TypeOK
  <2>7. Statuses(pf.fwds, pf.wanted, Len(Forwardings), Len(Forwardings))'
    BY <1>2, <2>2 DEF n
  <2>8. InTurn(toServer, toClient)'
    BY <1>2, <1>3, <1>5, HeadInTurn, InTurnAfter DEF InTurn
  <2> QED
    BY <1>3, <2>4, <2>5, <2>6, <2>7, <2>8 DEF IInv, Alive
<1> QED
  BY <1>7, <1>8, <1>9

(* With no handler queued, the first reply is to the connection's request;  *)
(* if that comes last, there is nothing else on its way.                    *)
LEMMA OwnReply ==
    ASSUME NEW ts \in Seq(Requests), NEW tc \in Seq(Replies), NEW vc, NEW m \in Replies,
           Matched(<<>>, ts, tc), Shrinks(tc, vc, m)
    PROVE  /\ Own(m)
           /\ OwnLast(ts, tc) => m.to = <<cr, 0>> /\ Len(vc) = 0 /\ ts = <<>>
<1>1. 1 \in 1 .. Len(tc) /\ tc[1] = m /\ Len(vc) \in Nat /\ Len(tc) = Len(vc) + 1
  BY Shrunk
<1>2. \A s \in Nat : ~Answers(m, s)
  BY <1>1 DEF Matched, Coming, InQueue
<1>3. Own(m)
  BY <1>2, ReplyIs
<1>4. OwnLast(ts, tc) => m.to = <<cr, 0>> /\ 1 = Len(tc) /\ ts = <<>>
  BY <1>1, <1>3 DEF OwnLast
<1> QED
  BY <1>1, <1>3, <1>4

LEMMA ConnectionKeeps == IInv /\ Connection => IInv'
<1> SUFFICES ASSUME IInv, Connection PROVE IInv'
  OBVIOUS
<1> DEFINE m == Head(toClient)
<1>1. /\ version \in {1, 2} /\ pf \in Forwarders /\ toServer \in Seq(Requests)
      /\ toClient \in Seq(Replies) /\ listening \in SUBSET Index /\ cr \in Waits
  BY TypeFields DEF IInv
<1>2. /\ Statuses(pf.fwds, pf.wanted, Len(Forwardings), Len(Forwardings)) /\ pf.open
      /\ Good(pf, toServer, toClient, listening) /\ InTurn(toServer, toClient)
  BY DEF IInv, Connection, Incoming, Alive
<1>3. /\ toClient # <<>> /\ pf.queue = <<>>
      /\ toClient' = Tail(toClient) /\ UNCHANGED <<version, pf, listening, setups, early>>
      /\ fault' = IF m.to[1] = cr THEN "none" ELSE "reply"
  BY DEF Connection, Incoming
<1>4. \/ cr' \in Waits /\ toServer' = Append(toServer, Ask(cr'))
      \/ cr' = cr /\ toServer' = toServer
  BY DEF Connection, Waits
<1>5. Shrinks(toClient, toClient', m) /\ toClient' \in Seq(Replies) /\ m \in Replies
  BY <1>1, <1>3, TailShrinks
<1> HIDE DEF m
<1>6. Matched(<<>>, toServer, toClient) /\ pf.tree \subseteq Nat
  BY <1>1, <1>2, <1>3, ForwarderFields DEF Good
<1>7. Own(m) /\ (OwnLast(toServer, toClient) => m.to = <<cr, 0>> /\ Len(toClient') = 0 /\ toServer = <<>>)
  BY <1>1, <1>5, <1>6, OwnReply
<1>8. Good(pf, toServer, toClient', listening)
  <2> DEFINE p == pf
             ts == toServer
             tc == toClient
             vc == toClient'
             ls == listening
  <2>1. p.tree \subseteq Nat /\ Own(m) /\ Shrinks(tc, vc, m) /\ Good(p, ts, tc, ls)
    BY <1>2, <1>5, <1>6, <1>7
  <2> HIDE DEF p, ts, tc, vc, ls
  <2>2. Good(p, ts, vc, ls)
    BY <2>1, OwnReplied
  <2> QED
    BY <2>2 DEF p, ts, vc, ls
<1>9. toServer' \in Seq(Requests) /\ cr' \in Waits
      /\ \/ toServer' = toServer /\ cr' = cr
         \/ Grows(toServer, toServer', Ask(cr'))
  <2>1. CASE cr' \in Waits /\ toServer' = Append(toServer, Ask(cr'))
    <3>1. Ask(cr') \in Requests
      BY <2>1, AskIs
    <3> QED
      BY <1>1, <2>1, <3>1, AppendGrows, AppendProperties
  <2>2. CASE cr' = cr /\ toServer' = toServer
    BY <1>1, <2>2
  <2> QED
    BY <1>4, <2>1, <2>2
<1>10. Good(pf, toServer', toClient', listening)
  <2>1. CASE toServer' = toServer
    BY <1>8, <2>1
  <2>2. CASE Grows(toServer, toServer', Ask(cr'))
    <3> DEFINE p == pf
               ts == toServer
               us == toServer'
               vc == toClient'
               ls == listening
               c == cr'
    <3>1. Grows(ts, us, Ask(c)) /\ Good(p, ts, vc, ls)
      BY <1>8, <2>2
    <3> HIDE DEF p, ts, us, vc, ls, c
    <3>2. Good(p, us, vc, ls)
      BY <3>1, OwnAsked
    <3> QED
      BY <3>2 DEF p, us, vc, ls
  <2> QED
    BY <1>9, <2>1, <2>2
<1>11. Good(pf', toServer', toClient', listening')
  BY <1>3, <1>10
<1>12. Good(pf, toServer, toClient, listening)'
  BY <1>3, <1>11, GoodAfter
<1>13. fault' = "reply" => early
  BY <1>2, <1>3, <1>7 DEF InTurn
<1>14. version = 1
  <2> SUFFICES ASSUME Quiet(toServer, toClient) PROVE FALSE
    BY <1>2 DEF InTurn
  <2>1. 1 \in 1 .. Len(toClient) /\ toClient[1] = m
    BY <1>5, Shrunk
  <2> QED
    BY <1>7, <2>1 DEF Quiet
<1>15. ASSUME ~early
       PROVE  \A k \in 1 .. Len(toServer') :
                 toServer'[k].t = "ask" /\ toServer'[k].to = <<cr', 0>> /\ k = Len(toServer')
  <2>1. toServer = <<>>
    BY <1>2, <1>7, <1>15 DEF InTurn
  <2>2. CASE toServer' = toServer
    BY <2>1, <2>2
  <2>3. CASE Grows(toServer, toServer', Ask(cr'))
    <3> DEFINE a == Ask(cr')
    <3>1. a.t = "ask" /\ a.to = <<cr', 0>>
      BY DEF Ask
    <3> HIDE DEF a
    <3>2. \A k \in 1 .. Len(toServer') :
             k \in 1 .. Len(toServer) \/ (k = Len(toServer') /\ toServer'[k] = a)
      BY <2>3, Grown DEF a
    <3> QED
      BY <2>1, <3>1, <3>2
  <2> QED
    BY <1>9, <2>2, <2>3
<1>16. ~early => \A k \in 1 .. Len(toClient') : FALSE
  BY <1>2, <1>7 DEF InTurn
<1>17. InTurn(toServer, toClient)'
  BY <1>3, <1>14, <1>15, <1>16 DEF InTurn, OwnLast
<1>18. TypeOK'
  BY <1>3, <1>5, <1>9 DEF IInv, TypeOK
<1>19. Statuses(pf.fwds, pf.wanted, Len(Forwardings), Len(Forwardings))'
  BY <1>2, <1>3
<1>20. early' = early /\ version' = version
  BY <1>3
<1> QED
  BY <1>12, <1>13, <1>14, <1>17, <1>18, <1>19, <1>20 DEF IInv

LEMMA AcceptingKeeps == IInv /\ Accepting => IInv'
BY DEF IInv, Accepting, Alive, TypeOK

LEMMA CloseKeeps == IInv /\ Close => IInv'
<1> SUFFICES ASSUME IInv, Close PROVE IInv'
  OBVIOUS
<1>1. pf \in Forwarders /\ pf' = [pf EXCEPT !.open = FALSE, !.fwds = [i \in Index |-> NoForward]]
  BY TypeFields DEF IInv, Close
<1>2. [i \in Index |-> NoForward] \in [Index -> Forwards]
  BY DEF NoForward, Forwards
<1>3. pf' \in Forwarders /\ pf'.open = FALSE
  BY <1>1, <1>2 DEF Forwarders
<1> QED
  BY <1>3 DEF IInv, Close, Alive, TypeOK

LEMMA FreeKeeps == IInv /\ Free => IInv'
<1> SUFFICES ASSUME IInv, Free PROVE IInv'
  OBVIOUS
<1>1. /\ pf \in Forwarders /\ ~pf.open
      /\ pf' = [pf EXCEPT !.queue = <<>>, !.freed = @ \cup pf.tree, !.tree = {}]
  BY TypeFields DEF IInv, Free
<1>2. pf.tree \subseteq Nat /\ pf.freed \subseteq Nat /\ <<>> \in Seq(Nat)
  BY <1>1, ForwarderFields, EmptySeq
<1>3. pf' \in Forwarders /\ ~pf'.open
  BY <1>1, <1>2 DEF Forwarders
<1> QED
  BY <1>3 DEF IInv, Free, Alive, TypeOK

LEMMA SrvTakesKeeps == IInv /\ SrvTakes => IInv'
<1> SUFFICES ASSUME IInv, SrvTakes PROVE IInv'
  OBVIOUS
<1> DEFINE m == Head(toServer)
<1>1. /\ version \in {1, 2} /\ pf \in Forwarders /\ toServer \in Seq(Requests)
      /\ toClient \in Seq(Replies) /\ listening \in SUBSET Index /\ cr \in Waits
  BY TypeFields DEF IInv
<1>2. /\ Statuses(pf.fwds, pf.wanted, Len(Forwardings), Len(Forwardings))
      /\ Good(pf, toServer, toClient, listening) /\ InTurn(toServer, toClient)
  BY DEF IInv, SrvTakes, Alive
<1>3. /\ toServer # <<>> /\ toServer' = Tail(toServer)
      /\ UNCHANGED <<version, cr, pf, setups, early, fault>>
  BY DEF SrvTakes
<1>4. \/ m.t = "request" /\ SrvListens(m)
      \/ m.t = "ask" /\ SrvAnswers(m)
      \/ /\ m.t = "cancel"
         /\ listening' = {j \in listening : ~SamePort(m.of, j)}
         /\ UNCHANGED toClient
  BY DEF SrvTakes
<1>5. Shrinks(toServer, toServer', m) /\ toServer' \in Seq(Requests) /\ m \in Requests
  BY <1>1, <1>3, TailShrinks
<1> HIDE DEF m
<1>6. /\ toClient' \in Seq(Replies) /\ listening' \in SUBSET Index
      /\ Good(pf, toServer', toClient', listening')
      /\ InTurn(toServer, toClient)'
  <2>1. CASE m.t = "request" /\ SrvListens(m)
    <3>1. PICK t \in {"success", "failure"} :
            /\ toClient' = Append(toClient, [t |-> t, to |-> m.to])
            /\ \/ t = "failure" /\ listening' = listening
               \/ t = "success" /\ listening' = listening \cup {m.of}
      BY <2>1 DEF SrvListens, SrvReplies
    <3> DEFINE x == [t |-> t, to |-> m.to]
    <3>2. x \in Replies /\ x.t = t /\ x.to = m.to /\ m.of \in Index
      BY <1>5, <2>1 DEF Requests, Replies, Owner
    <3> HIDE DEF x
    <3>3. toClient' = Append(toClient, x)
      BY <3>1 DEF x
    <3>4. Grows(toClient, toClient', x) /\ toClient' \in Seq(Replies)
      BY <1>1, <3>2, <3>3, AppendGrows, AppendProperties
    <3>5. listening' \in SUBSET Index
      BY <1>1, <3>1, <3>2
    <3>6. Good(pf, toServer', toClient', listening')
      BY <1>1, <1>2, <1>5, <2>1, <3>1, <3>2, <3>4, <3>5, TakeRequest
    <3>7. Own(x) => m.t = "ask" /\ x.to = m.to
      BY <1>5, <2>1, <3>2 DEF Requests, Handlers, Own
    <3>8. InTurn(toServer, toClient)'
      BY <1>2, <1>3, <1>5, <3>4, <3>7, TakenInTurn, InTurnAfter DEF InTurn
    <3> QED
      BY <3>4, <3>5, <3>6, <3>8
  <2>2. CASE m.t = "ask" /\ SrvAnswers(m)
    <3>0. version = 1
      <4>1. 1 \in 1 .. Len(toServer) /\ toServer[1] = m
        BY <1>5, Shrunk
      <4> QED
        BY <1>2, <2>2, <4>1 DEF InTurn, Quiet
    <3>1. CASE UNCHANGED toClient
      <4>1. Good(pf, toServer', toClient', listening)
        BY <1>1, <1>2, <1>5, <2>2, <3>0, <3>1, TakeAsk
      <4>2. InTurn(toServer, toClient)'
        BY <1>2, <1>3, <1>5, <3>1, TakenInTurn, InTurnAfter DEF InTurn
      <4> QED
        BY <1>1, <2>2, <3>1, <4>1, <4>2 DEF SrvAnswers
    <3>2. CASE \E t \in {"success", "failure"} : SrvReplies(t, m.to)
      <4>1. PICK t \in {"success", "failure"} :
              toClient' = Append(toClient, [t |-> t, to |-> m.to])
        BY <3>2 DEF SrvReplies
      <4> DEFINE x == [t |-> t, to |-> m.to]
      <4>2. x \in Replies /\ x.to = m.to
        BY <1>5, <2>2 DEF Requests, Replies, Owner
      <4> HIDE DEF x
      <4>3. toClient' = Append(toClient, x)
        BY <4>1 DEF x
      <4>4. Grows(toClient, toClient', x) /\ toClient' \in Seq(Replies)
        BY <1>1, <4>2, <4>3, AppendGrows, AppendProperties
      <4>5. Good(pf, toServer', toClient', listening)
        BY <1>1, <1>2, <1>5, <2>2, <3>0, <4>2, <4>4, TakeAsk
      <4>6. InTurn(toServer, toClient)'
        BY <1>2, <1>3, <1>5, <2>2, <4>2, <4>4, TakenInTurn, InTurnAfter DEF InTurn
      <4> QED
        BY <1>1, <2>2, <4>4, <4>5, <4>6 DEF SrvAnswers
    <3> QED
      BY <2>2, <3>1, <3>2 DEF SrvAnswers
  <2>3. CASE /\ m.t = "cancel"
             /\ listening' = {j \in listening : ~SamePort(m.of, j)}
             /\ UNCHANGED toClient
    <3>1. Good(pf, toServer', toClient, listening')
      BY <1>1, <1>2, <1>5, <2>3, TakeCancel
    <3>2. InTurn(toServer, toClient)'
      BY <1>2, <1>3, <1>5, <2>3, TakenInTurn, InTurnAfter DEF InTurn
    <3> QED
      BY <1>1, <2>3, <3>1, <3>2
  <2> QED
    BY <1>4, <2>1, <2>2, <2>3
<1>7. Good(pf', toServer', toClient', listening')
  BY <1>3, <1>6
<1>8. Good(pf, toServer, toClient, listening)'
  BY <1>3, <1>7, GoodAfter
<1>9. TypeOK'
  BY <1>3, <1>5, <1>6 DEF IInv, TypeOK
<1>10. Statuses(pf.fwds, pf.wanted, Len(Forwardings), Len(Forwardings))'
  BY <1>2, <1>3
<1> QED
  BY <1>3, <1>6, <1>8, <1>9, <1>10 DEF IInv
LEMMA NextKeeps == IInv /\ [Next]_vars => IInv'
<1> SUFFICES ASSUME IInv, [Next]_vars PROVE IInv'
  OBVIOUS
<1>1. CASE Reconfig
  BY <1>1, ReconfigKeeps
<1>2. CASE QueueingHandler
  BY <1>2, QueueingHandlerKeeps
<1>3. CASE Connection
  BY <1>3, ConnectionKeeps
<1>4. CASE Accepting
  BY <1>4, AcceptingKeeps
<1>5. CASE Close
  BY <1>5, CloseKeeps
<1>6. CASE Free
  BY <1>6, FreeKeeps
<1>7. CASE SrvTakes
  BY <1>7, SrvTakesKeeps
<1>8. CASE UNCHANGED vars
  <2>1. early' = early /\ version' = version /\ cr' = cr /\ pf' = pf /\ toServer' = toServer
        /\ toClient' = toClient /\ listening' = listening /\ setups' = setups /\ fault' = fault
    BY <1>8 DEF vars
  <2>2. Good(pf, toServer, toClient, listening) => Good(pf, toServer, toClient, listening)'
    BY <2>1, GoodAfter
  <2>3. InTurn(toServer, toClient) => InTurn(toServer, toClient)'
    BY <2>1, InTurnAfter DEF InTurn
  <2> QED
    BY <2>1, <2>2, <2>3 DEF IInv, Alive, TypeOK
<1> QED
  BY <1>1, <1>2, <1>3, <1>4, <1>5, <1>6, <1>7, <1>8 DEF Next

LEMMA Invariant == Spec => []IInv
BY InitIInv, NextKeeps, PTL DEF Spec

-------------------------------------------------------------------------------
(* The results.                                                             *)

LEMMA IInvConfigured == IInv => ForwardsAsConfigured
<1> SUFFICES ASSUME IInv, Alive PROVE
      /\ \A i \in Index : pf.fwds[i].status # "none" <=> i \in pf.wanted
      /\ \A r \in pf.tree : pf.fwds[pf.rpfs[r]].remote = r
      /\ \A i, j \in Index : pf.fwds[i].local /\ pf.fwds[j].local /\ SamePort(i, j) => i = j
  BY DEF ForwardsAsConfigured
<1> DEFINE n == Len(Forwardings)
<1>1. Statuses(pf.fwds, pf.wanted, n, n) /\ Kept(pf) /\ pf \in Forwarders
  BY TypeFields DEF IInv, Good
<1>2. n \in Nat /\ Index = 1 .. n
  BY IndexIs
<1> HIDE DEF n
<1>3. \A i \in Index : pf.fwds[i].status # "none" <=> i \in pf.wanted
  <2> TAKE i \in Index
  <2>1. pf.fwds[i].status \in {"none", "DESTROY", "KEEP", "CREATE"}
    BY <1>1, ForwarderFields, ForwardFields
  <2>2. ~(i > n)
    BY <1>2
  <2> QED
    BY <1>1, <2>1, <2>2 DEF Statuses
<1> QED
  BY <1>1, <1>3 DEF Kept

LEMMA IInvAgrees == IInv => ServerAgrees
<1> SUFFICES ASSUME IInv, Alive, toServer = <<>>, toClient = <<>>
             PROVE  /\ pf.queue = <<>>
                    /\ Requested \subseteq listening
                    /\ version = 2 => listening \subseteq Requested
  BY DEF ServerAgrees
<1>1. pf \in Forwarders /\ Good(pf, toServer, toClient, listening)
  BY TypeFields DEF IInv
<1>2. pf.queue \in Seq(Nat)
  BY <1>1, ForwarderFields
<1>3. (\A k \in 1 .. Len(toServer) : FALSE) /\ \A k \in 1 .. Len(toClient) : FALSE
  OBVIOUS
<1>4. \A k \in 1 .. Len(pf.queue) : FALSE
  <2> TAKE k \in 1 .. Len(pf.queue)
  <2>1. pf.queue[k] \in Nat /\ InQueue(pf.queue, pf.queue[k])
    BY <1>2 DEF InQueue
  <2>2. Coming(pf.queue[k], toServer, toClient)
    BY <1>1, <2>1 DEF Good, Matched
  <2> QED
    BY <1>3, <2>2 DEF Coming
<1>5. pf.queue = <<>>
  BY <1>2, <1>4, EmptySeq
<1>6. Agreed(pf, toServer, toClient, listening)
  BY <1>1, <1>4 DEF Good, Doomed
<1>7. \A r : ~InQueue(pf.queue, r)
  BY <1>4 DEF InQueue
<1>8. Requested \subseteq listening
  BY <1>6, <1>7 DEF Agreed, Granted, Requested
<1>9. ASSUME version = 2 PROVE listening \subseteq Requested
  <2>1. \A j : Clear(j, toServer)
    BY <1>3 DEF Clear
  <2>2. Released(pf, toServer, toClient, listening)
    BY <1>6, <1>9 DEF Agreed
  <2>3. \A j \in listening : \E r \in pf.tree : pf.rpfs[r] = j
    BY <2>1, <2>2 DEF Released
  <2> QED
    BY <2>3 DEF Requested
<1> QED
  BY <1>5, <1>8, <1>9

(* Each variable of the forwardings' state keeps to its type: the server    *)
(* listens for what may be configured, handlers' contexts are numbers of    *)
(* requests, and what is on its way is a request or a reply.                *)
THEOREM PortForwardsTypeCorrect == Spec => []TypeOK
<1>1. IInv => TypeOK
  BY DEF IInv
<1> QED
  BY <1>1, Invariant, PTL

(* A reply goes to the one whose request it answers, in ssh_queueing_handler()*)
(* and in do_ssh1_connection(), unless ssh_reconfig() has asked, in SSH-1,   *)
(* for a remote forwarding while do_ssh1_connection() was owed a reply.     *)
THEOREM RepliesCorrect == Spec => []RepliesMatch
<1>1. IInv => RepliesMatch
  BY DEF IInv, RepliesMatch
<1> QED
  BY <1>1, Invariant, PTL

(* After ssh_setup_portfwd(), and until it is called again, forwardings are  *)
(* those of the last configuration, each request known belongs to one, and  *)
(* no port has two listeners.                                               *)
THEOREM ForwardsCorrect == Spec => []ForwardsAsConfigured
BY IInvConfigured, Invariant, PTL

(* When nothing is on its way, no handler is queued, and the server listens  *)
(* for what has been requested and not refused or cancelled, in SSH-2 for   *)
(* nothing else.                                                            *)
THEOREM ServerCorrect == Spec => []ServerAgrees
BY IInvAgrees, Invariant, PTL
===============================================================================
