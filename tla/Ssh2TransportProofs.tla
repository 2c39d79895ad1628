-------------------------- MODULE Ssh2TransportProofs --------------------------
(***************************************************************************)
(* Proofs about Ssh2Transport, for any offers of the server and any         *)
(* configurations, any range of sequence numbers and any bounds: the types, *)
(* and that each side reads the other's packets as they were meant, that    *)
(* the packets of the layers above keep their order, and that the rekey     *)
(* timer is never lost.                                                     *)
(***************************************************************************)
EXTENDS Ssh2Transport, TLAPS

-------------------------------------------------------------------------------
(* The inductive invariant *)

(* The packets of an exchange, in the order in which they can follow one    *)
(* another in a stream while they are all under way. *)
Kex == KexTypes \cup {"gexrequest", "dhinit"}
Rank(t) == IF t = "reply" THEN 1 ELSE IF t = "newkeys" THEN 2 ELSE IF t = "kexinit" THEN 3 ELSE 4

Before(q, i, t) == \E j \in 1 .. Len(q) : j < i /\ q[j].t = t
Kinds(q) == {t \in Kex : \E i \in 1 .. Len(q) : q[i].t = t}
Count(b) == IF b THEN 1 ELSE 0

(* A stream, either way, whose reader has the keys base: each packet is     *)
(* made with the keys its reader will have come to.                         *)
Keyed(q, base) ==
    \A i \in 1 .. Len(q) : q[i].ep = base + Count(Before(q, i, "newkeys"))
Ranked(q) ==
    \A i, j \in 1 .. Len(q) :
        i < j /\ q[i].t \in Kex /\ q[j].t \in Kex => Rank(q[i].t) < Rank(q[j].t)

Placed(w, seq) == \A i \in 1 .. Len(w) : w[i].seq = (seq + i - 1) % SequenceMod

(* What is for the layers above is not in the middle of an exchange. *)
Apart(w, inKex) ==
    \A i \in 1 .. Len(w) :
        w[i].t = "app" => (inKex => Before(w, i, "newkeys")) /\ ~Before(w, i, "kexinit")

(* The numbers of the packets of the layers above in a sequence,            *)
Nums(q) == {q[i].n : i \in {j \in 1 .. Len(q) : q[j].t = "app"}}
Rising(q) ==
    \A i, j \in 1 .. Len(q) : i < j /\ q[i].t = "app" /\ q[j].t = "app" => q[i].n < q[j].n

(* What the server expects next, or did when it left. *)
Expects(v) == IF v.state # "gone" THEN v.state ELSE IF v.inKex THEN "newkeys" ELSE "idle"

(* kl: the packets of an exchange on their way to the server. *)
Expected(kl, at, o) ==
    /\ "newkeys" \in kl => at = "newkeys"
    /\ "kexinit" \in kl => at \in {"idle", "kexinit"} \/ "newkeys" \in kl
    /\ "gexrequest" \in kl => IF "kexinit" \in kl THEN at = "kexinit" /\ o.gex ELSE at = "gexrequest"
    /\ "dhinit" \in kl => IF "kexinit" \in kl THEN at = "kexinit" /\ ~o.gex ELSE at = "dhinit"

Readable(w, v) ==
    /\ v.ok
    /\ v.inKex <=> Expects(v) \in {"gexrequest", "dhinit", "newkeys"}
    /\ Placed(w, v.seq) /\ Keyed(w, v.csEpoch) /\ Ranked(w) /\ Apart(w, v.inKex)
    /\ Expected(Kinds(w), Expects(v), v.offer)

AtEnd(s, w, v) ==
    /\ s.seq = (v.seq + Len(w)) % SequenceMod
    /\ s.csEpoch = v.csEpoch + Count("newkeys" \in Kinds(w))

Answers(s, r, v) ==
    /\ Keyed(r, s.scEpoch) /\ Ranked(r)
    /\ v.scEpoch = s.scEpoch + Count("newkeys" \in Kinds(r))
    /\ \A i \in 1 .. Len(r) : r[i].t = "kexinit" => r[i].offer = v.offer
    /\ \A i \in 1 .. Len(r) : r[i].t = "data" => v.got > 0

Opening(o) == IF o.agree /\ o.follows THEN {"kexinit", "guess"} ELSE {"kexinit"}
Awaited(o) == IF o.follows THEN {"guess"} ELSE {}
(* The server's KEXINIT has been sent, and what of the client's, its KEXINIT *)
(* and kl, is still on the way. *)
Begun(kl, sent, at, o) ==
    \/ kl = {"kexinit"} \cup sent /\ at = "kexinit"
    \/ kl = sent /\ at = AfterKexinits(o)

Phase(cr, mine, kl, kr, at, o) ==
    \/ /\ cr = "idle"
       /\ \/ kl = {"newkeys"} /\ at = "newkeys" /\ kr = {}
          \/ kl = {} /\ at = "idle" /\ kr = {}
          \/ kl = {} /\ at = "kexinit" /\ kr = Opening(o)
    \/ /\ cr = "kexinit"
       /\ \/ kl = {"newkeys", "kexinit"} /\ at = "newkeys" /\ kr = {}
          \/ kl = {"kexinit"} /\ at = "idle" /\ kr = {}
          \/ Begun(kl, {}, at, o) /\ kr = Opening(o)
    \/ /\ cr \in {"askalg", "ignore"}
       /\ Begun(kl, {}, at, o) /\ mine = o /\ kr = Awaited(o)
       /\ cr = "ignore" => o.follows
    \/ /\ cr = "group"
       /\ \/ Begun(kl, {"gexrequest"}, at, o) /\ o.gex /\ kr = {}
          \/ kl = {} /\ at = "dhinit" /\ kr = {"group"}
    \/ /\ cr = "reply"
       /\ \/ kl = {"kexinit", "dhinit"} /\ at = "kexinit" /\ ~o.gex /\ kr = {}
          \/ kl = {"dhinit"} /\ at = "dhinit" /\ kr = {}
          \/ kl = {} /\ at = "newkeys" /\ kr = {"reply", "newkeys"}
    \/ cr = "hostkey" /\ kl = {} /\ at = "newkeys" /\ kr = {"newkeys"}
    \/ /\ cr = "newkeys"
       /\ \/ kl = {"newkeys"} /\ at = "newkeys" /\ kr = {"newkeys"}
          \/ kl = {} /\ at = "idle" /\ kr = {"newkeys"}
          \/ kl = {} /\ at = "kexinit" /\ kr = {"newkeys"} \cup Opening(o)

(* What is true of a connection that is open wherever the coroutine is. *)
States == [s : SshStates, w : Seq(ClientPackets), a : 0 .. MaxApp]

InOrder(w, queue, got, a) ==
    /\ Rising(w) /\ Rising(queue)
    /\ \A m \in Nums(w), n \in Nums(queue) : m < n
    /\ Nums(w) \cup Nums(queue) = got + 1 .. a
    /\ got <= a

(* What has been written comes without gaps, also when the rest is lost.    *)
Unbroken(w, got, a) ==
    /\ Rising(w)
    /\ \A n \in Nums(w) : n \in got + 1 .. a /\ got + 1 .. n \subseteq Nums(w)

Base(st, a, r, v) ==
    /\ st \in States /\ r \in Seq(ServerPackets) /\ v \in Servers /\ a \in Nat
    /\ st.s.open /\ st.s.why # "protocol" /\ st.s.deferred = <<>>
    /\ ~st.s.protocol_initial_phase_done => a = 0
    /\ Readable(st.w, v) /\ AtEnd(st.s, st.w, v) /\ Answers(st.s, r, v)
    /\ InOrder(st.w, st.s.queue, v.got, a)

(* What goes with where it is. *)
Mode(st, r, v) ==
    /\ st.s.kex_in_progress <=> st.s.cr # "idle"
    /\ st.s.queueing <=> st.s.cr \notin {"idle", "newkeys"}
    /\ ~st.s.queueing => st.s.queue = <<>>
    /\ st.s.cr = "askalg" => st.s.asks > 0
    /\ ~st.s.kex_in_progress /\ st.s.cfg.ssh_rekey_time # 0 => st.s.next_rekey
    /\ Phase(st.s.cr, st.s.offer, Kinds(st.w), Kinds(r), Expects(v), v.offer)

(* a is the number of packets the layers above have sent, also while app    *)
(* has yet to be made so. *)
Good(st, a, r, v) ==
    /\ st \in States /\ r \in Seq(ServerPackets) /\ v \in Servers /\ a \in Nat
    /\ st.s.why # "protocol" /\ Readable(st.w, v) /\ Unbroken(st.w, v.got, a)
    /\ st.s.open => Base(st, a, r, v) /\ Mode(st, r, v)

IInv ==
    /\ Good(Now, app, toClient, srv)
    /\ used \in [data : 0 .. MaxSrvData, requests : 0 .. MaxRequests]

-------------------------------------------------------------------------------
(* Lemmas about the numbers *)

LEMMA ModRange ==
    ASSUME NEW m \in Nat \ {0}, NEW a \in Nat
    PROVE  (a % m) \in 0 .. m - 1
  OBVIOUS

LEMMA RemainderUnique ==
    ASSUME NEW m \in Nat \ {0}, NEW j \in Int, NEW k \in Int,
           NEW r \in 0 .. m - 1, NEW q \in 0 .. m - 1, m * j + r = m * k + q
    PROVE  r = q
<1>1. \A d \in Int : d >= 1 => m * d >= m
  <2> SUFFICES ASSUME NEW d \in Int, d >= 1  PROVE m * d >= m
    OBVIOUS
  <2>1. m * (d - 1) >= 0
    OBVIOUS
  <2>2. m * d = m * (d - 1) + m
    OBVIOUS
  <2> QED
    BY <2>1, <2>2
<1>2. m * (j - k) = m * j - m * k /\ m * (k - j) = m * k - m * j
  OBVIOUS
<1>3. ~(j - k >= 1)
  <2>1. j - k >= 1 => m * (j - k) >= m
    BY <1>1
  <2> QED
    BY <1>2, <2>1
<1>4. ~(k - j >= 1)
  <2>1. k - j >= 1 => m * (k - j) >= m
    BY <1>1
  <2> QED
    BY <1>2, <2>1
<1>5. j = k
  BY <1>3, <1>4
<1> QED
  BY <1>5

LEMMA Division ==
    ASSUME NEW m \in Nat \ {0}, NEW a \in Nat
    PROVE  \E k \in Int : a = m * k + (a % m)
<1>1. a = m * (a \div m) + (a % m) /\ a \div m \in Int
  OBVIOUS
<1> QED
  BY <1>1

LEMMA ModAdd ==
    ASSUME NEW m \in Nat \ {0}, NEW a \in Nat, NEW b \in Nat
    PROVE  ((a % m) + b) % m = (a + b) % m
<1> DEFINE r == a % m
           p == (a + b) % m
           q == (r + b) % m
<1>1. r \in 0 .. m - 1 /\ p \in 0 .. m - 1 /\ q \in 0 .. m - 1
  BY ModRange
<1>2. PICK i \in Int : a = m * i + r
  BY Division
<1>3. PICK j \in Int : a + b = m * j + p
  <2>1. a + b \in Nat
    OBVIOUS
  <2> QED
    BY <2>1, Division
<1>4. PICK k \in Int : r + b = m * k + q
  <2>1. r + b \in Nat
    BY <1>1
  <2> QED
    BY <2>1, Division
<1> HIDE DEF r, p, q
<1>5. m * (k + i) = m * k + m * i
  OBVIOUS
<1>6. m * (k + i) + q = m * j + p
  BY <1>1, <1>2, <1>3, <1>4, <1>5
<1>7. p = q
  BY <1>1, <1>6, RemainderUnique
<1> QED
  BY <1>7 DEF p, q, r

-------------------------------------------------------------------------------
(* Lemmas about streams *)

LEMMA Joined ==
    ASSUME NEW S, NEW q \in Seq(S), NEW p \in Seq(S)
    PROVE  /\ q \o p \in Seq(S)
           /\ Len(q) \in Nat /\ Len(p) \in Nat /\ Len(q \o p) = Len(q) + Len(p)
           /\ \A i \in 1 .. Len(q) : (q \o p)[i] = q[i]
           /\ \A i \in 1 .. Len(p) : (q \o p)[Len(q) + i] = p[i]
           /\ \A i \in 1 .. Len(q \o p) :
                  i \in 1 .. Len(q) \/ \E j \in 1 .. Len(p) : i = Len(q) + j
<1>1. q \o p \in Seq(S) /\ Len(q) \in Nat /\ Len(p) \in Nat /\ Len(q \o p) = Len(q) + Len(p)
  OBVIOUS
<1>2. \A i \in 1 .. Len(q) : (q \o p)[i] = q[i]
  OBVIOUS
<1>3. \A i \in 1 .. Len(p) : (q \o p)[Len(q) + i] = p[i]
  OBVIOUS
<1>4. ASSUME NEW i \in 1 .. Len(q \o p), i \notin 1 .. Len(q)
      PROVE  \E j \in 1 .. Len(p) : i = Len(q) + j
  <2>1. i - Len(q) \in 1 .. Len(p) /\ i = Len(q) + (i - Len(q))
    BY <1>1, <1>4
  <2> QED
    BY <2>1
<1> QED
  BY <1>1, <1>2, <1>3, <1>4

LEMMA TailOf ==
    ASSUME NEW S, NEW q \in Seq(S), q # <<>>
    PROVE  /\ Tail(q) \in Seq(S) /\ Head(q) \in S /\ Head(q) = q[1]
           /\ Len(q) \in Nat /\ Len(q) > 0 /\ Len(Tail(q)) = Len(q) - 1
           /\ \A i \in 1 .. Len(Tail(q)) : i + 1 \in 1 .. Len(q) /\ Tail(q)[i] = q[i + 1]
           /\ \A i \in 1 .. Len(q) : i = 1 \/ \E j \in 1 .. Len(Tail(q)) : i = j + 1
<1>1. /\ Tail(q) \in Seq(S) /\ Head(q) \in S /\ Head(q) = q[1]
      /\ Len(q) \in Nat /\ Len(q) > 0 /\ Len(Tail(q)) = Len(q) - 1
  OBVIOUS
<1>2. \A i \in 1 .. Len(Tail(q)) : i + 1 \in 1 .. Len(q) /\ Tail(q)[i] = q[i + 1]
  BY <1>1
<1>3. ASSUME NEW i \in 1 .. Len(q), i # 1
      PROVE  \E j \in 1 .. Len(Tail(q)) : i = j + 1
  <2>1. i - 1 \in 1 .. Len(Tail(q)) /\ i = (i - 1) + 1
    BY <1>1, <1>3
  <2> QED
    BY <2>1
<1> QED
  BY <1>1, <1>2, <1>3

LEMMA KindsJoined ==
    ASSUME NEW S, NEW q \in Seq(S), NEW p \in Seq(S)
    PROVE  Kinds(q \o p) = Kinds(q) \cup Kinds(p)
<1>1. ASSUME NEW t \in Kinds(q \o p)  PROVE t \in Kinds(q) \/ t \in Kinds(p)
  <2>1. PICK i \in 1 .. Len(q \o p) : (q \o p)[i].t = t
    BY <1>1 DEF Kinds
  <2>2. CASE i \in 1 .. Len(q)
    BY <1>1, <2>1, <2>2, Joined DEF Kinds
  <2>3. CASE \E j \in 1 .. Len(p) : i = Len(q) + j
    BY <1>1, <2>1, <2>3, Joined DEF Kinds
  <2> QED
    BY <2>2, <2>3, Joined
<1>2. ASSUME NEW t \in Kinds(q)  PROVE t \in Kinds(q \o p)
  <2>1. PICK i \in 1 .. Len(q) : q[i].t = t
    BY <1>2 DEF Kinds
  <2>2. i \in 1 .. Len(q \o p) /\ (q \o p)[i].t = t
    BY <2>1, Joined
  <2> QED
    BY <1>2, <2>2 DEF Kinds
<1>3. ASSUME NEW t \in Kinds(p)  PROVE t \in Kinds(q \o p)
  <2>1. PICK i \in 1 .. Len(p) : p[i].t = t
    BY <1>3 DEF Kinds
  <2>2. Len(q) \in Nat /\ Len(p) \in Nat /\ Len(q \o p) = Len(q) + Len(p)
    BY Joined
  <2>3. Len(q) + i \in 1 .. Len(q \o p)
    BY <2>2
  <2>4. (q \o p)[Len(q) + i].t = t
    BY <2>1, Joined
  <2> QED
    BY <1>3, <2>3, <2>4 DEF Kinds
<1> QED
  BY <1>1, <1>2, <1>3

(* What is before a place in what is added comes before or after the join.  *)
LEMMA BeforeJoined ==
    ASSUME NEW S, NEW q \in Seq(S), NEW p \in Seq(S), NEW t \in Kex
    PROVE  /\ \A i \in 1 .. Len(q) : Before(q \o p, i, t) <=> Before(q, i, t)
           /\ \A i \in 1 .. Len(p) :
                  Before(q \o p, Len(q) + i, t) <=> t \in Kinds(q) \/ Before(p, i, t)
<1> DEFINE n == Len(q)
           z == q \o p
<1>0. /\ n \in Nat /\ Len(p) \in Nat /\ Len(z) = n + Len(p)
      /\ \A i \in 1 .. n : z[i] = q[i]
      /\ \A i \in 1 .. Len(p) : z[n + i] = p[i]
  BY Joined
<1>9. \A i \in 1 .. Len(z) : i \in 1 .. n \/ \E j \in 1 .. Len(p) : i = n + j
  BY Joined
<1> HIDE DEF n, z
<1>1. ASSUME NEW i \in 1 .. n, Before(z, i, t)  PROVE Before(q, i, t)
  <2>1. PICK j \in 1 .. Len(z) : j < i /\ z[j].t = t
    BY <1>1 DEF Before
  <2>2. j \in 1 .. Len(q) /\ q[j].t = t
    BY <2>1, <1>0 DEF n
  <2> QED
    BY <2>1, <2>2 DEF Before
<1>2. ASSUME NEW i \in 1 .. n, Before(q, i, t)  PROVE Before(z, i, t)
  <2>1. PICK j \in 1 .. n : j < i /\ q[j].t = t
    BY <1>2 DEF Before, n
  <2>2. j \in 1 .. Len(z) /\ z[j].t = t
    BY <2>1, <1>0
  <2> QED
    BY <2>1, <2>2 DEF Before
<1>3. ASSUME NEW i \in 1 .. Len(p), Before(z, n + i, t)
      PROVE  t \in Kinds(q) \/ Before(p, i, t)
  <2>1. PICK j \in 1 .. Len(z) : j < n + i /\ z[j].t = t
    BY <1>3 DEF Before
  <2>2. CASE j \in 1 .. n
    BY <2>1, <2>2, <1>0 DEF Kinds, n
  <2>3. ASSUME NEW k \in 1 .. Len(p), j = n + k  PROVE Before(p, i, t)
    <3>1. k < i /\ p[k].t = t
      BY <2>1, <2>3, <1>0
    <3> QED
      BY <3>1 DEF Before
  <2> QED
    BY <2>2, <2>3, <1>9
<1>4. ASSUME NEW i \in 1 .. Len(p), t \in Kinds(q)  PROVE Before(z, n + i, t)
  <2>1. PICK j \in 1 .. n : q[j].t = t
    BY <1>4 DEF Kinds, n
  <2>2. j \in 1 .. Len(z) /\ j < n + i /\ z[j].t = t
    BY <2>1, <1>0
  <2> QED
    BY <2>2 DEF Before
<1>5. ASSUME NEW i \in 1 .. Len(p), Before(p, i, t)  PROVE Before(z, n + i, t)
  <2>1. PICK j \in 1 .. Len(p) : j < i /\ p[j].t = t
    BY <1>5 DEF Before
  <2>2. n + j \in 1 .. Len(z) /\ n + j < n + i /\ z[n + j].t = t
    BY <2>1, <1>0
  <2> QED
    BY <2>2 DEF Before
<1> QED
  BY <1>1, <1>2, <1>3, <1>4, <1>5 DEF n, z

LEMMA KeyedJoined ==
    ASSUME NEW S, NEW q \in Seq(S), NEW p \in Seq(S), NEW base \in Nat, Keyed(q, base),
           Keyed(p, base + Count("newkeys" \in Kinds(q))),
           ~("newkeys" \in Kinds(q) /\ "newkeys" \in Kinds(p))
    PROVE  Keyed(q \o p, base)
<1>0. "newkeys" \in Kex
  BY DEF Kex, KexTypes
<1> SUFFICES ASSUME NEW i \in 1 .. Len(q \o p)
             PROVE  (q \o p)[i].ep = base + Count(Before(q \o p, i, "newkeys"))
  BY DEF Keyed
<1>1. CASE i \in 1 .. Len(q)
  <2>1. (q \o p)[i] = q[i]
    BY <1>1, Joined
  <2>2. Before(q \o p, i, "newkeys") <=> Before(q, i, "newkeys")
    BY <1>0, <1>1, BeforeJoined
  <2>3. q[i].ep = base + Count(Before(q, i, "newkeys"))
    BY <1>1 DEF Keyed
  <2> QED
    BY <2>1, <2>2, <2>3 DEF Count
<1>2. ASSUME NEW j \in 1 .. Len(p), i = Len(q) + j
      PROVE  (q \o p)[i].ep = base + Count(Before(q \o p, i, "newkeys"))
  <2>1. (q \o p)[i] = p[j]
    BY <1>2, Joined
  <2>2. p[j].ep = base + Count("newkeys" \in Kinds(q)) + Count(Before(p, j, "newkeys"))
    BY DEF Keyed
  <2>3. Before(q \o p, i, "newkeys") <=> "newkeys" \in Kinds(q) \/ Before(p, j, "newkeys")
    BY <1>0, <1>2, BeforeJoined
  <2>4. Before(p, j, "newkeys") => "newkeys" \in Kinds(p)
    BY <1>0 DEF Before, Kinds
  <2> QED
    BY <2>1, <2>2, <2>3, <2>4 DEF Count
<1> QED
  BY <1>1, <1>2, Joined

LEMMA RankedJoined ==
    ASSUME NEW S, NEW q \in Seq(S), NEW p \in Seq(S), Ranked(q), Ranked(p),
           \A t \in Kinds(q), u \in Kinds(p) : Rank(t) < Rank(u)
    PROVE  Ranked(q \o p)
<1> SUFFICES ASSUME NEW i \in 1 .. Len(q \o p), NEW j \in 1 .. Len(q \o p), i < j,
                    (q \o p)[i].t \in Kex, (q \o p)[j].t \in Kex
             PROVE  Rank((q \o p)[i].t) < Rank((q \o p)[j].t)
  BY DEF Ranked
<1>1. CASE i \in 1 .. Len(q) /\ j \in 1 .. Len(q)
  BY <1>1, Joined DEF Ranked
<1>2. ASSUME NEW k \in 1 .. Len(p), j = Len(q) + k, i \in 1 .. Len(q)
      PROVE  Rank((q \o p)[i].t) < Rank((q \o p)[j].t)
  <2>1. (q \o p)[i] = q[i] /\ (q \o p)[j] = p[k]
    BY <1>2, Joined
  <2>2. q[i].t \in Kinds(q) /\ p[k].t \in Kinds(p)
    BY <1>2, <2>1 DEF Kinds
  <2> QED
    BY <2>1, <2>2
<1>3. ASSUME NEW h \in 1 .. Len(p), i = Len(q) + h, NEW k \in 1 .. Len(p), j = Len(q) + k
      PROVE  Rank((q \o p)[i].t) < Rank((q \o p)[j].t)
  <2>1. (q \o p)[i] = p[h] /\ (q \o p)[j] = p[k]
    <3>1. \A l \in 1 .. Len(p) : (q \o p)[Len(q) + l] = p[l]
      BY Joined
    <3> QED
      BY <1>3, <3>1
  <2>2. h < k
    <3>1. Len(q) \in Nat
      BY Joined
    <3> QED
      BY <1>3, <3>1
  <2> QED
    BY <2>1, <2>2 DEF Ranked
<1>4. ASSUME NEW h \in 1 .. Len(p), i = Len(q) + h  PROVE j \notin 1 .. Len(q)
  BY <1>4, Joined
<1> QED
  BY <1>1, <1>2, <1>3, <1>4, Joined, SMTT(40)

LEMMA BeforeTail ==
    ASSUME NEW S, NEW q \in Seq(S), q # <<>>, NEW t \in Kex, NEW i \in 1 .. Len(Tail(q))
    PROVE  Before(q, i + 1, t) <=> Head(q).t = t \/ Before(Tail(q), i, t)
<1>1. ASSUME Before(q, i + 1, t)  PROVE Head(q).t = t \/ Before(Tail(q), i, t)
  <2>1. PICK j \in 1 .. Len(q) : j < i + 1 /\ q[j].t = t
    BY <1>1 DEF Before
  <2>2. CASE j = 1
    BY <2>1, <2>2, TailOf
  <2>3. ASSUME NEW k \in 1 .. Len(Tail(q)), j = k + 1  PROVE Before(Tail(q), i, t)
    <3>1. Tail(q)[k] = q[j]
      BY <2>3, TailOf
    <3>2. k < i
      BY <2>1, <2>3, TailOf
    <3> QED
      BY <2>1, <3>1, <3>2 DEF Before
  <2> QED
    BY <2>2, <2>3, TailOf
<1>2. ASSUME Head(q).t = t  PROVE Before(q, i + 1, t)
  <2>1. 1 \in 1 .. Len(q) /\ 1 < i + 1 /\ q[1].t = t
    BY <1>2, TailOf
  <2> QED
    BY <2>1 DEF Before
<1>3. ASSUME Before(Tail(q), i, t)  PROVE Before(q, i + 1, t)
  <2>1. PICK j \in 1 .. Len(Tail(q)) : j < i /\ Tail(q)[j].t = t
    BY <1>3 DEF Before
  <2>2. j + 1 \in 1 .. Len(q) /\ q[j + 1].t = t
    BY <2>1, TailOf
  <2>3. j + 1 < i + 1
    BY <2>1, TailOf
  <2> QED
    BY <2>2, <2>3 DEF Before
<1> QED
  BY <1>1, <1>2, <1>3

LEMMA RankedTail ==
    ASSUME NEW S, NEW q \in Seq(S), q # <<>>, Ranked(q)
    PROVE  Ranked(Tail(q))
<1> SUFFICES ASSUME NEW i \in 1 .. Len(Tail(q)), NEW j \in 1 .. Len(Tail(q)), i < j,
                    Tail(q)[i].t \in Kex, Tail(q)[j].t \in Kex
             PROVE  Rank(Tail(q)[i].t) < Rank(Tail(q)[j].t)
  BY DEF Ranked
<1>1. /\ i + 1 \in 1 .. Len(q) /\ Tail(q)[i] = q[i + 1]
      /\ j + 1 \in 1 .. Len(q) /\ Tail(q)[j] = q[j + 1]
  BY TailOf
<1>2. i + 1 < j + 1
  OBVIOUS
<1> QED
  BY <1>1, <1>2 DEF Ranked

(* The first packet of an exchange in a stream is not there twice.          *)
LEMMA HeadRank ==
    ASSUME NEW S, NEW q \in Seq(S), q # <<>>, Ranked(q)
    PROVE  /\ Head(q).t \in Kex => Head(q).t \in Kinds(q)
           /\ Head(q).t \in Kex =>
                  \A t \in Kinds(q) : t = Head(q).t \/ Rank(Head(q).t) < Rank(t)
           /\ Kinds(Tail(q)) = Kinds(q) \ {Head(q).t}
<1>1. 1 \in 1 .. Len(q) /\ Head(q) = q[1]
  BY TailOf
<1>2. ASSUME NEW t \in Kinds(Tail(q)) PROVE t \in Kinds(q) /\ t # Head(q).t
  <2>1. PICK i \in 1 .. Len(Tail(q)) : Tail(q)[i].t = t
    BY <1>2 DEF Kinds
  <2>2. i + 1 \in 1 .. Len(q) /\ q[i + 1].t = t
    BY <2>1, TailOf
  <2>3. t \in Kex
    BY <1>2 DEF Kinds
  <2>4. t = Head(q).t => Rank(t) < Rank(t)
    BY <1>1, <2>2, <2>3 DEF Ranked
  <2>5. Rank(t) \in Nat
    BY DEF Rank
  <2> QED
    BY <2>2, <2>3, <2>4, <2>5 DEF Kinds
<1>3. ASSUME NEW t \in Kinds(q), t # Head(q).t
      PROVE  t \in Kinds(Tail(q)) /\ (Head(q).t \in Kex => Rank(Head(q).t) < Rank(t))
  <2>1. PICK i \in 1 .. Len(q) : q[i].t = t
    BY DEF Kinds
  <2>2. PICK j \in 1 .. Len(Tail(q)) : i = j + 1
    BY <1>1, <1>3, <2>1, TailOf
  <2>3. Tail(q)[j].t = t /\ t \in Kex
    BY <2>1, <2>2, TailOf DEF Kinds
  <2>4. 1 < i
    BY <2>2
  <2> QED
    BY <1>1, <2>1, <2>3, <2>4 DEF Kinds, Ranked
<1>4. Head(q).t \in Kex => Head(q).t \in Kinds(q)
  BY <1>1 DEF Kinds
<1>5. Kinds(Tail(q)) = Kinds(q) \ {Head(q).t}
  BY <1>2, <1>3
<1> QED
  BY <1>3, <1>4, <1>5

LEMMA KeyedTail ==
    ASSUME NEW S, NEW q \in Seq(S), q # <<>>, Ranked(q), NEW base \in Nat, Keyed(q, base)
    PROVE  /\ Head(q).ep = base
           /\ Keyed(Tail(q), base + Count(Head(q).t = "newkeys"))
<1>0. "newkeys" \in Kex
  BY DEF Kex, KexTypes
<1>1. Head(q).ep = base
  <2>1. ~Before(q, 1, "newkeys")
    BY DEF Before
  <2>2. Head(q) = q[1] /\ 1 \in 1 .. Len(q)
    BY TailOf
  <2> QED
    BY <2>1, <2>2 DEF Keyed, Count
<1>2. ASSUME NEW i \in 1 .. Len(Tail(q))
      PROVE  Tail(q)[i].ep = base + Count(Head(q).t = "newkeys")
                                  + Count(Before(Tail(q), i, "newkeys"))
  <2>1. i + 1 \in 1 .. Len(q) /\ Tail(q)[i] = q[i + 1]
    BY TailOf
  <2>2. q[i + 1].ep = base + Count(Before(q, i + 1, "newkeys"))
    BY <2>1 DEF Keyed
  <2>3. Before(q, i + 1, "newkeys") <=>
            Head(q).t = "newkeys" \/ Before(Tail(q), i, "newkeys")
    BY <1>0, BeforeTail
  <2>4. Before(Tail(q), i, "newkeys") => "newkeys" \in Kinds(Tail(q))
    BY <1>0 DEF Before, Kinds
  <2>5. Kinds(Tail(q)) = Kinds(q) \ {Head(q).t}
    BY HeadRank
  <2> QED
    BY <2>1, <2>2, <2>3, <2>4, <2>5 DEF Count
<1> QED
  BY <1>1, <1>2 DEF Keyed

LEMMA PlacedJoined ==
    ASSUME SequenceMod \in Nat \ {0}, NEW S, NEW q \in Seq(S), NEW p \in Seq(S),
           NEW seq \in Nat, Placed(q, seq), Placed(p, (seq + Len(q)) % SequenceMod)
    PROVE  Placed(q \o p, seq)
<1> SUFFICES ASSUME NEW i \in 1 .. Len(q \o p)
             PROVE  (q \o p)[i].seq = (seq + i - 1) % SequenceMod
  BY DEF Placed
<1>1. CASE i \in 1 .. Len(q)
  BY <1>1, Joined DEF Placed
<1>2. ASSUME NEW j \in 1 .. Len(p), i = Len(q) + j
      PROVE  (q \o p)[i].seq = (seq + i - 1) % SequenceMod
  <2>1. (q \o p)[i] = p[j]
    BY <1>2, Joined
  <2>0. Len(q) \in Nat
    BY Joined
  <2>2. Len(q) \in Nat /\ j - 1 \in Nat /\ seq + Len(q) \in Nat
    BY <2>0
  <2>3. (((seq + Len(q)) % SequenceMod) + (j - 1)) % SequenceMod
            = (seq + Len(q) + (j - 1)) % SequenceMod
    BY <2>2, ModAdd
  <2>4. (seq + Len(q)) % SequenceMod \in Nat
    BY <2>2, ModRange
  <2>5. /\ ((seq + Len(q)) % SequenceMod) + j - 1 = ((seq + Len(q)) % SequenceMod) + (j - 1)
        /\ seq + Len(q) + (j - 1) = seq + i - 1
    BY <1>2, <2>2, <2>4
  <2>6. p[j].seq = (((seq + Len(q)) % SequenceMod) + j - 1) % SequenceMod
    BY DEF Placed
  <2> QED
    BY <2>1, <2>3, <2>5, <2>6
<1> QED
  BY <1>1, <1>2, Joined

LEMMA PlacedTail ==
    ASSUME SequenceMod \in Nat \ {0}, NEW S, NEW q \in Seq(S), q # <<>>,
           NEW seq \in 0 .. SequenceMod - 1, Placed(q, seq)
    PROVE  Head(q).seq = seq /\ Placed(Tail(q), (seq + 1) % SequenceMod)
<1>1. Head(q).seq = seq
  <2>1. Head(q) = q[1] /\ 1 \in 1 .. Len(q)
    BY TailOf
  <2>2. Head(q).seq = (seq + 1 - 1) % SequenceMod
    BY <2>1 DEF Placed
  <2>3. seq + 1 - 1 = seq /\ seq % SequenceMod = seq
    OBVIOUS
  <2> QED
    BY <2>2, <2>3
<1>2. ASSUME NEW i \in 1 .. Len(Tail(q))
      PROVE  Tail(q)[i].seq = (((seq + 1) % SequenceMod) + i - 1) % SequenceMod
  <2>1. i + 1 \in 1 .. Len(q) /\ Tail(q)[i] = q[i + 1]
    BY TailOf
  <2>2. q[i + 1].seq = (seq + (i + 1) - 1) % SequenceMod
    BY <2>1 DEF Placed
  <2>3. i - 1 \in Nat /\ seq + 1 \in Nat
    OBVIOUS
  <2>4. (((seq + 1) % SequenceMod) + (i - 1)) % SequenceMod
            = (seq + 1 + (i - 1)) % SequenceMod
    BY <2>3, ModAdd
  <2>5. (seq + 1) % SequenceMod \in Nat
    BY <2>3, ModRange
  <2>6. /\ ((seq + 1) % SequenceMod) + (i - 1) = ((seq + 1) % SequenceMod) + i - 1
        /\ seq + 1 + (i - 1) = seq + (i + 1) - 1
    BY <2>5
  <2> QED
    BY <2>1, <2>2, <2>4, <2>6
<1> QED
  BY <1>1, <1>2 DEF Placed

LEMMA ApartJoined ==
    ASSUME NEW S, NEW q \in Seq(S), NEW p \in Seq(S), NEW inKex \in BOOLEAN, Apart(q, inKex),
           (\E i \in 1 .. Len(p) : p[i].t = "app") =>
               /\ Kinds(p) = {} /\ "kexinit" \notin Kinds(q)
               /\ inKex => "newkeys" \in Kinds(q)
    PROVE  Apart(q \o p, inKex)
<1>0. {"newkeys", "kexinit"} \subseteq Kex
  BY DEF Kex, KexTypes
<1> SUFFICES ASSUME NEW i \in 1 .. Len(q \o p), (q \o p)[i].t = "app"
             PROVE  /\ inKex => Before(q \o p, i, "newkeys")
                    /\ ~Before(q \o p, i, "kexinit")
  BY DEF Apart
<1>1. ASSUME i \in 1 .. Len(q)
      PROVE  /\ inKex => Before(q \o p, i, "newkeys")
             /\ ~Before(q \o p, i, "kexinit")
  <2>1. (q \o p)[i] = q[i]
    BY <1>1, Joined
  <2>2. /\ Before(q \o p, i, "newkeys") <=> Before(q, i, "newkeys")
        /\ Before(q \o p, i, "kexinit") <=> Before(q, i, "kexinit")
    BY <1>0, <1>1, BeforeJoined
  <2> QED
    BY <1>1, <2>1, <2>2 DEF Apart
<1>2. ASSUME NEW j \in 1 .. Len(p), i = Len(q) + j
      PROVE  /\ inKex => Before(q \o p, i, "newkeys")
             /\ ~Before(q \o p, i, "kexinit")
  <2>1. (q \o p)[i] = p[j]
    BY <1>2, Joined
  <2>2. /\ Before(q \o p, i, "newkeys") <=> "newkeys" \in Kinds(q) \/ Before(p, j, "newkeys")
        /\ Before(q \o p, i, "kexinit") <=> "kexinit" \in Kinds(q) \/ Before(p, j, "kexinit")
    BY <1>0, <1>2, BeforeJoined
  <2>3. Before(p, j, "kexinit") => "kexinit" \in Kinds(p)
    BY <1>0 DEF Before, Kinds
  <2> QED
    BY <2>1, <2>2, <2>3
<1> QED
  BY <1>1, <1>2, Joined

LEMMA ApartTail ==
    ASSUME NEW S, NEW q \in Seq(S), q # <<>>, NEW was \in BOOLEAN, Apart(q, was),
           NEW is \in BOOLEAN,
           is => Head(q).t = "kexinit" \/ (was /\ Head(q).t # "newkeys")
    PROVE  Apart(Tail(q), is)
<1>0. {"newkeys", "kexinit"} \subseteq Kex
  BY DEF Kex, KexTypes
<1> SUFFICES ASSUME NEW i \in 1 .. Len(Tail(q)), Tail(q)[i].t = "app"
             PROVE  /\ is => Before(Tail(q), i, "newkeys")
                    /\ ~Before(Tail(q), i, "kexinit")
  BY DEF Apart
<1>1. i + 1 \in 1 .. Len(q) /\ q[i + 1].t = "app"
  BY TailOf
<1>2. /\ was => Before(q, i + 1, "newkeys")
      /\ ~Before(q, i + 1, "kexinit")
  BY <1>1 DEF Apart
<1>3. /\ Before(q, i + 1, "newkeys") <=> Head(q).t = "newkeys" \/ Before(Tail(q), i, "newkeys")
      /\ Before(q, i + 1, "kexinit") <=> Head(q).t = "kexinit" \/ Before(Tail(q), i, "kexinit")
  BY <1>0, BeforeTail
<1> QED
  BY <1>2, <1>3

LEMMA NumsJoined ==
    ASSUME NEW S, NEW q \in Seq(S), NEW p \in Seq(S)
    PROVE  Nums(q \o p) = Nums(q) \cup Nums(p)
<1>1. ASSUME NEW n \in Nums(q \o p)  PROVE n \in Nums(q) \/ n \in Nums(p)
  <2>1. PICK i \in 1 .. Len(q \o p) : (q \o p)[i].t = "app" /\ (q \o p)[i].n = n
    BY <1>1 DEF Nums
  <2>2. CASE i \in 1 .. Len(q)
    <3>1. q[i] = (q \o p)[i]
      BY <2>2, Joined
    <3> QED
      BY <2>1, <2>2, <3>1 DEF Nums
  <2>3. ASSUME NEW j \in 1 .. Len(p), i = Len(q) + j  PROVE n \in Nums(p)
    <3>1. p[j] = (q \o p)[i]
      BY <2>3, Joined
    <3> QED
      BY <2>1, <3>1 DEF Nums
  <2> QED
    BY <2>2, <2>3, Joined
<1>2. ASSUME NEW n \in Nums(q)  PROVE n \in Nums(q \o p)
  <2>1. PICK i \in 1 .. Len(q) : q[i].t = "app" /\ q[i].n = n
    BY <1>2 DEF Nums
  <2>2. i \in 1 .. Len(q \o p) /\ (q \o p)[i] = q[i]
    BY Joined
  <2> QED
    BY <2>1, <2>2 DEF Nums
<1>3. ASSUME NEW n \in Nums(p)  PROVE n \in Nums(q \o p)
  <2>1. PICK i \in 1 .. Len(p) : p[i].t = "app" /\ p[i].n = n
    BY <1>3 DEF Nums
  <2>2. Len(q) \in Nat /\ Len(p) \in Nat /\ Len(q \o p) = Len(q) + Len(p)
    BY Joined
  <2>3. Len(q) + i \in 1 .. Len(q \o p)
    BY <2>2
  <2>4. (q \o p)[Len(q) + i] = p[i]
    OBVIOUS
  <2> QED
    BY <2>1, <2>3, <2>4 DEF Nums
<1> QED
  BY <1>1, <1>2, <1>3

LEMMA RisingJoined ==
    ASSUME NEW S, NEW q \in Seq(S), NEW p \in Seq(S), Rising(q), Rising(p),
           \A m \in Nums(q), n \in Nums(p) : m < n
    PROVE  Rising(q \o p)
<1>0. \A l \in 1 .. Len(p) : (q \o p)[Len(q) + l] = p[l]
  OBVIOUS
<1> SUFFICES ASSUME NEW i \in 1 .. Len(q \o p), NEW j \in 1 .. Len(q \o p), i < j,
                    (q \o p)[i].t = "app", (q \o p)[j].t = "app"
             PROVE  (q \o p)[i].n < (q \o p)[j].n
  BY DEF Rising
<1>1. CASE i \in 1 .. Len(q) /\ j \in 1 .. Len(q)
  BY <1>1, Joined DEF Rising
<1>2. ASSUME NEW k \in 1 .. Len(p), j = Len(q) + k, i \in 1 .. Len(q)
      PROVE  (q \o p)[i].n < (q \o p)[j].n
  <2>1. (q \o p)[i] = q[i] /\ (q \o p)[j] = p[k]
    BY <1>0, <1>2, Joined
  <2>2. q[i].n \in Nums(q) /\ p[k].n \in Nums(p)
    BY <1>2, <2>1 DEF Nums
  <2> QED
    BY <2>1, <2>2
<1>3. ASSUME NEW h \in 1 .. Len(p), i = Len(q) + h, NEW k \in 1 .. Len(p), j = Len(q) + k
      PROVE  (q \o p)[i].n < (q \o p)[j].n
  <2>1. (q \o p)[i] = p[h] /\ (q \o p)[j] = p[k]
    BY <1>0, <1>3
  <2>2. h < k
    <3>1. Len(q) \in Nat
      BY Joined
    <3> QED
      BY <1>3, <3>1
  <2> QED
    BY <2>1, <2>2 DEF Rising
<1>4. ASSUME NEW h \in 1 .. Len(p), i = Len(q) + h  PROVE j \notin 1 .. Len(q)
  BY <1>4, Joined
<1> QED
  BY <1>1, <1>2, <1>3, <1>4, Joined, SMTT(40)

LEMMA RisingTail ==
    ASSUME NEW S, NEW q \in Seq(S), q # <<>>, Rising(q),
           \A i \in 1 .. Len(q) : q[i].n \in Nat
    PROVE  /\ Rising(Tail(q))
           /\ Head(q).t # "app" => Nums(Tail(q)) = Nums(q)
           /\ Head(q).t = "app" => /\ Head(q).n \in Nums(q)
                                   /\ Nums(Tail(q)) = Nums(q) \ {Head(q).n}
                                   /\ \A n \in Nums(Tail(q)) : Head(q).n < n
<1>0. Head(q) = q[1] /\ 1 \in 1 .. Len(q)
  BY TailOf
<1>1. Rising(Tail(q))
  <2> SUFFICES ASSUME NEW i \in 1 .. Len(Tail(q)), NEW j \in 1 .. Len(Tail(q)), i < j,
                      Tail(q)[i].t = "app", Tail(q)[j].t = "app"
               PROVE  Tail(q)[i].n < Tail(q)[j].n
    BY DEF Rising
  <2>1. /\ i + 1 \in 1 .. Len(q) /\ Tail(q)[i] = q[i + 1]
        /\ j + 1 \in 1 .. Len(q) /\ Tail(q)[j] = q[j + 1]
    BY TailOf
  <2>2. i + 1 < j + 1
    OBVIOUS
  <2> QED
    BY <2>1, <2>2 DEF Rising
<1>2. ASSUME NEW n \in Nums(Tail(q))
      PROVE  n \in Nums(q) /\ n \in Nat /\ (Head(q).t = "app" => Head(q).n < n)
  <2>1. PICK i \in 1 .. Len(Tail(q)) : Tail(q)[i].t = "app" /\ Tail(q)[i].n = n
    BY <1>2 DEF Nums
  <2>2. i + 1 \in 1 .. Len(q) /\ q[i + 1] = Tail(q)[i] /\ 1 < i + 1
    BY TailOf
  <2> QED
    BY <1>0, <2>1, <2>2 DEF Nums, Rising
<1>3. ASSUME NEW n \in Nums(q), ~(Head(q).t = "app" /\ Head(q).n = n)
      PROVE  n \in Nums(Tail(q))
  <2>1. PICK i \in 1 .. Len(q) : q[i].t = "app" /\ q[i].n = n
    BY DEF Nums
  <2>2. i # 1
    BY <1>0, <1>3, <2>1
  <2>3. PICK j \in 1 .. Len(Tail(q)) : i = j + 1
    BY <2>2, TailOf
  <2>4. Tail(q)[j] = q[i]
    BY <2>3, TailOf
  <2> QED
    BY <2>1, <2>4 DEF Nums
<1>4. Head(q).t = "app" => Head(q).n \in Nums(q)
  BY <1>0 DEF Nums
<1>5. Head(q).n \in Nat
  BY <1>0
<1>6. Head(q).t # "app" => Nums(Tail(q)) = Nums(q)
  BY <1>2, <1>3
<1>7. Head(q).t = "app" => Nums(Tail(q)) = Nums(q) \ {Head(q).n}
  BY <1>2, <1>3, <1>5
<1> QED
  BY <1>1, <1>2, <1>4, <1>6, <1>7

-------------------------------------------------------------------------------
(* Lemmas about what is written *)

ItemTypes == {"app", "ignore", "unimplemented", "kexinit", "gexrequest", "dhinit", "newkeys"}
Items == [t : ItemTypes, n : 0 .. MaxApp]

(* A sequence of packets to be constructed: those of an exchange in it are  *)
(* of the types in K, those of the layers above have the numbers in N.      *)
Shape(items, K, N) ==
    /\ items \in Seq(Items)
    /\ Kinds(items) = K /\ Nums(items) = N /\ Ranked(items) /\ Rising(items)
    /\ \A i \in 1 .. Len(items) : ~Before(items, i, "newkeys")

(* The same when they have been constructed in the state s. *)
Fresh(p, s, K, N) ==
    /\ p \in Seq(ClientPackets) /\ Placed(p, s.seq) /\ Keyed(p, s.csEpoch)
    /\ Kinds(p) = K /\ Nums(p) = N /\ Ranked(p) /\ Rising(p)

LEMMA ConstructIs ==
    ASSUME Ssh2TransportAssumption, NEW s \in SshStates, NEW items \in Seq(Items)
    PROVE  LET p == Construct(s, items) IN
           /\ p \in Seq(ClientPackets) /\ Len(p) = Len(items) /\ Placed(p, s.seq)
           /\ \A i \in 1 .. Len(items) :
                  p[i].t = items[i].t /\ p[i].n = items[i].n /\ p[i].ep = s.csEpoch
<1> DEFINE p == Construct(s, items)
<1>0. s.seq \in Nat /\ s.csEpoch \in Nat /\ SequenceMod \in Nat \ {0} /\ Len(items) \in Nat
  <2>1. s.seq \in 0 .. SequenceMod - 1 /\ s.csEpoch \in Nat /\ SequenceMod \in Nat \ {0}
    BY DEF SshStates, Ssh2TransportAssumption
  <2> QED
    BY <2>1
<1>1. ASSUME NEW i \in 1 .. Len(items)
      PROVE  (s.seq + i - 1) % SequenceMod \in 0 .. SequenceMod - 1
  <2>1. s.seq + i - 1 \in Nat
    BY <1>0
  <2> QED
    BY <1>0, <2>1, ModRange
<1>2. ASSUME NEW i \in 1 .. Len(items)
      PROVE  [t |-> items[i].t, n |-> items[i].n, ep |-> s.csEpoch,
              seq |-> (s.seq + i - 1) % SequenceMod] \in ClientPackets
  <2>1. items[i] \in Items
    OBVIOUS
  <2> QED
    BY <1>0, <1>1, <2>1 DEF Items, ItemTypes, ClientPackets
<1>3. p \in [1 .. Len(items) -> ClientPackets]
  BY <1>2 DEF Construct
<1>4. p \in Seq(ClientPackets) /\ Len(p) = Len(items)
  BY <1>0, <1>3
<1>5. \A i \in 1 .. Len(items) :
          p[i] = [t |-> items[i].t, n |-> items[i].n, ep |-> s.csEpoch,
                  seq |-> (s.seq + i - 1) % SequenceMod]
  BY DEF Construct
<1> HIDE DEF p
<1>8. ASSUME NEW i \in 1 .. Len(items)
      PROVE  /\ p[i].t = items[i].t /\ p[i].n = items[i].n /\ p[i].ep = s.csEpoch
             /\ p[i].seq = (s.seq + i - 1) % SequenceMod
  <2>1. p[i] = [t |-> items[i].t, n |-> items[i].n, ep |-> s.csEpoch,
                seq |-> (s.seq + i - 1) % SequenceMod]
    BY <1>5
  <2> QED
    BY <2>1
<1>6. Placed(p, s.seq)
  BY <1>4, <1>8 DEF Placed
<1>7. \A i \in 1 .. Len(items) :
          p[i].t = items[i].t /\ p[i].n = items[i].n /\ p[i].ep = s.csEpoch
  BY <1>8
<1> QED
  BY <1>4, <1>6, <1>7 DEF p

LEMMA ConstructShape ==
    ASSUME Ssh2TransportAssumption, NEW s \in SshStates, NEW items, NEW K, NEW N,
           Shape(items, K, N)
    PROVE  Fresh(Construct(s, items), s, K, N) /\ Len(Construct(s, items)) = Len(items)
<1> DEFINE p == Construct(s, items)
<1>7. /\ items \in Seq(Items) /\ Kinds(items) = K /\ Nums(items) = N
      /\ Rising(items) /\ Ranked(items)
      /\ \A i \in 1 .. Len(items) : ~Before(items, i, "newkeys")
  BY DEF Shape
<1>1. /\ Len(p) = Len(items) /\ p \in Seq(ClientPackets) /\ Placed(p, s.seq)
      /\ \A i \in 1 .. Len(items) :
             p[i].t = items[i].t /\ p[i].n = items[i].n /\ p[i].ep = s.csEpoch
  BY <1>7, ConstructIs
<1>0. s.csEpoch \in Nat
  BY DEF SshStates
<1> HIDE DEF p
<1>2. Kinds(p) = Kinds(items)
  BY <1>1 DEF Kinds
<1>3. Nums(p) = Nums(items)
  <2>1. ASSUME NEW n \in Nums(p)  PROVE n \in Nums(items)
    BY <1>1 DEF Nums
  <2>2. ASSUME NEW n \in Nums(items)  PROVE n \in Nums(p)
    BY <1>1 DEF Nums
  <2> QED
    BY <2>1, <2>2
<1>4. Rising(items) => Rising(p)
  BY <1>1 DEF Rising
<1>5. Ranked(items) => Ranked(p)
  BY <1>1 DEF Ranked
<1>6. Keyed(p, s.csEpoch)
  <2>1. \A i \in 1 .. Len(p) : ~Before(p, i, "newkeys")
    BY <1>1, <1>7 DEF Before
  <2> QED
    BY <1>0, <1>1, <2>1 DEF Keyed, Count
<1> QED
  BY <1>1, <1>2, <1>3, <1>4, <1>5, <1>6, <1>7 DEF p, Fresh

LEMMA OneItem ==
    ASSUME NEW x \in Items
    PROVE  Shape(<<x>>, {x.t} \cap Kex, IF x.t = "app" THEN {x.n} ELSE {})
<1>1. <<x>> \in Seq(Items) /\ Len(<<x>>) = 1 /\ <<x>>[1] = x
  OBVIOUS
<1>2. Kinds(<<x>>) = {x.t} \cap Kex
  BY <1>1 DEF Kinds
<1>3. Nums(<<x>>) = IF x.t = "app" THEN {x.n} ELSE {}
  <2>1. \A i \in 1 .. Len(<<x>>) : i = 1
    BY <1>1
  <2>2. 1 \in 1 .. Len(<<x>>)
    BY <1>1
  <2>3. Nums(<<x>>) \subseteq IF x.t = "app" THEN {x.n} ELSE {}
    BY <1>1, <2>1 DEF Nums
  <2>4. x.t = "app" => x.n \in Nums(<<x>>)
    BY <1>1, <2>2 DEF Nums
  <2> QED
    BY <2>3, <2>4
<1>4. Rising(<<x>>) /\ Ranked(<<x>>)
  BY <1>1 DEF Rising, Ranked
<1>5. \A i \in 1 .. Len(<<x>>) : ~Before(<<x>>, i, "newkeys")
  BY <1>1 DEF Before
<1> QED
  BY <1>1, <1>2, <1>3, <1>4, <1>5 DEF Shape

Ignore == Item("ignore", 0)

LEMMA IgnoreIs ==
    ASSUME Ssh2TransportAssumption
    PROVE  Ignore \in Items /\ Shape(<<Ignore>>, {}, {})
<1>1. Ignore \in Items /\ Ignore.t = "ignore"
  BY DEF Ignore, Item, Items, ItemTypes, Ssh2TransportAssumption
<1>2. "ignore" \notin Kex
  BY DEF Kex, KexTypes
<1>3. Shape(<<Ignore>>, {Ignore.t} \cap Kex, IF Ignore.t = "app" THEN {Ignore.n} ELSE {})
  BY <1>1, OneItem
<1>4. {Ignore.t} \cap Kex = {} /\ Ignore.t # "app"
  BY <1>1, <1>2
<1> QED
  BY <1>1, <1>3, <1>4

LEMMA WithIgnore ==
    ASSUME Ssh2TransportAssumption, NEW items, NEW K, NEW N, Shape(items, K, N)
    PROVE  Shape(<<Ignore>> \o items, K, N)
<1> DEFINE one == <<Ignore>>
<1>1. Shape(one, {}, {})
  BY IgnoreIs
<1> HIDE DEF one
<1>0. one \in Seq(Items) /\ items \in Seq(Items)
  BY <1>1 DEF Shape
<1>2. (one \o items) \in Seq(Items)
  BY <1>0, Joined
<1>3. Kinds(one \o items) = Kinds(one) \cup Kinds(items)
  BY <1>0, KindsJoined
<1>4. Nums(one \o items) = Nums(one) \cup Nums(items)
  BY <1>0, NumsJoined
<1>5. Rising(one \o items)
  BY <1>0, <1>1, RisingJoined DEF Shape
<1>6. Ranked(one \o items)
  BY <1>0, <1>1, RankedJoined DEF Shape
<1>7. ASSUME NEW i \in 1 .. Len(one \o items)  PROVE ~Before(one \o items, i, "newkeys")
  <2>0. "newkeys" \in Kex /\ "newkeys" \notin Kinds(one)
    BY <1>1 DEF Kex, KexTypes, Shape
  <2>1. ASSUME i \in 1 .. Len(one)  PROVE ~Before(one \o items, i, "newkeys")
    <3>1. Before(one \o items, i, "newkeys") <=> Before(one, i, "newkeys")
      BY <1>0, <2>0, <2>1, BeforeJoined
    <3> QED
      BY <1>1, <2>1, <3>1 DEF Shape
  <2>2. ASSUME NEW j \in 1 .. Len(items), i = Len(one) + j
        PROVE  ~Before(one \o items, i, "newkeys")
    <3>1. Before(one \o items, i, "newkeys")
              <=> "newkeys" \in Kinds(one) \/ Before(items, j, "newkeys")
      BY <1>0, <2>0, <2>2, BeforeJoined
    <3> QED
      BY <2>0, <3>1 DEF Shape
  <2> QED
    BY <1>0, <2>1, <2>2, Joined
<1> QED
  BY <1>1, <1>2, <1>3, <1>4, <1>5, <1>6, <1>7 DEF one, Shape

(* What writing leaves as it is. *)
Kept(s, new) ==
    /\ new.open = s.open /\ new.why = s.why /\ new.cr = s.cr
    /\ new.kex_in_progress = s.kex_in_progress /\ new.queueing = s.queueing
    /\ new.queue = s.queue /\ new.csEpoch = s.csEpoch /\ new.scEpoch = s.scEpoch
    /\ new.cscipher = s.cscipher /\ new.incoming_data_size = s.incoming_data_size
    /\ new.deferred_rekey_reason = s.deferred_rekey_reason /\ new.next_rekey = s.next_rekey
    /\ new.protocol_initial_phase_done = s.protocol_initial_phase_done
    /\ new.cfg = s.cfg /\ new.kexcfg = s.kexcfg /\ new.offer = s.offer /\ new.asks = s.asks
    /\ new.stored = s.stored /\ new.rekeyBug = s.rekeyBug

(* To the state st some packets have been added, with K and N as in Shape.  *)
Extends(st, new, K, N) ==
    /\ new \in States /\ new.a = st.a /\ Kept(st.s, new.s) /\ new.s.deferred = <<>>
    /\ \E p : /\ Fresh(p, st.s, K, N) /\ new.w = st.w \o p
              /\ new.s.seq = (st.s.seq + Len(p)) % SequenceMod

LEMMA Fields ==
    ASSUME Ssh2TransportAssumption, NEW s \in SshStates
    PROVE  /\ SequenceMod \in Nat \ {0} /\ SizeCap \in Nat /\ MaxApp \in Nat
           /\ s.seq \in 0 .. SequenceMod - 1 /\ s.seq \in Nat
           /\ s.csEpoch \in Nat /\ s.scEpoch \in Nat
           /\ s.outgoing_data_size \in Sizes /\ s.incoming_data_size \in Sizes
           /\ s.queue \in Seq([t : {"app", "ignore"}, n : 0 .. MaxApp])
           /\ s.deferred \in Seq(ClientPackets)
           /\ s.cfg \in Configs /\ s.kexcfg \in Configs /\ s.cr \in CrStates
           /\ s.offer \in Offers \cup {NoOffer} /\ s.asks \in 0 .. 3
           /\ s.open \in BOOLEAN /\ s.queueing \in BOOLEAN /\ s.kex_in_progress \in BOOLEAN
           /\ s.next_rekey \in BOOLEAN /\ s.rekeyBug \in BOOLEAN /\ s.stored \in BOOLEAN
           /\ s.deferred_rekey_reason \in BOOLEAN /\ s.protocol_initial_phase_done \in BOOLEAN
<1>1. SequenceMod \in Nat \ {0} /\ SizeCap \in Nat /\ MaxApp \in Nat
  BY DEF Ssh2TransportAssumption
<1>2. s.seq \in 0 .. SequenceMod - 1
  BY DEF SshStates
<1>3. s.seq \in Nat
  BY <1>1, <1>2
<1> QED
  BY <1>1, <1>2, <1>3 DEF SshStates

LEMMA ConfigFields ==
    ASSUME Ssh2TransportAssumption, NEW cfg \in Configs
    PROVE  /\ cfg.cipher \in Ciphers /\ cfg.ssh_rekey_time \in Nat
           /\ cfg.max_data_size \in Nat /\ cfg.max_data_size < SizeCap
  BY DEF Ssh2TransportAssumption

LEMMA GrowType ==
    ASSUME Ssh2TransportAssumption, NEW size \in Sizes, NEW n \in Nat
    PROVE  Grow(size, n) \in Sizes
<1>1. SizeCap \in Nat
  BY DEF Ssh2TransportAssumption
<1> QED
  BY <1>1 DEF Grow, Sizes

LEMMA NextSeqIs ==
    ASSUME Ssh2TransportAssumption, NEW s \in SshStates, NEW n \in Nat
    PROVE  NextSeq(s, n) \in SshStates
<1>1. (s.seq + n) % SequenceMod \in 0 .. SequenceMod - 1
  <2>1. s.seq + n \in Nat /\ SequenceMod \in Nat \ {0}
    BY Fields
  <2> QED
    BY <2>1, ModRange
<1> QED
  BY <1>1 DEF NextSeq, SshStates

(* The same when they are deferred, after what is already. *)
Defers(st, new, K, N) ==
    /\ new \in States /\ new.a = st.a /\ new.w = st.w /\ Kept(st.s, new.s)
    /\ \E p : /\ Fresh(p, st.s, K, N) /\ new.s.deferred = st.s.deferred \o p
              /\ new.s.seq = (st.s.seq + Len(p)) % SequenceMod

LEMMA DeferIs ==
    ASSUME Ssh2TransportAssumption, NEW st \in States, NEW items, NEW K, NEW N,
           Shape(items, K, N)
    PROVE  Defers(st, DeferNoqueue(st, items), K, N)
<1> DEFINE first == items # <<>> /\ st.s.cscipher = "cbc" /\ st.s.deferred = <<>>
           all == IF first THEN <<Item("ignore", 0)>> \o items ELSE items
           p == Construct(st.s, all)
           s == NextSeq(st.s, Len(all))
           t == [s EXCEPT !.deferred = @ \o p]
<1>1. Shape(all, K, N)
  BY WithIgnore DEF Ignore
<1>0. st.s \in SshStates /\ st.s.deferred \in Seq(ClientPackets)
  <2>1. st.s \in SshStates
    BY DEF States
  <2> QED
    BY <2>1, Fields
<1>2. all \in Seq(Items)
  BY <1>1 DEF Shape
<1>3. DeferNoqueue(st, items) = [st EXCEPT !.s = t]
  BY DEF DeferNoqueue, States
<1> HIDE DEF all
<1>4. Fresh(p, st.s, K, N) /\ Len(p) = Len(all)
  BY <1>0, <1>1, ConstructShape
<1>5. p \in Seq(ClientPackets) /\ Len(all) \in Nat
  BY <1>2, <1>4 DEF Fresh
<1> HIDE DEF p
<1>6. s \in SshStates
  BY <1>0, <1>5, NextSeqIs
<1>7. s.deferred = st.s.deferred /\ s.seq = (st.s.seq + Len(all)) % SequenceMod
  BY <1>0 DEF NextSeq, SshStates
<1>8. s.deferred \o p \in Seq(ClientPackets)
  BY <1>0, <1>5, <1>7, Joined
<1>9. t \in SshStates
  BY <1>6, <1>8 DEF SshStates
<1>10. /\ t.deferred = st.s.deferred \o p /\ t.seq = (st.s.seq + Len(p)) % SequenceMod
       /\ Kept(st.s, t)
  BY <1>0, <1>4, <1>7 DEF NextSeq, SshStates, Kept
<1> HIDE DEF t
<1>11. /\ [st EXCEPT !.s = t] \in States
       /\ [st EXCEPT !.s = t].s = t /\ [st EXCEPT !.s = t].a = st.a
       /\ [st EXCEPT !.s = t].w = st.w
  BY <1>9 DEF States
<1> QED
  BY <1>3, <1>4, <1>10, <1>11 DEF Defers

LEMMA WriteIs ==
    ASSUME Ssh2TransportAssumption, NEW st \in States
    PROVE  LET new == Write(st) IN
           /\ new \in States /\ new.a = st.a /\ new.w = st.w \o st.s.deferred
           /\ Kept(st.s, new.s) /\ new.s.seq = st.s.seq /\ new.s.deferred = <<>>
<1> DEFINE size == Grow(st.s.outgoing_data_size, Len(st.s.deferred))
           t == [st.s EXCEPT !.deferred = <<>>, !.outgoing_data_size = size]
<1>0. /\ st.s \in SshStates /\ st.w \in Seq(ClientPackets)
      /\ st.s.deferred \in Seq(ClientPackets) /\ st.s.outgoing_data_size \in Sizes
  <2>1. st.s \in SshStates /\ st.w \in Seq(ClientPackets)
    BY DEF States
  <2> QED
    BY <2>1, Fields
<1>1. Len(st.s.deferred) \in Nat
  BY <1>0
<1>2. size \in Sizes
  BY <1>0, <1>1, GrowType
<1>6. Write(st) = [st EXCEPT !.w = @ \o st.s.deferred, !.s = t]
  BY DEF Write, States
<1> HIDE DEF size
<1>3. t \in SshStates
  <2>1. <<>> \in Seq(ClientPackets)
    OBVIOUS
  <2> QED
    BY <1>0, <1>2, <2>1 DEF SshStates
<1>4. Kept(st.s, t) /\ t.seq = st.s.seq /\ t.deferred = <<>>
  BY <1>0 DEF SshStates, Kept
<1>5. st.w \o st.s.deferred \in Seq(ClientPackets)
  BY <1>0, Joined
<1> HIDE DEF t
<1>7. /\ [st EXCEPT !.w = @ \o st.s.deferred, !.s = t] \in States
      /\ [st EXCEPT !.w = @ \o st.s.deferred, !.s = t].s = t
      /\ [st EXCEPT !.w = @ \o st.s.deferred, !.s = t].a = st.a
      /\ [st EXCEPT !.w = @ \o st.s.deferred, !.s = t].w = st.w \o st.s.deferred
  BY <1>3, <1>5 DEF States
<1> QED
  BY <1>4, <1>6, <1>7

LEMMA DeferWriteIs ==
    ASSUME Ssh2TransportAssumption, NEW st \in States, st.s.deferred = <<>>,
           NEW items, NEW K, NEW N, Shape(items, K, N)
    PROVE  Extends(st, Write(DeferNoqueue(st, items)), K, N)
<1> DEFINE mid == DeferNoqueue(st, items)
           new == Write(mid)
<1>0. Defers(st, mid, K, N)
  BY DeferIs
<1> HIDE DEF mid
<1>1. /\ mid \in States /\ mid.a = st.a /\ mid.w = st.w /\ Kept(st.s, mid.s)
      /\ \E p : /\ Fresh(p, st.s, K, N) /\ mid.s.deferred = st.s.deferred \o p
                /\ mid.s.seq = (st.s.seq + Len(p)) % SequenceMod
  BY <1>0 DEF Defers
<1>2. PICK p : /\ Fresh(p, st.s, K, N) /\ mid.s.deferred = st.s.deferred \o p
               /\ mid.s.seq = (st.s.seq + Len(p)) % SequenceMod
  BY <1>1
<1>3. /\ new \in States /\ new.a = mid.a /\ new.w = mid.w \o mid.s.deferred
      /\ Kept(mid.s, new.s) /\ new.s.seq = mid.s.seq /\ new.s.deferred = <<>>
  BY <1>1, WriteIs
<1> HIDE DEF new
<1>4. mid.s.deferred = p
  <2>1. p \in Seq(ClientPackets)
    BY <1>2 DEF Fresh
  <2>2. <<>> \o p = p
    BY <2>1
  <2> QED
    BY <1>2, <2>2
<1>5. new.w = st.w \o p /\ new.s.seq = (st.s.seq + Len(p)) % SequenceMod
  BY <1>1, <1>2, <1>3, <1>4
<1>6. Kept(st.s, new.s)
  BY <1>1, <1>3 DEF Kept
<1>7. Extends(st, new, K, N)
  BY <1>1, <1>2, <1>3, <1>5, <1>6 DEF Extends
<1> QED
  BY <1>7 DEF new, mid

LEMMA WriteNoqueueIs ==
    ASSUME Ssh2TransportAssumption, NEW st \in States, st.s.deferred = <<>>, NEW x \in Items
    PROVE  Extends(st, WriteNoqueue(st, x), {x.t} \cap Kex, IF x.t = "app" THEN {x.n} ELSE {})
<1> DEFINE K == {x.t} \cap Kex
           N == IF x.t = "app" THEN {x.n} ELSE {}
<1>1. Shape(<<x>>, K, N)
  BY OneItem
<1> HIDE DEF K, N
<1>2. ASSUME st.s.cscipher = "cbc"  PROVE Extends(st, WriteNoqueue(st, x), K, N)
  <2>1. WriteNoqueue(st, x) = Write(DeferNoqueue(st, <<x>>))
    BY <1>2 DEF WriteNoqueue, Then
  <2> QED
    BY <1>1, <2>1, DeferWriteIs
<1>3. ASSUME st.s.cscipher # "cbc"  PROVE Extends(st, WriteNoqueue(st, x), K, N)
  <2> DEFINE p == Construct(st.s, <<x>>)
             size == Grow(st.s.outgoing_data_size, 1)
             s == NextSeq(st.s, 1)
             t == [s EXCEPT !.outgoing_data_size = size]
             new == [st EXCEPT !.w = @ \o p, !.s = t]
  <2>0. st.s \in SshStates /\ st.w \in Seq(ClientPackets)
    BY DEF States
  <2>1. Fresh(p, st.s, K, N) /\ Len(p) = Len(<<x>>)
    BY <1>1, <2>0, ConstructShape
  <2>2. s.outgoing_data_size = st.s.outgoing_data_size
    BY <2>0 DEF NextSeq, SshStates
  <2>3. WriteNoqueue(st, x) = new
    BY <1>3, <2>2 DEF WriteNoqueue, States
  <2>4. size \in Sizes
    BY <2>0, Fields, GrowType
  <2>5. s \in SshStates
    BY <2>0, NextSeqIs
  <2> HIDE DEF p, size
  <2>6. t \in SshStates
    BY <2>4, <2>5 DEF SshStates
  <2>7. t.seq = (st.s.seq + Len(p)) % SequenceMod /\ Kept(st.s, t) /\ t.deferred = <<>>
    BY <2>0, <2>1 DEF NextSeq, SshStates, Kept
  <2>8. p \in Seq(ClientPackets)
    BY <2>1 DEF Fresh
  <2>9. st.w \o p \in Seq(ClientPackets)
    BY <2>0, <2>8, Joined
  <2> HIDE DEF t
  <2>10. new \in States /\ new.s = t /\ new.a = st.a /\ new.w = st.w \o p
    BY <2>6, <2>9 DEF States
  <2> HIDE DEF new
  <2>11. Extends(st, new, K, N)
    BY <2>1, <2>7, <2>10 DEF Extends
  <2> QED
    BY <2>3, <2>11
<1> QED
  BY <1>2, <1>3 DEF K, N

(* ssh2_pkt_send_with_padding() when nothing holds it back. *)
LEMMA PaddedIs ==
    ASSUME Ssh2TransportAssumption, NEW st \in States, st.s.deferred = <<>>,
           NEW n \in 0 .. MaxApp
    PROVE  Extends(st, Write(DeferNoqueue(DeferNoqueue(st, <<Item("app", n)>>), <<Ignore>>)),
                   {}, {n})
<1> DEFINE x == Item("app", n)
           one == DeferNoqueue(st, <<x>>)
           two == DeferNoqueue(one, <<Ignore>>)
           new == Write(two)
<1>1. x \in Items /\ x.t = "app" /\ x.n = n /\ "app" \notin Kex
  BY DEF Item, Items, ItemTypes, Kex, KexTypes
<1>2. Shape(<<x>>, {}, {n})
  <2>1. Shape(<<x>>, {x.t} \cap Kex, IF x.t = "app" THEN {x.n} ELSE {})
    BY <1>1, OneItem
  <2>2. {x.t} \cap Kex = {}
    BY <1>1
  <2> QED
    BY <1>1, <2>1, <2>2
<1> HIDE DEF x
<1>19. Defers(st, one, {}, {n})
  BY <1>2, DeferIs
<1> HIDE DEF one
<1>3. /\ one \in States /\ one.a = st.a /\ one.w = st.w /\ Kept(st.s, one.s)
      /\ \E p : /\ Fresh(p, st.s, {}, {n}) /\ one.s.deferred = st.s.deferred \o p
                /\ one.s.seq = (st.s.seq + Len(p)) % SequenceMod
  BY <1>19 DEF Defers
<1>4. PICK p : /\ Fresh(p, st.s, {}, {n}) /\ one.s.deferred = st.s.deferred \o p
               /\ one.s.seq = (st.s.seq + Len(p)) % SequenceMod
  BY <1>3
<1>5. Shape(<<Ignore>>, {}, {})
  BY IgnoreIs
<1>20. Defers(one, two, {}, {})
  BY <1>3, <1>5, DeferIs
<1> HIDE DEF two
<1>6. /\ two \in States /\ two.a = one.a /\ two.w = one.w /\ Kept(one.s, two.s)
      /\ \E q : /\ Fresh(q, one.s, {}, {}) /\ two.s.deferred = one.s.deferred \o q
                /\ two.s.seq = (one.s.seq + Len(q)) % SequenceMod
  BY <1>20 DEF Defers
<1>7. PICK q : /\ Fresh(q, one.s, {}, {}) /\ two.s.deferred = one.s.deferred \o q
               /\ two.s.seq = (one.s.seq + Len(q)) % SequenceMod
  BY <1>6
<1>8. /\ new \in States /\ new.a = two.a /\ new.w = two.w \o two.s.deferred
      /\ Kept(two.s, new.s) /\ new.s.seq = two.s.seq /\ new.s.deferred = <<>>
  BY <1>6, WriteIs
<1> HIDE DEF new
<1>9. p \in Seq(ClientPackets) /\ q \in Seq(ClientPackets)
  BY <1>4, <1>7 DEF Fresh
<1>10. two.s.deferred = p \o q
  <2>1. <<>> \o p = p
    BY <1>9
  <2> QED
    BY <1>4, <1>7, <2>1
<1>11. one.s.csEpoch = st.s.csEpoch
  BY <1>3 DEF Kept
<1>12. st.s \in SshStates
  BY DEF States
<1>13. st.s.seq \in Nat /\ st.s.csEpoch \in Nat /\ SequenceMod \in Nat \ {0}
  BY <1>12, Fields
<1>14. Fresh(p \o q, st.s, {}, {n})
  <2>0. p \o q \in Seq(ClientPackets)
    BY <1>9, Joined
  <2>1. Placed(p \o q, st.s.seq)
    <3>1. Placed(p, st.s.seq) /\ Placed(q, (st.s.seq + Len(p)) % SequenceMod)
      BY <1>4, <1>7 DEF Fresh
    <3> QED
      BY <1>9, <1>13, <3>1, PlacedJoined
  <2>2. Kinds(p) = {} /\ Kinds(q) = {} /\ Nums(p) = {n} /\ Nums(q) = {}
    BY <1>4, <1>7 DEF Fresh
  <2>3. Kinds(p \o q) = {} /\ Nums(p \o q) = {n}
    BY <1>9, <2>2, KindsJoined, NumsJoined
  <2>4. Keyed(p, st.s.csEpoch) /\ Keyed(q, st.s.csEpoch)
    BY <1>4, <1>7, <1>11 DEF Fresh
  <2>5. Keyed(p \o q, st.s.csEpoch)
    <3>1. Count("newkeys" \in Kinds(p)) = 0 /\ st.s.csEpoch + 0 = st.s.csEpoch
      BY <1>13, <2>2 DEF Count
    <3>2. Keyed(q, st.s.csEpoch + Count("newkeys" \in Kinds(p)))
      BY <2>4, <3>1
    <3> QED
      BY <1>9, <1>13, <2>2, <2>4, <3>2, KeyedJoined
  <2>6. Ranked(p \o q)
    BY <1>4, <1>7, <1>9, <2>2, RankedJoined DEF Fresh
  <2>7. Rising(p \o q)
    BY <1>4, <1>7, <1>9, <2>2, RisingJoined DEF Fresh
  <2> QED
    BY <2>0, <2>1, <2>3, <2>5, <2>6, <2>7 DEF Fresh
<1>15. new.s.seq = (st.s.seq + Len(p \o q)) % SequenceMod
  <2>1. Len(p) \in Nat /\ Len(q) \in Nat /\ Len(p \o q) = Len(p) + Len(q)
    BY <1>9
  <2>2. (((st.s.seq + Len(p)) % SequenceMod) + Len(q)) % SequenceMod
            = (st.s.seq + Len(p) + Len(q)) % SequenceMod
    <3>1. st.s.seq + Len(p) \in Nat
      BY <1>13, <2>1
    <3> QED
      BY <1>13, <2>1, <3>1, ModAdd
  <2>3. st.s.seq + Len(p) + Len(q) = st.s.seq + Len(p \o q)
    BY <1>13, <2>1
  <2> QED
    BY <1>4, <1>7, <1>8, <2>2, <2>3
<1>16. new.w = st.w \o (p \o q) /\ new.a = st.a
  BY <1>3, <1>6, <1>8, <1>10
<1>17. Kept(st.s, new.s)
  <2>1. Kept(st.s, two.s)
    BY <1>3, <1>6 DEF Kept
  <2> QED
    BY <1>8, <2>1 DEF Kept
<1>18. Extends(st, new, {}, {n})
  BY <1>8, <1>14, <1>15, <1>16, <1>17 DEF Extends
<1> QED
  BY <1>18 DEF new, two, one, x

LEMMA ServerFields ==
    ASSUME Ssh2TransportAssumption, NEW v \in Servers
    PROVE  /\ v.seq \in 0 .. SequenceMod - 1 /\ v.seq \in Nat
           /\ v.csEpoch \in Nat /\ v.scEpoch \in Nat /\ v.got \in 0 .. MaxApp /\ v.got \in Nat
           /\ v.inKex \in BOOLEAN /\ v.ok \in BOOLEAN /\ v.offer \in Offers \cup {NoOffer}
           /\ v.state \in {"idle", "kexinit", "gexrequest", "dhinit", "newkeys", "gone"}
<1>1. SequenceMod \in Nat \ {0} /\ MaxApp \in Nat
  BY DEF Ssh2TransportAssumption
<1>2. v.seq \in 0 .. SequenceMod - 1 /\ v.got \in 0 .. MaxApp
  BY DEF Servers
<1>3. v.seq \in Nat /\ v.got \in Nat
  BY <1>1, <1>2
<1> QED
  BY <1>2, <1>3 DEF Servers

LEMMA NumsEmpty ==
    ASSUME NEW q, Nums(q) = {}, NEW i \in 1 .. Len(q)
    PROVE  q[i].t # "app"
  BY DEF Nums

(* To kl, which is on its way, K and N can be added. *)
Fits(kl, v, K, N) ==
    /\ \A t \in kl, u \in K : Rank(t) < Rank(u)
    /\ Expected(kl \cup K, Expects(v), v.offer)
    /\ N # {} => K = {} /\ "kexinit" \notin kl /\ (v.inKex => "newkeys" \in kl)

(* What was true of the stream still is, K and N added. *)
Reads(st, new, v, K, N) ==
    /\ Readable(new.w, v) /\ Kinds(new.w) = Kinds(st.w) \cup K
    /\ new.s.seq = (v.seq + Len(new.w)) % SequenceMod
    /\ Nums(new.w) = Nums(st.w) \cup N
    /\ Rising(st.w) /\ (\A m \in Nums(st.w), n \in N : m < n) => Rising(new.w)

(* What has been added can be read as what was there before.                *)
LEMMA ExtendsStream ==
    ASSUME Ssh2TransportAssumption, NEW st \in States, NEW v \in Servers,
           Readable(st.w, v), AtEnd(st.s, st.w, v), NEW K, NEW N, NEW new,
           Extends(st, new, K, N), Fits(Kinds(st.w), v, K, N)
    PROVE  Reads(st, new, v, K, N)
<1>0. /\ \A t \in Kinds(st.w), u \in K : Rank(t) < Rank(u)
      /\ Expected(Kinds(st.w) \cup K, Expects(v), v.offer)
      /\ N # {} => K = {} /\ "kexinit" \notin Kinds(st.w) /\ (v.inKex => "newkeys" \in Kinds(st.w))
  BY DEF Fits
<1>1. PICK p : /\ Fresh(p, st.s, K, N) /\ new.w = st.w \o p
               /\ new.s.seq = (st.s.seq + Len(p)) % SequenceMod
  BY DEF Extends
<1>2. /\ p \in Seq(ClientPackets) /\ Placed(p, st.s.seq) /\ Keyed(p, st.s.csEpoch)
      /\ Kinds(p) = K /\ Nums(p) = N /\ Ranked(p) /\ Rising(p)
  BY <1>1 DEF Fresh
<1>3. st.w \in Seq(ClientPackets) /\ st.s \in SshStates
  BY DEF States
<1>4. /\ v.ok /\ v.inKex <=> Expects(v) \in {"gexrequest", "dhinit", "newkeys"}
      /\ Placed(st.w, v.seq) /\ Keyed(st.w, v.csEpoch) /\ Ranked(st.w) /\ Apart(st.w, v.inKex)
  BY DEF Readable
<1>5. /\ st.s.seq = (v.seq + Len(st.w)) % SequenceMod
      /\ st.s.csEpoch = v.csEpoch + Count("newkeys" \in Kinds(st.w))
  BY DEF AtEnd
<1>6. v.seq \in Nat /\ v.csEpoch \in Nat /\ v.inKex \in BOOLEAN /\ SequenceMod \in Nat \ {0}
  BY ServerFields DEF Ssh2TransportAssumption
<1>7. Kinds(st.w \o p) = Kinds(st.w) \cup K
  <2>1. Kinds(st.w \o p) = Kinds(st.w) \cup Kinds(p)
    BY <1>2, <1>3, KindsJoined
  <2> QED
    BY <1>2, <2>1
<1>8. Nums(st.w \o p) = Nums(st.w) \cup N
  <2>1. Nums(st.w \o p) = Nums(st.w) \cup Nums(p)
    BY <1>2, <1>3, NumsJoined
  <2> QED
    BY <1>2, <2>1
<1>9. Placed(st.w \o p, v.seq)
  <2>1. Placed(p, (v.seq + Len(st.w)) % SequenceMod)
    BY <1>2, <1>5
  <2> QED
    BY <1>2, <1>3, <1>4, <1>6, <2>1, PlacedJoined
<1>10. Ranked(st.w \o p)
  BY <1>0, <1>2, <1>3, <1>4, RankedJoined
<1>11. Keyed(st.w \o p, v.csEpoch)
  <2>1. Keyed(p, v.csEpoch + Count("newkeys" \in Kinds(st.w)))
    BY <1>2, <1>5
  <2>2. ~("newkeys" \in Kinds(st.w) /\ "newkeys" \in Kinds(p))
    <3>1. ~(Rank("newkeys") < Rank("newkeys"))
      BY DEF Rank
    <3> QED
      BY <1>0, <1>2, <3>1
  <2> QED
    BY <1>2, <1>3, <1>4, <1>6, <2>1, <2>2, KeyedJoined
<1>12. Apart(st.w \o p, v.inKex)
  <2>1. (\E i \in 1 .. Len(p) : p[i].t = "app") => N # {}
    BY <1>2, NumsEmpty
  <2>2. (\E i \in 1 .. Len(p) : p[i].t = "app") =>
            /\ Kinds(p) = {} /\ "kexinit" \notin Kinds(st.w)
            /\ v.inKex => "newkeys" \in Kinds(st.w)
    BY <1>0, <1>2, <2>1
  <2> QED
    BY <1>2, <1>3, <1>4, <1>6, <2>2, ApartJoined
<1>13. Readable(st.w \o p, v)
  BY <1>0, <1>4, <1>7, <1>9, <1>10, <1>11, <1>12 DEF Readable
<1>14. new.s.seq = (v.seq + Len(st.w \o p)) % SequenceMod
  <2>1. Len(st.w) \in Nat /\ Len(p) \in Nat /\ Len(st.w \o p) = Len(st.w) + Len(p)
    BY <1>2, <1>3
  <2>2. v.seq + Len(st.w) \in Nat
    BY <1>6, <2>1
  <2>3. (((v.seq + Len(st.w)) % SequenceMod) + Len(p)) % SequenceMod
            = (v.seq + Len(st.w) + Len(p)) % SequenceMod
    BY <1>6, <2>1, <2>2, ModAdd
  <2>4. v.seq + Len(st.w) + Len(p) = v.seq + Len(st.w \o p)
    BY <1>6, <2>1
  <2> QED
    BY <1>1, <1>5, <2>3, <2>4
<1>15. Rising(st.w) /\ (\A m \in Nums(st.w), n \in N : m < n) => Rising(st.w \o p)
  BY <1>2, <1>3, RisingJoined
<1> QED
  BY <1>1, <1>7, <1>8, <1>13, <1>14, <1>15 DEF Reads

(* Nothing for the layers above, and no new keys.                           *)
LEMMA ExtendsBase ==
    ASSUME Ssh2TransportAssumption, NEW st, NEW a, NEW r, NEW v, Base(st, a, r, v),
           NEW K, NEW new, Extends(st, new, K, {}), "newkeys" \notin K,
           Fits(Kinds(st.w), v, K, {})
    PROVE  Base(new, a, r, v) /\ Kinds(new.w) = Kinds(st.w) \cup K
<1>1. /\ st \in States /\ r \in Seq(ServerPackets) /\ v \in Servers /\ a \in Nat
      /\ st.s.open /\ st.s.why # "protocol" /\ st.s.deferred = <<>>
      /\ ~st.s.protocol_initial_phase_done => a = 0
      /\ Readable(st.w, v) /\ AtEnd(st.s, st.w, v) /\ Answers(st.s, r, v)
      /\ InOrder(st.w, st.s.queue, v.got, a)
  BY DEF Base
<1>2. /\ new \in States /\ Kept(st.s, new.s) /\ new.s.deferred = <<>>
  BY DEF Extends
<1>3. /\ Readable(new.w, v) /\ Kinds(new.w) = Kinds(st.w) \cup K
      /\ new.s.seq = (v.seq + Len(new.w)) % SequenceMod
      /\ Nums(new.w) = Nums(st.w) /\ (Rising(st.w) => Rising(new.w))
  <2>1. Reads(st, new, v, K, {})
    BY <1>1, ExtendsStream
  <2> QED
    BY <2>1 DEF Reads
<1>4. AtEnd(new.s, new.w, v)
  BY <1>1, <1>2, <1>3 DEF AtEnd, Kept
<1>5. Answers(new.s, r, v)
  BY <1>1, <1>2 DEF Answers, Kept
<1>6. InOrder(new.w, new.s.queue, v.got, a)
  BY <1>1, <1>2, <1>3 DEF InOrder, Kept
<1> QED
  BY <1>1, <1>2, <1>3, <1>4, <1>5, <1>6 DEF Base, Kept

-------------------------------------------------------------------------------
(* Lemmas about the steps of an exchange *)

(* What Base looks at. *)
Alike(s, new) ==
    /\ new.open = s.open /\ new.why = s.why /\ new.deferred = s.deferred
    /\ new.protocol_initial_phase_done = s.protocol_initial_phase_done
    /\ new.seq = s.seq /\ new.csEpoch = s.csEpoch /\ new.scEpoch = s.scEpoch
    /\ new.queue = s.queue

LEMMA BaseAlike ==
    ASSUME NEW st, NEW a, NEW r, NEW v, Base(st, a, r, v),
           NEW new \in States, new.w = st.w, Alike(st.s, new.s)
    PROVE  Base(new, a, r, v)
<1>1. AtEnd(new.s, new.w, v) /\ Answers(new.s, r, v)
  BY DEF Base, Alike, AtEnd, Answers
<1> QED
  BY <1>1 DEF Base, Alike

LEMMA BaseHas ==
    ASSUME NEW st, NEW a, NEW r, NEW v, Base(st, a, r, v)
    PROVE  /\ st \in States /\ r \in Seq(ServerPackets) /\ v \in Servers /\ a \in Nat
           /\ st.s \in SshStates /\ st.w \in Seq(ClientPackets) /\ st.a \in 0 .. MaxApp
           /\ st.s.open /\ st.s.why # "protocol" /\ st.s.deferred = <<>>
           /\ Readable(st.w, v)
  BY DEF Base, States

LEMMA BaseUnbroken ==
    ASSUME NEW st, NEW a, NEW r, NEW v, Base(st, a, r, v)
    PROVE  Unbroken(st.w, v.got, a)
<1> DEFINE M == Nums(st.w)
           N == Nums(st.s.queue)
           g == v.got
<1>1. /\ Rising(st.w) /\ (\A m \in M, n \in N : m < n)
      /\ M \cup N = g + 1 .. a /\ g \in Nat /\ a \in Nat
  <2>1. g \in Int /\ g >= 0
    BY DEF Base, Servers
  <2> QED
    BY <2>1 DEF Base, InOrder
<1> HIDE DEF M, N, g
<1>2. ASSUME NEW n \in M  PROVE n \in g + 1 .. a /\ g + 1 .. n \subseteq M
  <2>1. n \in g + 1 .. a
    BY <1>1
  <2>2. ASSUME NEW m \in g + 1 .. n  PROVE m \in M
    <3>1. m \in g + 1 .. a /\ ~(n < m)
      BY <1>1, <2>1
    <3>2. m \notin N
      BY <1>2, <1>1, <3>1
    <3> QED
      BY <1>1, <3>1, <3>2
  <2> QED
    BY <2>1, <2>2
<1> QED
  BY <1>1, <1>2 DEF Unbroken, M, g

LEMMA BaseIsGood ==
    ASSUME NEW st, NEW a, NEW r, NEW v, Base(st, a, r, v), Mode(st, r, v)
    PROVE  Good(st, a, r, v)
  BY BaseHas, BaseUnbroken DEF Good

LEMMA KexItem ==
    ASSUME Ssh2TransportAssumption, NEW st \in States, st.s.deferred = <<>>,
           NEW t \in {"kexinit", "gexrequest", "dhinit", "newkeys"}
    PROVE  Extends(st, WriteNoqueue(st, Item(t, 0)), {t}, {})
<1> DEFINE x == Item(t, 0)
<1>1. x \in Items /\ x.t = t /\ t # "app" /\ t \in Kex
  BY DEF Item, Items, ItemTypes, Kex, KexTypes, Ssh2TransportAssumption
<1> HIDE DEF x
<1>2. Extends(st, WriteNoqueue(st, x), {x.t} \cap Kex, IF x.t = "app" THEN {x.n} ELSE {})
  BY <1>1, WriteNoqueueIs
<1>3. {x.t} \cap Kex = {t} /\ (IF x.t = "app" THEN {x.n} ELSE {}) = {}
  BY <1>1
<1> QED
  BY <1>2, <1>3 DEF x

(* All is well after a step that sends nothing for the layers above. *)
Stays(st, new, a, r, v) ==
    /\ Base(new, a, r, v) /\ Mode(new, r, v) /\ new.a = st.a
    /\ "newkeys" \in Kinds(new.w) <=> "newkeys" \in Kinds(st.w)

(* begin_key_exchange, when nothing of an exchange is going on but what the *)
(* server may have begun.                                                   *)
LEMMA BeginIs ==
    ASSUME Ssh2TransportAssumption, NEW st, NEW a, NEW r, NEW v, Base(st, a, r, v),
           Phase("idle", st.s.offer, Kinds(st.w), Kinds(r), Expects(v), v.offer)
    PROVE  /\ Stays(st, BeginKeyExchange(st), a, r, v)
           /\ BeginKeyExchange(st).s.cr = "kexinit"
<1> DEFINE s == [st.s EXCEPT !.queueing = TRUE, !.kex_in_progress = TRUE,
                             !.kexcfg = st.s.cfg, !.cr = "kexinit"]
           x == [st EXCEPT !.s = s]
           new == WriteNoqueue(x, Item("kexinit", 0))
           kl == Kinds(st.w)
<1>0. st \in States /\ st.s \in SshStates /\ st.s.deferred = <<>> /\ v \in Servers
  BY BaseHas
<1>1. BeginKeyExchange(st) = new
  BY DEF BeginKeyExchange, Then
<1>2. s \in SshStates
  BY <1>0, ZenonT(60) DEF SshStates, CrStates
<1>3. /\ Alike(st.s, s) /\ s.kex_in_progress /\ s.queueing /\ s.cr = "kexinit"
      /\ s.offer = st.s.offer
  BY <1>0 DEF SshStates, Alike
<1> HIDE DEF s
<1>4. x \in States /\ x.s = s /\ x.w = st.w /\ x.a = st.a
  BY <1>0, <1>2 DEF States
<1> HIDE DEF x
<1>5. Base(x, a, r, v)
  BY <1>3, <1>4, BaseAlike
<1>6. Extends(x, new, {"kexinit"}, {})
  BY <1>0, <1>3, <1>4, KexItem DEF Alike
<1> HIDE DEF new
<1>7. Fits(kl, v, {"kexinit"}, {})
  BY DEF Fits, Expected, Phase, Rank
<1>8. Base(new, a, r, v) /\ Kinds(new.w) = kl \cup {"kexinit"}
  BY <1>4, <1>5, <1>6, <1>7, ExtendsBase
<1>9. /\ new.a = st.a /\ new.s.cr = "kexinit" /\ new.s.kex_in_progress /\ new.s.queueing
      /\ new.s.offer = st.s.offer
  BY <1>3, <1>4, <1>6 DEF Extends, Kept
<1>10. Phase("kexinit", st.s.offer, kl \cup {"kexinit"}, Kinds(r), Expects(v), v.offer)
  BY DEF Phase, Begun
<1>11. Mode(new, r, v)
  BY <1>8, <1>9, <1>10 DEF Mode
<1> QED
  BY <1>1, <1>8, <1>9, <1>11 DEF Stays

LEMMA ScheduleRekeyIs ==
    ASSUME Ssh2TransportAssumption, NEW s \in SshStates
    PROVE  /\ ScheduleRekey(s) \in SshStates /\ Alike(s, ScheduleRekey(s))
           /\ ScheduleRekey(s).cfg.ssh_rekey_time # 0 => ScheduleRekey(s).next_rekey
           /\ ScheduleRekey(s).cr = s.cr /\ ScheduleRekey(s).offer = s.offer
           /\ ScheduleRekey(s).kex_in_progress = s.kex_in_progress
           /\ ScheduleRekey(s).queueing = s.queueing
<1>1. (s.next_rekey \/ s.cfg.ssh_rekey_time # 0) \in BOOLEAN
  OBVIOUS
<1>2. ScheduleRekey(s) \in SshStates
  BY <1>1, ZenonT(60) DEF ScheduleRekey, SshStates
<1>3. /\ ScheduleRekey(s).cfg = s.cfg
      /\ ScheduleRekey(s).next_rekey = (s.next_rekey \/ s.cfg.ssh_rekey_time # 0)
  BY DEF ScheduleRekey, SshStates
<1>4. /\ Alike(s, ScheduleRekey(s))
      /\ ScheduleRekey(s).cr = s.cr /\ ScheduleRekey(s).offer = s.offer
      /\ ScheduleRekey(s).kex_in_progress = s.kex_in_progress
      /\ ScheduleRekey(s).queueing = s.queueing
  BY DEF ScheduleRekey, SshStates, Alike
<1> QED
  BY <1>2, <1>3, <1>4

(* do_ssh2_transport(ssh, reason, -1, NULL) between exchanges.              *)
LEMMA ClientRekeyIs ==
    ASSUME Ssh2TransportAssumption, NEW st, NEW a, NEW r, NEW v, Base(st, a, r, v),
           ~st.s.queueing, st.s.queue = <<>>, ~st.s.kex_in_progress, st.s.cr = "idle",
           Phase("idle", st.s.offer, Kinds(st.w), Kinds(r), Expects(v), v.offer)
    PROVE  Stays(st, ClientRekey(st), a, r, v)
<1>0. st \in States /\ st.s \in SshStates
  BY BaseHas
<1>1. ASSUME ~st.s.rekeyBug  PROVE Stays(st, ClientRekey(st), a, r, v)
  <2>1. ClientRekey(st) = BeginKeyExchange(st)
    BY <1>1 DEF ClientRekey
  <2> QED
    BY <2>1, BeginIs
<1>2. ASSUME st.s.rekeyBug  PROVE Stays(st, ClientRekey(st), a, r, v)
  <2> DEFINE s == [st.s EXCEPT !.outgoing_data_size = 0, !.incoming_data_size = 0]
             t == ScheduleRekey(s)
             new == [st EXCEPT !.s = t]
  <2>1. ClientRekey(st) = new
    BY <1>2 DEF ClientRekey
  <2>2. s \in SshStates
    <3>1. 0 \in Sizes
      BY DEF Sizes, Ssh2TransportAssumption
    <3> QED
      BY <1>0, <3>1 DEF SshStates
  <2>3. /\ Alike(st.s, s) /\ s.cr = st.s.cr /\ s.offer = st.s.offer
        /\ s.kex_in_progress = st.s.kex_in_progress /\ s.queueing = st.s.queueing
    BY <1>0 DEF SshStates, Alike
  <2> HIDE DEF s
  <2>4. /\ t \in SshStates /\ Alike(s, t) /\ (t.cfg.ssh_rekey_time # 0 => t.next_rekey)
        /\ t.cr = s.cr /\ t.offer = s.offer
        /\ t.kex_in_progress = s.kex_in_progress /\ t.queueing = s.queueing
    BY <2>2, ScheduleRekeyIs
  <2> HIDE DEF t
  <2>5. new \in States /\ new.s = t /\ new.w = st.w /\ new.a = st.a
    BY <1>0, <2>4 DEF States
  <2> HIDE DEF new
  <2>6. Alike(st.s, t)
    BY <2>3, <2>4 DEF Alike
  <2>7. Base(new, a, r, v)
    BY <2>5, <2>6, BaseAlike
  <2>8. Mode(new, r, v)
    BY <2>3, <2>4, <2>5, <2>6 DEF Mode, Alike
  <2> QED
    BY <2>1, <2>5, <2>7, <2>8 DEF Stays
<1> QED
  BY <1>0, <1>1, <1>2, Fields

LEMMA RekeyWhenIdle ==
    ASSUME Ssh2TransportAssumption, NEW st, NEW a, NEW r, NEW v,
           Base(st, a, r, v), Mode(st, r, v), ~st.s.kex_in_progress
    PROVE  Stays(st, ClientRekey(st), a, r, v)
<1>1. st.s.cr = "idle"
  BY DEF Mode
<1>2. ~st.s.queueing /\ st.s.queue = <<>>
  BY <1>1 DEF Mode
<1>3. Phase("idle", st.s.offer, Kinds(st.w), Kinds(r), Expects(v), v.offer)
  BY <1>1 DEF Mode
<1> QED
  BY <1>1, <1>2, <1>3, ClientRekeyIs

LEMMA ChecksAre ==
    ASSUME Ssh2TransportAssumption, NEW st, NEW a, NEW r, NEW v,
           Base(st, a, r, v), Mode(st, r, v)
    PROVE  Stays(st, CheckOutgoing(st), a, r, v) /\ Stays(st, CheckIncoming(st), a, r, v)
<1>1. Stays(st, st, a, r, v)
  BY DEF Stays
<1>2. \A size : TooMuch(st.s, size) => Stays(st, ClientRekey(st), a, r, v)
  BY RekeyWhenIdle DEF TooMuch
<1> QED
  BY <1>1, <1>2 DEF CheckOutgoing, CheckIncoming

(* A packet that says nothing, at any time.                                 *)
LEMMA SendNoqueueIs ==
    ASSUME Ssh2TransportAssumption, NEW st, NEW a, NEW r, NEW v,
           Base(st, a, r, v), Mode(st, r, v), NEW t \in {"ignore", "unimplemented"}
    PROVE  Stays(st, SendNoqueue(st, Item(t, 0)), a, r, v)
<1> DEFINE x == Item(t, 0)
           mid == WriteNoqueue(st, x)
<1>0. st \in States /\ st.s.deferred = <<>> /\ Readable(st.w, v)
  BY BaseHas
<1>1. x \in Items /\ x.t = t /\ t # "app" /\ t \notin Kex
  BY DEF Item, Items, ItemTypes, Kex, KexTypes, Ssh2TransportAssumption
<1> HIDE DEF x
<1>2. Extends(st, mid, {}, {})
  <2>1. Extends(st, mid, {x.t} \cap Kex, IF x.t = "app" THEN {x.n} ELSE {})
    BY <1>0, <1>1, WriteNoqueueIs
  <2>2. {x.t} \cap Kex = {} /\ (IF x.t = "app" THEN {x.n} ELSE {}) = {}
    BY <1>1
  <2> QED
    BY <2>1, <2>2
<1>3. SendNoqueue(st, x) = CheckOutgoing(mid)
  BY DEF SendNoqueue, Then
<1> HIDE DEF mid
<1>4. Fits(Kinds(st.w), v, {}, {})
  BY <1>0 DEF Fits, Readable
<1>5. Base(mid, a, r, v) /\ Kinds(mid.w) = Kinds(st.w) \cup {}
  BY <1>2, <1>4, ExtendsBase
<1>6. Mode(mid, r, v) /\ mid.a = st.a
  BY <1>2, <1>5 DEF Extends, Kept, Mode
<1>7. Stays(mid, CheckOutgoing(mid), a, r, v)
  BY <1>5, <1>6, ChecksAre
<1> QED
  BY <1>3, <1>5, <1>6, <1>7 DEF x, Stays

-------------------------------------------------------------------------------
(* Lemmas about the packets of the layers above *)

LEMMA AppendIs ==
    ASSUME NEW S, NEW q \in Seq(S), NEW x \in S
    PROVE  Append(q, x) \in Seq(S) /\ Append(q, x) = q \o <<x>>
  OBVIOUS

LEMMA SeqSubset ==
    ASSUME NEW S, NEW T, S \subseteq T, NEW q \in Seq(S)
    PROVE  q \in Seq(T)
<1>1. q \in [1 .. Len(q) -> S] /\ Len(q) \in Nat
  OBVIOUS
<1>2. q \in [1 .. Len(q) -> T]
  BY <1>1
<1> QED
  BY <1>1, <1>2

LEMMA QueueShape ==
    ASSUME Ssh2TransportAssumption, NEW s \in SshStates
    PROVE  s.queue \in Seq(Items)
<1> DEFINE S == [t : {"app", "ignore"}, n : 0 .. MaxApp]
<1>1. s.queue \in Seq(S)
  BY Fields
<1>2. S \subseteq Items
  BY DEF Items, ItemTypes
<1> HIDE DEF S
<1> QED
  BY <1>1, <1>2, SeqSubset

LEMMA NoNums ==
    Nums(<<>>) = {} /\ Rising(<<>>) /\ Kinds(<<>>) = {}
  BY DEF Nums, Rising, Kinds

(* The next packet of the layers above is written when nothing is held back. *)
LEMMA ExtendsApp ==
    ASSUME Ssh2TransportAssumption, NEW st, NEW a, NEW r, NEW v,
           Base(st, a, r, v), Mode(st, r, v), ~st.s.queueing,
           st.s.protocol_initial_phase_done, NEW new, Extends(st, new, {}, {a + 1})
    PROVE  /\ Base(new, a + 1, r, v) /\ Mode(new, r, v) /\ new.a = st.a
           /\ Kinds(new.w) = Kinds(st.w)
<1> DEFINE N == {a + 1}
           K == {}
<1>0. /\ st \in States /\ v \in Servers /\ r \in Seq(ServerPackets) /\ a \in Nat
      /\ st.s.open /\ st.s.why # "protocol"
      /\ Readable(st.w, v) /\ AtEnd(st.s, st.w, v) /\ Answers(st.s, r, v)
      /\ InOrder(st.w, st.s.queue, v.got, a)
  BY DEF Base
<1>1. st.s.queue = <<>> /\ st.s.cr \in {"idle", "newkeys"}
  <2>1. st.s.cr \in CrStates
    BY <1>0, Fields DEF States
  <2> QED
    BY <2>1 DEF Mode
<1>2. Fits(Kinds(st.w), v, K, N)
  <2>1. "kexinit" \notin Kinds(st.w)
    BY <1>1 DEF Mode, Phase
  <2>2. v.inKex => "newkeys" \in Kinds(st.w)
    <3>1. v.inKex <=> Expects(v) \in {"gexrequest", "dhinit", "newkeys"}
      BY <1>0 DEF Readable
    <3> QED
      BY <1>1, <3>1 DEF Mode, Phase
  <2>3. Expected(Kinds(st.w), Expects(v), v.offer)
    BY <1>0 DEF Readable
  <2> QED
    BY <2>1, <2>2, <2>3 DEF Fits
<1>3. Extends(st, new, K, N)
  OBVIOUS
<1> HIDE DEF N, K
<1>4. /\ Readable(new.w, v) /\ Kinds(new.w) = Kinds(st.w) \cup K
      /\ new.s.seq = (v.seq + Len(new.w)) % SequenceMod
      /\ Nums(new.w) = Nums(st.w) \cup N
      /\ Rising(st.w) /\ (\A m \in Nums(st.w), n \in N : m < n) => Rising(new.w)
  <2>1. Reads(st, new, v, K, N)
    BY <1>0, <1>2, <1>3, ExtendsStream
  <2> QED
    BY <2>1 DEF Reads
<1>5. /\ new \in States /\ new.a = st.a /\ Kept(st.s, new.s) /\ new.s.deferred = <<>>
  BY <1>3 DEF Extends
<1>6. Kinds(new.w) = Kinds(st.w)
  BY <1>4 DEF K
<1>7. AtEnd(new.s, new.w, v) /\ Answers(new.s, r, v)
  BY <1>0, <1>4, <1>5, <1>6 DEF AtEnd, Answers, Kept
<1>8. InOrder(new.w, new.s.queue, v.got, a + 1)
  <2>1. new.s.queue = <<>> /\ Nums(<<>>) = {} /\ Rising(<<>>)
    BY <1>1, <1>5, NoNums DEF Kept
  <2>2. Nums(st.w) = v.got + 1 .. a /\ Rising(st.w) /\ v.got <= a
    BY <1>0, <1>1, <2>1 DEF InOrder
  <2>3. v.got \in Nat
    BY <1>0, ServerFields
  <2>4. \A m \in Nums(st.w), n \in N : m < n
    BY <1>0, <2>2, <2>3 DEF N
  <2>5. Nums(new.w) = v.got + 1 .. a + 1
    <3>1. (v.got + 1 .. a) \cup {a + 1} = v.got + 1 .. a + 1
      BY <1>0, <2>2, <2>3
    <3> QED
      BY <1>4, <2>2, <3>1 DEF N
  <2>6. Rising(new.w) /\ v.got <= a + 1
    BY <1>0, <1>4, <2>2, <2>3, <2>4
  <2> QED
    BY <2>1, <2>5, <2>6 DEF InOrder
<1>9. Base(new, a + 1, r, v)
  BY <1>0, <1>4, <1>5, <1>7, <1>8 DEF Base, Kept
<1>10. Mode(new, r, v)
  BY <1>5, <1>6 DEF Mode, Kept
<1> QED
  BY <1>5, <1>6, <1>9, <1>10

(* One more is held back. *)
LEMMA QueueIs ==
    ASSUME Ssh2TransportAssumption, NEW st, NEW a, NEW r, NEW v,
           Base(st, a, r, v), Mode(st, r, v), st.s.queueing,
           st.s.protocol_initial_phase_done,
           NEW x \in [t : {"app", "ignore"}, n : 0 .. MaxApp], NEW b \in Nat,
           IF x.t = "app" THEN x.n = a + 1 /\ b = a + 1 ELSE b = a
    PROVE  /\ Base(Queue(st, x), b, r, v) /\ Mode(Queue(st, x), r, v)
           /\ Queue(st, x).a = st.a /\ Queue(st, x).w = st.w /\ Queue(st, x).s.queueing
           /\ Queue(st, x).s.protocol_initial_phase_done
<1> DEFINE q == st.s.queue
           one == <<x>>
           s == [st.s EXCEPT !.queue = Append(@, x)]
           new == [st EXCEPT !.s = s]
<1>0. /\ st \in States /\ v \in Servers /\ r \in Seq(ServerPackets) /\ a \in Nat
      /\ st.s.open /\ st.s.why # "protocol" /\ st.s.deferred = <<>>
      /\ Readable(st.w, v) /\ AtEnd(st.s, st.w, v) /\ Answers(st.s, r, v)
      /\ InOrder(st.w, st.s.queue, v.got, a)
  BY DEF Base
<1>1. st.s \in SshStates
  BY <1>0 DEF States
<1> DEFINE S == [t : {"app", "ignore"}, n : 0 .. MaxApp]
<1>2. q \in Seq(S) /\ x \in S
  BY <1>1, Fields
<1> HIDE DEF S
<1>3. Append(q, x) \in Seq(S) /\ Append(q, x) = q \o one
  BY <1>2, AppendIs
<1>4. s \in SshStates
  BY <1>1, <1>3 DEF SshStates, S
<1>5. /\ s.open = st.s.open /\ s.why = st.s.why /\ s.deferred = st.s.deferred
      /\ s.protocol_initial_phase_done = st.s.protocol_initial_phase_done
      /\ s.seq = st.s.seq /\ s.csEpoch = st.s.csEpoch /\ s.scEpoch = st.s.scEpoch
      /\ s.queue = q \o one /\ s.cr = st.s.cr /\ s.offer = st.s.offer /\ s.asks = st.s.asks
      /\ s.kex_in_progress = st.s.kex_in_progress /\ s.queueing = st.s.queueing
      /\ s.cfg = st.s.cfg /\ s.next_rekey = st.s.next_rekey
  BY <1>1, <1>3 DEF SshStates
<1> HIDE DEF s
<1>6. new \in States /\ new.s = s /\ new.w = st.w /\ new.a = st.a
  BY <1>0, <1>4 DEF States
<1>7. Queue(st, x) = new
  BY <1>0 DEF Queue, s, States
<1> HIDE DEF new
<1>8. q \in Seq(Items) /\ x \in Items
  BY <1>1, QueueShape DEF Items, ItemTypes
<1>9. one \in Seq(Items) /\ Rising(one) /\ Nums(one) = IF x.t = "app" THEN {x.n} ELSE {}
  BY <1>8, OneItem DEF Shape
<1>10. InOrder(st.w, q \o one, v.got, b)
  <2> HIDE DEF one, q
  <2>0. /\ Rising(st.w) /\ Rising(q) /\ (\A m \in Nums(st.w), n \in Nums(q) : m < n)
        /\ Nums(st.w) \cup Nums(q) = v.got + 1 .. a /\ v.got <= a /\ v.got \in Nat
    BY <1>0, ServerFields DEF InOrder, q
  <2>1. Nums(q \o one) = Nums(q) \cup Nums(one)
    BY <1>8, <1>9, NumsJoined
  <2>2. \A m \in Nums(st.w) \cup Nums(q), n \in Nums(one) : m < n
    BY <1>0, <1>9, <2>0
  <2>3. Rising(q \o one)
    BY <1>8, <1>9, <2>0, <2>2, RisingJoined
  <2>4. \A m \in Nums(st.w), n \in Nums(q \o one) : m < n
    BY <2>0, <2>1, <2>2
  <2>5. Nums(st.w) \cup Nums(q \o one) = v.got + 1 .. b
    <3>1. x.t = "app" => (v.got + 1 .. a) \cup {a + 1} = v.got + 1 .. a + 1
      BY <1>0, <2>0
    <3>2. Nums(st.w) \cup Nums(q \o one) = (v.got + 1 .. a) \cup Nums(one)
      BY <2>0, <2>1
    <3> QED
      BY <1>9, <3>1, <3>2
  <2>6. v.got <= b
    BY <1>0, <2>0
  <2> QED
    BY <2>0, <2>3, <2>4, <2>5, <2>6 DEF InOrder
<1>11. AtEnd(s, st.w, v) /\ Answers(s, r, v)
  BY <1>0, <1>5 DEF AtEnd, Answers
<1>12. Base(new, b, r, v)
  BY <1>0, <1>5, <1>6, <1>10, <1>11 DEF Base
<1>13. Mode(new, r, v)
  BY <1>5, <1>6 DEF Mode
<1> QED
  BY <1>5, <1>6, <1>7, <1>12, <1>13

LEMMA Counted ==
    ASSUME Ssh2TransportAssumption, NEW st, NEW b, NEW r, NEW v,
           Base(st, b, r, v), Mode(st, r, v), st.a < MaxApp
    PROVE  LET new == [st EXCEPT !.a = @ + 1] IN
           /\ Base(new, b, r, v) /\ Mode(new, r, v) /\ new.a = st.a + 1
           /\ new.w = st.w
<1> DEFINE new == [st EXCEPT !.a = @ + 1]
<1>1. st \in States /\ st.a \in 0 .. MaxApp /\ MaxApp \in Nat
  BY BaseHas DEF Ssh2TransportAssumption
<1>2. st.a + 1 \in 0 .. MaxApp
  BY <1>1
<1>3. new \in States /\ new.s = st.s /\ new.w = st.w /\ new.a = st.a + 1
  BY <1>1, <1>2 DEF States
<1> HIDE DEF new
<1>4. Base(new, b, r, v)
  BY <1>3, BaseAlike DEF Alike
<1>5. Mode(new, r, v)
  BY <1>3 DEF Mode
<1> QED
  BY <1>3, <1>4, <1>5 DEF new

LEMMA AppItem ==
    ASSUME Ssh2TransportAssumption, NEW n \in 0 .. MaxApp
    PROVE  /\ Item("app", n) \in [t : {"app", "ignore"}, n : 0 .. MaxApp]
           /\ Item("app", n) \in Items
           /\ Item("app", n).t = "app" /\ Item("app", n).n = n
           /\ Item("ignore", 0) \in [t : {"app", "ignore"}, n : 0 .. MaxApp]
           /\ Item("ignore", 0).t = "ignore"
  BY DEF Item, Items, ItemTypes, Ssh2TransportAssumption

(* What a step of the layers above does. *)
Adds(st, new) ==
    /\ new.a = st.a + 1
    /\ "newkeys" \in Kinds(new.w) <=> "newkeys" \in Kinds(st.w)

(* ssh2_pkt_send() by the layers above.                                     *)
LEMMA AppSendIs ==
    ASSUME Ssh2TransportAssumption, NEW st, NEW r, NEW v,
           Base(st, st.a, r, v), Mode(st, r, v),
           st.s.protocol_initial_phase_done, st.a < MaxApp
    PROVE  /\ Base(AppSend(st), AppSend(st).a, r, v) /\ Mode(AppSend(st), r, v)
           /\ Adds(st, AppSend(st))
<1> DEFINE a == st.a
           x == Item("app", a + 1)
           y == PktSend(st, x)
<1>1. /\ st \in States /\ st.s \in SshStates /\ a \in Nat /\ MaxApp \in Nat
      /\ st.s.deferred = <<>> /\ a < MaxApp /\ a + 1 \in Nat /\ a + 1 \in 0 .. MaxApp
  <2>1. st.a \in 0 .. MaxApp /\ MaxApp \in Nat
    BY BaseHas DEF Ssh2TransportAssumption
  <2> QED
    BY <2>1, BaseHas
<1>2. /\ x \in [t : {"app", "ignore"}, n : 0 .. MaxApp] /\ x \in Items
      /\ x.t = "app" /\ x.n = a + 1
  BY <1>1, AppItem
<1>3. AppSend(st) = [y EXCEPT !.a = @ + 1]
  BY DEF AppSend
<1> HIDE DEF x
<1> DEFINE had == "newkeys" \in Kinds(st.w)
<1>4. ASSUME st.s.queueing
      PROVE  Base(y, a + 1, r, v) /\ Mode(y, r, v) /\ y.a = a /\ ("newkeys" \in Kinds(y.w) <=> had)
  <2>1. y = Queue(st, x)
    BY <1>4 DEF PktSend
  <2>2. IF x.t = "app" THEN x.n = a + 1 /\ a + 1 = a + 1 ELSE a + 1 = a
    BY <1>2
  <2>3. /\ Base(Queue(st, x), a + 1, r, v) /\ Mode(Queue(st, x), r, v)
        /\ Queue(st, x).a = st.a /\ Queue(st, x).w = st.w
    BY <1>1, <1>2, <1>4, <2>2, QueueIs
  <2> QED
    BY <2>1, <2>3
<1>5. ASSUME ~st.s.queueing
      PROVE  Base(y, a + 1, r, v) /\ Mode(y, r, v) /\ y.a = a /\ ("newkeys" \in Kinds(y.w) <=> had)
  <2> DEFINE mid == WriteNoqueue(st, x)
  <2>1. y = CheckOutgoing(mid)
    BY <1>5 DEF PktSend, SendNoqueue, Then
  <2>2. Extends(st, mid, {}, {a + 1})
    <3>1. Extends(st, mid, {x.t} \cap Kex, IF x.t = "app" THEN {x.n} ELSE {})
      BY <1>1, <1>2, WriteNoqueueIs
    <3>2. {x.t} \cap Kex = {} /\ (IF x.t = "app" THEN {x.n} ELSE {}) = {a + 1}
      BY <1>2 DEF Kex, KexTypes
    <3> QED
      BY <3>1, <3>2
  <2> HIDE DEF mid
  <2>3. /\ Base(mid, a + 1, r, v) /\ Mode(mid, r, v) /\ mid.a = st.a
        /\ Kinds(mid.w) = Kinds(st.w)
    BY <1>5, <2>2, ExtendsApp
  <2>4. Stays(mid, CheckOutgoing(mid), a + 1, r, v)
    BY <2>3, ChecksAre
  <2> QED
    BY <2>1, <2>3, <2>4 DEF Stays
<1> HIDE DEF y
<1>6. Base(y, a + 1, r, v) /\ Mode(y, r, v) /\ y.a = a /\ ("newkeys" \in Kinds(y.w) <=> had)
  BY <1>4, <1>5
<1>7. LET new == [y EXCEPT !.a = @ + 1] IN
      Base(new, a + 1, r, v) /\ Mode(new, r, v) /\ new.a = y.a + 1 /\ new.w = y.w
  BY <1>1, <1>6, Counted
<1> QED
  BY <1>3, <1>6, <1>7 DEF Adds

(* ssh2_pkt_send_with_padding() by the layers above.                        *)
LEMMA AppSendPaddedIs ==
    ASSUME Ssh2TransportAssumption, NEW st, NEW r, NEW v,
           Base(st, st.a, r, v), Mode(st, r, v),
           st.s.protocol_initial_phase_done, st.a < MaxApp
    PROVE  /\ Base(AppSendPadded(st), AppSendPadded(st).a, r, v) /\ Mode(AppSendPadded(st), r, v)
           /\ Adds(st, AppSendPadded(st))
<1> DEFINE a == st.a
           x == Item("app", a + 1)
           one == PktDefer(st, x)
           two == PktDefer(one, Ignore)
           mid == Write(two)
           y == CheckOutgoing(mid)
<1>1. /\ st \in States /\ st.s \in SshStates /\ a \in Nat /\ MaxApp \in Nat
      /\ st.s.deferred = <<>> /\ a < MaxApp /\ a + 1 \in Nat /\ a + 1 \in 0 .. MaxApp
  <2>1. st.a \in 0 .. MaxApp /\ MaxApp \in Nat
    BY BaseHas DEF Ssh2TransportAssumption
  <2> QED
    BY <2>1, BaseHas
<1>2. /\ x \in [t : {"app", "ignore"}, n : 0 .. MaxApp] /\ x \in Items
      /\ x.t = "app" /\ x.n = a + 1
  BY <1>1, AppItem
<1>3. AppSendPadded(st) = [y EXCEPT !.a = @ + 1]
  BY DEF AppSendPadded, SendWithPadding, Defersend, Then, Ignore
<1>4. ASSUME st.s.queueing
      PROVE  Base(mid, a + 1, r, v) /\ Mode(mid, r, v) /\ mid.a = a /\ Kinds(mid.w) = Kinds(st.w)
  <2> HIDE DEF x
  <2>1. one = Queue(st, x)
    BY <1>4 DEF PktDefer
  <2> HIDE DEF one
  <2>2. IF x.t = "app" THEN x.n = a + 1 /\ a + 1 = a + 1 ELSE a + 1 = a
    BY <1>2
  <2>3. /\ Base(one, a + 1, r, v) /\ Mode(one, r, v) /\ one.a = st.a /\ one.s.queueing
        /\ one.w = st.w
        /\ one.s.protocol_initial_phase_done
    BY <1>1, <1>2, <1>4, <2>1, <2>2, QueueIs
  <2>4. two = Queue(one, Ignore)
    BY <2>3 DEF PktDefer
  <2> HIDE DEF two
  <2>5. /\ Ignore \in [t : {"app", "ignore"}, n : 0 .. MaxApp]
        /\ IF Ignore.t = "app" THEN Ignore.n = a + 1 + 1 /\ a + 1 = a + 1 + 1 ELSE a + 1 = a + 1
    BY <1>1, AppItem DEF Ignore
  <2>6. Base(two, a + 1, r, v) /\ Mode(two, r, v) /\ two.a = one.a /\ two.w = one.w
    BY <1>1, <2>3, <2>4, <2>5, QueueIs
  <2>7. two \in States /\ two.s.deferred = <<>> /\ two.w \in Seq(ClientPackets)
    BY <2>6, BaseHas
  <2>8. /\ mid \in States /\ mid.a = two.a /\ mid.w = two.w \o two.s.deferred
        /\ Kept(two.s, mid.s) /\ mid.s.seq = two.s.seq /\ mid.s.deferred = <<>>
    BY <2>7, WriteIs
  <2> HIDE DEF mid
  <2>9. mid.w = two.w
    BY <2>7, <2>8
  <2>10. Base(mid, a + 1, r, v)
    <3>1. Alike(two.s, mid.s)
      BY <2>7, <2>8 DEF Kept, Alike
    <3> QED
      BY <2>6, <2>8, <2>9, <3>1, BaseAlike
  <2>11. Mode(mid, r, v)
    BY <2>6, <2>8, <2>9 DEF Mode, Kept
  <2> QED
    BY <2>3, <2>6, <2>8, <2>9, <2>10, <2>11
<1>5. ASSUME ~st.s.queueing
      PROVE  Base(mid, a + 1, r, v) /\ Mode(mid, r, v) /\ mid.a = a /\ Kinds(mid.w) = Kinds(st.w)
  <2>1. one = DeferNoqueue(st, <<x>>)
    BY <1>5 DEF PktDefer
  <2>2. ~one.s.queueing
    <3>1. Shape(<<x>>, {x.t} \cap Kex, IF x.t = "app" THEN {x.n} ELSE {})
      BY <1>2, OneItem
    <3>2. Defers(st, DeferNoqueue(st, <<x>>), {x.t} \cap Kex, IF x.t = "app" THEN {x.n} ELSE {})
      BY <1>1, <3>1, DeferIs
    <3> QED
      BY <1>5, <2>1, <3>2 DEF Defers, Kept
  <2>3. two = DeferNoqueue(one, <<Ignore>>)
    BY <2>2 DEF PktDefer
  <2>4. Extends(st, mid, {}, {a + 1})
    BY <1>1, <2>1, <2>3, PaddedIs
  <2> HIDE DEF mid
  <2> QED
    BY <1>5, <2>4, ExtendsApp
<1> HIDE DEF mid
<1>6. Base(mid, a + 1, r, v) /\ Mode(mid, r, v) /\ mid.a = a /\ Kinds(mid.w) = Kinds(st.w)
  BY <1>4, <1>5
<1>7. /\ Base(y, a + 1, r, v) /\ Mode(y, r, v) /\ y.a = a
      /\ "newkeys" \in Kinds(y.w) <=> "newkeys" \in Kinds(st.w)
  <2>1. Stays(mid, CheckOutgoing(mid), a + 1, r, v)
    BY <1>6, ChecksAre
  <2> QED
    BY <1>6, <2>1 DEF Stays
<1> HIDE DEF y
<1>8. LET new == [y EXCEPT !.a = @ + 1] IN
      Base(new, a + 1, r, v) /\ Mode(new, r, v) /\ new.a = y.a + 1 /\ new.w = y.w
  BY <1>1, <1>7, Counted
<1> QED
  BY <1>3, <1>7, <1>8 DEF Adds

-------------------------------------------------------------------------------
(* Lemmas about what do_ssh2_transport() does with a packet *)

Exchanging(st, a, r, v) == Base(st, a, r, v) /\ st.s.kex_in_progress /\ st.s.queueing

(* All is well after a step that may have closed the connection.            *)
Goes(st, new, a, r, v) ==
    /\ Good(new, a, r, v) /\ new.a = st.a
    /\ "newkeys" \in Kinds(st.w) => "newkeys" \in Kinds(new.w)

LEMMA StaysGoes ==
    ASSUME NEW st, NEW new, NEW a, NEW r, NEW v, Stays(st, new, a, r, v)
    PROVE  Goes(st, new, a, r, v)
  BY BaseIsGood DEF Stays, Goes

LEMMA CloseIs ==
    ASSUME NEW st, NEW a, NEW r, NEW v, Base(st, a, r, v),
           NEW why \in {"negotiation", "hostkey", "user", "server"}
    PROVE  Goes(st, Close(st, why), a, r, v)
<1> DEFINE s == [st.s EXCEPT !.open = FALSE, !.why = why]
           new == [st EXCEPT !.s = s]
<1>0. /\ st \in States /\ st.s \in SshStates /\ r \in Seq(ServerPackets) /\ v \in Servers
      /\ a \in Nat /\ Readable(st.w, v) /\ Unbroken(st.w, v.got, a)
  BY BaseHas, BaseUnbroken
<1>1. s \in SshStates /\ ~s.open /\ s.why = why
  <2>1. why \in {"", "protocol", "negotiation", "hostkey", "user", "server"}
    OBVIOUS
  <2>2. s \in SshStates
    BY <1>0, <2>1 DEF SshStates
  <2>3. ~s.open /\ s.why = why
    BY <1>0 DEF SshStates
  <2> QED
    BY <2>2, <2>3
<1>2. Close(st, why) = new
  BY <1>0 DEF Close, States
<1> HIDE DEF s
<1>3. new \in States /\ new.s = s /\ new.w = st.w /\ new.a = st.a
  BY <1>0, <1>1 DEF States
<1> QED
  BY <1>0, <1>1, <1>2, <1>3 DEF Goes, Good

LEMMA GotoIs ==
    ASSUME NEW st, NEW a, NEW r, NEW v, Exchanging(st, a, r, v),
           NEW cr \in CrStates \ {"idle", "newkeys"}, cr = "askalg" => st.s.asks > 0,
           Phase(cr, st.s.offer, Kinds(st.w), Kinds(r), Expects(v), v.offer)
    PROVE  Stays(st, Goto(st, cr), a, r, v)
<1> DEFINE s == [st.s EXCEPT !.cr = cr]
           new == [st EXCEPT !.s = s]
<1>0. /\ st \in States /\ st.s \in SshStates /\ Base(st, a, r, v)
      /\ st.s.kex_in_progress /\ st.s.queueing
  BY BaseHas DEF Exchanging
<1>1. /\ s \in SshStates /\ Alike(st.s, s) /\ s.cr = cr /\ s.offer = st.s.offer
      /\ s.asks = st.s.asks /\ s.kex_in_progress /\ s.queueing
  BY <1>0 DEF SshStates, Alike
<1>2. Goto(st, cr) = new
  BY <1>0 DEF Goto, States
<1> HIDE DEF s
<1>3. new \in States /\ new.s = s /\ new.w = st.w /\ new.a = st.a
  BY <1>0, <1>1 DEF States
<1> HIDE DEF new
<1>4. Base(new, a, r, v)
  BY <1>0, <1>1, <1>3, BaseAlike
<1>5. Mode(new, r, v)
  BY <1>1, <1>3 DEF Mode
<1> QED
  BY <1>2, <1>3, <1>4, <1>5 DEF Stays

LEMMA KexSendIs ==
    ASSUME Ssh2TransportAssumption, NEW st, NEW a, NEW r, NEW v, Exchanging(st, a, r, v),
           NEW t \in {"gexrequest", "dhinit"}, Fits(Kinds(st.w), v, {t}, {}),
           NEW cr \in {"group", "reply"},
           Phase(cr, st.s.offer, Kinds(st.w) \cup {t}, Kinds(r), Expects(v), v.offer)
    PROVE  Stays(st, Goto(WriteNoqueue(st, Item(t, 0)), cr), a, r, v)
<1> DEFINE new == WriteNoqueue(st, Item(t, 0))
<1>0. /\ st \in States /\ st.s.deferred = <<>> /\ Base(st, a, r, v)
      /\ st.s.kex_in_progress /\ st.s.queueing
  BY BaseHas DEF Exchanging
<1>1. Extends(st, new, {t}, {})
  BY <1>0, KexItem
<1> HIDE DEF new
<1>2. Base(new, a, r, v) /\ Kinds(new.w) = Kinds(st.w) \cup {t}
  <2> DEFINE K == {t}
  <2>1. "newkeys" \notin K /\ Extends(st, new, K, {}) /\ Fits(Kinds(st.w), v, K, {})
    BY <1>1
  <2> HIDE DEF K
  <2>2. Base(new, a, r, v) /\ Kinds(new.w) = Kinds(st.w) \cup K
    BY <1>0, <2>1, ExtendsBase
  <2> QED
    BY <2>2 DEF K
<1>3. Exchanging(new, a, r, v) /\ new.a = st.a /\ new.s.offer = st.s.offer
  BY <1>0, <1>1, <1>2 DEF Exchanging, Extends, Kept
<1>4. Phase(cr, new.s.offer, Kinds(new.w), Kinds(r), Expects(v), v.offer)
  BY <1>2, <1>3
<1>5. cr \in CrStates \ {"idle", "newkeys"} /\ cr # "askalg"
  BY DEF CrStates
<1>6. Stays(new, Goto(new, cr), a, r, v)
  BY <1>3, <1>4, <1>5, GotoIs
<1> QED
  BY <1>2, <1>3, <1>6 DEF Stays, new

LEMMA StartIs ==
    ASSUME Ssh2TransportAssumption, NEW st, NEW a, NEW r, NEW v, Exchanging(st, a, r, v),
           Begun(Kinds(st.w), {}, Expects(v), v.offer), st.s.offer = v.offer, Kinds(r) = {}
    PROVE  Stays(st, StartDiffieHellman(st), a, r, v)
<1>1. ASSUME v.offer.gex  PROVE Stays(st, StartDiffieHellman(st), a, r, v)
  <2>1. Fits(Kinds(st.w), v, {"gexrequest"}, {})
    BY <1>1 DEF Fits, Begun, AfterKexinits, Rank, Expected
  <2>2. Phase("group", st.s.offer, Kinds(st.w) \cup {"gexrequest"}, Kinds(r), Expects(v), v.offer)
    BY <1>1 DEF Phase, Begun
  <2>3. Stays(st, Goto(WriteNoqueue(st, Item("gexrequest", 0)), "group"), a, r, v)
    BY <2>1, <2>2, KexSendIs
  <2> QED
    BY <1>1, <2>3 DEF StartDiffieHellman
<1>2. ASSUME ~v.offer.gex  PROVE Stays(st, StartDiffieHellman(st), a, r, v)
  <2>1. Fits(Kinds(st.w), v, {"dhinit"}, {})
    BY <1>2 DEF Fits, Begun, AfterKexinits, Rank, Expected
  <2>2. Phase("reply", st.s.offer, Kinds(st.w) \cup {"dhinit"}, Kinds(r), Expects(v), v.offer)
    BY <1>2 DEF Phase, Begun, AfterKexinits
  <2>3. Stays(st, Goto(WriteNoqueue(st, Item("dhinit", 0)), "reply"), a, r, v)
    BY <2>1, <2>2, KexSendIs
  <2> QED
    BY <1>2, <2>3 DEF StartDiffieHellman, SendE
<1> QED
  BY <1>1, <1>2

LEMMA NegotiatedIs ==
    ASSUME Ssh2TransportAssumption, NEW st, NEW a, NEW r, NEW v, Exchanging(st, a, r, v),
           Begun(Kinds(st.w), {}, Expects(v), v.offer), st.s.offer = v.offer,
           Kinds(r) = Awaited(v.offer)
    PROVE  Stays(st, Negotiated(st), a, r, v)
<1>1. CASE st.s.asks > 0
  <2>1. Phase("askalg", st.s.offer, Kinds(st.w), Kinds(r), Expects(v), v.offer)
    BY DEF Phase
  <2>2. "askalg" \in CrStates \ {"idle", "newkeys"}
    BY DEF CrStates, Dialogues
  <2>3. Stays(st, Goto(st, "askalg"), a, r, v)
    BY <1>1, <2>1, <2>2, GotoIs
  <2> QED
    BY <1>1, <2>3 DEF Negotiated
<1>2. CASE ~(st.s.asks > 0) /\ v.offer.follows
  <2>1. Phase("ignore", st.s.offer, Kinds(st.w), Kinds(r), Expects(v), v.offer)
    BY <1>2 DEF Phase
  <2>2. "ignore" \in CrStates \ {"idle", "newkeys"}
    BY DEF CrStates
  <2>3. Stays(st, Goto(st, "ignore"), a, r, v)
    BY <2>1, <2>2, GotoIs
  <2> QED
    BY <1>2, <2>3 DEF Negotiated
<1>3. CASE ~(st.s.asks > 0) /\ ~v.offer.follows
  <2>1. Kinds(r) = {}
    BY <1>3 DEF Awaited
  <2>2. Stays(st, StartDiffieHellman(st), a, r, v)
    BY <2>1, StartIs
  <2> QED
    BY <1>3, <2>2 DEF Negotiated
<1> QED
  BY <1>1, <1>2, <1>3

LEMMA OfferFields ==
    ASSUME Ssh2TransportAssumption, NEW o \in Offers \cup {NoOffer}
    PROVE  /\ o.agree \in BOOLEAN /\ o.gex \in BOOLEAN /\ o.follows \in BOOLEAN
           /\ o.warns \in 0 .. 3
<1>1. CASE o \in Offers
  BY <1>1 DEF Ssh2TransportAssumption
<1>2. CASE o = NoOffer
  BY <1>2 DEF NoOffer
<1> QED
  BY <1>1, <1>2

LEMMA GotKexinitIs ==
    ASSUME Ssh2TransportAssumption, NEW st, NEW a, NEW r, NEW v, Exchanging(st, a, r, v),
           Begun(Kinds(st.w), {}, Expects(v), v.offer), NEW m, m.offer = v.offer,
           Kinds(r) = Opening(v.offer) \ {"kexinit"}
    PROVE  Goes(st, GotKexinit(st, m), a, r, v)
<1> DEFINE o == m.offer
           s == [st.s EXCEPT !.offer = o, !.asks = o.warns]
           new == [st EXCEPT !.s = s]
<1>0. /\ st \in States /\ st.s \in SshStates /\ Base(st, a, r, v) /\ v \in Servers
      /\ st.s.kex_in_progress /\ st.s.queueing
  BY BaseHas DEF Exchanging
<1>1. CASE ~o.agree
  BY <1>0, <1>1, CloseIs DEF GotKexinit
<1>2. CASE o.agree
  <2>1. GotKexinit(st, m) = Negotiated(new)
    BY <1>0, <1>2 DEF GotKexinit, Then, States
  <2>2. o \in Offers \cup {NoOffer} /\ o.warns \in 0 .. 3
    <3>1. o \in Offers \cup {NoOffer}
      BY <1>0, ServerFields
    <3> QED
      BY <3>1, OfferFields
  <2> HIDE DEF o
  <2>3. /\ s \in SshStates /\ Alike(st.s, s) /\ s.offer = o
        /\ s.kex_in_progress /\ s.queueing
    BY <1>0, <2>2 DEF SshStates, Alike
  <2> HIDE DEF s
  <2>4. new \in States /\ new.s = s /\ new.w = st.w /\ new.a = st.a
    BY <1>0, <2>3 DEF States
  <2> HIDE DEF new
  <2>5. Base(new, a, r, v)
    BY <1>0, <2>3, <2>4, BaseAlike
  <2>6. Kinds(r) = Awaited(v.offer)
    BY <1>2 DEF Opening, Awaited, o
  <2>7. Exchanging(new, a, r, v) /\ new.s.offer = v.offer
    BY <2>3, <2>4, <2>5 DEF Exchanging, o
  <2>8. Stays(new, Negotiated(new), a, r, v)
    BY <2>4, <2>6, <2>7, NegotiatedIs
  <2>9. Stays(st, Negotiated(new), a, r, v)
    BY <2>4, <2>8 DEF Stays
  <2> QED
    BY <2>1, <2>9, StaysGoes
<1> QED
  BY <1>1, <1>2

(* ssh2_pkt_queuesend() with the new keys: all that has been held back goes *)
(* out, in its order.                                                       *)
LEMMA QueueSendIs ==
    ASSUME Ssh2TransportAssumption, NEW st, NEW a, NEW r, NEW v, Base(st, a, r, v),
           st.s.kex_in_progress, Kinds(st.w) = {"newkeys"}
    PROVE  LET new == QueueSend(st) IN
           /\ Base(new, a, r, v) /\ Kinds(new.w) = Kinds(st.w) /\ new.a = st.a
           /\ new.s.queue = <<>> /\ new.s.kex_in_progress
           /\ new.s.queueing = st.s.queueing /\ new.s.offer = st.s.offer
<1> DEFINE q == st.s.queue
           d == DeferNoqueue(st, q)
           t == [d.s EXCEPT !.queue = <<>>]
           e == [d EXCEPT !.s = t]
           f == Write(e)
           u == [st.s EXCEPT !.queue = <<>>]
           x == [st EXCEPT !.s = u]
           N == Nums(q)
           K == {}
<1>0. /\ st \in States /\ st.s \in SshStates /\ v \in Servers /\ r \in Seq(ServerPackets)
      /\ a \in Nat /\ st.s.deferred = <<>> /\ st.s.open /\ st.s.why # "protocol"
      /\ ~st.s.protocol_initial_phase_done => a = 0
      /\ Readable(st.w, v) /\ AtEnd(st.s, st.w, v) /\ Answers(st.s, r, v)
      /\ InOrder(st.w, q, v.got, a)
  BY BaseHas DEF Base
<1>1. Shape(q, K, N)
  <2>1. q \in Seq([t : {"app", "ignore"}, n : 0 .. MaxApp]) /\ q \in Seq(Items)
    BY <1>0, QueueShape, Fields
  <2>2. \A i \in 1 .. Len(q) : q[i].t \in {"app", "ignore"}
    <3> DEFINE S == [t : {"app", "ignore"}, n : 0 .. MaxApp]
    <3>1. q \in Seq(S) /\ (\A y \in S : y.t \in {"app", "ignore"})
      BY <2>1
    <3> HIDE DEF S, q
    <3>2. \A i \in 1 .. Len(q) : q[i] \in S
      BY <3>1
    <3> QED
      BY <3>1, <3>2
  <2> HIDE DEF q
  <2>3. Kinds(q) = {}
    BY <2>2 DEF Kinds, Kex, KexTypes
  <2>4. Ranked(q)
    BY <2>2 DEF Ranked, Kex, KexTypes
  <2>5. \A i \in 1 .. Len(q) : ~Before(q, i, "newkeys")
    BY <2>2 DEF Before
  <2>6. Rising(q)
    BY <1>0 DEF InOrder
  <2> QED
    BY <2>1, <2>3, <2>4, <2>5, <2>6 DEF Shape
<1>2. QueueSend(st) = CheckOutgoing(f)
  <2>1. d \in States
    BY <1>0, <1>1, DeferIs DEF Defers
  <2>2. [d EXCEPT !.s.queue = <<>>] = e
    BY <2>1 DEF States
  <2> HIDE DEF e, d
  <2>3. QueueSend(st) = Defersend([d EXCEPT !.s.queue = <<>>])
    BY DEF QueueSend, Then, d
  <2> QED
    BY <2>2, <2>3 DEF Defersend, Then
<1> HIDE DEF q, N, K
<1>3. Defers(st, d, K, N)
  BY <1>0, <1>1, DeferIs
<1> HIDE DEF d
<1>4. /\ d \in States /\ d.s \in SshStates /\ d.a = st.a /\ d.w = st.w /\ Kept(st.s, d.s)
  BY <1>3 DEF Defers, States
<1>5. PICK p : /\ Fresh(p, st.s, K, N) /\ d.s.deferred = st.s.deferred \o p
               /\ d.s.seq = (st.s.seq + Len(p)) % SequenceMod
  BY <1>3 DEF Defers
<1>6. t \in SshStates /\ u \in SshStates
  <2>1. <<>> \in Seq([t : {"app", "ignore"}, n : 0 .. MaxApp])
    OBVIOUS
  <2>2. t \in SshStates
    BY <1>4, <2>1 DEF SshStates
  <2>3. u \in SshStates
    BY <1>0, <2>1 DEF SshStates
  <2> QED
    BY <2>2, <2>3
<1>7. t.deferred = d.s.deferred /\ t.seq = d.s.seq /\ t.queue = <<>> /\ Kept(u, t)
  BY <1>0, <1>4 DEF SshStates, Kept
<1>8. /\ u.seq = st.s.seq /\ u.csEpoch = st.s.csEpoch /\ u.scEpoch = st.s.scEpoch
      /\ u.open = st.s.open /\ u.why = st.s.why /\ u.deferred = st.s.deferred
      /\ u.protocol_initial_phase_done = st.s.protocol_initial_phase_done
      /\ u.kex_in_progress = st.s.kex_in_progress /\ u.queueing = st.s.queueing
      /\ u.offer = st.s.offer /\ u.queue = <<>>
  BY <1>0 DEF SshStates
<1> HIDE DEF t, u
<1>9. /\ e \in States /\ e.s = t /\ e.w = st.w /\ e.a = st.a
      /\ x \in States /\ x.s = u /\ x.w = st.w /\ x.a = st.a
  BY <1>0, <1>4, <1>6 DEF States
<1> HIDE DEF e, x
<1>10. /\ f \in States /\ f.a = e.a /\ f.w = e.w \o e.s.deferred
       /\ Kept(e.s, f.s) /\ f.s.seq = e.s.seq /\ f.s.deferred = <<>>
  BY <1>9, WriteIs
<1> HIDE DEF f
<1>11. Extends(x, f, K, N)
  <2>1. Fresh(p, x.s, K, N)
    BY <1>5, <1>8, <1>9 DEF Fresh
  <2>2. e.s.deferred = p
    <3>1. p \in Seq(ClientPackets)
      BY <1>5 DEF Fresh
    <3>2. <<>> \o p = p
      BY <3>1
    <3> QED
      BY <1>0, <1>5, <1>7, <1>9, <3>2
  <2>3. Kept(x.s, f.s)
    BY <1>7, <1>9, <1>10 DEF Kept
  <2>4. f.w = x.w \o p /\ f.s.seq = (x.s.seq + Len(p)) % SequenceMod /\ f.a = x.a
    BY <1>5, <1>7, <1>8, <1>9, <1>10, <2>2
  <2> QED
    BY <1>10, <2>1, <2>3, <2>4 DEF Extends
<1>12. Fits(Kinds(x.w), v, K, N)
  <2>1. Kinds(x.w) = {"newkeys"} /\ Expected(Kinds(st.w), Expects(v), v.offer)
    BY <1>0, <1>9 DEF Readable
  <2>2. Kinds(x.w) \cup K = Kinds(st.w) /\ K = {}
    BY <1>9 DEF K
  <2>3. Expected(Kinds(x.w) \cup K, Expects(v), v.offer)
    BY <2>1, <2>2
  <2>4. "kexinit" \notin Kinds(x.w) /\ "newkeys" \in Kinds(x.w)
    BY <2>1
  <2> QED
    BY <2>2, <2>3, <2>4 DEF Fits
<1>13. x \in States /\ Readable(x.w, v) /\ AtEnd(x.s, x.w, v)
  BY <1>0, <1>8, <1>9 DEF AtEnd
<1>14. /\ Readable(f.w, v) /\ Kinds(f.w) = Kinds(x.w) \cup K
       /\ f.s.seq = (v.seq + Len(f.w)) % SequenceMod
       /\ Nums(f.w) = Nums(x.w) \cup N
       /\ Rising(x.w) /\ (\A m \in Nums(x.w), n \in N : m < n) => Rising(f.w)
  <2>1. Reads(x, f, v, K, N)
    BY <1>0, <1>11, <1>12, <1>13, ExtendsStream
  <2> QED
    BY <2>1 DEF Reads
<1>15. Kinds(f.w) = Kinds(st.w)
  BY <1>9, <1>14 DEF K
<1>16. InOrder(f.w, <<>>, v.got, a)
  <2>1. /\ Rising(st.w) /\ (\A m \in Nums(st.w), n \in N : m < n)
        /\ Nums(st.w) \cup N = v.got + 1 .. a /\ v.got <= a
    BY <1>0 DEF InOrder, N
  <2> QED
    BY <1>9, <1>14, <2>1, NoNums DEF InOrder
<1>17. /\ f.s.queue = <<>> /\ f.s.csEpoch = st.s.csEpoch /\ f.s.scEpoch = st.s.scEpoch
       /\ f.s.open /\ f.s.why # "protocol" /\ f.s.kex_in_progress
       /\ f.s.protocol_initial_phase_done = st.s.protocol_initial_phase_done
       /\ f.s.queueing = st.s.queueing /\ f.s.offer = st.s.offer
  BY <1>0, <1>8, <1>9, <1>11 DEF Extends, Kept
<1>18. AtEnd(f.s, f.w, v) /\ Answers(f.s, r, v)
  BY <1>0, <1>14, <1>15, <1>17 DEF AtEnd, Answers
<1>19. Base(f, a, r, v)
  BY <1>0, <1>10, <1>14, <1>16, <1>17, <1>18 DEF Base
<1>20. CheckOutgoing(f) = f
  BY <1>17 DEF CheckOutgoing, TooMuch
<1> QED
  BY <1>2, <1>9, <1>10, <1>15, <1>17, <1>19, <1>20

LEMMA SendNewkeysIs ==
    ASSUME Ssh2TransportAssumption, NEW st, NEW a, NEW r, NEW v, Exchanging(st, a, r, v),
           Kinds(st.w) = {}, Expects(v) = "newkeys", Kinds(r) = {"newkeys"}
    PROVE  Goes(st, SendNewkeys(st), a, r, v)
<1> DEFINE x == WriteNoqueue(st, Item("newkeys", 0))
           cipher == st.s.kexcfg.cipher
           s == [x.s EXCEPT !.outgoing_data_size = 0, !.csEpoch = @ + 1,
                            !.cscipher = cipher, !.queueing = FALSE]
           y == [x EXCEPT !.s = s]
           z == QueueSend(y)
           K == {"newkeys"}
           N == {}
<1>0. /\ Base(st, a, r, v) /\ st.s.kex_in_progress /\ st.s.queueing
      /\ st \in States /\ st.s \in SshStates /\ v \in Servers /\ r \in Seq(ServerPackets)
      /\ a \in Nat /\ st.s.deferred = <<>> /\ st.s.open /\ st.s.why # "protocol"
      /\ ~st.s.protocol_initial_phase_done => a = 0
      /\ Readable(st.w, v) /\ AtEnd(st.s, st.w, v) /\ Answers(st.s, r, v)
      /\ InOrder(st.w, st.s.queue, v.got, a)
  BY BaseHas DEF Base, Exchanging
<1>1. Extends(st, x, K, N)
  BY <1>0, KexItem
<1>2. Fits(Kinds(st.w), v, K, N)
  BY DEF Fits, Expected
<1>3. SendNewkeys(st) = Goto(z, "newkeys")
  <2>1. x \in States
    BY <1>1 DEF Extends
  <2> HIDE DEF x
  <2>2. [x EXCEPT !.s.outgoing_data_size = 0, !.s.csEpoch = @ + 1,
                  !.s.cscipher = cipher, !.s.queueing = FALSE] = y
    BY <2>1 DEF States, SshStates
  <2> HIDE DEF y, cipher
  <2> QED
    BY <2>2 DEF SendNewkeys, Then, x, cipher
<1> HIDE DEF x, K
<1>4. /\ x \in States /\ x.s \in SshStates /\ x.a = st.a /\ Kept(st.s, x.s)
      /\ x.s.deferred = <<>>
  BY <1>1 DEF Extends, States
<1> HIDE DEF N
<1>5. /\ Readable(x.w, v) /\ Kinds(x.w) = Kinds(st.w) \cup K
      /\ x.s.seq = (v.seq + Len(x.w)) % SequenceMod
      /\ Nums(x.w) = Nums(st.w) \cup N
      /\ Rising(st.w) /\ (\A m \in Nums(st.w), n \in N : m < n) => Rising(x.w)
  <2>1. st \in States /\ v \in Servers /\ Readable(st.w, v) /\ AtEnd(st.s, st.w, v)
    BY <1>0
  <2>2. Reads(st, x, v, K, N)
    BY <1>1, <1>2, <2>1, ExtendsStream
  <2> QED
    BY <2>2 DEF Reads
<1>6. s \in SshStates
  <2>1. cipher \in Ciphers
    <3>1. st.s.kexcfg \in Configs
      BY <1>0, Fields
    <3> QED
      BY <3>1, ConfigFields
  <2>2. 0 \in Sizes
    BY DEF Sizes, Ssh2TransportAssumption
  <2>3. x.s.csEpoch + 1 \in Nat
    BY <1>4, Fields
  <2> HIDE DEF cipher
  <2> QED
    BY <1>4, <2>1, <2>2, <2>3 DEF SshStates
<1>7. /\ s.seq = x.s.seq /\ s.csEpoch = st.s.csEpoch + 1 /\ s.scEpoch = st.s.scEpoch
      /\ s.open /\ s.why # "protocol" /\ s.deferred = <<>>
      /\ s.protocol_initial_phase_done = st.s.protocol_initial_phase_done
      /\ s.kex_in_progress /\ ~s.queueing /\ s.queue = st.s.queue
  BY <1>0, <1>4 DEF SshStates, Kept
<1> HIDE DEF s
<1>8. y \in States /\ y.s = s /\ y.w = x.w /\ y.a = st.a
  BY <1>4, <1>6 DEF States
<1> HIDE DEF y
<1>9. Kinds(x.w) = {"newkeys"}
  BY <1>5 DEF K
<1>10. AtEnd(s, x.w, v)
  <2>1. st.s.csEpoch = v.csEpoch + 0 /\ v.csEpoch \in Nat
    BY <1>0, ServerFields DEF AtEnd, Count
  <2> QED
    BY <1>5, <1>7, <1>9, <2>1 DEF AtEnd, Count
<1>11. Answers(s, r, v)
  BY <1>0, <1>7 DEF Answers
<1>12. InOrder(x.w, s.queue, v.got, a)
  BY <1>0, <1>5, <1>7 DEF InOrder, N
<1>13. Base(y, a, r, v)
  BY <1>0, <1>5, <1>7, <1>8, <1>10, <1>11, <1>12 DEF Base
<1>14. /\ Base(z, a, r, v) /\ Kinds(z.w) = Kinds(y.w) /\ z.a = y.a
       /\ z.s.queue = <<>> /\ z.s.kex_in_progress
       /\ z.s.queueing = y.s.queueing /\ z.s.offer = y.s.offer
  BY <1>7, <1>8, <1>9, <1>13, QueueSendIs
<1> HIDE DEF z
<1> DEFINE t == [z.s EXCEPT !.cr = "newkeys"]
           new == [z EXCEPT !.s = t]
<1>15. z \in States /\ z.s \in SshStates
  BY <1>14, BaseHas
<1>16. t \in SshStates /\ Alike(z.s, t) /\ t.cr = "newkeys" /\ t.offer = z.s.offer
       /\ t.kex_in_progress = z.s.kex_in_progress /\ t.queueing = z.s.queueing
       /\ t.queue = z.s.queue
  <2>1. "newkeys" \in CrStates
    BY DEF CrStates
  <2> QED
    BY <1>15, <2>1 DEF SshStates, Alike
<1>17. Goto(z, "newkeys") = new
  BY <1>15 DEF Goto, States
<1> HIDE DEF t
<1>18. new \in States /\ new.s = t /\ new.w = z.w /\ new.a = z.a
  BY <1>15, <1>16 DEF States
<1> HIDE DEF new
<1>19. Base(new, a, r, v)
  BY <1>14, <1>16, <1>18, BaseAlike
<1>20. Phase("newkeys", t.offer, Kinds(z.w), Kinds(r), Expects(v), v.offer)
  <2>1. Kinds(z.w) = {"newkeys"}
    BY <1>8, <1>9, <1>14
  <2> QED
    BY <2>1 DEF Phase
<1>21. Mode(new, r, v)
  BY <1>7, <1>8, <1>14, <1>16, <1>18, <1>20 DEF Mode
<1> QED
  BY <1>3, <1>8, <1>14, <1>17, <1>18, <1>19, <1>21, BaseIsGood DEF Goes

(* A packet has been taken from the stream to the client.                   *)
LEMMA Popped ==
    ASSUME Ssh2TransportAssumption, NEW st, NEW a, NEW r, NEW v, Base(st, a, r, v), r # <<>>
    PROVE  /\ Tail(r) \in Seq(ServerPackets) /\ Head(r) \in ServerPackets
           /\ Head(r).ep = st.s.scEpoch
           /\ Keyed(Tail(r), st.s.scEpoch + Count(Head(r).t = "newkeys")) /\ Ranked(Tail(r))
           /\ Kinds(Tail(r)) = Kinds(r) \ {Head(r).t}
           /\ Head(r).t \in Kex =>
                  /\ Head(r).t \in Kinds(r)
                  /\ \A t \in Kinds(r) : t = Head(r).t \/ Rank(Head(r).t) < Rank(t)
           /\ Head(r).t = "kexinit" => Head(r).offer = v.offer
           /\ Head(r).t = "data" => v.got > 0
           /\ \A i \in 1 .. Len(Tail(r)) : Tail(r)[i].t = "kexinit" => Tail(r)[i].offer = v.offer
           /\ \A i \in 1 .. Len(Tail(r)) : Tail(r)[i].t = "data" => v.got > 0
<1>0. /\ r \in Seq(ServerPackets) /\ st.s \in SshStates /\ Answers(st.s, r, v)
  BY BaseHas DEF Base
<1>1. st.s.scEpoch \in Nat
  BY <1>0, Fields
<1>2. Keyed(r, st.s.scEpoch) /\ Ranked(r)
  BY <1>0 DEF Answers
<1>3. /\ Tail(r) \in Seq(ServerPackets) /\ Head(r) \in ServerPackets /\ Head(r) = r[1]
      /\ Len(r) \in Nat /\ Len(r) > 0
      /\ \A i \in 1 .. Len(Tail(r)) : i + 1 \in 1 .. Len(r) /\ Tail(r)[i] = r[i + 1]
  BY <1>0, TailOf
<1>4. /\ Head(r).ep = st.s.scEpoch
      /\ Keyed(Tail(r), st.s.scEpoch + Count(Head(r).t = "newkeys"))
  BY <1>0, <1>1, <1>2, KeyedTail
<1>5. Ranked(Tail(r))
  BY <1>0, <1>2, RankedTail
<1>6. /\ Head(r).t \in Kex => Head(r).t \in Kinds(r)
      /\ Head(r).t \in Kex =>
             \A t \in Kinds(r) : t = Head(r).t \/ Rank(Head(r).t) < Rank(t)
      /\ Kinds(Tail(r)) = Kinds(r) \ {Head(r).t}
  BY <1>0, <1>2, HeadRank
<1>7. 1 \in 1 .. Len(r)
  BY <1>3
<1>8. /\ Head(r).t = "kexinit" => Head(r).offer = v.offer
      /\ Head(r).t = "data" => v.got > 0
  BY <1>0, <1>3, <1>7 DEF Answers
<1>9. /\ \A i \in 1 .. Len(Tail(r)) : Tail(r)[i].t = "kexinit" => Tail(r)[i].offer = v.offer
      /\ \A i \in 1 .. Len(Tail(r)) : Tail(r)[i].t = "data" => v.got > 0
  BY <1>0, <1>3 DEF Answers
<1> QED
  BY <1>3, <1>4, <1>5, <1>6, <1>8, <1>9

(* All but the server's NEWKEYS leave the keys as they are.                 *)
LEMMA BasePopped ==
    ASSUME Ssh2TransportAssumption, NEW st, NEW a, NEW r, NEW v, Base(st, a, r, v), r # <<>>,
           Head(r).t # "newkeys"
    PROVE  Base(st, a, Tail(r), v)
<1>0. /\ st.s \in SshStates /\ Answers(st.s, r, v) /\ st.s.scEpoch \in Nat
  <2>1. st.s \in SshStates /\ Answers(st.s, r, v)
    BY BaseHas DEF Base
  <2> QED
    BY <2>1, Fields
<1> DEFINE q == Tail(r)
           base == st.s.scEpoch
<1>1. /\ q \in Seq(ServerPackets) /\ Keyed(q, base + Count(Head(r).t = "newkeys")) /\ Ranked(q)
      /\ Kinds(q) = Kinds(r) \ {Head(r).t}
      /\ \A i \in 1 .. Len(q) : q[i].t = "kexinit" => q[i].offer = v.offer
      /\ \A i \in 1 .. Len(q) : q[i].t = "data" => v.got > 0
  BY Popped
<1>2. base + Count(Head(r).t = "newkeys") = base
  BY <1>0 DEF Count
<1>3. Keyed(q, base)
  BY <1>1, <1>2
<1>4. ("newkeys" \in Kinds(q)) = ("newkeys" \in Kinds(r))
  BY <1>1
<1>5. v.scEpoch = base + Count("newkeys" \in Kinds(q))
  BY <1>0, <1>4 DEF Answers
<1> HIDE DEF q
<1>6. Answers(st.s, q, v)
  BY <1>1, <1>3, <1>5 DEF Answers
<1> QED
  BY <1>1, <1>6 DEF Base, q

(* A packet that is not of an exchange. *)
LEMMA PassesBy ==
    ASSUME Ssh2TransportAssumption, NEW st, NEW a, NEW r, NEW v,
           Base(st, a, r, v), Mode(st, r, v), r # <<>>, Head(r).t \notin Kex
    PROVE  Base(st, a, Tail(r), v) /\ Mode(st, Tail(r), v)
<1>1. Head(r).t # "newkeys"
  BY DEF Kex, KexTypes
<1>2. Kinds(Tail(r)) = Kinds(r)
  <2>1. Kinds(Tail(r)) = Kinds(r) \ {Head(r).t}
    BY Popped
  <2>2. Kinds(r) \subseteq Kex
    BY DEF Kinds
  <2> QED
    BY <2>1, <2>2
<1> QED
  BY <1>1, <1>2, BasePopped DEF Mode

LEMMA GotReplyIs ==
    ASSUME Ssh2TransportAssumption, NEW st, NEW a, NEW r, NEW v, Exchanging(st, a, r, v),
           Kinds(st.w) = {}, Expects(v) = "newkeys", Kinds(r) = {"newkeys"}, NEW m
    PROVE  Goes(st, GotReply(st, m), a, r, v)
<1>1. CASE ~m.good
  BY <1>1, CloseIs DEF GotReply, Exchanging
<1>2. CASE m.good /\ st.s.stored
  BY <1>2, SendNewkeysIs DEF GotReply
<1>3. CASE m.good /\ ~st.s.stored
  <2>1. Phase("hostkey", st.s.offer, Kinds(st.w), Kinds(r), Expects(v), v.offer)
    BY DEF Phase
  <2>2. "hostkey" \in CrStates \ {"idle", "newkeys"} /\ "hostkey" # "askalg"
    BY DEF CrStates, Dialogues
  <2>3. Stays(st, Goto(st, "hostkey"), a, r, v)
    BY <2>1, <2>2, GotoIs
  <2> QED
    BY <1>3, <2>3, StaysGoes DEF GotReply
<1> QED
  BY <1>1, <1>2, <1>3

(* The server's NEWKEYS are taken: the keys and the phase after it.         *)
NewKeys(s, new) ==
    /\ new.open = s.open /\ new.why = s.why /\ new.deferred = s.deferred
    /\ new.protocol_initial_phase_done = s.protocol_initial_phase_done
    /\ new.seq = s.seq /\ new.csEpoch = s.csEpoch /\ new.scEpoch = s.scEpoch + 1
    /\ new.queue = s.queue

Between(st, r, v) ==
    \A o : Phase("idle", o, Kinds(st.w), Kinds(r), Expects(v), v.offer)

LEMMA NewkeysPopped ==
    ASSUME Ssh2TransportAssumption, NEW st, NEW a, NEW r, NEW v,
           Base(st, a, r, v), Mode(st, r, v), r # <<>>, Head(r).t = "newkeys",
           st.s.cr = "newkeys", NEW new \in States, new.w = st.w, NewKeys(st.s, new.s)
    PROVE  Base(new, a, Tail(r), v) /\ Between(new, Tail(r), v)
<1>0. /\ st \in States /\ st.s \in SshStates /\ Answers(st.s, r, v) /\ st.s.scEpoch \in Nat
      /\ v \in Servers
  <2>1. st \in States /\ st.s \in SshStates /\ Answers(st.s, r, v) /\ v \in Servers
    BY BaseHas DEF Base
  <2> QED
    BY <2>1, Fields
<1> DEFINE q == Tail(r)
           s == new.s
<1>1. /\ q \in Seq(ServerPackets) /\ Keyed(q, st.s.scEpoch + Count(Head(r).t = "newkeys"))
      /\ Ranked(q) /\ Kinds(q) = Kinds(r) \ {Head(r).t}
      /\ Head(r).t \in Kex => Head(r).t \in Kinds(r)
      /\ \A i \in 1 .. Len(q) : q[i].t = "kexinit" => q[i].offer = v.offer
      /\ \A i \in 1 .. Len(q) : q[i].t = "data" => v.got > 0
  BY Popped
<1>2. Keyed(q, s.scEpoch)
  BY <1>1 DEF Count, NewKeys
<1>3. "newkeys" \in Kinds(r) /\ "newkeys" \notin Kinds(q)
  BY <1>1 DEF Kex, KexTypes
<1>4. v.scEpoch = s.scEpoch + Count("newkeys" \in Kinds(q))
  BY <1>0, <1>3 DEF Answers, Count, NewKeys
<1>5. Kinds(q) = Kinds(r) \ {"newkeys"}
  BY <1>1
<1> HIDE DEF q
<1>6. Answers(s, q, v)
  BY <1>1, <1>2, <1>4 DEF Answers
<1>8. AtEnd(s, st.w, v)
  BY DEF Base, AtEnd, NewKeys
<1>9. Base(new, a, q, v)
  BY <1>1, <1>6, <1>8 DEF Base, NewKeys
<1>10. \A o : Phase("idle", o, Kinds(st.w), Kinds(q), Expects(v), v.offer)
  <2>1. Phase("newkeys", st.s.offer, Kinds(st.w), Kinds(r), Expects(v), v.offer)
    BY DEF Mode
  <2>2. \/ Kinds(st.w) = {"newkeys"} /\ Expects(v) = "newkeys" /\ Kinds(r) = {"newkeys"}
        \/ Kinds(st.w) = {} /\ Expects(v) = "idle" /\ Kinds(r) = {"newkeys"}
        \/ /\ Kinds(st.w) = {} /\ Expects(v) = "kexinit"
           /\ Kinds(r) = {"newkeys"} \cup Opening(v.offer)
    BY <2>1 DEF Phase
  <2>3. "newkeys" \notin Opening(v.offer)
    BY DEF Opening
  <2>4. \/ Kinds(st.w) = {"newkeys"} /\ Expects(v) = "newkeys" /\ Kinds(q) = {}
        \/ Kinds(st.w) = {} /\ Expects(v) = "idle" /\ Kinds(q) = {}
        \/ Kinds(st.w) = {} /\ Expects(v) = "kexinit" /\ Kinds(q) = Opening(v.offer)
    BY <1>5, <2>2, <2>3
  <2> QED
    BY <2>4 DEF Phase
<1> QED
  BY <1>9, <1>10 DEF q, Between

(* All is well after a packet from the server, by which the layers above    *)
(* may have been started.                                                   *)
Comes(st, new, r, v) ==
    /\ Good(new, new.a, r, v)
    /\ "newkeys" \in Kinds(st.w) => "newkeys" \in Kinds(new.w)
    /\ \/ new.a = st.a
       \/ new.s.open /\ Adds(st, new)

LEMMA GoesComes ==
    ASSUME NEW st, NEW new, NEW r, NEW v, Goes(st, new, st.a, r, v)
    PROVE  Comes(st, new, r, v)
  BY DEF Goes, Comes

LEMMA GotNewkeysIs ==
    ASSUME Ssh2TransportAssumption, NEW st, NEW r, NEW v,
           Base(st, st.a, r, v), Mode(st, r, v), r # <<>>, Head(r).t = "newkeys",
           st.s.cr = "newkeys"
    PROVE  Comes(st, GotNewkeys(st), Tail(r), v)
<1> DEFINE a == st.a
           q == Tail(r)
           n == [st.s EXCEPT !.incoming_data_size = 0, !.scEpoch = @ + 1]
           new == [st EXCEPT !.s = n]
<1>0. /\ st \in States /\ st.s \in SshStates /\ st.s.scEpoch + 1 \in Nat /\ 0 \in Sizes
      /\ ~st.s.queueing /\ st.s.queue = <<>> /\ st.a \in 0 .. MaxApp
      /\ (~st.s.protocol_initial_phase_done => st.a < MaxApp)
  <2>1. st \in States /\ st.s \in SshStates /\ st.a \in 0 .. MaxApp
    BY BaseHas
  <2>2. st.s.scEpoch + 1 \in Nat
    BY <2>1, Fields
  <2>3. 0 \in Sizes /\ MaxApp \in Nat \ {0}
    BY DEF Sizes, Ssh2TransportAssumption
  <2>4. ~st.s.queueing /\ st.s.queue = <<>>
    BY DEF Mode
  <2>5. ~st.s.protocol_initial_phase_done => st.a = 0
    BY DEF Base
  <2> QED
    BY <2>1, <2>2, <2>3, <2>4, <2>5
<1>1. n \in SshStates
  BY <1>0 DEF SshStates
<1>2. /\ n.open = st.s.open /\ n.why = st.s.why /\ n.deferred = st.s.deferred
      /\ n.protocol_initial_phase_done = st.s.protocol_initial_phase_done
      /\ n.seq = st.s.seq /\ n.csEpoch = st.s.csEpoch /\ n.scEpoch = st.s.scEpoch + 1
      /\ n.queue = st.s.queue /\ n.queueing = st.s.queueing /\ n.offer = st.s.offer
      /\ n.deferred_rekey_reason = st.s.deferred_rekey_reason
  BY <1>0 DEF SshStates
<1>3. [st EXCEPT !.s.incoming_data_size = 0, !.s.scEpoch = @ + 1] = new
  BY <1>0 DEF States
<1>4. Comes(st, GotNewkeys(st), q, v)
      <=> IF st.s.deferred_rekey_reason
          THEN LET x == BeginKeyExchange([new EXCEPT !.s.deferred_rekey_reason = FALSE])
               IN  Comes(st, x, q, v)
          ELSE LET done == Goto([new EXCEPT !.s = ScheduleRekey([@ EXCEPT
                                  !.kex_in_progress = FALSE,
                                  !.protocol_initial_phase_done = TRUE])], "idle")
               IN  IF st.s.protocol_initial_phase_done THEN Comes(st, done, q, v)
                   ELSE Comes(st, AppSend(done), q, v)
  <2> HIDE DEF new
  <2> DEFINE begun == BeginKeyExchange([new EXCEPT !.s.deferred_rekey_reason = FALSE])
             done == Goto([new EXCEPT !.s = ScheduleRekey([@ EXCEPT
                                  !.kex_in_progress = FALSE,
                                  !.protocol_initial_phase_done = TRUE])], "idle")
  <2>1. /\ st.s.deferred_rekey_reason => GotNewkeys(st) = begun
        /\ ~st.s.deferred_rekey_reason /\ st.s.protocol_initial_phase_done => GotNewkeys(st) = done
        /\ ~st.s.deferred_rekey_reason /\ ~st.s.protocol_initial_phase_done
               => GotNewkeys(st) = Then(done, AppSend)
    BY <1>3, Zenon DEF GotNewkeys, Then
  <2>2. Then(done, AppSend) = AppSend(done)
    <3> HIDE DEF done
    <3> QED
      BY DEF Then
  <2> QED
    BY <2>1, <2>2, Zenon
<1> HIDE DEF n
<1>5. ASSUME st.s.deferred_rekey_reason
      PROVE  LET x == BeginKeyExchange([new EXCEPT !.s.deferred_rekey_reason = FALSE])
             IN  Comes(st, x, q, v)
  <2> DEFINE s == [n EXCEPT !.deferred_rekey_reason = FALSE]
             y == [st EXCEPT !.s = s]
             x == BeginKeyExchange(y)
  <2>1. [new EXCEPT !.s.deferred_rekey_reason = FALSE] = y
    BY <1>0, <1>1 DEF States
  <2>2. /\ s \in SshStates
        /\ s.open = n.open /\ s.why = n.why /\ s.deferred = n.deferred
        /\ s.protocol_initial_phase_done = n.protocol_initial_phase_done
        /\ s.seq = n.seq /\ s.csEpoch = n.csEpoch /\ s.scEpoch = n.scEpoch
        /\ s.queue = n.queue
    BY <1>1, ZenonT(60) DEF SshStates
  <2> HIDE DEF s
  <2>3. y \in States /\ y.s = s /\ y.w = st.w /\ y.a = st.a
    BY <1>0, <2>2 DEF States
  <2> HIDE DEF y
  <2>4. NewKeys(st.s, y.s)
    BY <1>2, <2>2, <2>3 DEF NewKeys
  <2>5. Base(y, a, q, v) /\ Between(y, q, v)
    BY <2>3, <2>4, NewkeysPopped
  <2>6. /\ Base(y, a, q, v) /\ y.a = st.a
        /\ Phase("idle", y.s.offer, Kinds(y.w), Kinds(q), Expects(v), v.offer)
    BY <2>3, <2>5 DEF Between
  <2>7. Stays(y, x, a, q, v)
    BY <2>6, BeginIs
  <2> HIDE DEF x
  <2>8. Comes(st, x, q, v)
    BY <2>3, <2>6, <2>7, BaseIsGood DEF Stays, Comes
  <2> QED
    BY <2>1, <2>8 DEF x
<1>6. ASSUME ~st.s.deferred_rekey_reason
      PROVE  LET done == Goto([new EXCEPT !.s = ScheduleRekey([@ EXCEPT
                                  !.kex_in_progress = FALSE,
                                  !.protocol_initial_phase_done = TRUE])], "idle")
             IN  IF st.s.protocol_initial_phase_done THEN Comes(st, done, q, v)
                 ELSE Comes(st, AppSend(done), q, v)
  <2> DEFINE s == [n EXCEPT !.kex_in_progress = FALSE, !.protocol_initial_phase_done = TRUE]
             t == ScheduleRekey(s)
             u == [t EXCEPT !.cr = "idle"]
             z == [st EXCEPT !.s = n]
             done == [z EXCEPT !.s = u]
             Made == Goto([new EXCEPT !.s = ScheduleRekey([@ EXCEPT
                                  !.kex_in_progress = FALSE,
                                  !.protocol_initial_phase_done = TRUE])], "idle")
  <2>1. Made = done
    <3>1. new \in [s : SshStates, w : Seq(ClientPackets), a : 0 .. MaxApp] /\ new.s = n
      BY <1>0, <1>1 DEF States
    <3> HIDE DEF n, s
    <3>2. [new EXCEPT !.s = ScheduleRekey([@ EXCEPT !.kex_in_progress = FALSE,
                                                 !.protocol_initial_phase_done = TRUE])]
          = [new EXCEPT !.s = t]
      BY <3>1 DEF s
    <3> HIDE DEF t
    <3>3. Made = Goto([new EXCEPT !.s = t], "idle")
      BY <3>2
    <3> HIDE DEF Made
    <3>4. Goto([new EXCEPT !.s = t], "idle") = done
      BY <3>1 DEF Goto
    <3> QED
      BY <3>3, <3>4
  <2>2. /\ s \in SshStates /\ ~s.kex_in_progress /\ s.protocol_initial_phase_done
        /\ s.open = n.open /\ s.why = n.why /\ s.deferred = n.deferred
        /\ s.seq = n.seq /\ s.csEpoch = n.csEpoch /\ s.scEpoch = n.scEpoch
        /\ s.queue = n.queue /\ s.queueing = n.queueing
    BY <1>1, ZenonT(60) DEF SshStates
  <2> HIDE DEF s
  <2>3. /\ t \in SshStates /\ Alike(s, t) /\ (t.cfg.ssh_rekey_time # 0 => t.next_rekey)
        /\ t.kex_in_progress = s.kex_in_progress /\ t.queueing = s.queueing
    BY <2>2, ScheduleRekeyIs
  <2> HIDE DEF t
  <2>4. /\ u \in SshStates /\ Alike(s, u) /\ (u.cfg.ssh_rekey_time # 0 => u.next_rekey)
        /\ u.kex_in_progress = s.kex_in_progress /\ u.queueing = s.queueing /\ u.cr = "idle"
    BY <2>3, ZenonT(60) DEF SshStates, CrStates, Alike
  <2> HIDE DEF u
  <2>5. z \in States /\ z.s = n /\ z.w = st.w /\ z.a = st.a
    BY <1>0, <1>1 DEF States
  <2> HIDE DEF z
  <2>6. NewKeys(st.s, z.s)
    BY <1>2, <2>5 DEF NewKeys
  <2>7. Base(z, a, q, v) /\ Between(z, q, v)
    BY <2>6, <2>5, NewkeysPopped
  <2>8. done \in States /\ done.s = u /\ done.w = z.w /\ done.a = st.a
    BY <2>4, <2>5, <2>7 DEF States
  <2> HIDE DEF done
  <2>9. Base(done, a, q, v)
    <3>1. AtEnd(u, z.w, v) /\ Answers(u, q, v)
      BY <2>2, <2>4, <2>5, <2>7 DEF Base, Alike, AtEnd, Answers
    <3>2. u.queue = z.s.queue /\ u.open /\ u.why # "protocol" /\ u.deferred = <<>>
          /\ u.protocol_initial_phase_done
      BY <2>2, <2>4, <2>5, <2>7 DEF Base, Alike
    <3> QED
      BY <2>7, <2>8, <3>1, <3>2 DEF Base
  <2>10. Mode(done, q, v)
    <3>1. ~u.kex_in_progress /\ ~u.queueing /\ u.queue = <<>>
      BY <1>0, <1>2, <2>2, <2>4 DEF Alike
    <3>2. Phase("idle", u.offer, Kinds(z.w), Kinds(q), Expects(v), v.offer)
      BY <2>7 DEF Between
    <3> QED
      BY <2>4, <2>8, <3>1, <3>2 DEF Mode
  <2>11. Comes(st, done, q, v)
    BY <2>5, <2>8, <2>9, <2>10, BaseIsGood DEF Comes
  <2>12. ASSUME ~st.s.protocol_initial_phase_done
         PROVE  Comes(st, AppSend(done), q, v)
    <3>1. Base(done, done.a, q, v) /\ done.a < MaxApp /\ done.s.protocol_initial_phase_done
      BY <1>0, <2>2, <2>4, <2>8, <2>9, <2>12 DEF Alike
    <3>2. /\ Base(AppSend(done), AppSend(done).a, q, v) /\ Mode(AppSend(done), q, v)
          /\ Adds(done, AppSend(done))
      BY <2>10, <3>1, AppSendIs
    <3>3. AppSend(done).s.open /\ Good(AppSend(done), AppSend(done).a, q, v)
      BY <3>2, BaseHas, BaseIsGood
    <3> QED
      BY <2>5, <2>8, <3>2, <3>3 DEF Comes, Adds
  <2>13. Made = done /\ (IF st.s.protocol_initial_phase_done THEN Comes(st, done, q, v)
                         ELSE Comes(st, AppSend(done), q, v))
    BY <2>1, <2>11, <2>12
  <2> HIDE DEF Made
  <2>14. IF st.s.protocol_initial_phase_done THEN Comes(st, Made, q, v)
         ELSE Comes(st, AppSend(Made), q, v)
    BY <2>13
  <2> QED
    BY <2>14 DEF Made
<1> QED
  BY <1>4, <1>5, <1>6

(* The packet of an exchange that comes is the one the coroutine waits for. *)
LEMMA WhatComes ==
    ASSUME Ssh2TransportAssumption, NEW st, NEW a, NEW r, NEW v,
           Base(st, a, r, v), Mode(st, r, v), r # <<>>, Head(r).t \in KexTypes,
           st.s.cr \notin Dialogues
    PROVE  /\ st.s.cr \in {"idle", "kexinit"} =>
                  /\ Head(r).t = "kexinit" /\ Kinds(r) = Opening(v.offer)
                  /\ st.s.cr = "kexinit" => Begun(Kinds(st.w), {}, Expects(v), v.offer)
           /\ st.s.cr = "ignore" =>
                  /\ Head(r).t = "guess" /\ Kinds(r) = {"guess"} /\ st.s.offer = v.offer
                  /\ Begun(Kinds(st.w), {}, Expects(v), v.offer)
           /\ st.s.cr = "group" =>
                  /\ Head(r).t = "group" /\ Kinds(r) = {"group"}
                  /\ Kinds(st.w) = {} /\ Expects(v) = "dhinit"
           /\ st.s.cr = "reply" =>
                  /\ Head(r).t = "reply" /\ Kinds(r) = {"reply", "newkeys"}
                  /\ Kinds(st.w) = {} /\ Expects(v) = "newkeys"
           /\ st.s.cr = "newkeys" => Head(r).t = "newkeys"
           /\ st.s.cr \in {"idle", "kexinit", "ignore", "group", "reply", "newkeys"}
<1> DEFINE t == Head(r).t
           kr == Kinds(r)
           cr == st.s.cr
           o == v.offer
<1>1. t \in kr /\ \A u \in kr : u = t \/ Rank(t) < Rank(u)
  <2>1. t \in Kex
    BY DEF Kex
  <2> QED
    BY <2>1, Popped
<1>2. Phase(cr, st.s.offer, Kinds(st.w), kr, Expects(v), o)
  BY DEF Mode
<1>3. kr = Opening(o) => t = "kexinit"
  BY <1>1 DEF Opening, Rank
<1>4. kr = Awaited(o) => t = "guess" /\ kr = {"guess"}
  BY <1>1 DEF Awaited
<1>5. kr = {"newkeys"} \cup Opening(o) => t = "newkeys"
  BY <1>1 DEF Opening, Rank
<1>6. kr = {"reply", "newkeys"} => t = "reply"
  BY <1>1 DEF Rank
<1>7. kr # {}
  BY <1>1
<1>8. cr \in {"idle", "kexinit", "ignore", "group", "reply", "newkeys"}
  BY BaseHas, Fields DEF CrStates
<1> HIDE DEF t, kr, cr, o
<1>9. cr \in {"idle", "kexinit"} => kr = Opening(o) /\ (cr = "kexinit" => Begun(Kinds(st.w), {}, Expects(v), o))
  BY <1>2, <1>7 DEF Phase
<1>10. cr = "ignore" => kr = Awaited(o) /\ st.s.offer = o /\ Begun(Kinds(st.w), {}, Expects(v), o)
  BY <1>2 DEF Phase
<1>11. cr = "group" => kr = {"group"} /\ Kinds(st.w) = {} /\ Expects(v) = "dhinit"
  BY <1>2, <1>7 DEF Phase
<1>12. cr = "reply" => kr = {"reply", "newkeys"} /\ Kinds(st.w) = {} /\ Expects(v) = "newkeys"
  BY <1>2, <1>7 DEF Phase
<1>13. cr = "newkeys" => kr = {"newkeys"} \/ kr = {"newkeys"} \cup Opening(o)
  BY <1>2 DEF Phase
<1>14. cr = "group" => t = "group"
  BY <1>1, <1>11
<1>15. cr = "newkeys" => t = "newkeys"
  BY <1>1, <1>5, <1>13
<1> QED
  BY <1>3, <1>4, <1>6, <1>8, <1>9, <1>10, <1>11, <1>12, <1>14, <1>15 DEF t, kr, cr, o

(* The server's KEXINIT, when ours is on its way. *)
LEMMA KexinitComes ==
    ASSUME Ssh2TransportAssumption, NEW st, NEW a, NEW r, NEW v,
           Base(st, a, r, v), Mode(st, r, v), r # <<>>, Head(r).t = "kexinit",
           st.s.cr = "kexinit"
    PROVE  Goes(st, GotKexinit(st, Head(r)), a, Tail(r), v)
<1> DEFINE q == Tail(r)
           m == Head(r)
<1>1. /\ Kinds(r) = Opening(v.offer) /\ Begun(Kinds(st.w), {}, Expects(v), v.offer)
  <2>1. Head(r).t \in KexTypes /\ st.s.cr \notin Dialogues
    BY DEF KexTypes, Dialogues
  <2> QED
    BY <2>1, WhatComes
<1>2. Kinds(q) = Opening(v.offer) \ {"kexinit"} /\ m.offer = v.offer
  BY <1>1, Popped
<1>3. Base(st, a, q, v)
  BY BasePopped
<1>4. Exchanging(st, a, q, v)
  BY <1>3 DEF Exchanging, Mode
<1> HIDE DEF q, m
<1>5. Goes(st, GotKexinit(st, m), a, q, v)
  BY <1>1, <1>2, <1>4, GotKexinitIs
<1> QED
  BY <1>5 DEF q, m

LEMMA TransportIs ==
    ASSUME Ssh2TransportAssumption, NEW st, NEW r, NEW v,
           Base(st, st.a, r, v), Mode(st, r, v), r # <<>>, Head(r).t \in KexTypes,
           st.s.cr \notin Dialogues
    PROVE  Comes(st, Transport(st, Head(r)), Tail(r), v)
<1> DEFINE a == st.a
           q == Tail(r)
           m == Head(r)
           cr == st.s.cr
           new == Transport(st, m)
<1>1. /\ cr \in {"idle", "kexinit"} =>
             /\ m.t = "kexinit" /\ Kinds(r) = Opening(v.offer)
             /\ cr = "kexinit" => Begun(Kinds(st.w), {}, Expects(v), v.offer)
      /\ cr = "ignore" =>
             /\ m.t = "guess" /\ Kinds(r) = {"guess"} /\ st.s.offer = v.offer
             /\ Begun(Kinds(st.w), {}, Expects(v), v.offer)
      /\ cr = "group" =>
             /\ m.t = "group" /\ Kinds(r) = {"group"}
             /\ Kinds(st.w) = {} /\ Expects(v) = "dhinit"
      /\ cr = "reply" =>
             /\ m.t = "reply" /\ Kinds(r) = {"reply", "newkeys"}
             /\ Kinds(st.w) = {} /\ Expects(v) = "newkeys"
      /\ cr = "newkeys" => m.t = "newkeys"
      /\ cr \in {"idle", "kexinit", "ignore", "group", "reply", "newkeys"}
  BY WhatComes
<1>2. Kinds(q) = Kinds(r) \ {m.t}
  BY Popped
<1>3. m.t # "newkeys" => Base(st, a, q, v)
  BY BasePopped
<1>4. cr \in {"ignore", "group", "reply"} => Exchanging(st, a, q, v)
  BY <1>1, <1>3 DEF Exchanging, Mode
<1>5. Base(st, a, r, v)
  OBVIOUS
<1> HIDE DEF q
<1>6. ASSUME Goes(st, new, a, q, v)  PROVE Comes(st, new, q, v)
  BY <1>6, GoesComes
<1>7. ASSUME cr = "idle"  PROVE Comes(st, new, q, v)
  <2> DEFINE x == BeginKeyExchange(st)
             y == GotKexinit(x, m)
  <2>1. new = y
    BY <1>1, <1>7 DEF Transport, Then
  <2>2. Phase("idle", st.s.offer, Kinds(st.w), Kinds(r), Expects(v), v.offer)
    BY <1>7 DEF Mode
  <2>3. Stays(st, x, a, r, v) /\ x.s.cr = "kexinit"
    BY <1>5, <2>2, BeginIs
  <2> HIDE DEF x
  <2>4. /\ Base(x, a, r, v) /\ Mode(x, r, v) /\ x.a = a
        /\ "newkeys" \in Kinds(x.w) <=> "newkeys" \in Kinds(st.w)
    BY <2>3 DEF Stays
  <2>5. Goes(x, GotKexinit(x, Head(r)), a, Tail(r), v)
    BY <1>1, <1>7, <2>3, <2>4, KexinitComes
  <2>6. Goes(st, new, a, q, v)
    BY <2>1, <2>4, <2>5 DEF Goes, q
  <2> QED
    BY <1>6, <2>6
<1>8. ASSUME cr = "kexinit"  PROVE Comes(st, new, q, v)
  <2>1. new = GotKexinit(st, m)
    BY <1>1, <1>8 DEF Transport
  <2>2. Goes(st, GotKexinit(st, Head(r)), a, Tail(r), v)
    BY <1>1, <1>5, <1>8, KexinitComes
  <2> QED
    BY <1>6, <2>1, <2>2 DEF q
<1>9. ASSUME cr = "ignore"  PROVE Comes(st, new, q, v)
  <2>1. new = StartDiffieHellman(st)
    BY <1>9 DEF Transport
  <2>2. Kinds(q) = {}
    BY <1>1, <1>2, <1>9
  <2>3. Stays(st, StartDiffieHellman(st), a, q, v)
    BY <1>1, <1>4, <1>9, <2>2, StartIs
  <2> QED
    BY <1>6, <2>1, <2>3, StaysGoes
<1>10. ASSUME cr = "group"  PROVE Comes(st, new, q, v)
  <2>1. new = Goto(WriteNoqueue(st, Item("dhinit", 0)), "reply")
    BY <1>1, <1>10 DEF Transport, SendE
  <2>2. Kinds(q) = {} /\ Kinds(st.w) = {} /\ Expects(v) = "dhinit"
    BY <1>1, <1>2, <1>10
  <2>3. Fits(Kinds(st.w), v, {"dhinit"}, {})
    BY <2>2 DEF Fits, Expected
  <2>4. Phase("reply", st.s.offer, Kinds(st.w) \cup {"dhinit"}, Kinds(q), Expects(v), v.offer)
    BY <2>2 DEF Phase
  <2>5. Stays(st, Goto(WriteNoqueue(st, Item("dhinit", 0)), "reply"), a, q, v)
    BY <1>4, <1>10, <2>3, <2>4, KexSendIs
  <2> QED
    BY <1>6, <2>1, <2>5, StaysGoes
<1>11. ASSUME cr = "reply"  PROVE Comes(st, new, q, v)
  <2>1. new = GotReply(st, m)
    BY <1>1, <1>11 DEF Transport
  <2>2. Kinds(q) = {"newkeys"} /\ Kinds(st.w) = {} /\ Expects(v) = "newkeys"
    BY <1>1, <1>2, <1>11
  <2>3. Exchanging(st, a, q, v)
    BY <1>4, <1>11
  <2> HIDE DEF a, m, new
  <2>4. Goes(st, GotReply(st, m), a, q, v)
    BY <2>2, <2>3, GotReplyIs
  <2> QED
    BY <1>6, <2>1, <2>4
<1>12. ASSUME cr = "newkeys"  PROVE Comes(st, new, q, v)
  <2>1. new = GotNewkeys(st)
    BY <1>1, <1>12 DEF Transport
  <2>2. Comes(st, GotNewkeys(st), Tail(r), v)
    BY <1>1, <1>12, GotNewkeysIs
  <2> QED
    BY <2>1, <2>2 DEF q
<1> HIDE DEF new
<1>13. Comes(st, new, q, v)
  BY <1>1, <1>7, <1>8, <1>9, <1>10, <1>11, <1>12
<1> QED
  BY <1>13 DEF new, q

(* What ssh2_protocol() does with the packet that comes.                    *)
LEMMA DispatchIs ==
    ASSUME Ssh2TransportAssumption, NEW st, NEW r, NEW v,
           Base(st, st.a, r, v), Mode(st, r, v), r # <<>>, st.s.cr \notin Dialogues
    PROVE  Comes(st, Dispatch(st, Head(r)), Tail(r), v)
<1> DEFINE a == st.a
           q == Tail(r)
           m == Head(r)
           new == Dispatch(st, m)
<1>1. m \in ServerPackets /\ (m.t = "data" => v.got > 0)
  <2>1. Base(st, a, r, v)
    OBVIOUS
  <2> QED
    BY <2>1, Popped
<1>2. m.t \in KexTypes \cup {"data", "ignore", "unknown", "disconnect"}
  BY <1>1 DEF ServerPackets
<1>3. ASSUME m.t \in KexTypes  PROVE Comes(st, new, q, v)
  <2>1. new = Transport(st, m)
    BY <1>3 DEF Dispatch, KexTypes
  <2> HIDE DEF new
  <2>2. Comes(st, Transport(st, Head(r)), Tail(r), v)
    BY <1>3, TransportIs
  <2> QED
    BY <2>1, <2>2
<1>4. ASSUME m.t \in {"data", "ignore", "unknown", "disconnect"}
      PROVE  Comes(st, new, q, v)
  <2>1. Head(r).t \notin Kex
    BY <1>4 DEF Kex, KexTypes
  <2>2. Base(st, a, r, v)
    OBVIOUS
  <2>3. Base(st, a, q, v) /\ Mode(st, q, v)
    BY <2>1, <2>2, PassesBy
  <2>4. Comes(st, st, q, v)
    BY <2>3, BaseIsGood DEF Comes
  <2>5. CASE m.t = "ignore"
    BY <2>4, <2>5 DEF Dispatch, KexTypes
  <2>6. CASE m.t = "unknown"
    <3>1. new = SendNoqueue(st, Item("unimplemented", 0))
      BY <2>6 DEF Dispatch, KexTypes
    <3> HIDE DEF new, q, a
    <3>2. Stays(st, SendNoqueue(st, Item("unimplemented", 0)), a, q, v)
      BY <2>3, SendNoqueueIs
    <3> QED
      BY <3>1, <3>2, BaseIsGood DEF Stays, Comes, a
  <2>7. CASE m.t = "disconnect"
    <3>1. new = Close(st, "server")
      BY <2>7 DEF Dispatch, KexTypes
    <3> HIDE DEF new, q, a
    <3>2. Goes(st, Close(st, "server"), a, q, v)
      BY <2>3, CloseIs
    <3> QED
      BY <3>1, <3>2, GoesComes DEF a
  <2>8. CASE m.t = "data"
    <3>1. v.got \in Nat /\ a \in Nat /\ v.got <= a
      <4>1. v \in Servers /\ a \in Nat
        BY BaseHas
      <4>2. v.got \in Nat
        BY <4>1, ServerFields
      <4> QED
        BY <4>1, <4>2 DEF Base, InOrder
    <3>2. a # 0
      BY <1>1, <2>8, <3>1
    <3>3. st.s.protocol_initial_phase_done
      BY <3>2 DEF Base
    <3>4. new = st
      BY <2>8, <3>3 DEF Dispatch, KexTypes
    <3> QED
      BY <2>4, <3>4
  <2> QED
    BY <1>4, <2>5, <2>6, <2>7, <2>8
<1> HIDE DEF new
<1>5. Comes(st, new, q, v)
  BY <1>2, <1>3, <1>4
<1> QED
  BY <1>5 DEF new

LEMMA StillNoDialogue ==
    ASSUME Ssh2TransportAssumption, NEW st, NEW a, NEW r, NEW v,
           Base(st, a, r, v), Mode(st, r, v), st.s.cr \notin Dialogues
    PROVE  CheckIncoming(st).s.cr \notin Dialogues
<1>0. st \in States /\ st.s \in SshStates
  BY BaseHas
<1>1. ASSUME ~st.s.kex_in_progress  PROVE ClientRekey(st).s.cr \notin Dialogues
  <2>1. ASSUME ~st.s.rekeyBug  PROVE ClientRekey(st).s.cr \notin Dialogues
    <3>1. ClientRekey(st) = BeginKeyExchange(st)
      BY <2>1 DEF ClientRekey
    <3>2. Phase("idle", st.s.offer, Kinds(st.w), Kinds(r), Expects(v), v.offer)
      BY <1>1 DEF Mode
    <3>3. BeginKeyExchange(st).s.cr = "kexinit"
      BY <3>2, BeginIs
    <3> QED
      BY <3>1, <3>3 DEF Dialogues
  <2>2. ASSUME st.s.rekeyBug  PROVE ClientRekey(st).s.cr \notin Dialogues
    <3> DEFINE s == [st.s EXCEPT !.outgoing_data_size = 0, !.incoming_data_size = 0]
    <3>1. ClientRekey(st) = [st EXCEPT !.s = ScheduleRekey(s)]
      BY <2>2 DEF ClientRekey
    <3>2. s \in SshStates /\ s.cr = st.s.cr
      <4>1. 0 \in Sizes
        BY DEF Sizes, Ssh2TransportAssumption
      <4> QED
        BY <1>0, <4>1 DEF SshStates
    <3> HIDE DEF s
    <3>3. ScheduleRekey(s).cr = s.cr /\ ScheduleRekey(s) \in SshStates
      BY <3>2, ScheduleRekeyIs
    <3>4. [st EXCEPT !.s = ScheduleRekey(s)].s = ScheduleRekey(s)
      BY <1>0 DEF States
    <3> QED
      BY <3>1, <3>2, <3>3, <3>4
  <2> QED
    BY <1>0, <2>1, <2>2
<1> QED
  BY <1>1 DEF CheckIncoming, TooMuch

LEMMA GotPacketIs ==
    ASSUME Ssh2TransportAssumption, NEW st, NEW r, NEW v,
           Base(st, st.a, r, v), Mode(st, r, v), r # <<>>, st.s.cr \notin Dialogues
    PROVE  Comes(st, GotPacket(st, Head(r)), Tail(r), v)
<1> DEFINE a == st.a
           m == Head(r)
           size == Grow(st.s.incoming_data_size, 1)
           s == [st.s EXCEPT !.incoming_data_size = size]
           x == [st EXCEPT !.s = s]
           y == CheckIncoming(x)
           new == GotPacket(st, m)
<1>0. st \in States /\ st.s \in SshStates /\ Base(st, a, r, v)
  BY BaseHas
<1>1. m.ep = st.s.scEpoch
  BY <1>0, Popped
<1>2. new = Dispatch(y, m)
  <2>1. [st EXCEPT !.s.incoming_data_size = Grow(@, 1)] = x
    BY <1>0 DEF States, SshStates
  <2> HIDE DEF x
  <2> QED
    BY <1>1, <2>1, Zenon DEF GotPacket, Then
<1>3. size \in Sizes
  <2>1. st.s.incoming_data_size \in Sizes
    BY <1>0, Fields
  <2> QED
    BY <2>1, GrowType
<1> HIDE DEF size
<1>4. /\ s \in SshStates /\ Alike(st.s, s) /\ s.cr = st.s.cr /\ s.offer = st.s.offer
      /\ s.kex_in_progress = st.s.kex_in_progress /\ s.queueing = st.s.queueing
      /\ s.asks = st.s.asks /\ s.cfg = st.s.cfg /\ s.next_rekey = st.s.next_rekey
  BY <1>0, <1>3 DEF SshStates, Alike
<1> HIDE DEF s
<1>5. x \in States /\ x.s = s /\ x.w = st.w /\ x.a = st.a
  BY <1>0, <1>4 DEF States
<1> HIDE DEF x
<1>6. Base(x, a, r, v)
  BY <1>0, <1>4, <1>5, BaseAlike
<1>7. Mode(x, r, v)
  BY <1>4, <1>5 DEF Mode, Alike
<1>8. Stays(x, y, a, r, v) /\ y.s.cr \notin Dialogues
  BY <1>4, <1>5, <1>6, <1>7, ChecksAre, StillNoDialogue
<1> HIDE DEF y
<1>9. /\ Base(y, y.a, r, v) /\ Mode(y, r, v) /\ y.a = st.a
      /\ "newkeys" \in Kinds(y.w) <=> "newkeys" \in Kinds(st.w)
  BY <1>5, <1>8 DEF Stays
<1> HIDE DEF new
<1>10. Comes(y, Dispatch(y, Head(r)), Tail(r), v)
  BY <1>8, <1>9, DispatchIs
<1>11. Comes(st, new, Tail(r), v)
  BY <1>2, <1>9, <1>10 DEF Comes, Adds
<1> QED
  BY <1>11 DEF new

-------------------------------------------------------------------------------
(* The steps of the client *)

Used == [data : 0 .. MaxSrvData, requests : 0 .. MaxRequests]

LEMMA NowIs ==
    /\ Now.s = ssh /\ Now.w = toServer /\ Now.a = app
    /\ Now = [s |-> ssh, w |-> toServer, a |-> app]
  BY DEF Now

LEMMA OpenNow ==
    ASSUME IInv, ssh.open
    PROVE  /\ Base(Now, Now.a, toClient, srv) /\ Mode(Now, toClient, srv)
           /\ Now \in States /\ ssh \in SshStates /\ used \in Used
<1>1. Base(Now, Now.a, toClient, srv) /\ Mode(Now, toClient, srv)
  BY NowIs DEF IInv, Good
<1>2. Now \in States
  BY <1>1, BaseHas, SMTT(40)
<1> QED
  BY <1>1, <1>2, NowIs DEF IInv, States, Used

(* A step that makes the state of the client st. *)
LEMMA Becoming ==
    ASSUME NEW st, Good(st, st.a, toClient', srv'), Becomes(st), used' \in Used
    PROVE  IInv'
<1> DEFINE now == [s |-> ssh', w |-> toServer', a |-> app']
<1>1. st \in States /\ ssh' = st.s /\ toServer' = st.w /\ app' = st.a
  BY DEF Good, Becomes
<1>2. now = st /\ app' = st.a
  BY <1>1 DEF States
<1>3. Good(now, app', toClient', srv')
  BY <1>2
<1> HIDE <1>1, <1>2
<1> QED
  BY <1>3 DEF IInv, Now, Used, Good, Base, Mode, States, Readable, AtEnd, Answers, InOrder,
              Unbroken, Phase, Placed, Keyed, Ranked, Apart, Expected, Expects, Kinds, Rising, Nums,
              Before, Count, Rank, Begun, Opening, Awaited, AfterKexinits

(* What the client's steps leave alone, and what they do to what they do    *)
(* not: the server's stream is only read, of an exchange's packets NEWKEYS   *)
(* are not taken back, and the layers above send one packet at a time.      *)
ClientMoves ==
    /\ ssh.open /\ srv' = srv
    /\ \/ toClient' = toClient
       \/ toClient # <<>> /\ ~InDialogue /\ toClient' = Tail(toClient)
    /\ "newkeys" \in Kinds(toServer) => "newkeys" \in Kinds(toServer')
    /\ \/ app' = app
       \/ /\ ssh'.open /\ app' = app + 1
          /\ "newkeys" \in Kinds(toServer') => "newkeys" \in Kinds(toServer)

LEMMA Moving ==
    ASSUME ssh.open, srv' = srv, used' \in Used,
           toClient' = toClient \/ (toClient # <<>> /\ ~InDialogue /\ toClient' = Tail(toClient)),
           NEW st, Comes(Now, st, toClient', srv'), Becomes(st)
    PROVE  IInv' /\ ClientMoves
<1>1. Good(st, st.a, toClient', srv')
  BY DEF Comes
<1>2. ssh' = st.s /\ toServer' = st.w /\ app' = st.a
  BY DEF Becomes
<1>3. IInv'
  BY <1>1, Becoming
<1>4. ClientMoves
  BY <1>2, NowIs DEF ClientMoves, Comes, Adds
<1> QED
  BY <1>3, <1>4

LEMMA ReceiveIs ==
    ASSUME Ssh2TransportAssumption, IInv, Receive
    PROVE  IInv' /\ ClientMoves
<1> DEFINE new == GotPacket(Now, Head(toClient))
<1>1. /\ Base(Now, Now.a, toClient, srv) /\ Mode(Now, toClient, srv) /\ used \in Used
      /\ Now.s = ssh
  BY OpenNow, NowIs DEF Receive
<1>2. toClient # <<>> /\ Now.s.cr \notin Dialogues /\ Becomes(new)
      /\ toClient' = Tail(toClient) /\ srv' = srv /\ used' = used /\ ssh.open
      /\ ~InDialogue
  BY <1>1 DEF Receive, InDialogue
<1> HIDE DEF new
<1>3. Comes(Now, new, Tail(toClient), srv)
  BY <1>1, <1>2, GotPacketIs DEF new
<1> QED
  BY <1>1, <1>2, <1>3, Moving

(* askalg() returns. *)
LEMMA AlgorithmAccepted ==
    ASSUME Ssh2TransportAssumption, NEW st, NEW a, NEW r, NEW v,
           Base(st, a, r, v), Mode(st, r, v), st.s.cr = "askalg"
    PROVE  Stays(st, Then([st EXCEPT !.s.asks = @ - 1], Negotiated), a, r, v)
<1> DEFINE s == [st.s EXCEPT !.asks = @ - 1]
           x == [st EXCEPT !.s = s]
<1>0. st \in States /\ st.s \in SshStates /\ st.s.asks \in 0 .. 3 /\ st.s.asks > 0
  <2>1. st \in States /\ st.s \in SshStates
    BY BaseHas
  <2> QED
    BY <2>1, Fields DEF Mode
<1>1. Then([st EXCEPT !.s.asks = @ - 1], Negotiated) = Negotiated(x)
  <2>1. [st EXCEPT !.s.asks = @ - 1] = x
    BY <1>0 DEF States
  <2> HIDE DEF x
  <2> QED
    BY <2>1, Zenon DEF Then
<1>2. st.s.asks - 1 \in 0 .. 3
  BY <1>0
<1>3. /\ s \in SshStates /\ Alike(st.s, s) /\ s.offer = st.s.offer
      /\ s.kex_in_progress = st.s.kex_in_progress /\ s.queueing = st.s.queueing
  BY <1>0, <1>2 DEF SshStates, Alike
<1> HIDE DEF s
<1>4. x \in States /\ x.s = s /\ x.w = st.w /\ x.a = st.a
  BY <1>0, <1>3 DEF States
<1> HIDE DEF x
<1>5. Base(x, a, r, v)
  BY <1>3, <1>4, BaseAlike
<1>6. /\ Begun(Kinds(x.w), {}, Expects(v), v.offer) /\ x.s.offer = v.offer
      /\ Kinds(r) = Awaited(v.offer)
  BY <1>3, <1>4 DEF Mode, Phase
<1>7. Exchanging(x, a, r, v)
  BY <1>3, <1>4, <1>5 DEF Exchanging, Mode
<1>8. Stays(x, Negotiated(x), a, r, v)
  BY <1>6, <1>7, NegotiatedIs
<1> QED
  BY <1>1, <1>4, <1>8 DEF Stays

(* verify_ssh_host_key() returns. *)
LEMMA HostKeyAccepted ==
    ASSUME Ssh2TransportAssumption, NEW st, NEW a, NEW r, NEW v,
           Base(st, a, r, v), Mode(st, r, v), st.s.cr = "hostkey", NEW store \in BOOLEAN
    PROVE  Goes(st, Then([st EXCEPT !.s.stored = store], SendNewkeys), a, r, v)
<1> DEFINE s == [st.s EXCEPT !.stored = store]
           x == [st EXCEPT !.s = s]
<1>0. st \in States /\ st.s \in SshStates
  BY BaseHas
<1>1. Then([st EXCEPT !.s.stored = store], SendNewkeys) = SendNewkeys(x)
  BY <1>0 DEF Then, States
<1>3. /\ s \in SshStates /\ Alike(st.s, s)
      /\ s.kex_in_progress = st.s.kex_in_progress /\ s.queueing = st.s.queueing
  BY <1>0, ZenonT(60) DEF SshStates, Alike
<1> HIDE DEF s
<1>4. x \in States /\ x.s = s /\ x.w = st.w /\ x.a = st.a
  BY <1>0, <1>3 DEF States
<1> HIDE DEF x
<1>5. Base(x, a, r, v)
  BY <1>3, <1>4, BaseAlike
<1>6. Kinds(x.w) = {} /\ Expects(v) = "newkeys" /\ Kinds(r) = {"newkeys"}
  BY <1>4 DEF Mode, Phase
<1>7. Exchanging(x, a, r, v)
  BY <1>3, <1>4, <1>5 DEF Exchanging, Mode
<1>8. Goes(x, SendNewkeys(x), a, r, v)
  BY <1>6, <1>7, SendNewkeysIs
<1> QED
  BY <1>1, <1>4, <1>8 DEF Goes

(* A step of the client alone, by which nothing is sent from above. *)
LEMMA Staying ==
    ASSUME IInv, ssh.open, NEW new, NEW a, a = app, Goes(Now, new, a, toClient, srv),
           Becomes(new), toClient' = toClient, srv' = srv, used' \in Used
    PROVE  IInv' /\ ClientMoves
<1>1. Comes(Now, new, toClient, srv)
  BY NowIs, GoesComes
<1> QED
  BY <1>1, Moving

LEMMA AcceptIs ==
    ASSUME Ssh2TransportAssumption, IInv, NEW store \in BOOLEAN, Accept(store)
    PROVE  IInv' /\ ClientMoves
<1>1. /\ Base(Now, Now.a, toClient, srv) /\ Mode(Now, toClient, srv) /\ used \in Used
      /\ Now.s = ssh /\ Now.a = app
  BY OpenNow, NowIs DEF Accept
<1>2. toClient' = toClient /\ srv' = srv /\ used' = used /\ ssh.open
  BY DEF Accept
<1>3. ASSUME ssh.cr = "askalg", Becomes(Then([Now EXCEPT !.s.asks = @ - 1], Negotiated))
      PROVE  IInv' /\ ClientMoves
  <2> DEFINE new == Then([Now EXCEPT !.s.asks = @ - 1], Negotiated)
  <2>1. Goes(Now, new, Now.a, toClient, srv)
    BY <1>1, <1>3, AlgorithmAccepted, StaysGoes
  <2>2. Becomes(new)
    BY <1>3
  <2> HIDE DEF new
  <2> QED
    BY <1>1, <1>2, <2>1, <2>2, Staying
<1>4. ASSUME ssh.cr = "hostkey", Becomes(Then([Now EXCEPT !.s.stored = store], SendNewkeys))
      PROVE  IInv' /\ ClientMoves
  <2> DEFINE new == Then([Now EXCEPT !.s.stored = store], SendNewkeys)
  <2>1. Goes(Now, new, Now.a, toClient, srv)
    BY <1>1, <1>4, HostKeyAccepted
  <2>2. Becomes(new)
    BY <1>4
  <2> HIDE DEF new
  <2> QED
    BY <1>1, <1>2, <2>1, <2>2, Staying
<1> QED
  BY <1>3, <1>4 DEF Accept

LEMMA RefuseIs ==
    ASSUME Ssh2TransportAssumption, IInv, Refuse
    PROVE  IInv' /\ ClientMoves
<1> DEFINE new == Close(Now, "user")
<1>1. Base(Now, Now.a, toClient, srv) /\ used \in Used /\ Now.a = app
  BY OpenNow, NowIs DEF Refuse
<1>2. Becomes(new) /\ toClient' = toClient /\ srv' = srv /\ used' = used /\ ssh.open
  BY DEF Refuse
<1>3. Goes(Now, new, Now.a, toClient, srv)
  BY <1>1, CloseIs
<1> HIDE DEF new
<1> QED
  BY <1>1, <1>2, <1>3, Staying

LEMMA AppSendsIs ==
    ASSUME Ssh2TransportAssumption, IInv, AppSends
    PROVE  IInv' /\ ClientMoves
<1>1. /\ Base(Now, Now.a, toClient, srv) /\ Mode(Now, toClient, srv) /\ used \in Used
      /\ Now.s.protocol_initial_phase_done /\ Now.a < MaxApp
  BY OpenNow, NowIs DEF AppSends, AppMaySend
<1>2. toClient' = toClient /\ srv' = srv /\ used' = used /\ ssh.open
  BY NowIs DEF AppSends, AppMaySend
<1>3. ASSUME NEW new, Becomes(new), Base(new, new.a, toClient, srv), Mode(new, toClient, srv),
             Adds(Now, new)
      PROVE  IInv' /\ ClientMoves
  <2>1. Comes(Now, new, toClient, srv)
    BY <1>3, BaseHas, BaseIsGood DEF Comes, Adds
  <2> QED
    BY <1>1, <1>2, <1>3, <2>1, Moving
<1>4. /\ Base(AppSend(Now), AppSend(Now).a, toClient, srv) /\ Mode(AppSend(Now), toClient, srv)
      /\ Adds(Now, AppSend(Now))
  BY <1>1, AppSendIs
<1>5. /\ Base(AppSendPadded(Now), AppSendPadded(Now).a, toClient, srv)
      /\ Mode(AppSendPadded(Now), toClient, srv) /\ Adds(Now, AppSendPadded(Now))
  BY <1>1, AppSendPaddedIs
<1> QED
  BY <1>3, <1>4, <1>5 DEF AppSends

LEMMA RequestIs ==
    ASSUME Ssh2TransportAssumption, IInv, used.requests < MaxRequests,
           used' = [used EXCEPT !.requests = @ + 1]
    PROVE  used' \in Used
<1>1. used \in Used /\ MaxRequests \in Nat
  BY DEF IInv, Used, Ssh2TransportAssumption
<1>2. used.requests + 1 \in 0 .. MaxRequests
  BY <1>1 DEF Used
<1> QED
  BY <1>1, <1>2 DEF Used

LEMMA PingIs ==
    ASSUME Ssh2TransportAssumption, IInv, Ping
    PROVE  IInv' /\ ClientMoves
<1> DEFINE new == SendNoqueue(Now, Item("ignore", 0))
<1>1. /\ Base(Now, Now.a, toClient, srv) /\ Mode(Now, toClient, srv) /\ Now.a = app
  BY OpenNow, NowIs DEF Ping
<1>2. /\ Becomes(new) /\ toClient' = toClient /\ srv' = srv /\ ssh.open
      /\ used.requests < MaxRequests /\ used' = [used EXCEPT !.requests = @ + 1]
  BY DEF Ping
<1>3. used' \in Used
  BY <1>2, RequestIs
<1>4. Stays(Now, new, Now.a, toClient, srv)
  BY <1>1, SendNoqueueIs
<1> HIDE DEF new
<1> QED
  BY <1>1, <1>2, <1>3, <1>4, Staying, StaysGoes

LEMMA UserRekeysIs ==
    ASSUME Ssh2TransportAssumption, IInv, UserRekeys
    PROVE  IInv' /\ ClientMoves
<1> DEFINE new == ClientRekey(Now)
<1>1. /\ Base(Now, Now.a, toClient, srv) /\ Mode(Now, toClient, srv) /\ Now.a = app
      /\ ~Now.s.kex_in_progress
  BY OpenNow, NowIs DEF UserRekeys
<1>2. /\ Becomes(new) /\ toClient' = toClient /\ srv' = srv /\ ssh.open
      /\ used.requests < MaxRequests /\ used' = [used EXCEPT !.requests = @ + 1]
  BY DEF UserRekeys, Request
<1>3. used' \in Used
  BY <1>2, RequestIs
<1>4. Stays(Now, new, Now.a, toClient, srv)
  BY <1>1, RekeyWhenIdle
<1> HIDE DEF new
<1> QED
  BY <1>1, <1>2, <1>3, <1>4, Staying, StaysGoes

(* ssh2_timer(): the timer is used up, and either starts an exchange or has *)
(* no meaning any more.                                                     *)
LEMMA TimerExpires ==
    ASSUME Ssh2TransportAssumption, NEW st, NEW a, NEW r, NEW v,
           Base(st, a, r, v), Mode(st, r, v)
    PROVE  LET x == [st EXCEPT !.s.next_rekey = FALSE]
               new == IF ~st.s.kex_in_progress /\ st.s.cfg.ssh_rekey_time # 0
                      THEN Then(x, ClientRekey) ELSE x
           IN  Stays(st, new, a, r, v)
<1> DEFINE s == [st.s EXCEPT !.next_rekey = FALSE]
           x == [st EXCEPT !.s = s]
           y == [st EXCEPT !.s.next_rekey = FALSE]
           z == IF ~st.s.kex_in_progress /\ st.s.cfg.ssh_rekey_time # 0
                THEN Then(y, ClientRekey) ELSE y
<1>0. st \in States /\ st.s \in SshStates
  BY BaseHas
<1>1. y = x
  BY <1>0 DEF States
<1>2. /\ s \in SshStates /\ Alike(st.s, s) /\ s.offer = st.s.offer /\ s.cr = st.s.cr
      /\ s.kex_in_progress = st.s.kex_in_progress /\ s.queueing = st.s.queueing
      /\ s.asks = st.s.asks /\ s.cfg = st.s.cfg
  BY <1>0, ZenonT(60) DEF SshStates, Alike
<1> HIDE DEF s
<1>3. x \in States /\ x.s = s /\ x.w = st.w /\ x.a = st.a
  BY <1>0, <1>2 DEF States
<1> HIDE DEF x, y
<1>4. Base(x, a, r, v)
  BY <1>2, <1>3, BaseAlike
<1>5. ASSUME ~st.s.kex_in_progress, st.s.cfg.ssh_rekey_time # 0
      PROVE  Stays(st, z, a, r, v)
  <2>1. z = ClientRekey(x)
    BY <1>1, <1>5, Zenon DEF Then
  <2>2. /\ ~x.s.kex_in_progress /\ x.s.cr = "idle"
        /\ Phase("idle", x.s.offer, Kinds(x.w), Kinds(r), Expects(v), v.offer)
    BY <1>2, <1>3, <1>5 DEF Mode
  <2>3. ~x.s.queueing /\ x.s.queue = <<>>
    BY <1>2, <1>3, <2>2 DEF Mode, Alike
  <2>4. Stays(x, ClientRekey(x), a, r, v)
    BY <1>4, <2>2, <2>3, ClientRekeyIs
  <2> QED
    BY <1>3, <2>1, <2>4 DEF Stays
<1>6. ASSUME ~(~st.s.kex_in_progress /\ st.s.cfg.ssh_rekey_time # 0)
      PROVE  Stays(st, z, a, r, v)
  <2>1. z = x
    BY <1>1, <1>6
  <2>2. Mode(x, r, v)
    BY <1>2, <1>3, <1>6 DEF Mode, Alike
  <2> HIDE DEF z
  <2> QED
    BY <1>3, <1>4, <2>1, <2>2 DEF Stays
<1> HIDE DEF z
<1>7. Stays(st, z, a, r, v)
  BY <1>5, <1>6
<1> QED
  BY <1>7 DEF z, y

LEMMA TimerIs ==
    ASSUME Ssh2TransportAssumption, IInv, Timer
    PROVE  IInv' /\ ClientMoves
<1> DEFINE x == [Now EXCEPT !.s.next_rekey = FALSE]
           new == IF ~ssh.kex_in_progress /\ ssh.cfg.ssh_rekey_time # 0
                  THEN Then(x, ClientRekey) ELSE x
<1>1. /\ Base(Now, Now.a, toClient, srv) /\ Mode(Now, toClient, srv) /\ Now.a = app
      /\ Now.s = ssh
  BY OpenNow, NowIs DEF Timer
<1>2. /\ Becomes(new) /\ toClient' = toClient /\ srv' = srv /\ ssh.open
      /\ used.requests < MaxRequests /\ used' = [used EXCEPT !.requests = @ + 1]
  BY DEF Timer, Request
<1>3. used' \in Used
  BY <1>2, RequestIs
<1>4. Stays(Now, new, Now.a, toClient, srv)
  <2>1. LET y == [Now EXCEPT !.s.next_rekey = FALSE]
            z == IF ~Now.s.kex_in_progress /\ Now.s.cfg.ssh_rekey_time # 0
                 THEN Then(y, ClientRekey) ELSE y
        IN  Stays(Now, z, Now.a, toClient, srv)
    BY <1>1, TimerExpires
  <2> HIDE DEF x
  <2>2. Stays(Now, IF ~Now.s.kex_in_progress /\ Now.s.cfg.ssh_rekey_time # 0
                 THEN Then(x, ClientRekey) ELSE x, Now.a, toClient, srv)
    BY <2>1 DEF x
  <2>3. Now.s = ssh
    BY <1>1
  <2> QED
    BY <2>2, NowIs, Zenon
<1> HIDE DEF new
<1> QED
  BY <1>1, <1>2, <1>3, <1>4, Staying, StaysGoes

(* ssh_reconfig() *)
LEMMA ReconfigureIs ==
    ASSUME Ssh2TransportAssumption, NEW st, NEW a, NEW r, NEW v,
           Base(st, a, r, v), Mode(st, r, v), NEW new \in Configs, NEW late \in BOOLEAN
    PROVE  Stays(st, Reconfigure(st, new, late), a, r, v)
<1> DEFINE old == st.s.cfg
           timeChanged == new.ssh_rekey_time \notin {old.ssh_rekey_time, 0}
           overLimit == /\ new.max_data_size \notin {old.max_data_size, 0}
                        /\ \/ st.s.outgoing_data_size > new.max_data_size
                           \/ st.s.incoming_data_size > new.max_data_size
           mandatory == new.cipher # old.cipher
           set == st.s.next_rekey \/ (timeChanged /\ ~late)
           s == [st.s EXCEPT !.cfg = new, !.next_rekey = set]
           x == [st EXCEPT !.s = s]
           now == [st EXCEPT !.s.cfg = new, !.s.next_rekey = @ \/ (timeChanged /\ ~late)]
           n == s.deferred_rekey_reason \/ mandatory
           t == [s EXCEPT !.deferred_rekey_reason = n]
           y == [st EXCEPT !.s = t]
           some == (timeChanged /\ late) \/ overLimit \/ mandatory
<1>0. st \in States /\ st.s \in SshStates
  BY BaseHas
<1>1. now = x
  BY <1>0 DEF States, SshStates
<1>2. Reconfigure(st, new, late)
      = IF ~some THEN now
        ELSE IF ~st.s.kex_in_progress THEN Then(now, ClientRekey)
        ELSE [now EXCEPT !.s.deferred_rekey_reason = @ \/ mandatory]
  BY Zenon DEF Reconfigure
<1> DEFINE z == Reconfigure(st, new, late)
<1>3. set \in BOOLEAN /\ mandatory \in BOOLEAN
  BY <1>0, Fields
<1>4. ~some /\ new.ssh_rekey_time # 0 /\ ~set => old.ssh_rekey_time # 0 /\ ~st.s.next_rekey
  OBVIOUS
<1> HIDE DEF set, mandatory, some, now, z
<1>5. /\ s \in SshStates /\ Alike(st.s, s) /\ s.offer = st.s.offer /\ s.cr = st.s.cr
      /\ s.kex_in_progress = st.s.kex_in_progress /\ s.queueing = st.s.queueing
      /\ s.asks = st.s.asks /\ s.cfg = new /\ s.next_rekey = set
  BY <1>0, <1>3, ZenonT(60) DEF SshStates, Alike
<1> HIDE DEF s
<1>6. n \in BOOLEAN
  BY <1>3, <1>5, Fields
<1> HIDE DEF n
<1>7. /\ t \in SshStates /\ Alike(s, t) /\ t.offer = s.offer /\ t.cr = s.cr
      /\ t.kex_in_progress = s.kex_in_progress /\ t.queueing = s.queueing
      /\ t.asks = s.asks /\ t.cfg = s.cfg /\ t.next_rekey = s.next_rekey
  BY <1>5, <1>6, ZenonT(60) DEF SshStates, Alike
<1>8. x \in States /\ x.s = s /\ x.w = st.w /\ x.a = st.a
  BY <1>0, <1>5 DEF States
<1>9. [x EXCEPT !.s.deferred_rekey_reason = @ \/ mandatory] = y
  BY <1>0, <1>8 DEF States, n
<1> HIDE DEF t
<1>10. y \in States /\ y.s = t /\ y.w = st.w /\ y.a = st.a
  BY <1>0, <1>7 DEF States
<1> HIDE DEF x, y
<1>11. Base(x, a, r, v)
  BY <1>5, <1>8, BaseAlike
<1>12. ASSUME ~some  PROVE Stays(st, z, a, r, v)
  <2>1. z = x
    BY <1>1, <1>2, <1>12 DEF z
  <2>2. ~x.s.kex_in_progress /\ x.s.cfg.ssh_rekey_time # 0 => x.s.next_rekey
    BY <1>4, <1>5, <1>8, <1>12 DEF Mode
  <2>3. Mode(x, r, v)
    BY <1>5, <1>8, <2>2 DEF Mode, Alike
  <2> QED
    BY <1>8, <1>11, <2>1, <2>3 DEF Stays
<1>13. ASSUME some, ~st.s.kex_in_progress  PROVE Stays(st, z, a, r, v)
  <2>1. z = ClientRekey(x)
    BY <1>1, <1>2, <1>13, Zenon DEF Then, z
  <2>2. /\ ~x.s.kex_in_progress /\ x.s.cr = "idle"
        /\ Phase("idle", x.s.offer, Kinds(x.w), Kinds(r), Expects(v), v.offer)
    BY <1>5, <1>8, <1>13 DEF Mode
  <2>3. ~x.s.queueing /\ x.s.queue = <<>>
    BY <1>5, <1>8, <2>2 DEF Mode, Alike
  <2>4. Stays(x, ClientRekey(x), a, r, v)
    BY <1>11, <2>2, <2>3, ClientRekeyIs
  <2> QED
    BY <1>8, <2>1, <2>4 DEF Stays
<1>14. ASSUME some, st.s.kex_in_progress  PROVE Stays(st, z, a, r, v)
  <2>1. z = y
    BY <1>1, <1>2, <1>9, <1>14 DEF z
  <2>2. Alike(st.s, y.s)
    BY <1>5, <1>7, <1>10 DEF Alike
  <2>3. Base(y, a, r, v)
    BY <1>10, <2>2, BaseAlike
  <2>4. Mode(y, r, v)
    BY <1>5, <1>7, <1>10, <1>14, <2>2 DEF Mode, Alike
  <2> QED
    BY <1>10, <2>1, <2>3, <2>4 DEF Stays
<1>15. Stays(st, z, a, r, v)
  BY <1>12, <1>13, <1>14
<1> QED
  BY <1>15 DEF z

LEMMA ReconfigIs ==
    ASSUME Ssh2TransportAssumption, IInv, Reconfig
    PROVE  IInv' /\ ClientMoves
<1>1. /\ Base(Now, Now.a, toClient, srv) /\ Mode(Now, toClient, srv) /\ Now.a = app
  BY OpenNow, NowIs DEF Reconfig
<1>2. /\ toClient' = toClient /\ srv' = srv /\ ssh.open
      /\ used.requests < MaxRequests /\ used' = [used EXCEPT !.requests = @ + 1]
  BY DEF Reconfig, Request
<1>3. used' \in Used
  BY <1>2, RequestIs
<1>4. PICK new \in Configs, late \in BOOLEAN : Becomes(Reconfigure(Now, new, late))
  BY DEF Reconfig
<1> DEFINE x == Reconfigure(Now, new, late)
<1>5. Stays(Now, x, Now.a, toClient, srv)
  BY <1>1, ReconfigureIs
<1>6. Becomes(x)
  BY <1>4
<1> HIDE DEF x
<1> QED
  BY <1>1, <1>2, <1>3, <1>5, <1>6, Staying, StaysGoes

-------------------------------------------------------------------------------
(* Lemmas about the two streams at the server's end *)

(* The server v has taken p and is now new. *)
Takes(p, v, new) ==
    /\ new \in Servers /\ new.ok
    /\ new.seq = (v.seq + 1) % SequenceMod
    /\ new.csEpoch = v.csEpoch + Count(p.t = "newkeys")
    /\ new.got = IF p.t = "app" THEN p.n ELSE v.got
    /\ new.inKex <=> Expects(new) \in {"gexrequest", "dhinit", "newkeys"}
    /\ new.inKex => p.t = "kexinit" \/ (v.inKex /\ p.t # "newkeys")

LEMMA TakenReads ==
    ASSUME Ssh2TransportAssumption, NEW w \in Seq(ClientPackets), w # <<>>, NEW v \in Servers,
           Readable(w, v), NEW new, Takes(Head(w), v, new),
           Expected(Kinds(w) \ {Head(w).t}, Expects(new), new.offer)
    PROVE  Readable(Tail(w), new)
<1> DEFINE p == Head(w)
           q == Tail(w)
<1>0. /\ v.seq \in 0 .. SequenceMod - 1 /\ v.csEpoch \in Nat /\ v.inKex \in BOOLEAN
      /\ new \in Servers /\ new.inKex \in BOOLEAN /\ SequenceMod \in Nat \ {0}
  BY ServerFields DEF Takes, Ssh2TransportAssumption
<1>1. /\ Placed(w, v.seq) /\ Keyed(w, v.csEpoch) /\ Ranked(w) /\ Apart(w, v.inKex)
  BY DEF Readable
<1>2. Placed(q, new.seq)
  <2>1. Placed(q, (v.seq + 1) % SequenceMod)
    BY <1>0, <1>1, PlacedTail
  <2> QED
    BY <2>1 DEF Takes
<1>3. Keyed(q, new.csEpoch)
  <2>1. Keyed(q, v.csEpoch + Count(Head(w).t = "newkeys"))
    BY <1>0, <1>1, KeyedTail
  <2> QED
    BY <2>1 DEF Takes
<1>4. Ranked(q) /\ Kinds(q) = Kinds(w) \ {p.t}
  BY <1>1, RankedTail, HeadRank
<1>5. Apart(q, new.inKex)
  BY <1>0, <1>1, ApartTail DEF Takes
<1> QED
  BY <1>2, <1>3, <1>4, <1>5 DEF Readable, Takes

LEMMA TakenAtEnd ==
    ASSUME Ssh2TransportAssumption, NEW w \in Seq(ClientPackets), w # <<>>, NEW v \in Servers,
           Readable(w, v), NEW new, Takes(Head(w), v, new), NEW s, AtEnd(s, w, v)
    PROVE  AtEnd(s, Tail(w), new)
<1> DEFINE p == Head(w)
           q == Tail(w)
<1>0. /\ v.seq \in Nat /\ v.csEpoch \in Nat /\ SequenceMod \in Nat \ {0}
      /\ Len(w) \in Nat /\ Len(w) > 0 /\ Len(q) = Len(w) - 1 /\ Ranked(w)
  <2>1. SequenceMod \in Nat \ {0} /\ Ranked(w) /\ v.seq \in Nat /\ v.csEpoch \in Nat
    BY ServerFields DEF Ssh2TransportAssumption, Readable
  <2> QED
    BY <2>1, TailOf
<1>1. Kinds(q) = Kinds(w) \ {p.t} /\ (p.t \in Kex => p.t \in Kinds(w))
  BY <1>0, HeadRank
<1>2. s.seq = (new.seq + Len(q)) % SequenceMod
  <2> DEFINE n == Len(q)
             i == v.seq
  <2>1. n \in Nat /\ i \in Nat /\ Len(w) = n + 1
    BY <1>0
  <2>2. s.seq = (i + (n + 1)) % SequenceMod /\ new.seq = (i + 1) % SequenceMod
    BY <2>1 DEF AtEnd, Takes
  <2> HIDE DEF n, i
  <2>3. (((i + 1) % SequenceMod) + n) % SequenceMod = ((i + 1) + n) % SequenceMod
    <3>1. i + 1 \in Nat
      BY <2>1
    <3> QED
      BY <1>0, <2>1, <3>1, ModAdd
  <2>4. (i + 1) + n = i + (n + 1)
    BY <2>1
  <2> QED
    BY <2>2, <2>3, <2>4 DEF n
<1>3. s.csEpoch = v.csEpoch + Count("newkeys" \in Kinds(w))
      /\ new.csEpoch = v.csEpoch + Count(p.t = "newkeys")
  BY DEF AtEnd, Takes
<1> HIDE DEF p, q
<1>4. CASE p.t = "newkeys"
  <2>1. "newkeys" \in Kinds(w) /\ "newkeys" \notin Kinds(q)
    BY <1>1, <1>4 DEF Kex, KexTypes
  <2> QED
    BY <1>0, <1>2, <1>3, <1>4, <2>1 DEF AtEnd, Count, q
<1>5. CASE p.t # "newkeys"
  <2>1. ("newkeys" \in Kinds(w)) = ("newkeys" \in Kinds(q))
    BY <1>1, <1>5
  <2> QED
    BY <1>0, <1>2, <1>3, <1>5, <2>1 DEF AtEnd, Count, q
<1> QED
  BY <1>4, <1>5

LEMMA TakenInOrder ==
    ASSUME Ssh2TransportAssumption, NEW w \in Seq(ClientPackets), w # <<>>, NEW v \in Servers,
           NEW new, Takes(Head(w), v, new), NEW a \in Nat,
           NEW queue \in Seq([t : {"app", "ignore"}, n : 0 .. MaxApp]),
           InOrder(w, queue, v.got, a)
    PROVE  InOrder(Tail(w), queue, new.got, a)
<1> DEFINE p == Head(w)
           q == Tail(w)
           g == v.got
           M == Nums(w)
           N == Nums(queue)
           R == Nums(q)
<1>0. /\ Rising(w) /\ Rising(queue) /\ (\A m \in M, n \in N : m < n)
      /\ M \cup N = g + 1 .. a /\ g <= a /\ g \in Nat
  <2>1. g \in Nat
    BY ServerFields
  <2> QED
    BY <2>1 DEF InOrder
<1>1. /\ Rising(q)
      /\ p.t # "app" => R = M
      /\ p.t = "app" => p.n \in M /\ R = M \ {p.n} /\ \A n \in R : p.n < n
  <2>1. \A i \in 1 .. Len(w) : w[i].n \in Nat
    <3>1. \A x \in ClientPackets : x.n \in Nat
      BY DEF ClientPackets, Ssh2TransportAssumption
    <3>2. \A i \in 1 .. Len(w) : w[i] \in ClientPackets
      OBVIOUS
    <3> QED
      BY <3>1, <3>2
  <2> QED
    BY <1>0, <2>1, RisingTail
<1>2. CASE p.t # "app"
  <2>1. new.got = g
    BY <1>2 DEF Takes
  <2> QED
    BY <1>0, <1>1, <1>2, <2>1 DEF InOrder
<1>3. CASE p.t = "app"
  <2> DEFINE n == p.n
  <2>1. new.got = n /\ n \in M /\ R = M \ {n} /\ \A m \in R : n < m
    BY <1>1, <1>3 DEF Takes
  <2> HIDE DEF n, M, N, R, g
  <2>2. n \in g + 1 .. a /\ n \notin N
    BY <1>0, <2>1
  <2>3. n = g + 1
    <3>1. g + 1 \in M \cup N
      BY <1>0, <2>2
    <3>2. g + 1 \in N => n < g + 1
      BY <1>0, <2>1
    <3>3. g + 1 \in R => n < g + 1
      BY <2>1
    <3> QED
      BY <1>0, <2>1, <2>2, <3>1, <3>2, <3>3
  <2>4. R \cup N = (g + 1 .. a) \ {n}
    BY <1>0, <2>1, <2>2
  <2>5. (g + 1 .. a) \ {n} = n + 1 .. a /\ n <= a
    BY <1>0, <2>2, <2>3
  <2>6. \A m \in R, k \in N : m < k
    BY <1>0, <2>1
  <2> QED
    BY <1>0, <1>1, <2>1, <2>4, <2>5, <2>6 DEF InOrder, M, N, R
<1> QED
  BY <1>2, <1>3

LEMMA TakenUnbroken ==
    ASSUME Ssh2TransportAssumption, NEW w \in Seq(ClientPackets), w # <<>>, NEW v \in Servers,
           NEW new, Takes(Head(w), v, new), NEW a \in Nat, Unbroken(w, v.got, a)
    PROVE  Unbroken(Tail(w), new.got, a)
<1> DEFINE p == Head(w)
           g == v.got
           M == Nums(w)
           R == Nums(Tail(w))
<1>0. /\ Rising(w) /\ g \in Nat
      /\ \A n \in M : n \in g + 1 .. a /\ g + 1 .. n \subseteq M
  <2>1. g \in Nat
    BY ServerFields
  <2> QED
    BY <2>1 DEF Unbroken
<1>1. /\ Rising(Tail(w))
      /\ p.t # "app" => R = M
      /\ p.t = "app" => p.n \in M /\ R = M \ {p.n} /\ \A n \in R : p.n < n
  <2>1. \A i \in 1 .. Len(w) : w[i].n \in Nat
    <3>1. \A x \in ClientPackets : x.n \in Nat
      BY DEF ClientPackets, Ssh2TransportAssumption
    <3>2. \A i \in 1 .. Len(w) : w[i] \in ClientPackets
      OBVIOUS
    <3> QED
      BY <3>1, <3>2
  <2> QED
    BY <1>0, <2>1, RisingTail
<1>2. CASE p.t # "app"
  <2>1. new.got = g
    BY <1>2 DEF Takes
  <2> QED
    BY <1>0, <1>1, <1>2, <2>1 DEF Unbroken
<1>3. CASE p.t = "app"
  <2> DEFINE n == p.n
  <2>1. new.got = n /\ n \in M /\ R = M \ {n} /\ \A m \in R : n < m
    BY <1>1, <1>3 DEF Takes
  <2> HIDE DEF n, M, R, g
  <2>2. ASSUME NEW m \in R  PROVE m \in n + 1 .. a /\ n + 1 .. m \subseteq R
    <3>1. n \in g + 1 .. a /\ m \in g + 1 .. a /\ g + 1 .. m \subseteq M /\ n < m
      BY <1>0, <2>1, <2>2
    <3>2. n + 1 .. m \subseteq M \ {n}
      BY <1>0, <3>1
    <3> QED
      BY <1>0, <2>1, <3>1, <3>2
  <2> QED
    BY <1>1, <2>1, <2>2 DEF Unbroken, R
<1> QED
  BY <1>2, <1>3

(* The server v has sent q, with packets of the types in K of an exchange,  *)
(* after r, and is now new.                                                 *)
Says(q, K, r, v, new) ==
    /\ q \in Seq(ServerPackets) /\ Kinds(q) = K /\ Ranked(q) /\ Keyed(q, v.scEpoch)
    /\ \A t \in Kinds(r), u \in K : Rank(t) < Rank(u)
    /\ new.scEpoch = v.scEpoch + Count("newkeys" \in K)
    /\ \A i \in 1 .. Len(q) : q[i].t = "kexinit" => q[i].offer = new.offer
    /\ "kexinit" \in Kinds(r) => new.offer = v.offer
    /\ \A i \in 1 .. Len(q) : q[i].t = "data" => v.got > 0
    /\ v.got > 0 => new.got > 0

LEMMA AnswersSaid ==
    ASSUME Ssh2TransportAssumption, NEW r \in Seq(ServerPackets), NEW v \in Servers,
           NEW s \in SshStates, Answers(s, r, v), NEW q, NEW K, NEW new, Says(q, K, r, v, new)
    PROVE  /\ Answers(s, r \o q, new) /\ Kinds(r \o q) = Kinds(r) \cup K
           /\ r \o q \in Seq(ServerPackets)
<1> DEFINE z == r \o q
           base == s.scEpoch
<1>0. base \in Nat /\ v.scEpoch \in Nat /\ q \in Seq(ServerPackets)
  BY Fields, ServerFields DEF Says
<1>1. /\ z \in Seq(ServerPackets)
      /\ Len(r) \in Nat /\ Len(q) \in Nat /\ Len(z) = Len(r) + Len(q)
      /\ \A i \in 1 .. Len(r) : z[i] = r[i]
      /\ \A i \in 1 .. Len(q) : z[Len(r) + i] = q[i]
      /\ \A i \in 1 .. Len(z) : i \in 1 .. Len(r) \/ \E j \in 1 .. Len(q) : i = Len(r) + j
  <2> DEFINE S == ServerPackets
  <2>1. r \in Seq(S) /\ q \in Seq(S)
    BY <1>0
  <2> HIDE DEF S
  <2>2. /\ z \in Seq(S)
        /\ Len(r) \in Nat /\ Len(q) \in Nat /\ Len(z) = Len(r) + Len(q)
        /\ \A i \in 1 .. Len(r) : z[i] = r[i]
        /\ \A i \in 1 .. Len(q) : z[Len(r) + i] = q[i]
        /\ \A i \in 1 .. Len(z) : i \in 1 .. Len(r) \/ \E j \in 1 .. Len(q) : i = Len(r) + j
    BY <2>1, Joined
  <2> QED
    BY <2>2 DEF S
<1>2. Kinds(z) = Kinds(r) \cup K
  BY <1>0, KindsJoined DEF Says
<1>3. /\ Keyed(r, base) /\ Ranked(r) /\ v.scEpoch = base + Count("newkeys" \in Kinds(r))
  BY DEF Answers
<1>4. ~("newkeys" \in Kinds(r) /\ "newkeys" \in Kinds(q))
  <2>1. ~(Rank("newkeys") < Rank("newkeys"))
    BY DEF Rank
  <2> QED
    BY <2>1 DEF Says
<1>5. Keyed(z, base)
  <2>1. Keyed(q, base + Count("newkeys" \in Kinds(r)))
    BY <1>3 DEF Says
  <2> QED
    BY <1>0, <1>3, <1>4, <2>1, KeyedJoined
<1>6. Ranked(z)
  BY <1>0, <1>3, RankedJoined DEF Says
<1>7. new.scEpoch = base + Count("newkeys" \in Kinds(z))
  <2>1. new.scEpoch = v.scEpoch + Count("newkeys" \in K)
    BY DEF Says
  <2>2. ~("newkeys" \in Kinds(r) /\ "newkeys" \in K)
    BY <1>4 DEF Says
  <2> HIDE DEF z, base
  <2> QED
    BY <1>0, <1>2, <1>3, <2>1, <2>2 DEF Count
<1> HIDE DEF z
<1>8. ASSUME NEW i \in 1 .. Len(z), z[i].t = "kexinit"  PROVE z[i].offer = new.offer
  <2>1. CASE i \in 1 .. Len(r)
    <3>1. r[i].t = "kexinit" /\ z[i] = r[i]
      BY <1>1, <1>8, <2>1
    <3>2. "kexinit" \in Kinds(r)
      BY <2>1, <3>1 DEF Kinds, Kex, KexTypes
    <3> QED
      BY <2>1, <3>1, <3>2 DEF Answers, Says
  <2>2. ASSUME NEW j \in 1 .. Len(q), i = Len(r) + j  PROVE z[i].offer = new.offer
    BY <1>1, <1>8, <2>2 DEF Says
  <2> QED
    BY <1>1, <2>1, <2>2
<1>9. ASSUME NEW i \in 1 .. Len(z), z[i].t = "data"  PROVE new.got > 0
  <2>1. CASE i \in 1 .. Len(r)
    BY <1>1, <1>9, <2>1 DEF Answers, Says
  <2>2. ASSUME NEW j \in 1 .. Len(q), i = Len(r) + j  PROVE new.got > 0
    BY <1>1, <1>9, <2>2 DEF Says
  <2> QED
    BY <1>1, <2>1, <2>2
<1>10. Answers(s, z, new)
  BY <1>5, <1>6, <1>7, <1>8, <1>9 DEF Answers
<1> QED
  BY <1>1, <1>2, <1>10 DEF z

-------------------------------------------------------------------------------
(* The steps of the server *)

LEMMA GoodHas ==
    ASSUME NEW st, NEW a, NEW r, NEW v, Good(st, a, r, v)
    PROVE  /\ st \in States /\ r \in Seq(ServerPackets) /\ v \in Servers /\ a \in Nat
           /\ st.s \in SshStates /\ st.w \in Seq(ClientPackets) /\ st.a \in 0 .. MaxApp
           /\ st.s.why # "protocol" /\ Readable(st.w, v) /\ Unbroken(st.w, v.got, a)
           /\ st.s.open => Base(st, a, r, v) /\ Mode(st, r, v)
  BY DEF Good, States

(* The server takes the first packet that is on its way and answers q.      *)
LEMMA Taking ==
    ASSUME Ssh2TransportAssumption, NEW st, NEW a, NEW r, NEW v, Good(st, a, r, v),
           st.w # <<>>, NEW new, Takes(Head(st.w), v, new),
           Expected(Kinds(st.w) \ {Head(st.w).t}, Expects(new), new.offer),
           NEW q \in Seq(ServerPackets), NEW K,
           st.s.open =>
               /\ Says(q, K, r, v, new)
               /\ Phase(st.s.cr, st.s.offer, Kinds(st.w) \ {Head(st.w).t}, Kinds(r) \cup K,
                        Expects(new), new.offer)
    PROVE  Good([st EXCEPT !.w = Tail(st.w)], a, r \o q, new)
<1> DEFINE x == [st EXCEPT !.w = Tail(st.w)]
           w == st.w
           z == r \o q
<1>0. /\ st \in States /\ r \in Seq(ServerPackets) /\ v \in Servers /\ a \in Nat
      /\ st.s \in SshStates /\ w \in Seq(ClientPackets) /\ st.a \in 0 .. MaxApp
      /\ st.s.why # "protocol" /\ Readable(w, v) /\ Unbroken(w, v.got, a)
      /\ st.s.open => Base(st, a, r, v) /\ Mode(st, r, v)
  BY GoodHas
<1>1. Tail(w) \in Seq(ClientPackets)
  BY <1>0, TailOf
<1>2. x \in States /\ x.s = st.s /\ x.w = Tail(w) /\ x.a = st.a
  BY <1>0, <1>1 DEF States
<1>3. Readable(Tail(w), new) /\ new \in Servers
  BY <1>0, TakenReads DEF Takes
<1>4. Unbroken(Tail(w), new.got, a)
  BY <1>0, TakenUnbroken
<1>5. z \in Seq(ServerPackets)
  BY <1>0
<1> HIDE DEF z, x
<1>6. ASSUME st.s.open  PROVE Base(x, a, z, new) /\ Mode(x, z, new)
  <2>1. Base(st, a, r, v) /\ Mode(st, r, v)
    BY <1>0, <1>6
  <2>2. Answers(st.s, z, new) /\ Kinds(z) = Kinds(r) \cup K
    <3>1. Answers(st.s, r, v) /\ Says(q, K, r, v, new)
      BY <1>6, <2>1 DEF Base
    <3> QED
      BY <1>0, <3>1, AnswersSaid DEF z
  <2>3. AtEnd(st.s, Tail(w), new)
    <3>1. AtEnd(st.s, w, v)
      BY <2>1 DEF Base
    <3> QED
      BY <1>0, <3>1, TakenAtEnd
  <2>4. InOrder(Tail(w), st.s.queue, new.got, a)
    <3>1. InOrder(w, st.s.queue, v.got, a)
      BY <2>1 DEF Base
    <3>2. st.s.queue \in Seq([t : {"app", "ignore"}, n : 0 .. MaxApp])
      BY <1>0, Fields
    <3> QED
      BY <1>0, <3>1, <3>2, TakenInOrder
  <2>5. Base(x, a, z, new)
    BY <1>2, <1>3, <1>5, <2>1, <2>2, <2>3, <2>4 DEF Base
  <2>6. Kinds(Tail(w)) = Kinds(w) \ {Head(w).t}
    BY <1>0, HeadRank DEF Readable
  <2>7. Phase(st.s.cr, st.s.offer, Kinds(Tail(w)), Kinds(z), Expects(new), new.offer)
    BY <1>6, <2>2, <2>6
  <2>8. Mode(x, z, new)
    BY <1>2, <2>1, <2>7 DEF Mode
  <2> QED
    BY <2>5, <2>8
<1>7. Good(x, a, z, new)
  BY <1>0, <1>2, <1>3, <1>5, <1>6, <1>4 DEF Good
<1> QED
  BY <1>7 DEF x, z

(* The server says q of its own accord.                                     *)
LEMMA Saying ==
    ASSUME Ssh2TransportAssumption, NEW st, NEW a, NEW r, NEW v, Good(st, a, r, v),
           NEW new \in Servers, new.ok, new.seq = v.seq, new.csEpoch = v.csEpoch,
           new.inKex = v.inKex, new.got = v.got,
           new.inKex <=> Expects(new) \in {"gexrequest", "dhinit", "newkeys"},
           Expected(Kinds(st.w), Expects(new), new.offer),
           NEW q \in Seq(ServerPackets), NEW K,
           st.s.open =>
               /\ Says(q, K, r, v, new)
               /\ Phase(st.s.cr, st.s.offer, Kinds(st.w), Kinds(r) \cup K,
                        Expects(new), new.offer)
    PROVE  Good(st, a, r \o q, new)
<1> DEFINE z == r \o q
<1>0. /\ st \in States /\ r \in Seq(ServerPackets) /\ v \in Servers /\ a \in Nat
      /\ st.s \in SshStates /\ st.s.why # "protocol" /\ Readable(st.w, v)
      /\ Unbroken(st.w, v.got, a)
      /\ st.s.open => Base(st, a, r, v) /\ Mode(st, r, v)
  BY GoodHas
<1>1. Readable(st.w, new) /\ Unbroken(st.w, new.got, a)
  BY <1>0 DEF Readable
<1>2. z \in Seq(ServerPackets)
  BY <1>0
<1> HIDE DEF z
<1>3. ASSUME st.s.open  PROVE Base(st, a, z, new) /\ Mode(st, z, new)
  <2>1. Base(st, a, r, v) /\ Mode(st, r, v)
    BY <1>0, <1>3
  <2>2. Answers(st.s, z, new) /\ Kinds(z) = Kinds(r) \cup K
    <3>1. Answers(st.s, r, v) /\ Says(q, K, r, v, new)
      BY <1>3, <2>1 DEF Base
    <3> QED
      BY <1>0, <3>1, AnswersSaid DEF z
  <2>3. AtEnd(st.s, st.w, new) /\ InOrder(st.w, st.s.queue, new.got, a)
    BY <2>1 DEF Base, AtEnd
  <2>4. Base(st, a, z, new)
    BY <1>1, <1>2, <2>1, <2>2, <2>3 DEF Base
  <2>5. Phase(st.s.cr, st.s.offer, Kinds(st.w), Kinds(z), Expects(new), new.offer)
    BY <1>3, <2>2
  <2>6. Mode(st, z, new)
    BY <2>1, <2>5 DEF Mode
  <2> QED
    BY <2>4, <2>6
<1>4. Good(st, a, z, new)
  BY <1>0, <1>1, <1>2, <1>3 DEF Good
<1> QED
  BY <1>4 DEF z

(* What the server takes at each place, whatever it has become of the       *)
(* client.                                                                  *)
LEMMA HeadIs ==
    ASSUME Ssh2TransportAssumption, NEW w \in Seq(ClientPackets), w # <<>>, NEW v \in Servers,
           Readable(w, v), v.state # "gone"
    PROVE  LET p == Head(w)  kl == Kinds(w) IN
           /\ p.ep = v.csEpoch /\ p.seq = v.seq /\ p \in ClientPackets
           /\ p.t \in Kex => p.t \in kl /\ \A u \in kl : u = p.t \/ Rank(p.t) < Rank(u)
           /\ p.t = "app" => ~v.inKex
           /\ p.t = "kexinit" =>
                  ~v.inKex /\ v.state \in {"idle", "kexinit"} /\ "newkeys" \notin kl
           /\ p.t \in {"gexrequest", "dhinit", "newkeys"} =>
                  v.inKex /\ v.state = p.t
           /\ p.t \in {"gexrequest", "dhinit"} => kl = {p.t}
<1> DEFINE p == Head(w)
           kl == Kinds(w)
<1>0. /\ p \in ClientPackets /\ p = w[1] /\ 1 \in 1 .. Len(w)
      /\ v.seq \in 0 .. SequenceMod - 1 /\ v.csEpoch \in Nat /\ v.inKex \in BOOLEAN
      /\ SequenceMod \in Nat \ {0}
  <2>1. p \in ClientPackets /\ p = w[1] /\ Len(w) \in Nat /\ Len(w) > 0
    BY TailOf
  <2> QED
    BY <2>1, ServerFields DEF Ssh2TransportAssumption
<1>1. /\ Placed(w, v.seq) /\ Keyed(w, v.csEpoch) /\ Ranked(w) /\ Apart(w, v.inKex)
      /\ v.inKex <=> v.state \in {"gexrequest", "dhinit", "newkeys"}
      /\ Expected(kl, v.state, v.offer)
  BY DEF Readable, Expects
<1>2. p.ep = v.csEpoch /\ p.seq = v.seq
  BY <1>0, <1>1, KeyedTail, PlacedTail
<1>3. p.t \in Kex => p.t \in kl /\ \A u \in kl : u = p.t \/ Rank(p.t) < Rank(u)
  BY <1>1, HeadRank
<1>4. p.t = "app" => ~v.inKex
  <2>1. ~Before(w, 1, "newkeys")
    <3>1. \A j \in 1 .. Len(w) : ~(j < 1)
      OBVIOUS
    <3> QED
      BY <3>1 DEF Before
  <2> QED
    BY <1>0, <1>1, <2>1 DEF Apart
<1>5. kl \subseteq Kex
  BY DEF Kinds
<1> HIDE DEF p, kl
<1>6. ASSUME p.t = "kexinit"
      PROVE  ~v.inKex /\ v.state \in {"idle", "kexinit"} /\ "newkeys" \notin kl
  <2>1. "kexinit" \in kl /\ "newkeys" \notin kl
    BY <1>3, <1>6 DEF Kex, KexTypes, Rank
  <2> QED
    BY <1>1, <2>1 DEF Expected
<1>7. ASSUME p.t \in {"gexrequest", "dhinit"}  PROVE kl = {p.t} /\ v.inKex /\ v.state = p.t
  <2>1. p.t \in kl /\ \A u \in kl : u = p.t \/ 4 < Rank(u)
    BY <1>3, <1>7 DEF Kex, Rank
  <2>2. \A u : ~(4 < Rank(u))
    BY DEF Rank
  <2>3. kl = {p.t}
    BY <2>1, <2>2
  <2>4. "kexinit" \notin kl
    BY <1>7, <2>3
  <2>5. v.state = p.t
    BY <1>1, <1>7, <2>1, <2>4 DEF Expected
  <2> QED
    BY <1>1, <1>7, <2>3, <2>5
<1>8. ASSUME p.t = "newkeys"  PROVE v.inKex /\ v.state = "newkeys"
  <2>1. "newkeys" \in kl
    BY <1>3, <1>8 DEF Kex, KexTypes
  <2> QED
    BY <1>1, <2>1 DEF Expected
<1> QED
  BY <1>0, <1>2, <1>3, <1>4, <1>6, <1>7, <1>8 DEF p, kl

LEMMA OneMessage ==
    ASSUME NEW m \in ServerPackets
    PROVE  LET q == <<m>> IN
           /\ q \in Seq(ServerPackets) /\ Kinds(q) = {m.t} \cap Kex /\ Ranked(q)
           /\ Keyed(q, m.ep) /\ \A i \in 1 .. Len(q) : q[i] = m
<1> DEFINE q == <<m>>
<1>1. q \in Seq(ServerPackets) /\ Len(q) = 1 /\ q[1] = m
  OBVIOUS
<1> HIDE DEF q
<1>2. \A i \in 1 .. Len(q) : i = 1 /\ q[i] = m
  BY <1>1
<1>3. 1 \in 1 .. Len(q)
  BY <1>1
<1>4. Kinds(q) = {m.t} \cap Kex
  BY <1>1, <1>2, <1>3 DEF Kinds
<1>5. Ranked(q)
  BY <1>2 DEF Ranked
<1>6. Keyed(q, m.ep)
  <2>1. \A i \in 1 .. Len(q) : ~Before(q, i, "newkeys")
    BY <1>2 DEF Before
  <2>2. m.ep + 0 = m.ep
    BY DEF ServerPackets
  <2> QED
    BY <1>2, <2>1, <2>2 DEF Keyed, Count
<1> QED
  BY <1>1, <1>2, <1>4, <1>5, <1>6 DEF q

LEMMA TwoMessages ==
    ASSUME NEW m \in ServerPackets, NEW n \in ServerPackets, m.t # "newkeys", m.ep = n.ep,
           Rank(m.t) < Rank(n.t)
    PROVE  LET q == <<m, n>> IN
           /\ q \in Seq(ServerPackets) /\ Kinds(q) = {m.t, n.t} \cap Kex /\ Ranked(q)
           /\ Keyed(q, m.ep) /\ \A i \in 1 .. Len(q) : q[i] \in {m, n}
<1> DEFINE q == <<m, n>>
<1>1. q \in Seq(ServerPackets) /\ Len(q) = 2 /\ q[1] = m /\ q[2] = n
  OBVIOUS
<1> HIDE DEF q
<1>2. \A i \in 1 .. Len(q) : (i = 1 /\ q[i] = m) \/ (i = 2 /\ q[i] = n)
  BY <1>1
<1>3. 1 \in 1 .. Len(q) /\ 2 \in 1 .. Len(q)
  BY <1>1
<1>4. Kinds(q) = {m.t, n.t} \cap Kex
  BY <1>1, <1>2, <1>3 DEF Kinds
<1>5. Ranked(q)
  BY <1>2 DEF Ranked
<1>6. Keyed(q, m.ep)
  <2>1. \A i \in 1 .. Len(q) : ~Before(q, i, "newkeys")
    BY <1>2 DEF Before
  <2>2. m.ep + 0 = m.ep
    BY DEF ServerPackets
  <2> QED
    BY <1>2, <2>1, <2>2 DEF Keyed, Count
<1> QED
  BY <1>1, <1>2, <1>4, <1>5, <1>6 DEF q

LEMMA PairIs ==
    ASSUME NEW S, NEW m \in S, NEW n \in S
    PROVE  <<m>> \o <<n>> = <<m, n>>
<1> DEFINE q == <<m>> \o <<n>>
<1>1. q \in Seq(S) /\ Len(q) = 2 /\ q[1] = m /\ q[2] = n
  OBVIOUS
<1> HIDE DEF q
<1>2. q = <<m, n>>
  BY <1>1
<1> QED
  BY <1>2 DEF q

LEMMA SentIs ==
    ASSUME Ssh2TransportAssumption, NEW v \in Servers,
           NEW t \in KexTypes \cup {"data", "ignore", "unknown", "disconnect"}
    PROVE  Sent(v, t) \in ServerPackets /\ Sent(v, t).t = t /\ Sent(v, t).ep = v.scEpoch
<1>1. v.scEpoch \in Nat
  BY ServerFields
<1> QED
  BY <1>1 DEF Sent, ServerPackets

(* Nothing is said. *)
LEMMA SaysNothing ==
    ASSUME NEW r, NEW v, NEW new, new.scEpoch = v.scEpoch, v.scEpoch \in Nat,
           "kexinit" \in Kinds(r) => new.offer = v.offer, v.got > 0 => new.got > 0
    PROVE  Says(<<>>, {}, r, v, new) /\ <<>> \in Seq(ServerPackets)
<1>1. /\ <<>> \in Seq(ServerPackets) /\ Kinds(<<>>) = {} /\ Ranked(<<>>)
      /\ Keyed(<<>>, v.scEpoch)
  BY NoNums DEF Ranked, Keyed
<1>2. new.scEpoch = v.scEpoch + Count("newkeys" \in {})
  BY DEF Count
<1>3. \A i : i \notin 1 .. Len(<<>>)
  OBVIOUS
<1> QED
  BY <1>1, <1>2, <1>3 DEF Says

(* The server's KEXINIT, and its guess. *)
LEMMA SaysKexinit ==
    ASSUME Ssh2TransportAssumption, NEW r, NEW v \in Servers, NEW new, NEW o \in Offers,
           new.scEpoch = v.scEpoch, new.offer = o, new.got = v.got,
           Kinds(r) \subseteq {"reply", "newkeys"}
    PROVE  /\ Kexinit(v, o) \in Seq(ServerPackets)
           /\ Says(Kexinit(v, o), Opening(o), r, v, new)
<1> DEFINE k == [Sent(v, "kexinit") EXCEPT !.offer = o]
           g == Sent(v, "guess")
           q == Kexinit(v, o)
<1>0. v.scEpoch \in Nat
  BY ServerFields
<1>1. k \in ServerPackets /\ k.t = "kexinit" /\ k.ep = v.scEpoch /\ k.offer = o
  <2> DEFINE x == Sent(v, "kexinit")
  <2>1. x \in ServerPackets /\ x.t = "kexinit" /\ x.ep = v.scEpoch
    BY SentIs DEF KexTypes
  <2> HIDE DEF x
  <2>2. k = [x EXCEPT !.offer = o]
    BY DEF x
  <2> HIDE DEF k
  <2> QED
    BY <2>1, <2>2 DEF ServerPackets
<1>2. g \in ServerPackets /\ g.t = "guess" /\ g.ep = v.scEpoch
  BY SentIs DEF KexTypes
<1> HIDE DEF k, g
<1>3. q = IF o.agree /\ o.follows THEN <<k, g>> ELSE <<k>>
  <2>1. q = <<k>> \o (IF o.agree /\ o.follows THEN <<g>> ELSE <<>>)
    BY DEF Kexinit, k, g
  <2>2. <<k>> \o <<g>> = <<k, g>>
    BY <1>1, <1>2, PairIs
  <2>3. <<k>> \o <<>> = <<k>>
    <3> DEFINE z == <<k>>
    <3>1. z \in Seq(ServerPackets)
      BY <1>1
    <3> HIDE DEF z
    <3>2. z \o <<>> = z
      BY <3>1
    <3> QED
      BY <3>2 DEF z
  <2> QED
    BY <2>1, <2>2, <2>3
<1> HIDE DEF q
<1>4. /\ q \in Seq(ServerPackets) /\ Kinds(q) = Opening(o) /\ Ranked(q) /\ Keyed(q, v.scEpoch)
      /\ \A i \in 1 .. Len(q) : q[i] \in {k, g}
  <2>1. CASE o.agree /\ o.follows
    <3>1. Rank(k.t) < Rank(g.t) /\ k.t # "newkeys"
      BY <1>1, <1>2 DEF Rank
    <3>2. LET z == <<k, g>> IN
          /\ z \in Seq(ServerPackets) /\ Kinds(z) = {k.t, g.t} \cap Kex /\ Ranked(z)
          /\ Keyed(z, k.ep) /\ \A i \in 1 .. Len(z) : z[i] \in {k, g}
      BY <1>1, <1>2, <3>1, TwoMessages
    <3>3. {k.t, g.t} \cap Kex = Opening(o)
      BY <1>1, <1>2, <2>1 DEF Opening, Kex, KexTypes
    <3>4. q = <<k, g>>
      BY <1>3, <2>1
    <3> QED
      BY <1>1, <3>2, <3>3, <3>4
  <2>2. CASE ~(o.agree /\ o.follows)
    <3>1. LET z == <<k>> IN
          /\ z \in Seq(ServerPackets) /\ Kinds(z) = {k.t} \cap Kex /\ Ranked(z)
          /\ Keyed(z, k.ep) /\ \A i \in 1 .. Len(z) : z[i] = k
      BY <1>1, OneMessage
    <3>2. {k.t} \cap Kex = Opening(o)
      BY <1>1, <2>2 DEF Opening, Kex, KexTypes
    <3>3. q = <<k>>
      BY <1>3, <2>2
    <3> QED
      BY <1>1, <3>1, <3>2, <3>3
  <2> QED
    BY <2>1, <2>2
<1>5. \A t \in Kinds(r), u \in Opening(o) : Rank(t) < Rank(u)
  <2>1. \A t \in {"reply", "newkeys"}, u \in {"kexinit", "guess"} : Rank(t) < Rank(u)
    BY DEF Rank
  <2> QED
    BY <2>1 DEF Opening
<1>6. new.scEpoch = v.scEpoch + Count("newkeys" \in Opening(o))
  BY <1>0 DEF Opening, Count
<1>7. \A i \in 1 .. Len(q) : q[i].t \in {"kexinit", "guess"} /\ (q[i].t = "kexinit" => q[i].offer = o)
  BY <1>1, <1>2, <1>4
<1>8. "kexinit" \notin Kinds(r)
  OBVIOUS
<1>9. Says(q, Opening(o), r, v, new)
  BY <1>4, <1>5, <1>6, <1>7, <1>8 DEF Says
<1> QED
  BY <1>4, <1>9 DEF q

(* The server after a packet, by its fields. *)
Moved(v, new, state, inKex, offer, csEpoch, scEpoch, got) ==
    /\ new \in Servers /\ new.ok /\ new.seq = (v.seq + 1) % SequenceMod
    /\ new.state = state /\ new.inKex = inKex /\ new.offer = offer
    /\ new.csEpoch = csEpoch /\ new.scEpoch = scEpoch /\ new.got = got

(* What the layers above have sent, or nothing. *)
LEMMA TakesOther ==
    ASSUME Ssh2TransportAssumption, NEW st, NEW a, NEW r, NEW v, Good(st, a, r, v),
           st.w # <<>>, v.state # "gone", Head(st.w).t \notin Kex, NEW new,
           Moved(v, new, v.state, v.inKex, v.offer, v.csEpoch, v.scEpoch,
                 IF Head(st.w).t = "app" THEN Head(st.w).n ELSE v.got)
    PROVE  Good([st EXCEPT !.w = Tail(st.w)], a, r \o <<>>, new)
<1> DEFINE p == Head(st.w)
           kl == Kinds(st.w)
<1>0. /\ r \in Seq(ServerPackets) /\ v \in Servers /\ Readable(st.w, v)
      /\ st.w \in Seq(ClientPackets) /\ a \in Nat
      /\ st.s.open => Base(st, a, r, v) /\ Mode(st, r, v)
  BY GoodHas
<1>1. v.csEpoch \in Nat /\ v.scEpoch \in Nat /\ v.got \in Nat
  BY <1>0, ServerFields
<1>2. Expects(new) = Expects(v) /\ kl \ {p.t} = kl
  <2>1. kl \subseteq Kex
    BY DEF Kinds
  <2> QED
    BY <2>1 DEF Expects, Moved
<1>3. p.t # "newkeys"
  BY DEF Kex, KexTypes
<1>4. Takes(p, v, new)
  <2>1. new.csEpoch = v.csEpoch + Count(p.t = "newkeys")
    BY <1>1, <1>3 DEF Moved, Count
  <2> QED
    BY <1>0, <1>2, <1>3, <2>1 DEF Takes, Moved, Readable
<1>5. Expected(kl \ {p.t}, Expects(new), new.offer)
  BY <1>0, <1>2 DEF Readable, Moved
<1>6. ASSUME st.s.open  PROVE Says(<<>>, {}, r, v, new)
  <2>1. v.got > 0 => new.got > 0
    <3>1. CASE p.t = "app"
      <4>1. p.n \in Nums(st.w)
        <5>1. p = st.w[1] /\ Len(st.w) \in Nat /\ Len(st.w) > 0
          BY <1>0, TailOf
        <5>2. 1 \in 1 .. Len(st.w) /\ st.w[1].t = "app" /\ p.n = st.w[1].n
          BY <3>1, <5>1
        <5> QED
          BY <5>2 DEF Nums
      <4>2. InOrder(st.w, st.s.queue, v.got, a)
        BY <1>0, <1>6 DEF Base
      <4>3. p.n \in v.got + 1 .. a
        BY <4>1, <4>2 DEF InOrder
      <4>4. new.got = p.n
        BY <3>1 DEF Moved
      <4> HIDE DEF p
      <4> QED
        BY <1>0, <1>1, <4>3, <4>4
    <3>2. CASE p.t # "app"
      BY <3>2 DEF Moved
    <3> QED
      BY <3>1, <3>2
  <2> QED
    BY <1>1, <2>1, SaysNothing DEF Moved
<1>7. ASSUME st.s.open
      PROVE  Phase(st.s.cr, st.s.offer, kl \ {p.t}, Kinds(r) \cup {}, Expects(new), new.offer)
  <2>1. Phase(st.s.cr, st.s.offer, kl, Kinds(r), Expects(v), v.offer)
    BY <1>0, <1>7 DEF Mode
  <2>2. Kinds(r) \cup {} = Kinds(r) /\ new.offer = v.offer
    BY DEF Moved
  <2> QED
    BY <1>2, <2>1, <2>2
<1>8. <<>> \in Seq(ServerPackets)
  OBVIOUS
<1> DEFINE K == {}
<1>9. st.s.open =>
          /\ Says(<<>>, K, r, v, new)
          /\ Phase(st.s.cr, st.s.offer, Kinds(st.w) \ {Head(st.w).t}, Kinds(r) \cup K,
                   Expects(new), new.offer)
  BY <1>6, <1>7
<1> HIDE DEF K
<1> QED
  BY <1>4, <1>5, <1>8, <1>9, Taking

(* The client's KEXINIT, first or in answer. *)
LEMMA TakesKexinit ==
    ASSUME Ssh2TransportAssumption, NEW st, NEW a, NEW r, NEW v, Good(st, a, r, v),
           st.w # <<>>, v.state # "gone", Head(st.w).t = "kexinit", v.state = "idle",
           NEW o \in Offers, NEW new,
           Moved(v, new, AfterKexinits(o), TRUE, o, v.csEpoch, v.scEpoch, v.got)
    PROVE  Good([st EXCEPT !.w = Tail(st.w)], a, r \o Kexinit(v, o), new)
<1> DEFINE p == Head(st.w)
           kl == Kinds(st.w)
<1>0. /\ r \in Seq(ServerPackets) /\ v \in Servers /\ Readable(st.w, v)
      /\ st.w \in Seq(ClientPackets)
      /\ st.s.open => Base(st, a, r, v) /\ Mode(st, r, v)
  BY GoodHas
<1>1. v.csEpoch \in Nat /\ v.scEpoch \in Nat
  BY <1>0, ServerFields
<1>2. "kexinit" \in kl /\ "newkeys" \notin kl
  <2>1. p.t \in Kex
    BY DEF Kex, KexTypes
  <2> QED
    BY <1>0, <2>1, HeadIs
<1>3. Expects(new) = AfterKexinits(o) /\ new.offer = o /\ Expects(v) = "idle"
  BY DEF Expects, Moved, AfterKexinits
<1>4. Takes(p, v, new)
  <2>1. new.csEpoch = v.csEpoch + Count(p.t = "newkeys")
    BY <1>1 DEF Moved, Count
  <2> QED
    BY <1>3, <2>1 DEF Takes, Moved, AfterKexinits
<1>5. kl \subseteq {"kexinit", "guess", "group", "reply"}
  <2>1. Expected(kl, "idle", v.offer)
    BY <1>0, <1>3 DEF Readable
  <2>2. kl \subseteq Kex
    BY DEF Kinds
  <2> QED
    BY <1>2, <2>1, <2>2 DEF Expected, Kex, KexTypes
<1>6. Expected(kl \ {p.t}, Expects(new), new.offer)
  BY <1>5 DEF Expected
<1>7. ASSUME st.s.open
      PROVE  /\ Kinds(r) = {}
             /\ Phase(st.s.cr, st.s.offer, kl \ {p.t}, Opening(o), Expects(new), new.offer)
  <2>1. Phase(st.s.cr, st.s.offer, kl, Kinds(r), "idle", v.offer)
    BY <1>0, <1>3, <1>7 DEF Mode
  <2>2. st.s.cr = "kexinit" /\ kl = {"kexinit"} /\ Kinds(r) = {}
    BY <1>2, <2>1 DEF Phase, Begun, AfterKexinits
  <2>3. kl \ {p.t} = {}
    BY <2>2
  <2> QED
    BY <1>3, <2>2, <2>3 DEF Phase, Begun
<1>8. new.scEpoch = v.scEpoch /\ new.got = v.got /\ new.offer = o
  BY DEF Moved
<1>9. Kexinit(v, o) \in Seq(ServerPackets)
  <2>1. Kinds(<<>>) \subseteq {"reply", "newkeys"}
    BY NoNums
  <2> QED
    BY <1>0, <1>8, <2>1, SaysKexinit
<1> DEFINE K == Opening(o)
<1>10. st.s.open =>
          /\ Says(Kexinit(v, o), K, r, v, new)
          /\ Phase(st.s.cr, st.s.offer, Kinds(st.w) \ {Head(st.w).t}, Kinds(r) \cup K,
                   Expects(new), new.offer)
  <2> SUFFICES ASSUME st.s.open
               PROVE  /\ Says(Kexinit(v, o), K, r, v, new)
                      /\ Phase(st.s.cr, st.s.offer, Kinds(st.w) \ {Head(st.w).t},
                               Kinds(r) \cup K, Expects(new), new.offer)
    OBVIOUS
  <2>1. Kinds(r) \cup K = K /\ Kinds(r) \subseteq {"reply", "newkeys"}
    BY <1>7
  <2>2. Says(Kexinit(v, o), Opening(o), r, v, new)
    BY <1>0, <1>8, <2>1, SaysKexinit
  <2> QED
    BY <1>7, <2>1, <2>2
<1> HIDE DEF K
<1> QED
  BY <1>4, <1>6, <1>9, <1>10, Taking

LEMMA TakesAnswer ==
    ASSUME Ssh2TransportAssumption, NEW st, NEW a, NEW r, NEW v, Good(st, a, r, v),
           st.w # <<>>, v.state # "gone", Head(st.w).t = "kexinit", v.state # "idle", NEW new,
           Moved(v, new, AfterKexinits(v.offer), TRUE, v.offer, v.csEpoch, v.scEpoch, v.got)
    PROVE  Good([st EXCEPT !.w = Tail(st.w)], a, r \o <<>>, new)
<1> DEFINE p == Head(st.w)
           kl == Kinds(st.w)
           o == v.offer
<1>0. /\ r \in Seq(ServerPackets) /\ v \in Servers /\ Readable(st.w, v)
      /\ st.w \in Seq(ClientPackets)
      /\ st.s.open => Base(st, a, r, v) /\ Mode(st, r, v)
  BY GoodHas
<1>1. v.csEpoch \in Nat /\ v.scEpoch \in Nat
  BY <1>0, ServerFields
<1>2. "kexinit" \in kl /\ "newkeys" \notin kl /\ v.state = "kexinit"
  <2>1. p.t \in Kex
    BY DEF Kex, KexTypes
  <2> QED
    BY <1>0, <2>1, HeadIs
<1>3. Expects(new) = AfterKexinits(o) /\ new.offer = o /\ Expects(v) = "kexinit"
  BY <1>2 DEF Expects, Moved, AfterKexinits
<1>4. Takes(p, v, new)
  <2>1. new.csEpoch = v.csEpoch + Count(p.t = "newkeys")
    BY <1>1 DEF Moved, Count
  <2> QED
    BY <1>3, <2>1 DEF Takes, Moved, AfterKexinits
<1>5. Expected(kl \ {p.t}, Expects(new), new.offer)
  <2>1. Expected(kl, "kexinit", o)
    BY <1>0, <1>3 DEF Readable
  <2>2. kl \subseteq Kex
    BY DEF Kinds
  <2> HIDE DEF kl, o
  <2> QED
    BY <1>2, <1>3, <2>1, <2>2 DEF Expected, AfterKexinits
<1>6. ASSUME st.s.open
      PROVE  Phase(st.s.cr, st.s.offer, kl \ {p.t}, Kinds(r), Expects(new), new.offer)
  <2>1. Phase(st.s.cr, st.s.offer, kl, Kinds(r), "kexinit", o)
    BY <1>0, <1>3, <1>6 DEF Mode
  <2>2. AfterKexinits(o) # "kexinit" /\ Expects(new) = AfterKexinits(o) /\ new.offer = o
        /\ p.t = "kexinit"
    BY <1>3 DEF AfterKexinits
  <2> HIDE DEF kl, o, p
  <2>3. \A sent \in {{}, {"gexrequest"}} :
            Begun(kl, sent, "kexinit", o) => Begun(kl \ {p.t}, sent, AfterKexinits(o), o)
    <3> SUFFICES ASSUME NEW sent \in {{}, {"gexrequest"}}, Begun(kl, sent, "kexinit", o)
                 PROVE  kl \ {p.t} = sent
      BY DEF Begun
    <3>1. kl = {"kexinit"} \cup sent
      BY <2>2 DEF Begun
    <3> QED
      BY <2>2, <3>1
  <2>4. st.s.cr = "reply" => /\ kl \ {p.t} = {"dhinit"} /\ AfterKexinits(o) = "dhinit"
                             /\ Kinds(r) = {}
    BY <2>1, <2>2 DEF Phase, AfterKexinits
  <2>5. st.s.cr \notin {"idle", "hostkey", "newkeys"}
    BY <1>2, <2>1 DEF Phase
  <2>6. CASE st.s.cr = "reply"
    BY <2>2, <2>4, <2>6 DEF Phase
  <2>7. CASE st.s.cr = "kexinit"
    BY <2>1, <2>2, <2>3, <2>7 DEF Phase
  <2>8. CASE st.s.cr \in {"askalg", "ignore"}
    BY <2>1, <2>2, <2>3, <2>8 DEF Phase
  <2>9. CASE st.s.cr = "group"
    BY <2>1, <2>2, <2>3, <2>9 DEF Phase
  <2> QED
    BY <2>1, <2>5, <2>6, <2>7, <2>8, <2>9 DEF Phase
<1>7. Says(<<>>, {}, r, v, new) /\ <<>> \in Seq(ServerPackets)
  BY <1>1, SaysNothing DEF Moved
<1> DEFINE K == {}
<1>8. Kinds(r) \cup K = Kinds(r) /\ Says(<<>>, K, r, v, new)
  BY <1>7
<1>9. st.s.open =>
          /\ Says(<<>>, K, r, v, new)
          /\ Phase(st.s.cr, st.s.offer, Kinds(st.w) \ {Head(st.w).t}, Kinds(r) \cup K,
                   Expects(new), new.offer)
  BY <1>6, <1>8
<1> HIDE DEF K
<1> QED
  BY <1>4, <1>5, <1>7, <1>9, Taking

LEMMA TakesRequest ==
    ASSUME Ssh2TransportAssumption, NEW st, NEW a, NEW r, NEW v, Good(st, a, r, v),
           st.w # <<>>, v.state # "gone", Head(st.w).t = "gexrequest", NEW new,
           Moved(v, new, "dhinit", v.inKex, v.offer, v.csEpoch, v.scEpoch, v.got)
    PROVE  Good([st EXCEPT !.w = Tail(st.w)], a, r \o <<Sent(v, "group")>>, new)
<1> DEFINE p == Head(st.w)
           kl == Kinds(st.w)
           m == Sent(v, "group")
           q == <<m>>
           K == {"group"}
<1>0. /\ r \in Seq(ServerPackets) /\ v \in Servers /\ Readable(st.w, v)
      /\ st.w \in Seq(ClientPackets)
      /\ st.s.open => Base(st, a, r, v) /\ Mode(st, r, v)
  BY GoodHas
<1>1. v.csEpoch \in Nat /\ v.scEpoch \in Nat
  BY <1>0, ServerFields
<1>2. kl = {"gexrequest"} /\ v.state = "gexrequest" /\ v.inKex
  BY <1>0, HeadIs
<1>3. Expects(new) = "dhinit" /\ new.offer = v.offer /\ Expects(v) = "gexrequest"
  BY <1>2 DEF Expects, Moved
<1>4. Takes(p, v, new)
  <2>1. new.csEpoch = v.csEpoch + Count(p.t = "newkeys")
    BY <1>1 DEF Moved, Count
  <2> QED
    BY <1>2, <1>3, <2>1 DEF Takes, Moved
<1>5. Expected(kl \ {p.t}, Expects(new), new.offer)
  BY <1>2 DEF Expected
<1>6. m \in ServerPackets /\ m.t = "group" /\ m.ep = v.scEpoch
  BY <1>0, SentIs DEF KexTypes
<1> HIDE DEF m
<1>7. /\ q \in Seq(ServerPackets) /\ Kinds(q) = K /\ Ranked(q) /\ Keyed(q, v.scEpoch)
      /\ \A i \in 1 .. Len(q) : q[i] = m
  <2>1. LET z == <<m>> IN
        /\ z \in Seq(ServerPackets) /\ Kinds(z) = {m.t} \cap Kex /\ Ranked(z)
        /\ Keyed(z, m.ep) /\ \A i \in 1 .. Len(z) : z[i] = m
    BY <1>6, OneMessage
  <2>2. {m.t} \cap Kex = K
    BY <1>6 DEF Kex, KexTypes
  <2> QED
    BY <1>6, <2>1, <2>2
<1> HIDE DEF q
<1>8. ASSUME st.s.open
      PROVE  /\ Kinds(r) = {}
             /\ Phase(st.s.cr, st.s.offer, kl \ {p.t}, K, Expects(new), new.offer)
  <2>1. Phase(st.s.cr, st.s.offer, kl, Kinds(r), "gexrequest", v.offer)
    BY <1>0, <1>3, <1>8 DEF Mode
  <2>2. st.s.cr = "group" /\ Kinds(r) = {}
    BY <1>2, <2>1 DEF Phase, Begun
  <2>3. kl \ {p.t} = {}
    BY <1>2
  <2> QED
    BY <1>3, <2>2, <2>3 DEF Phase
<1>9. st.s.open =>
          /\ Says(q, K, r, v, new)
          /\ Phase(st.s.cr, st.s.offer, Kinds(st.w) \ {Head(st.w).t}, Kinds(r) \cup K,
                   Expects(new), new.offer)
  <2> SUFFICES ASSUME st.s.open
               PROVE  /\ Says(q, K, r, v, new)
                      /\ Phase(st.s.cr, st.s.offer, kl \ {p.t}, Kinds(r) \cup K,
                               Expects(new), new.offer)
    OBVIOUS
  <2>1. Kinds(r) \cup K = K /\ \A t \in Kinds(r), u \in K : Rank(t) < Rank(u)
    BY <1>8
  <2>2. new.scEpoch = v.scEpoch + Count("newkeys" \in K)
    BY <1>1 DEF Moved, Count
  <2>3. Says(q, K, r, v, new)
    BY <1>6, <1>7, <2>1, <2>2 DEF Says, Moved
  <2> QED
    BY <1>8, <2>1, <2>3
<1> HIDE DEF K
<1>10. Good([st EXCEPT !.w = Tail(st.w)], a, r \o q, new)
  BY <1>4, <1>5, <1>7, <1>9, Taking
<1> QED
  BY <1>10 DEF q, m

LEMMA TakesDhinit ==
    ASSUME Ssh2TransportAssumption, NEW st, NEW a, NEW r, NEW v, Good(st, a, r, v),
           st.w # <<>>, v.state # "gone", Head(st.w).t = "dhinit", NEW good \in BOOLEAN, NEW new,
           Moved(v, new, "newkeys", v.inKex, v.offer, v.csEpoch, v.scEpoch + 1, v.got)
    PROVE  Good([st EXCEPT !.w = Tail(st.w)], a,
                r \o <<[Sent(v, "reply") EXCEPT !.good = good], Sent(v, "newkeys")>>, new)
<1> DEFINE p == Head(st.w)
           kl == Kinds(st.w)
           m == [Sent(v, "reply") EXCEPT !.good = good]
           n == Sent(v, "newkeys")
           q == <<m, n>>
           K == {"reply", "newkeys"}
<1>0. /\ r \in Seq(ServerPackets) /\ v \in Servers /\ Readable(st.w, v)
      /\ st.w \in Seq(ClientPackets)
      /\ st.s.open => Base(st, a, r, v) /\ Mode(st, r, v)
  BY GoodHas
<1>1. v.csEpoch \in Nat /\ v.scEpoch \in Nat
  BY <1>0, ServerFields
<1>2. kl = {"dhinit"} /\ v.state = "dhinit" /\ v.inKex
  BY <1>0, HeadIs
<1>3. Expects(new) = "newkeys" /\ new.offer = v.offer /\ Expects(v) = "dhinit"
  BY <1>2 DEF Expects, Moved
<1>4. Takes(p, v, new)
  <2>1. new.csEpoch = v.csEpoch + Count(p.t = "newkeys")
    BY <1>1 DEF Moved, Count
  <2> QED
    BY <1>2, <1>3, <2>1 DEF Takes, Moved
<1>5. Expected(kl \ {p.t}, Expects(new), new.offer)
  BY <1>2 DEF Expected
<1>6. m \in ServerPackets /\ m.t = "reply" /\ m.ep = v.scEpoch
  <2> DEFINE x == Sent(v, "reply")
  <2>1. x \in ServerPackets /\ x.t = "reply" /\ x.ep = v.scEpoch
    BY <1>0, SentIs DEF KexTypes
  <2> HIDE DEF x
  <2>2. m = [x EXCEPT !.good = good]
    BY DEF x
  <2> HIDE DEF m
  <2> QED
    BY <2>1, <2>2 DEF ServerPackets
<1>7. n \in ServerPackets /\ n.t = "newkeys" /\ n.ep = v.scEpoch
  BY <1>0, SentIs DEF KexTypes
<1> HIDE DEF m, n
<1>8. /\ q \in Seq(ServerPackets) /\ Kinds(q) = K /\ Ranked(q) /\ Keyed(q, v.scEpoch)
      /\ \A i \in 1 .. Len(q) : q[i] \in {m, n}
  <2>1. Rank(m.t) < Rank(n.t) /\ m.t # "newkeys" /\ m.ep = n.ep
    BY <1>6, <1>7 DEF Rank
  <2>2. LET z == <<m, n>> IN
        /\ z \in Seq(ServerPackets) /\ Kinds(z) = {m.t, n.t} \cap Kex /\ Ranked(z)
        /\ Keyed(z, m.ep) /\ \A i \in 1 .. Len(z) : z[i] \in {m, n}
    BY <1>6, <1>7, <2>1, TwoMessages
  <2>3. {m.t, n.t} \cap Kex = K
    BY <1>6, <1>7 DEF Kex, KexTypes
  <2> QED
    BY <1>6, <2>2, <2>3
<1> HIDE DEF q
<1>9. ASSUME st.s.open
      PROVE  /\ Kinds(r) = {}
             /\ Phase(st.s.cr, st.s.offer, kl \ {p.t}, K, Expects(new), new.offer)
  <2>1. Phase(st.s.cr, st.s.offer, kl, Kinds(r), "dhinit", v.offer)
    BY <1>0, <1>3, <1>9 DEF Mode
  <2>2. st.s.cr = "reply" /\ Kinds(r) = {}
    BY <1>2, <2>1 DEF Phase, Begun
  <2>3. kl \ {p.t} = {}
    BY <1>2
  <2> QED
    BY <1>3, <2>2, <2>3 DEF Phase
<1>10. st.s.open =>
          /\ Says(q, K, r, v, new)
          /\ Phase(st.s.cr, st.s.offer, Kinds(st.w) \ {Head(st.w).t}, Kinds(r) \cup K,
                   Expects(new), new.offer)
  <2> SUFFICES ASSUME st.s.open
               PROVE  /\ Says(q, K, r, v, new)
                      /\ Phase(st.s.cr, st.s.offer, kl \ {p.t}, Kinds(r) \cup K,
                               Expects(new), new.offer)
    OBVIOUS
  <2>1. Kinds(r) \cup K = K /\ \A t \in Kinds(r), u \in K : Rank(t) < Rank(u)
    BY <1>9
  <2>2. new.scEpoch = v.scEpoch + Count("newkeys" \in K)
    BY <1>1 DEF Moved, Count
  <2>3. Says(q, K, r, v, new)
    BY <1>6, <1>7, <1>8, <2>1, <2>2 DEF Says, Moved
  <2> QED
    BY <1>9, <2>1, <2>3
<1> HIDE DEF K
<1>11. Good([st EXCEPT !.w = Tail(st.w)], a, r \o q, new)
  BY <1>4, <1>5, <1>8, <1>10, Taking
<1> QED
  BY <1>11 DEF q, m, n

LEMMA TakesNewkeys ==
    ASSUME Ssh2TransportAssumption, NEW st, NEW a, NEW r, NEW v, Good(st, a, r, v),
           st.w # <<>>, v.state # "gone", Head(st.w).t = "newkeys", NEW new,
           Moved(v, new, "idle", FALSE, v.offer, v.csEpoch + 1, v.scEpoch, v.got)
    PROVE  Good([st EXCEPT !.w = Tail(st.w)], a, r \o <<>>, new)
<1> DEFINE p == Head(st.w)
           kl == Kinds(st.w)
<1>0. /\ r \in Seq(ServerPackets) /\ v \in Servers /\ Readable(st.w, v)
      /\ st.w \in Seq(ClientPackets)
      /\ st.s.open => Base(st, a, r, v) /\ Mode(st, r, v)
  BY GoodHas
<1>1. v.csEpoch \in Nat /\ v.scEpoch \in Nat
  BY <1>0, ServerFields
<1>2. "newkeys" \in kl /\ v.state = "newkeys"
  <2>1. p.t \in Kex
    BY DEF Kex, KexTypes
  <2> QED
    BY <1>0, <2>1, HeadIs
<1>3. Expects(new) = "idle" /\ new.offer = v.offer /\ Expects(v) = "newkeys"
  BY <1>2 DEF Expects, Moved
<1>4. Takes(p, v, new)
  <2>1. new.csEpoch = v.csEpoch + Count(p.t = "newkeys")
    BY <1>1 DEF Moved, Count
  <2> QED
    BY <1>3, <2>1 DEF Takes, Moved
<1>5. Expected(kl \ {p.t}, Expects(new), new.offer)
  <2>1. Expected(kl, "newkeys", v.offer)
    BY <1>0, <1>3 DEF Readable
  <2> HIDE DEF kl
  <2>2. "gexrequest" \notin kl /\ "dhinit" \notin kl
    BY <2>1 DEF Expected
  <2> QED
    BY <1>3, <2>2 DEF Expected
<1>6. ASSUME st.s.open
      PROVE  Phase(st.s.cr, st.s.offer, kl \ {p.t}, Kinds(r), Expects(new), new.offer)
  <2>1. Phase(st.s.cr, st.s.offer, kl, Kinds(r), "newkeys", v.offer)
    BY <1>0, <1>3, <1>6 DEF Mode
  <2>2. \/ st.s.cr = "idle" /\ kl = {"newkeys"} /\ Kinds(r) = {}
        \/ st.s.cr = "kexinit" /\ kl = {"newkeys", "kexinit"} /\ Kinds(r) = {}
        \/ st.s.cr = "newkeys" /\ kl = {"newkeys"} /\ Kinds(r) = {"newkeys"}
    BY <1>2, <2>1 DEF Phase, Begun, AfterKexinits
  <2>3. \/ st.s.cr = "idle" /\ kl \ {p.t} = {} /\ Kinds(r) = {}
        \/ st.s.cr = "kexinit" /\ kl \ {p.t} = {"kexinit"} /\ Kinds(r) = {}
        \/ st.s.cr = "newkeys" /\ kl \ {p.t} = {} /\ Kinds(r) = {"newkeys"}
    BY <2>2
  <2> QED
    BY <1>3, <2>3 DEF Phase
<1>7. Says(<<>>, {}, r, v, new) /\ <<>> \in Seq(ServerPackets)
  BY <1>1, SaysNothing DEF Moved
<1> DEFINE K == {}
<1>8. Kinds(r) \cup K = Kinds(r) /\ Says(<<>>, K, r, v, new)
  BY <1>7
<1>9. st.s.open =>
          /\ Says(<<>>, K, r, v, new)
          /\ Phase(st.s.cr, st.s.offer, Kinds(st.w) \ {Head(st.w).t}, Kinds(r) \cup K,
                   Expects(new), new.offer)
  BY <1>6, <1>8
<1> HIDE DEF K
<1> QED
  BY <1>4, <1>5, <1>7, <1>9, Taking

LEMMA MovedIs ==
    ASSUME Ssh2TransportAssumption, NEW v \in Servers, NEW x \in Servers, x.ok, x.seq = v.seq
    PROVE  Moved(v, [x EXCEPT !.seq = (@ + 1) % SequenceMod],
                 x.state, x.inKex, x.offer, x.csEpoch, x.scEpoch, x.got)
<1> DEFINE n == (v.seq + 1) % SequenceMod
           new == [x EXCEPT !.seq = n]
<1>1. n \in 0 .. SequenceMod - 1
  <2>1. v.seq + 1 \in Nat /\ SequenceMod \in Nat \ {0}
    BY ServerFields DEF Ssh2TransportAssumption
  <2> QED
    BY <2>1, ModRange
<1>2. [x EXCEPT !.seq = (@ + 1) % SequenceMod] = new
  BY DEF Servers
<1>3. new.seq = n
  BY DEF Servers
<1> HIDE DEF n
<1>4. /\ new \in Servers /\ new.ok /\ new.state = x.state /\ new.inKex = x.inKex
      /\ new.offer = x.offer /\ new.csEpoch = x.csEpoch /\ new.scEpoch = x.scEpoch
      /\ new.got = x.got
  BY <1>1 DEF Servers
<1> QED
  BY <1>2, <1>3, <1>4 DEF Moved, n

(* A step of the server that leaves the client in the state st. *)
LEMMA Serving ==
    ASSUME NEW st, st.s = ssh, st.w = toServer', st.a = app, ssh' = ssh, app' = app,
           Good(st, app, toClient', srv'), used' \in Used
    PROVE  IInv'
<1>1. Becomes(st)
  BY DEF Becomes
<1>2. Good(st, st.a, toClient', srv')
  OBVIOUS
<1> QED
  BY <1>1, <1>2, Becoming

(* What the server's steps do to what the client and it share: it takes     *)
(* packets one at a time, and comes to new keys each way once in an         *)
(* exchange, to those it sends with at the client's value of the exchange   *)
(* ("dhinit") and to those it reads with at the client's NEWKEYS.           *)
Steady(v, new) ==
    /\ new.csEpoch = v.csEpoch /\ new.scEpoch = v.scEpoch
    /\ Expects(new) = "newkeys" <=> Expects(v) = "newkeys"
Gets(p, v, new) ==
    /\ new.got = IF p.t = "app" THEN p.n ELSE v.got
    /\ p.t = "app" => Steady(v, new) /\ Expects(v) # "newkeys"
    /\ \/ Steady(v, new)
       \/ /\ Expects(v) = "dhinit" /\ Expects(new) = "newkeys"
          /\ new.csEpoch = v.csEpoch /\ new.scEpoch = v.scEpoch + 1
       \/ /\ p.t = "newkeys" /\ Expects(v) = "newkeys" /\ Expects(new) # "newkeys"
          /\ new.csEpoch = v.csEpoch + 1 /\ new.scEpoch = v.scEpoch
ServerMoves ==
    /\ ssh' = ssh /\ app' = app
    /\ \/ toServer' = toServer /\ srv'.got = srv.got /\ Steady(srv, srv')
       \/ toServer # <<>> /\ toServer' = Tail(toServer) /\ Gets(Head(toServer), srv, srv')

LEMMA SrvReceiveIs ==
    ASSUME Ssh2TransportAssumption, IInv, SrvReceive
    PROVE  IInv' /\ ServerMoves
<1> DEFINE p == Head(toServer)
           x == [Now EXCEPT !.w = Tail(Now.w)]
           Move(v) == [v EXCEPT !.seq = (@ + 1) % SequenceMod]
<1>0. /\ Good(Now, app, toClient, srv) /\ used \in Used /\ srv \in Servers
      /\ Now.w = toServer /\ Now \in States /\ toServer \in Seq(ClientPackets)
      /\ Readable(toServer, srv) /\ toServer # <<>> /\ srv.state # "gone" /\ srv.ok
  <2>1. Good(Now, app, toClient, srv) /\ used \in Used /\ Now.w = toServer
    BY NowIs DEF IInv, Used
  <2>2. /\ Now \in States /\ srv \in Servers /\ toServer \in Seq(ClientPackets)
        /\ Readable(toServer, srv)
    BY <2>1, GoodHas
  <2> QED
    BY <2>1, <2>2 DEF SrvReceive
<1>1. /\ p.ep = srv.csEpoch /\ p.seq = srv.seq /\ p \in ClientPackets
      /\ p.t = "app" => ~srv.inKex
      /\ p.t = "kexinit" => ~srv.inKex /\ srv.state \in {"idle", "kexinit"}
      /\ p.t \in {"gexrequest", "dhinit", "newkeys"} => srv.inKex /\ srv.state = p.t
  BY <1>0, HeadIs
<1>2. p.t \in {"app", "ignore", "unimplemented", "kexinit", "gexrequest", "dhinit", "newkeys"}
      /\ p.n \in 0 .. MaxApp
  BY <1>1 DEF ClientPackets
<1>3. SrvUnderstands(p)
  BY <1>1, <1>2 DEF SrvUnderstands
<1>4. x.s = ssh /\ x.w = Tail(toServer) /\ x.a = app
  BY <1>0, NowIs
<1>5. /\ srv.csEpoch + 1 \in Nat /\ srv.scEpoch + 1 \in Nat /\ srv.offer \in Offers \cup {NoOffer}
      /\ srv.csEpoch \in Nat /\ srv.scEpoch \in Nat
  BY <1>0, ServerFields
<1> HIDE DEF x, p
<1>6. ASSUME NEW new, NEW q, SrvTakes(new, q), Good(x, app, toClient \o q, Move(new)),
             Gets(p, srv, Move(new))
      PROVE  IInv' /\ ServerMoves
  <2>1. /\ toServer' = Tail(toServer) /\ toClient' = toClient \o q /\ srv' = Move(new)
        /\ ssh' = ssh /\ app' = app /\ used' = used
    BY <1>3, <1>6 DEF SrvTakes, p
  <2> HIDE DEF Move
  <2>2. IInv'
    BY <1>0, <1>4, <1>6, <2>1, Serving
  <2>3. ServerMoves
    BY <1>0, <1>6, <2>1 DEF ServerMoves, p
  <2> QED
    BY <2>2, <2>3
<1>7. \A new \in Servers : new.ok /\ new.seq = srv.seq =>
          Moved(srv, Move(new), new.state, new.inKex, new.offer, new.csEpoch, new.scEpoch, new.got)
  BY <1>0, MovedIs
<1> HIDE DEF Move
<1>8. ASSUME NEW new \in {srv, [srv EXCEPT !.got = p.n]},
             p.t \notin Kex, new.got = IF p.t = "app" THEN p.n ELSE srv.got
      PROVE  Good(x, app, toClient \o <<>>, Move(new)) /\ Gets(p, srv, Move(new))
  <2>1. /\ new \in Servers /\ new.ok /\ new.seq = srv.seq /\ new.state = srv.state
        /\ new.inKex = srv.inKex /\ new.offer = srv.offer /\ new.csEpoch = srv.csEpoch
        /\ new.scEpoch = srv.scEpoch
    BY <1>0, <1>2 DEF Servers
  <2>2. Moved(srv, Move(new), srv.state, srv.inKex, srv.offer, srv.csEpoch, srv.scEpoch,
              IF Head(Now.w).t = "app" THEN Head(Now.w).n ELSE srv.got)
    <3>1. Moved(srv, Move(new), new.state, new.inKex, new.offer, new.csEpoch, new.scEpoch,
                new.got)
      BY <1>7, <2>1
    <3> QED
      BY <1>0, <1>8, <2>1, <3>1 DEF p
  <2>3. Head(Now.w).t \notin Kex /\ Now.w # <<>>
    BY <1>0, <1>8 DEF p
  <2>4. Good(x, app, toClient \o <<>>, Move(new))
    BY <1>0, <2>2, <2>3, TakesOther DEF x
  <2>5. Steady(srv, Move(new)) /\ Move(new).got = IF p.t = "app" THEN p.n ELSE srv.got
    BY <1>0, <2>2 DEF Steady, Moved, Expects, p
  <2>6. p.t = "app" => Expects(srv) # "newkeys"
    BY <1>0, <1>1 DEF Readable
  <2> QED
    BY <2>4, <2>5, <2>6 DEF Gets
<1>9. ASSUME p.t \in {"ignore", "unimplemented"}, SrvTakes(srv, <<>>)
      PROVE  IInv' /\ ServerMoves
  <2>1. p.t \notin Kex /\ p.t # "app"
    BY <1>9 DEF Kex, KexTypes
  <2>2. Good(x, app, toClient \o <<>>, Move(srv)) /\ Gets(p, srv, Move(srv))
    BY <1>8, <2>1
  <2> QED
    BY <1>6, <1>9, <2>2
<1>10. ASSUME p.t = "app", SrvTakes([srv EXCEPT !.got = p.n], <<>>)
       PROVE  IInv' /\ ServerMoves
  <2> DEFINE new == [srv EXCEPT !.got = p.n]
  <2>1. p.t \notin Kex
    BY <1>10 DEF Kex, KexTypes
  <2>2. new.got = p.n
    BY <1>0 DEF Servers
  <2>3. Good(x, app, toClient \o <<>>, Move(new)) /\ Gets(p, srv, Move(new))
    BY <1>8, <1>10, <2>1, <2>2
  <2> QED
    BY <1>6, <1>10, <2>3
<1>11. ASSUME p.t = "kexinit", srv.state = "idle", NEW o \in Offers,
              SrvTakes([[srv EXCEPT !.inKex = TRUE] EXCEPT !.state = AfterKexinits(o), !.offer = o],
                       Kexinit(srv, o))
       PROVE  IInv' /\ ServerMoves
  <2> DEFINE new == [[srv EXCEPT !.inKex = TRUE] EXCEPT !.state = AfterKexinits(o), !.offer = o]
             q == Kexinit(srv, o)
  <2>1. /\ new \in Servers /\ new.ok /\ new.seq = srv.seq /\ new.state = AfterKexinits(o)
        /\ new.inKex = TRUE /\ new.offer = o /\ new.csEpoch = srv.csEpoch
        /\ new.scEpoch = srv.scEpoch /\ new.got = srv.got
    <3> DEFINE to == AfterKexinits(o)
               began == [srv EXCEPT !.inKex = TRUE]
    <3>1. to \in {"idle", "kexinit", "gexrequest", "dhinit", "newkeys", "gone"}
      BY DEF AfterKexinits
    <3> HIDE DEF to
    <3>2. /\ began \in Servers /\ began.ok /\ began.seq = srv.seq /\ began.inKex = TRUE
          /\ began.csEpoch = srv.csEpoch /\ began.scEpoch = srv.scEpoch
          /\ began.got = srv.got
      BY <1>0 DEF Servers
    <3> HIDE DEF began
    <3>3. LET z == [began EXCEPT !.state = to, !.offer = o] IN
          /\ z \in Servers /\ z.ok /\ z.seq = began.seq /\ z.state = to /\ z.inKex = TRUE
          /\ z.offer = o /\ z.csEpoch = began.csEpoch /\ z.scEpoch = began.scEpoch
          /\ z.got = began.got
      BY <3>1, <3>2 DEF Servers
    <3> QED
      BY <3>2, <3>3 DEF to, began
  <2> HIDE DEF new
  <2>2. Moved(srv, Move(new), AfterKexinits(o), TRUE, o, srv.csEpoch, srv.scEpoch, srv.got)
    <3>1. Moved(srv, Move(new), new.state, new.inKex, new.offer, new.csEpoch, new.scEpoch,
                new.got)
      BY <1>7, <2>1
    <3> QED
      BY <2>1, <3>1
  <2>3. Head(Now.w).t = "kexinit" /\ Now.w # <<>>
    BY <1>0, <1>11 DEF p
  <2>4. Good(x, app, toClient \o q, Move(new))
    BY <1>0, <1>11, <2>2, <2>3, TakesKexinit DEF x
  <2>5. SrvTakes(new, q)
    BY <1>11 DEF new
  <2>6. Gets(p, srv, Move(new))
    <3>1. Steady(srv, Move(new)) /\ Move(new).got = srv.got
      BY <1>0, <1>11, <2>2 DEF Steady, Moved, Expects, AfterKexinits
    <3> QED
      BY <1>11, <3>1 DEF Gets
  <2> HIDE DEF q
  <2> QED
    BY <1>6, <2>4, <2>5, <2>6
<1>12. ASSUME p.t = "kexinit", srv.state # "idle",
              SrvTakes([[srv EXCEPT !.inKex = TRUE] EXCEPT !.state = AfterKexinits(srv.offer)],
                       <<>>)
       PROVE  IInv' /\ ServerMoves
  <2> DEFINE new == [[srv EXCEPT !.inKex = TRUE] EXCEPT !.state = AfterKexinits(srv.offer)]
  <2>1. /\ new \in Servers /\ new.ok /\ new.seq = srv.seq
        /\ new.state = AfterKexinits(srv.offer)
        /\ new.inKex = TRUE /\ new.offer = srv.offer /\ new.csEpoch = srv.csEpoch
        /\ new.scEpoch = srv.scEpoch /\ new.got = srv.got
    <3> DEFINE to == AfterKexinits(srv.offer)
               began == [srv EXCEPT !.inKex = TRUE]
    <3>1. to \in {"idle", "kexinit", "gexrequest", "dhinit", "newkeys", "gone"}
      BY DEF AfterKexinits
    <3> HIDE DEF to
    <3>2. /\ began \in Servers /\ began.ok /\ began.seq = srv.seq /\ began.inKex = TRUE
          /\ began.csEpoch = srv.csEpoch /\ began.scEpoch = srv.scEpoch
          /\ began.got = srv.got /\ began.offer = srv.offer
      BY <1>0 DEF Servers
    <3> HIDE DEF began
    <3>3. LET z == [began EXCEPT !.state = to] IN
          /\ z \in Servers /\ z.ok /\ z.seq = began.seq /\ z.state = to /\ z.inKex = TRUE
          /\ z.offer = began.offer /\ z.csEpoch = began.csEpoch
          /\ z.scEpoch = began.scEpoch /\ z.got = began.got
      BY <3>1, <3>2 DEF Servers
    <3> QED
      BY <3>2, <3>3 DEF to, began
  <2> HIDE DEF new
  <2>2. Moved(srv, Move(new), AfterKexinits(srv.offer), TRUE, srv.offer, srv.csEpoch,
              srv.scEpoch, srv.got)
    <3>1. Moved(srv, Move(new), new.state, new.inKex, new.offer, new.csEpoch, new.scEpoch,
                new.got)
      BY <1>7, <2>1
    <3> QED
      BY <2>1, <3>1
  <2>3. Head(Now.w).t = "kexinit" /\ Now.w # <<>>
    BY <1>0, <1>12 DEF p
  <2>4. Good(x, app, toClient \o <<>>, Move(new))
    BY <1>0, <1>12, <2>2, <2>3, TakesAnswer DEF x
  <2>5. SrvTakes(new, <<>>)
    BY <1>12 DEF new
  <2>6. Gets(p, srv, Move(new))
    <3>1. Steady(srv, Move(new)) /\ Move(new).got = srv.got
      BY <1>0, <1>12, <1>1, <2>2 DEF Steady, Moved, Expects, AfterKexinits
    <3> QED
      BY <1>12, <3>1 DEF Gets
  <2> QED
    BY <1>6, <2>4, <2>5, <2>6
<1>13. ASSUME p.t = "gexrequest",
              SrvTakes([srv EXCEPT !.state = "dhinit"], <<Sent(srv, "group")>>)
       PROVE  IInv' /\ ServerMoves
  <2> DEFINE new == [srv EXCEPT !.state = "dhinit"]
             q == <<Sent(srv, "group")>>
  <2>1. /\ new \in Servers /\ new.ok /\ new.seq = srv.seq /\ new.state = "dhinit"
        /\ new.inKex = srv.inKex /\ new.offer = srv.offer /\ new.csEpoch = srv.csEpoch
        /\ new.scEpoch = srv.scEpoch /\ new.got = srv.got
    BY <1>0 DEF Servers
  <2> HIDE DEF new
  <2>2. Moved(srv, Move(new), "dhinit", srv.inKex, srv.offer, srv.csEpoch, srv.scEpoch, srv.got)
    <3>1. Moved(srv, Move(new), new.state, new.inKex, new.offer, new.csEpoch, new.scEpoch,
                new.got)
      BY <1>7, <2>1
    <3> QED
      BY <2>1, <3>1
  <2>3. Head(Now.w).t = "gexrequest" /\ Now.w # <<>>
    BY <1>0, <1>13 DEF p
  <2>4. Good(x, app, toClient \o q, Move(new))
    BY <1>0, <2>2, <2>3, TakesRequest DEF x
  <2>5. SrvTakes(new, q)
    BY <1>13 DEF new
  <2>6. Gets(p, srv, Move(new))
    <3>1. Steady(srv, Move(new)) /\ Move(new).got = srv.got
      BY <1>0, <1>13, <1>1, <2>2 DEF Steady, Moved, Expects, AfterKexinits
    <3> QED
      BY <1>13, <3>1 DEF Gets
  <2> HIDE DEF q
  <2> QED
    BY <1>6, <2>4, <2>5, <2>6
<1>14. ASSUME p.t = "dhinit", NEW good \in BOOLEAN,
              SrvTakes([srv EXCEPT !.state = "newkeys", !.scEpoch = @ + 1],
                       <<[Sent(srv, "reply") EXCEPT !.good = good], Sent(srv, "newkeys")>>)
       PROVE  IInv' /\ ServerMoves
  <2> DEFINE new == [srv EXCEPT !.state = "newkeys", !.scEpoch = @ + 1]
             q == <<[Sent(srv, "reply") EXCEPT !.good = good], Sent(srv, "newkeys")>>
  <2>1. /\ new \in Servers /\ new.ok /\ new.seq = srv.seq /\ new.state = "newkeys"
        /\ new.inKex = srv.inKex /\ new.offer = srv.offer /\ new.csEpoch = srv.csEpoch
        /\ new.scEpoch = srv.scEpoch + 1 /\ new.got = srv.got
    BY <1>0, <1>5 DEF Servers
  <2> HIDE DEF new
  <2>2. Moved(srv, Move(new), "newkeys", srv.inKex, srv.offer, srv.csEpoch, srv.scEpoch + 1,
              srv.got)
    <3>1. Moved(srv, Move(new), new.state, new.inKex, new.offer, new.csEpoch, new.scEpoch,
                new.got)
      BY <1>7, <2>1
    <3> QED
      BY <2>1, <3>1
  <2>3. Head(Now.w).t = "dhinit" /\ Now.w # <<>>
    BY <1>0, <1>14 DEF p
  <2>4. Good(x, app, toClient \o q, Move(new))
    BY <1>0, <2>2, <2>3, TakesDhinit DEF x
  <2>5. SrvTakes(new, q)
    BY <1>14 DEF new
  <2>6. Gets(p, srv, Move(new))
    <3>1. /\ Expects(srv) = "dhinit" /\ Expects(Move(new)) = "newkeys"
          /\ Move(new).csEpoch = srv.csEpoch /\ Move(new).scEpoch = srv.scEpoch + 1
          /\ Move(new).got = srv.got
      BY <1>1, <1>14, <2>2 DEF Moved, Expects
    <3> QED
      BY <1>14, <3>1 DEF Gets
  <2> HIDE DEF q
  <2> QED
    BY <1>6, <2>4, <2>5, <2>6
<1>15. ASSUME p.t = "newkeys",
              SrvTakes([srv EXCEPT !.state = "idle", !.inKex = FALSE, !.csEpoch = @ + 1], <<>>)
       PROVE  IInv' /\ ServerMoves
  <2> DEFINE new == [srv EXCEPT !.state = "idle", !.inKex = FALSE, !.csEpoch = @ + 1]
  <2>1. /\ new \in Servers /\ new.ok /\ new.seq = srv.seq /\ new.state = "idle"
        /\ new.inKex = FALSE /\ new.offer = srv.offer /\ new.csEpoch = srv.csEpoch + 1
        /\ new.scEpoch = srv.scEpoch /\ new.got = srv.got
    BY <1>0, <1>5 DEF Servers
  <2> HIDE DEF new
  <2>2. Moved(srv, Move(new), "idle", FALSE, srv.offer, srv.csEpoch + 1, srv.scEpoch, srv.got)
    <3>1. Moved(srv, Move(new), new.state, new.inKex, new.offer, new.csEpoch, new.scEpoch,
                new.got)
      BY <1>7, <2>1
    <3> QED
      BY <2>1, <3>1
  <2>3. Head(Now.w).t = "newkeys" /\ Now.w # <<>>
    BY <1>0, <1>15 DEF p
  <2>4. Good(x, app, toClient \o <<>>, Move(new))
    BY <1>0, <2>2, <2>3, TakesNewkeys DEF x
  <2>5. SrvTakes(new, <<>>)
    BY <1>15 DEF new
  <2>6. Gets(p, srv, Move(new))
    <3>1. /\ Expects(srv) = "newkeys" /\ Expects(Move(new)) # "newkeys"
          /\ Move(new).csEpoch = srv.csEpoch + 1 /\ Move(new).scEpoch = srv.scEpoch
          /\ Move(new).got = srv.got
      BY <1>1, <1>15, <2>2 DEF Moved, Expects
    <3> QED
      BY <1>15, <3>1 DEF Gets
  <2> QED
    BY <1>6, <2>4, <2>5, <2>6
<1>16. \/ p.t \in {"ignore", "unimplemented"} /\ SrvTakes(srv, <<>>)
       \/ p.t = "app" /\ SrvTakes([srv EXCEPT !.got = p.n], <<>>)
       \/ /\ p.t = "kexinit" /\ srv.state = "idle"
          /\ \E o \in Offers :
                 SrvTakes([[srv EXCEPT !.inKex = TRUE] EXCEPT !.state = AfterKexinits(o),
                                                              !.offer = o], Kexinit(srv, o))
       \/ /\ p.t = "kexinit" /\ srv.state # "idle"
          /\ SrvTakes([[srv EXCEPT !.inKex = TRUE] EXCEPT !.state = AfterKexinits(srv.offer)], <<>>)
       \/ p.t = "gexrequest" /\ SrvTakes([srv EXCEPT !.state = "dhinit"], <<Sent(srv, "group")>>)
       \/ /\ p.t = "dhinit"
          /\ \E good \in BOOLEAN :
                 SrvTakes([srv EXCEPT !.state = "newkeys", !.scEpoch = @ + 1],
                          <<[Sent(srv, "reply") EXCEPT !.good = good], Sent(srv, "newkeys")>>)
       \/ /\ p.t = "newkeys"
          /\ SrvTakes([srv EXCEPT !.state = "idle", !.inKex = FALSE, !.csEpoch = @ + 1], <<>>)
  BY Zenon DEF SrvReceive, p
<1> QED
  BY <1>9, <1>10, <1>11, <1>12, <1>13, <1>14, <1>15, <1>16

LEMMA SrvSendsIs ==
    ASSUME Ssh2TransportAssumption, IInv, SrvSends
    PROVE  IInv' /\ ServerMoves
<1>1. PICK t \in {"data", "ignore", "unknown", "disconnect"} :
          /\ t = "data" => srv.got > 0
          /\ SrvSays(IF t = "disconnect" THEN [srv EXCEPT !.state = "gone"] ELSE srv,
                     <<Sent(srv, t)>>)
  BY DEF SrvSends
<1> DEFINE new == IF t = "disconnect" THEN [srv EXCEPT !.state = "gone"] ELSE srv
           m == Sent(srv, t)
           q == <<m>>
           K == {}
<1>2. /\ Good(Now, app, toClient, srv) /\ used \in Used /\ srv \in Servers
      /\ Now.w = toServer /\ Now.s = ssh /\ Now.a = app /\ Readable(toServer, srv)
      /\ ssh.open => Mode(Now, toClient, srv)
  <2>1. Good(Now, app, toClient, srv) /\ used \in Used /\ Now.w = toServer /\ Now.s = ssh
        /\ Now.a = app
    BY NowIs DEF IInv, Used
  <2>2. srv \in Servers /\ Readable(toServer, srv) /\ (ssh.open => Mode(Now, toClient, srv))
    BY <2>1, GoodHas
  <2> QED
    BY <2>1, <2>2
<1>3. /\ srv.state \in {"idle", "newkeys"} /\ srv.ok /\ used.data < MaxSrvData
      /\ used' = [used EXCEPT !.data = @ + 1]
  BY DEF SrvSends
<1>4. /\ srv' = new /\ toClient' = toClient \o q /\ ssh' = ssh /\ toServer' = toServer
      /\ app' = app
  BY <1>1 DEF SrvSays
<1>5. /\ new \in Servers /\ new.ok /\ new.seq = srv.seq /\ new.csEpoch = srv.csEpoch
      /\ new.inKex = srv.inKex /\ new.got = srv.got /\ new.scEpoch = srv.scEpoch
      /\ new.offer = srv.offer /\ new.state \in {srv.state, "gone"}
  BY <1>2, <1>3 DEF Servers
<1> HIDE DEF new
<1>6. Expects(new) = Expects(srv)
  <2>1. srv.inKex <=> srv.state = "newkeys"
    BY <1>2, <1>3 DEF Readable, Expects
  <2> QED
    BY <1>3, <1>5, <2>1 DEF Expects
<1>7. m \in ServerPackets /\ m.t = t /\ m.ep = srv.scEpoch
  BY <1>2, SentIs
<1> HIDE DEF m
<1>8. /\ q \in Seq(ServerPackets) /\ Kinds(q) = K /\ Ranked(q) /\ Keyed(q, srv.scEpoch)
      /\ \A i \in 1 .. Len(q) : q[i] = m
  <2>1. LET z == <<m>> IN
        /\ z \in Seq(ServerPackets) /\ Kinds(z) = {m.t} \cap Kex /\ Ranked(z)
        /\ Keyed(z, m.ep) /\ \A i \in 1 .. Len(z) : z[i] = m
    BY <1>7, OneMessage
  <2>2. {m.t} \cap Kex = {}
    BY <1>7 DEF Kex, KexTypes
  <2> QED
    BY <1>7, <2>1, <2>2
<1> HIDE DEF q
<1>9. Says(q, K, toClient, srv, new)
  <2>1. new.scEpoch = srv.scEpoch + Count("newkeys" \in K)
    <3>1. srv.scEpoch \in Nat
      BY <1>2, ServerFields
    <3> QED
      BY <1>5, <3>1 DEF Count
  <2>2. \A i \in 1 .. Len(q) : q[i].t # "kexinit" /\ (q[i].t = "data" => srv.got > 0)
    BY <1>1, <1>7, <1>8
  <2> QED
    BY <1>5, <1>8, <2>1, <2>2 DEF Says
<1>10. Now.s.open =>
           /\ Says(q, K, toClient, srv, new)
           /\ Phase(Now.s.cr, Now.s.offer, Kinds(Now.w), Kinds(toClient) \cup K,
                    Expects(new), new.offer)
  <2>1. Kinds(toClient) \cup K = Kinds(toClient)
    OBVIOUS
  <2>2. Now.s.open => Phase(Now.s.cr, Now.s.offer, Kinds(Now.w), Kinds(toClient),
                            Expects(srv), srv.offer)
    BY <1>2 DEF Mode
  <2> QED
    BY <1>5, <1>6, <1>9, <2>1, <2>2
<1> HIDE DEF K
<1>11. /\ new.inKex <=> Expects(new) \in {"gexrequest", "dhinit", "newkeys"}
       /\ Expected(Kinds(Now.w), Expects(new), new.offer)
  BY <1>2, <1>5, <1>6 DEF Readable
<1>12. Good(Now, app, toClient \o q, new)
  BY <1>2, <1>5, <1>8, <1>10, <1>11, Saying
<1>13. used' \in Used
  <2>1. MaxSrvData \in Nat
    BY DEF Ssh2TransportAssumption
  <2>2. used.data + 1 \in 0 .. MaxSrvData
    BY <1>2, <1>3, <2>1 DEF Used
  <2> QED
    BY <1>2, <1>3, <2>2 DEF Used
<1>14. IInv'
  BY <1>2, <1>4, <1>12, <1>13, Serving
<1>15. Steady(srv, new)
  BY <1>5, <1>6 DEF Steady
<1> QED
  BY <1>4, <1>5, <1>14, <1>15 DEF ServerMoves

LEMMA SrvRekeysIs ==
    ASSUME Ssh2TransportAssumption, IInv, SrvRekeys
    PROVE  IInv' /\ ServerMoves
<1>1. PICK o \in Offers : SrvSays([srv EXCEPT !.state = "kexinit", !.offer = o], Kexinit(srv, o))
  BY DEF SrvRekeys
<1> DEFINE new == [srv EXCEPT !.state = "kexinit", !.offer = o]
           q == Kexinit(srv, o)
           K == Opening(o)
           kl == Kinds(toServer)
<1>2. /\ Good(Now, app, toClient, srv) /\ used \in Used /\ srv \in Servers
      /\ Now.w = toServer /\ Now.s = ssh /\ Now.a = app /\ Readable(toServer, srv)
      /\ ssh.open => Mode(Now, toClient, srv)
  <2>1. Good(Now, app, toClient, srv) /\ used \in Used /\ Now.w = toServer /\ Now.s = ssh
        /\ Now.a = app
    BY NowIs DEF IInv, Used
  <2>2. srv \in Servers /\ Readable(toServer, srv) /\ (ssh.open => Mode(Now, toClient, srv))
    BY <2>1, GoodHas
  <2> QED
    BY <2>1, <2>2
<1>3. srv.state = "idle" /\ srv.ok /\ used' \in Used
  BY RequestIs DEF SrvRekeys, Request
<1>4. /\ srv' = new /\ toClient' = toClient \o q /\ ssh' = ssh /\ toServer' = toServer
      /\ app' = app
  BY <1>1 DEF SrvSays
<1>5. /\ new \in Servers /\ new.ok /\ new.seq = srv.seq /\ new.csEpoch = srv.csEpoch
      /\ new.inKex = srv.inKex /\ new.got = srv.got /\ new.scEpoch = srv.scEpoch
      /\ new.offer = o /\ new.state = "kexinit"
  BY <1>2, <1>3 DEF Servers
<1> HIDE DEF new, q
<1>6. Expects(srv) = "idle" /\ Expects(new) = "kexinit" /\ ~srv.inKex
  BY <1>2, <1>3, <1>5 DEF Readable, Expects
<1>7. /\ new.inKex <=> Expects(new) \in {"gexrequest", "dhinit", "newkeys"}
      /\ Expected(kl, Expects(new), new.offer)
  <2>1. Expected(kl, "idle", srv.offer)
    BY <1>2, <1>6 DEF Readable
  <2> HIDE DEF kl
  <2> QED
    BY <1>5, <1>6, <2>1 DEF Expected
<1>8. ASSUME ssh.open
      PROVE  /\ Kinds(toClient) \subseteq {"reply", "newkeys"}
             /\ Phase(ssh.cr, ssh.offer, kl, Kinds(toClient) \cup K, Expects(new), new.offer)
  <2>1. Phase(ssh.cr, ssh.offer, kl, Kinds(toClient), "idle", srv.offer)
    BY <1>2, <1>6, <1>8 DEF Mode
  <2> HIDE DEF kl, K
  <2>2. \/ ssh.cr = "idle" /\ kl = {} /\ Kinds(toClient) = {}
        \/ ssh.cr = "kexinit" /\ kl = {"kexinit"} /\ Kinds(toClient) = {}
        \/ ssh.cr = "newkeys" /\ kl = {} /\ Kinds(toClient) = {"newkeys"}
    BY <2>1 DEF Phase, Begun, AfterKexinits
  <2>3. {} \cup K = K
    OBVIOUS
  <2>4. Kinds(toClient) = {} => Kinds(toClient) \cup K = K
    BY <2>3
  <2>5. CASE ssh.cr = "idle" /\ kl = {} /\ Kinds(toClient) = {}
    BY <1>5, <1>6, <2>4, <2>5 DEF Phase, K
  <2>6. CASE ssh.cr = "kexinit" /\ kl = {"kexinit"} /\ Kinds(toClient) = {}
    BY <1>5, <1>6, <2>4, <2>6 DEF Phase, K, Begun
  <2>7. CASE ssh.cr = "newkeys" /\ kl = {} /\ Kinds(toClient) = {"newkeys"}
    BY <1>5, <1>6, <2>7 DEF Phase, K
  <2> QED
    BY <2>2, <2>5, <2>6, <2>7
<1>9. q \in Seq(ServerPackets)
  <2>1. Kinds(<<>>) \subseteq {"reply", "newkeys"}
    BY NoNums
  <2> QED
    BY <1>2, <1>5, <2>1, SaysKexinit DEF q
<1>10. Now.s.open =>
           /\ Says(q, K, toClient, srv, new)
           /\ Phase(Now.s.cr, Now.s.offer, Kinds(Now.w), Kinds(toClient) \cup K,
                    Expects(new), new.offer)
  <2>1. ASSUME ssh.open  PROVE Says(q, K, toClient, srv, new)
    BY <1>2, <1>5, <1>8, <2>1, SaysKexinit DEF q
  <2> QED
    BY <1>2, <1>8, <2>1
<1> HIDE DEF K
<1>11. Good(Now, app, toClient \o q, new)
  BY <1>2, <1>5, <1>7, <1>9, <1>10, Saying
<1>12. IInv'
  BY <1>2, <1>3, <1>4, <1>11, Serving
<1>13. Steady(srv, new)
  BY <1>5, <1>6 DEF Steady
<1> QED
  BY <1>4, <1>5, <1>12, <1>13 DEF ServerMoves

LEMMA StutterKeeps ==
    ASSUME Ssh2TransportAssumption, IInv, UNCHANGED vars
    PROVE  IInv'
<1>1. Good(Now, Now.a, toClient, srv) /\ used \in Used
  BY NowIs DEF IInv, Used
<1>2. /\ ssh' = Now.s /\ toServer' = Now.w /\ app' = Now.a
      /\ toClient' = toClient /\ srv' = srv /\ used' = used
  BY NowIs DEF vars
<1>3. Becomes(Now)
  BY <1>2 DEF Becomes
<1> QED
  BY <1>1, <1>2, <1>3, Becoming

(* Both ends of a new connection, and the client with its first KEXINIT. *)
NewSsh(cfg, bug) ==
    [open |-> TRUE, why |-> "", cr |-> "idle", kex_in_progress |-> FALSE,
     queueing |-> FALSE, queue |-> <<>>, deferred |-> <<>>, seq |-> 0,
     csEpoch |-> 0, scEpoch |-> 0, cscipher |-> "none",
     outgoing_data_size |-> 0, incoming_data_size |-> 0,
     deferred_rekey_reason |-> FALSE, next_rekey |-> FALSE,
     protocol_initial_phase_done |-> FALSE, cfg |-> cfg, kexcfg |-> cfg,
     offer |-> NoOffer, asks |-> 0, stored |-> FALSE, rekeyBug |-> bug]

NewServer ==
    [state |-> "idle", inKex |-> FALSE, csEpoch |-> 0, scEpoch |-> 0, seq |-> 0,
     offer |-> NoOffer, got |-> 0, ok |-> TRUE]

Started(cfg, bug) == BeginKeyExchange([s |-> NewSsh(cfg, bug), w |-> <<>>, a |-> 0])

(* Before our first KEXINIT: nothing is on its way, and nothing is known. *)
LEMMA Beginning ==
    ASSUME Ssh2TransportAssumption, NEW cfg \in Configs, NEW bug \in BOOLEAN
    PROVE  /\ Good(Started(cfg, bug), 0, <<>>, NewServer)
           /\ Started(cfg, bug).a = 0 /\ Started(cfg, bug).s.open
<1> DEFINE s == NewSsh(cfg, bug)
           v == NewServer
           x == [s |-> s, w |-> <<>>, a |-> 0]
<1>1. SequenceMod \in Nat \ {0} /\ SizeCap \in Nat /\ MaxApp \in Nat
  BY DEF Ssh2TransportAssumption
<1>2. 0 \in 0 .. SequenceMod - 1 /\ 0 \in Sizes /\ 0 \in 0 .. MaxApp /\ 0 \in 0 .. 3
  BY <1>1 DEF Sizes
<1>3. s \in SshStates
  BY <1>1, <1>2 DEF SshStates, CrStates, NewSsh
<1>4. v \in Servers
  BY <1>2 DEF Servers, NewServer
<1>5. /\ s.open /\ s.why = "" /\ s.deferred = <<>> /\ s.queue = <<>>
      /\ s.seq = 0 /\ s.csEpoch = 0 /\ s.scEpoch = 0 /\ s.offer = NoOffer
  BY DEF NewSsh
<1>6. /\ v.state = "idle" /\ ~v.inKex /\ v.csEpoch = 0 /\ v.scEpoch = 0 /\ v.seq = 0
      /\ v.got = 0 /\ v.ok
  BY DEF NewServer
<1> HIDE DEF s, v
<1>7. x \in States /\ x.s = s /\ x.w = <<>> /\ x.a = 0
  BY <1>2, <1>3 DEF States
<1> HIDE DEF x
<1>8. Len(<<>>) = 0 /\ \A i \in 1 .. Len(<<>>) : FALSE
  OBVIOUS
<1>9. Expects(v) = "idle"
  BY <1>6 DEF Expects
<1>10. Readable(<<>>, v)
  <2>1. Expected(Kinds(<<>>), "idle", v.offer)
    BY NoNums DEF Expected
  <2> QED
    BY <1>6, <1>8, <1>9, <2>1 DEF Readable, Placed, Keyed, Ranked, Apart
<1>11. AtEnd(s, <<>>, v)
  <2>1. 0 = (0 + 0) % SequenceMod
    BY <1>1
  <2>2. s.seq = (v.seq + Len(<<>>)) % SequenceMod
    BY <1>5, <1>6, <1>8, <2>1
  <2> DEFINE c == Count("newkeys" \in Kinds(<<>>))
  <2>3. "newkeys" \notin Kinds(<<>>)
    BY NoNums
  <2>4. c = 0
    BY <2>3 DEF Count
  <2> HIDE DEF c
  <2>6. 0 = 0 + 0
    OBVIOUS
  <2>5. s.csEpoch = v.csEpoch + c
    BY <1>5, <1>6, <2>4, <2>6, Zenon
  <2> QED
    BY <2>2, <2>5, Zenon DEF AtEnd, c
<1>12. Answers(s, <<>>, v)
  <2> DEFINE c == Count("newkeys" \in Kinds(<<>>))
  <2>1. "newkeys" \notin Kinds(<<>>)
    BY NoNums
  <2>4. c = 0
    BY <2>1 DEF Count
  <2> HIDE DEF c
  <2>6. 0 = 0 + 0
    OBVIOUS
  <2>2. v.scEpoch = s.scEpoch + c
    BY <1>5, <1>6, <2>4, <2>6, Zenon
  <2>3. Keyed(<<>>, s.scEpoch) /\ Ranked(<<>>)
    BY <1>8, Zenon DEF Keyed, Ranked
  <2> QED
    BY <1>8, <2>2, <2>3, Zenon DEF Answers, c
<1>13. InOrder(<<>>, <<>>, 0, 0)
  <2>1. 0 + 1 .. 0 = {}
    OBVIOUS
  <2> QED
    BY NoNums, <2>1 DEF InOrder
<1>14. Base(x, 0, <<>>, v)
  <2>1. <<>> \in Seq(ServerPackets) /\ 0 \in Nat /\ "" # "protocol"
    OBVIOUS
  <2>2. /\ Readable(x.w, v) /\ AtEnd(x.s, x.w, v) /\ Answers(x.s, <<>>, v)
        /\ InOrder(x.w, x.s.queue, v.got, 0)
    BY <1>5, <1>6, <1>7, <1>10, <1>11, <1>12, <1>13, Zenon
  <2>3. x.s.open /\ x.s.why # "protocol" /\ x.s.deferred = <<>>
    BY <1>5, <1>7
  <2> QED
    BY <1>4, <1>7, <2>1, <2>2, <2>3, Zenon DEF Base
<1>15. Phase("idle", x.s.offer, Kinds(x.w), Kinds(<<>>), Expects(v), v.offer)
  BY <1>7, <1>9, NoNums DEF Phase
<1>16. Stays(x, BeginKeyExchange(x), 0, <<>>, v)
  BY <1>14, <1>15, BeginIs
<1>17. BeginKeyExchange(x).a = 0
  BY <1>7, <1>16 DEF Stays
<1>18. Good(BeginKeyExchange(x), 0, <<>>, v)
  BY <1>16, <1>17, BaseIsGood DEF Stays
<1>19. BeginKeyExchange(x).s.open
  BY <1>16, BaseHas DEF Stays
<1> QED
  BY <1>17, <1>18, <1>19, Zenon DEF x, s, v, Started

LEMMA InitIs ==
    ASSUME Ssh2TransportAssumption, Init
    PROVE  IInv /\ app = 0 /\ ssh.open
<1>1. PICK cfg \in Configs, bug \in BOOLEAN :
          /\ \E st \in {Started(cfg, bug)} : ssh = st.s /\ toServer = st.w /\ app = st.a
          /\ toClient = <<>>
          /\ srv = NewServer
          /\ used = [data |-> 0, requests |-> 0]
  BY Zenon DEF Init, Started, NewSsh, NewServer
<1>2. toClient = <<>> /\ srv = NewServer /\ used = [data |-> 0, requests |-> 0]
  BY <1>1
<1> DEFINE start == Started(cfg, bug)
<1>3. ssh = start.s /\ toServer = start.w /\ app = start.a
  BY <1>1
<1>4. Good(start, 0, <<>>, NewServer) /\ start.a = 0 /\ start.s.open
  BY Beginning, Ssh2TransportAssumption, Zenon
<1> HIDE DEF start
<1>5. Now = start
  BY <1>3, <1>4 DEF Good, States, Now
<1>6. Good(Now, app, toClient, srv)
  BY <1>2, <1>3, <1>4, <1>5
<1>7. used \in [data : 0 .. MaxSrvData, requests : 0 .. MaxRequests]
  BY <1>2 DEF Ssh2TransportAssumption
<1> QED
  BY <1>3, <1>4, <1>6, <1>7 DEF IInv

LEMMA InitIInv == Init => IInv
BY InitIs, Ssh2TransportAssumption

LEMMA Steps ==
    ASSUME IInv, [Next]_vars
    PROVE  IInv' /\ (ClientMoves \/ ServerMoves \/ UNCHANGED vars)
<1> USE Ssh2TransportAssumption
<1>1. CASE Receive
  BY <1>1, ReceiveIs
<1>2. ASSUME NEW store \in BOOLEAN, Accept(store)  PROVE IInv' /\ ClientMoves
  BY <1>2, AcceptIs
<1>3. CASE Refuse
  BY <1>3, RefuseIs
<1>4. CASE AppSends
  BY <1>4, AppSendsIs
<1>5. CASE Ping
  BY <1>5, PingIs
<1>6. CASE UserRekeys
  BY <1>6, UserRekeysIs
<1>7. CASE Timer
  BY <1>7, TimerIs
<1>8. CASE Reconfig
  BY <1>8, ReconfigIs
<1>9. CASE SrvReceive
  BY <1>9, SrvReceiveIs
<1>10. CASE SrvSends
  BY <1>10, SrvSendsIs
<1>11. CASE SrvRekeys
  BY <1>11, SrvRekeysIs
<1>12. CASE UNCHANGED vars
  BY <1>12, StutterKeeps
<1> QED
  BY <1>1, <1>2, <1>3, <1>4, <1>5, <1>6, <1>7, <1>8, <1>9, <1>10, <1>11, <1>12 DEF Next

LEMMA NextKeeps == IInv /\ [Next]_vars => IInv'
BY Steps

LEMMA Invariant == Spec => []IInv
BY InitIInv, NextKeeps, PTL DEF Spec

-------------------------------------------------------------------------------
(* The results. *)

LEMMA IInvPeers == IInv => PeersUnderstandEachOther
<1> SUFFICES ASSUME IInv  PROVE srv.ok /\ ssh.why # "protocol"
  BY DEF PeersUnderstandEachOther
<1>1. Now.s.why # "protocol" /\ Readable(Now.w, srv)
  BY DEF IInv, Good
<1> QED
  BY <1>1, NowIs DEF Readable

LEMMA NumbersAre ==
    ASSUME NEW q
    PROVE  Numbers(q) = Nums(q) /\ (Rising(q) => Ascending(q))
  BY DEF Numbers, Apps, Nums, Rising, Ascending

LEMMA IInvOrder == IInv => AppInOrder
<1> SUFFICES ASSUME IInv
             PROVE  /\ ssh.open => Numbers(Line) = srv.got + 1 .. app /\ Ascending(Line)
                    /\ Ascending(toServer)
                    /\ \A n \in Numbers(toServer) :
                           /\ n \in srv.got + 1 .. app
                           /\ srv.got + 1 .. n \subseteq Numbers(toServer)
  BY DEF AppInOrder
<1>1. Unbroken(toServer, srv.got, app)
  BY NowIs DEF IInv, Good
<1>2. ASSUME ssh.open  PROVE Numbers(Line) = srv.got + 1 .. app /\ Ascending(Line)
  <2> DEFINE I == [t : {"app", "ignore"}, n : 0 .. MaxApp]
             S == ClientPackets \cup I
             q == ssh.queue
  <2>1. Base(Now, app, toClient, srv)
    BY <1>2, NowIs DEF IInv, Good
  <2>2. ssh.deferred = <<>> /\ InOrder(toServer, q, srv.got, app)
    BY <2>1, NowIs DEF Base
  <2>3. toServer \in Seq(ClientPackets) /\ q \in Seq(I)
    BY <2>1, NowIs DEF Base, States, SshStates
  <2> HIDE DEF I, q
  <2>4. toServer \in Seq(S) /\ q \in Seq(S)
    BY <2>3, SeqSubset
  <2> HIDE DEF S
  <2>5. Line = toServer \o q
    <3>1. toServer \o <<>> = toServer
      BY <2>4
    <3> QED
      BY <2>2, <3>1 DEF Line, q
  <2>6. Nums(toServer \o q) = Nums(toServer) \cup Nums(q)
    BY <2>4, NumsJoined
  <2>7. Nums(Line) = srv.got + 1 .. app
    BY <2>2, <2>5, <2>6 DEF InOrder
  <2>8. Rising(Line)
    BY <2>2, <2>4, <2>5, RisingJoined DEF InOrder
  <2> QED
    BY <2>7, <2>8, NumbersAre
<1> QED
  BY <1>1, <1>2, NumbersAre DEF Unbroken

LEMMA IInvTimer == IInv => RekeyTimerIsSet
<1> SUFFICES ASSUME IInv, ssh.open, ~ssh.kex_in_progress, ssh.cfg.ssh_rekey_time # 0
             PROVE  ssh.next_rekey
  BY DEF RekeyTimerIsSet
<1>1. Mode(Now, toClient, srv)
  BY OpenNow
<1> QED
  BY <1>1, NowIs DEF Mode

-------------------------------------------------------------------------------
(* The refinement: every step is one of PacketTransport, or not seen there. *)

(* The server, which changes to new keys when the exchange is made and to   *)
(* read with them when the client has, is never further apart from itself   *)
(* than that.                                                               *)
Turns(v) == v.scEpoch = IF Expects(v) = "newkeys" THEN v.csEpoch + 1 ELSE v.csEpoch

LEMMA TurnsKept ==
    ASSUME NEW p, NEW v, NEW new, v.csEpoch \in Nat, v.scEpoch \in Nat, Turns(v),
           Steady(v, new) \/ Gets(p, v, new)
    PROVE  Turns(new)
<1>1. ASSUME Steady(v, new)  PROVE Turns(new)
  BY <1>1 DEF Steady, Turns
<1>2. ASSUME Expects(v) = "dhinit", Expects(new) = "newkeys",
             new.csEpoch = v.csEpoch, new.scEpoch = v.scEpoch + 1
      PROVE  Turns(new)
  BY <1>2 DEF Turns
<1>3. ASSUME Expects(v) = "newkeys", Expects(new) # "newkeys",
             new.csEpoch = v.csEpoch + 1, new.scEpoch = v.scEpoch
      PROVE  Turns(new)
  BY <1>3 DEF Turns
<1> QED
  BY <1>1, <1>2, <1>3 DEF Gets

TInv == IInv /\ Turns(srv)

(* What of the state makes the steps those of PacketTransport.  sending and *)
(* coming: NEWKEYS is on its way to the server, and to the client.          *)
Sending == "newkeys" \in Kinds(toServer)
Coming == "newkeys" \in Kinds(toClient)

Seen ==
    /\ ssh.open \in BOOLEAN
    /\ app \in Nat /\ srv.got \in Nat
    /\ srv.csEpoch \in Nat /\ srv.scEpoch \in Nat
    /\ toServer \in Seq(ClientPackets) /\ Unbroken(toServer, srv.got, app)
    /\ Waiting = IF ssh.open THEN srv.got + 1 .. app ELSE Nums(toServer)
    /\ srv.scEpoch = IF Expects(srv) = "newkeys" THEN srv.csEpoch + 1 ELSE srv.csEpoch
    /\ ssh.open =>
           /\ ssh.csEpoch \in Nat /\ ssh.scEpoch \in Nat /\ srv.got <= app
           /\ ssh.csEpoch = IF Sending THEN srv.csEpoch + 1 ELSE srv.csEpoch
           /\ srv.scEpoch = IF Coming THEN ssh.scEpoch + 1 ELSE ssh.scEpoch
           /\ Sending => Expects(srv) = "newkeys"
           /\ Expects(srv) = "newkeys" => Sending \/ Coming
           /\ Expects(srv) = "dhinit" => ~Coming

LEMMA TInvSeen == TInv => Seen
<1> SUFFICES ASSUME TInv  PROVE Seen
  OBVIOUS
<1> USE Ssh2TransportAssumption
<1> DEFINE kl == Kinds(toServer)
           kr == Kinds(toClient)
           at == Expects(srv)
<1>1. Good(Now, app, toClient, srv) /\ IInv /\ Turns(srv)
  BY DEF TInv, IInv
<1>2. /\ Now \in States /\ srv \in Servers /\ ssh \in SshStates
      /\ toServer \in Seq(ClientPackets) /\ app \in Nat
      /\ Unbroken(toServer, srv.got, app) /\ Readable(toServer, srv)
      /\ ssh.open => Base(Now, app, toClient, srv) /\ Mode(Now, toClient, srv)
  BY <1>1, GoodHas, NowIs
<1>3. /\ ssh.open \in BOOLEAN /\ ssh.csEpoch \in Nat /\ ssh.scEpoch \in Nat
      /\ srv.csEpoch \in Nat /\ srv.scEpoch \in Nat /\ srv.got \in Nat
  BY <1>2, Fields, ServerFields
<1>4. Waiting = IF ssh.open THEN srv.got + 1 .. app ELSE Nums(toServer)
  <2>1. AppInOrder
    BY <1>1, IInvOrder
  <2> QED
    BY <2>1, NumbersAre DEF AppInOrder, Waiting
<1>5. ASSUME ssh.open
      PROVE  /\ srv.got <= app
             /\ ssh.csEpoch = IF Sending THEN srv.csEpoch + 1 ELSE srv.csEpoch
             /\ srv.scEpoch = IF Coming THEN ssh.scEpoch + 1 ELSE ssh.scEpoch
             /\ Sending => Expects(srv) = "newkeys"
             /\ Expects(srv) = "newkeys" => Sending \/ Coming
             /\ Expects(srv) = "dhinit" => ~Coming
  <2>1. /\ InOrder(toServer, ssh.queue, srv.got, app)
        /\ AtEnd(ssh, toServer, srv) /\ Answers(ssh, toClient, srv)
    BY <1>2, <1>5, NowIs DEF Base
  <2>2. ssh.csEpoch = IF Sending THEN srv.csEpoch + 1 ELSE srv.csEpoch
    BY <1>3, <2>1 DEF AtEnd, Count, Sending
  <2>3. srv.scEpoch = IF Coming THEN ssh.scEpoch + 1 ELSE ssh.scEpoch
    BY <1>3, <2>1 DEF Answers, Count, Coming
  <2>4. Expected(kl, at, srv.offer)
    BY <1>2 DEF Readable
  <2>5. Phase(ssh.cr, ssh.offer, kl, kr, at, srv.offer)
    BY <1>2, <1>5, NowIs DEF Mode
  <2> HIDE DEF kl, kr, at
  <2>6. "newkeys" \in kl => at = "newkeys"
    BY <2>4 DEF Expected
  <2>7. at = "newkeys" => "newkeys" \in kl \/ "newkeys" \in kr
    BY <2>5 DEF Phase, Begun, AfterKexinits
  <2>8. at = "dhinit" => "newkeys" \notin kr
    BY <2>5 DEF Phase, Begun, AfterKexinits, Opening, Awaited
  <2> QED
    BY <2>1, <2>2, <2>3, <2>6, <2>7, <2>8 DEF Sending, Coming, InOrder, kl, kr, at
<1> QED
  BY <1>1, <1>2, <1>3, <1>4, <1>5 DEF Seen, Turns

LEMMA InitTInv == Init => TInv
<1>1. ASSUME Init  PROVE Turns(srv)
  <2>1. srv = [state |-> "idle", inKex |-> FALSE, csEpoch |-> 0, scEpoch |-> 0, seq |-> 0,
               offer |-> NoOffer, got |-> 0, ok |-> TRUE]
    BY <1>1 DEF Init
  <2>2. srv.state = "idle" /\ srv.csEpoch = 0 /\ srv.scEpoch = 0
    BY <2>1
  <2> QED
    BY <2>2 DEF Turns, Expects
<1> QED
  BY <1>1, InitIInv DEF TInv

(* NEWKEYS is read from the server when ours has been sent. *)
LEMMA Arrives ==
    ASSUME IInv, ClientMoves, Coming, ~Coming', Expects(srv) = "newkeys"
    PROVE  Sending
<1> USE Ssh2TransportAssumption
<1>1. /\ Base(Now, Now.a, toClient, srv) /\ Mode(Now, toClient, srv) /\ ssh.open
  BY OpenNow DEF ClientMoves
<1>2. toClient # <<>> /\ ~InDialogue /\ toClient' = Tail(toClient)
  BY DEF ClientMoves, Coming
<1>3. toClient \in Seq(ServerPackets) /\ Ranked(toClient)
  BY <1>1 DEF Base, Answers
<1>4. Kinds(Tail(toClient)) = Kinds(toClient) \ {Head(toClient).t}
  BY <1>2, <1>3, HeadRank
<1>5. Head(toClient).t = "newkeys" /\ Head(toClient).t \in KexTypes
  BY <1>2, <1>4 DEF Coming, KexTypes
<1>6. Now.s.cr \notin Dialogues
  BY <1>2, NowIs DEF InDialogue
<1>7. ssh.cr = "newkeys"
  BY <1>1, <1>2, <1>5, <1>6, WhatComes, NowIs
<1>8. Phase(ssh.cr, ssh.offer, Kinds(toServer), Kinds(toClient), Expects(srv), srv.offer)
  BY <1>1, NowIs DEF Mode
<1> QED
  BY <1>7, <1>8 DEF Phase, Sending

(* A step of the client that leaves the connection open. *)
LEMMA ClientOpen ==
    ASSUME IInv, Seen, Seen', ClientMoves, ssh'.open
    PROVE  Promised!Next \/ UNCHANGED Promised!vars
<1> DEFINE C == Ends(ssh.csEpoch, ssh.scEpoch)
           S == Ends(srv.scEpoch, srv.csEpoch)
<1>1. /\ ssh.open /\ srv' = srv /\ (Sending => Sending')
      /\ \/ app' = app
         \/ app' = app + 1 /\ (Sending' => Sending)
  BY DEF ClientMoves, Sending
<1>2. Coming' => Coming
  <2>1. toClient' = toClient \/ (toClient # <<>> /\ toClient' = Tail(toClient))
    BY DEF ClientMoves
  <2>2. ASSUME toClient # <<>>  PROVE Kinds(Tail(toClient)) \subseteq Kinds(toClient)
    <3>1. Base(Now, Now.a, toClient, srv)
      BY <1>1, OpenNow
    <3>2. toClient \in Seq(ServerPackets) /\ Ranked(toClient)
      BY <3>1 DEF Base, Answers
    <3> QED
      BY <2>2, <3>2, HeadRank
  <2> QED
    BY <2>1, <2>2 DEF Coming
<1>3. /\ C = [out |-> ssh.csEpoch, in |-> ssh.scEpoch]
      /\ C' = [out |-> ssh'.csEpoch, in |-> ssh'.scEpoch]
      /\ S = [out |-> srv.scEpoch, in |-> srv.csEpoch] /\ S' = S
  BY <1>1 DEF Ends
<1>4. /\ app \in Nat /\ srv.got \in Nat /\ srv.got <= app
      /\ Waiting = srv.got + 1 .. app /\ Waiting' = srv.got + 1 .. app'
      /\ srv.csEpoch \in Nat /\ srv.scEpoch \in Nat
      /\ ssh.csEpoch \in Nat /\ ssh.scEpoch \in Nat
      /\ ssh'.csEpoch \in Nat /\ ssh'.scEpoch \in Nat
  BY <1>1 DEF Seen
<1>5. /\ srv.scEpoch = IF Expects(srv) = "newkeys" THEN srv.csEpoch + 1 ELSE srv.csEpoch
      /\ ssh.csEpoch = IF Sending THEN srv.csEpoch + 1 ELSE srv.csEpoch
      /\ srv.scEpoch = IF Coming THEN ssh.scEpoch + 1 ELSE ssh.scEpoch
      /\ Sending => Expects(srv) = "newkeys"
      /\ Expects(srv) = "newkeys" => Sending \/ Coming
  BY <1>1 DEF Seen
<1>6. /\ ssh'.csEpoch = IF Sending' THEN srv.csEpoch + 1 ELSE srv.csEpoch
      /\ srv.scEpoch = IF Coming' THEN ssh'.scEpoch + 1 ELSE ssh'.scEpoch
      /\ Sending' => Expects(srv) = "newkeys"
      /\ Expects(srv) = "newkeys" => Sending' \/ Coming'
  BY <1>1 DEF Seen
<1>7. Coming /\ ~Coming' /\ Expects(srv) = "newkeys" => Sending
  BY Arrives
<1> HIDE DEF C, S
<1>8. ASSUME app' = app  PROVE Waiting' = Waiting
  BY <1>4, <1>8
<1>9. ASSUME app' = app + 1
      PROVE  Waiting' = Waiting \cup {app + 1}
  BY <1>4, <1>9
<1>10. ASSUME Sending' <=> Sending, Coming' <=> Coming
       PROVE  Promised!Next \/ UNCHANGED Promised!vars
  <2>1. C' = C
    BY <1>3, <1>4, <1>5, <1>6, <1>10
  <2>2. CASE app' = app
    BY <1>1, <1>3, <1>8, <2>1, <2>2 DEF Promised!vars, C, S
  <2>3. CASE app' = app + 1
    BY <1>1, <1>3, <1>9, <2>1, <2>3 DEF Promised!Next, Promised!Send, C, S
  <2> QED
    BY <1>1, <2>2, <2>3
<1>11. ASSUME ~Sending, Sending'  PROVE Promised!Next
  <2>1. Coming /\ Coming' /\ Expects(srv) = "newkeys" /\ app' = app
    BY <1>1, <1>5, <1>6, <1>7, <1>11
  <2>2. /\ C.out = C.in /\ S = [out |-> C.out + 1, in |-> C.in]
        /\ C' = [C EXCEPT !.out = @ + 1]
    BY <1>3, <1>4, <1>5, <1>6, <1>11, <2>1
  <2> QED
    BY <1>1, <1>3, <1>8, <2>1, <2>2
       DEF Promised!Next, Promised!ClientChanges, Promised!Keys, C, S
<1>12. ASSUME Coming, ~Coming', Sending' <=> Sending  PROVE Promised!Next
  <2>1. /\ C = [out |-> S.out, in |-> S.out - 1]
        /\ C' = [C EXCEPT !.in = @ + 1]
    BY <1>3, <1>4, <1>5, <1>6, <1>7, <1>12, SMTT(40)
  <2>2. \/ app' = app + 1 /\ Waiting' = Waiting \cup {app + 1}
        \/ app' = app /\ Waiting' = Waiting
    BY <1>1, <1>8, <1>9
  <2> QED
    BY <1>1, <1>3, <2>1, <2>2
       DEF Promised!Next, Promised!ClientFollows, Promised!Send, Promised!Keys, C, S
<1> QED
  BY <1>1, <1>2, <1>10, <1>11, <1>12

(* A step of the client by which it gives the connection up. *)
LEMMA ClientCloses ==
    ASSUME Seen, Seen', ClientMoves, ~ssh'.open
    PROVE  Promised!Next
<1>1. ssh.open /\ srv' = srv /\ app' = app
  BY DEF ClientMoves
<1>2. Waiting = srv.got + 1 .. app /\ Waiting' = Nums(toServer')
  BY <1>1 DEF Seen
<1>3. /\ Nums(toServer') \subseteq srv.got + 1 .. app /\ srv.got \in Nat /\ app \in Nat
      /\ \A n \in Nums(toServer') : srv.got + 1 .. n \subseteq Nums(toServer')
  BY <1>1 DEF Seen, Unbroken
<1>4. Waiting' \subseteq Waiting
  BY <1>2, <1>3
<1>5. \A n \in Waiting', m \in Waiting : m < n => m \in Waiting'
  BY <1>2, <1>3
<1>6. Ends(ssh.csEpoch, ssh.scEpoch)' = [out |-> 0, in |-> 0]
      /\ Ends(srv.scEpoch, srv.csEpoch)' = [out |-> 0, in |-> 0]
  BY DEF Ends
<1> QED
  BY <1>1, <1>4, <1>5, <1>6 DEF Promised!Next, Promised!GiveUp, Promised!Keys

(* A step of the server. *)
LEMMA ServerStep ==
    ASSUME Seen, Seen', ServerMoves
    PROVE  Promised!Next \/ UNCHANGED Promised!vars
<1> DEFINE C == Ends(ssh.csEpoch, ssh.scEpoch)
           S == Ends(srv.scEpoch, srv.csEpoch)
           p == Head(toServer)
           got == srv.got
<1>0. ssh' = ssh /\ app' = app
  BY DEF ServerMoves
<1>1. /\ C' = C
      /\ ssh.open => /\ C = [out |-> ssh.csEpoch, in |-> ssh.scEpoch]
                     /\ S = [out |-> srv.scEpoch, in |-> srv.csEpoch]
                     /\ S' = [out |-> srv'.scEpoch, in |-> srv'.csEpoch]
      /\ ~ssh.open => S = [out |-> 0, in |-> 0] /\ S' = S
  BY <1>0 DEF Ends
<1>2. /\ app \in Nat /\ got \in Nat
      /\ toServer \in Seq(ClientPackets) /\ Unbroken(toServer, got, app)
      /\ Waiting = IF ssh.open THEN got + 1 .. app ELSE Nums(toServer)
      /\ Waiting' = IF ssh.open THEN srv'.got + 1 .. app ELSE Nums(toServer')
      /\ srv.csEpoch \in Nat /\ srv.scEpoch \in Nat
  BY <1>0 DEF Seen
<1> HIDE DEF C, S, p
<1>3. ASSUME Waiting' = Waiting, srv'.got = got, S' = S  PROVE UNCHANGED Promised!vars
  BY <1>0, <1>1, <1>3 DEF Promised!vars, C, S
<1>4. ASSUME Steady(srv, srv')  PROVE S' = S
  BY <1>1, <1>4 DEF Steady
<1>5. ASSUME toServer' = toServer, srv'.got = got, Steady(srv, srv')
      PROVE  UNCHANGED Promised!vars
  BY <1>2, <1>3, <1>4, <1>5
<1>6. ASSUME toServer # <<>>
      PROVE  /\ p.t # "app" => Nums(Tail(toServer)) = Nums(toServer)
             /\ p.t = "app" => /\ p.n \in Nums(toServer)
                               /\ Nums(Tail(toServer)) = Nums(toServer) \ {p.n}
                               /\ \A n \in Nums(Tail(toServer)) : p.n < n
  <2>1. \A i \in 1 .. Len(toServer) : toServer[i].n \in Nat
    <3>1. \A x \in ClientPackets : x.n \in Nat
      BY Ssh2TransportAssumption DEF ClientPackets, Ssh2TransportAssumption
    <3>2. \A i \in 1 .. Len(toServer) : toServer[i] \in ClientPackets
      BY <1>2
    <3> QED
      BY <3>1, <3>2
  <2> QED
    BY <1>2, <1>6, <2>1, RisingTail DEF Unbroken, p
<1>7. ASSUME toServer # <<>>, toServer' = Tail(toServer), p.t # "app", srv'.got = got
      PROVE  Waiting' = Waiting
  BY <1>2, <1>6, <1>7
<1>8. ASSUME toServer # <<>>, toServer' = Tail(toServer), p.t = "app", srv'.got = p.n,
             Steady(srv, srv'), Expects(srv) # "newkeys"
      PROVE  Promised!Next
  <2>1. S' = S /\ S.in = S.out
    <3>1. srv.scEpoch = srv.csEpoch
      BY <1>8 DEF Seen
    <3> QED
      BY <1>1, <1>4, <1>8, <3>1 DEF Seen
  <2>2. /\ p.n \in Nums(toServer) /\ Nums(toServer') = Nums(toServer) \ {p.n}
        /\ \A n \in Nums(toServer') : p.n < n
    BY <1>6, <1>8
  <2>3. Nums(toServer) \subseteq got + 1 .. app /\ got + 1 .. p.n \subseteq Nums(toServer)
    BY <1>2, <2>2 DEF Unbroken
  <2>4. p.n = got + 1 /\ p.n <= app
    <3>1. p.n \in got + 1 .. app /\ got + 1 \in Nums(toServer)
      BY <1>2, <2>2, <2>3
    <3>2. got + 1 = p.n \/ p.n < got + 1
      BY <2>2, <3>1
    <3> QED
      BY <1>2, <3>1, <3>2
  <2>5. CASE ssh.open
    <3>1. Waiting = got + 1 .. app /\ Waiting' = p.n + 1 .. app
      BY <1>2, <1>8, <2>5
    <3>2. /\ got + 1 \in got + 1 .. app
          /\ (got + 1) + 1 .. app = (got + 1 .. app) \ {got + 1}
          /\ \A m \in got + 1 .. app : got + 1 <= m
      <4>1. got + 1 <= app
        BY <2>4
      <4> HIDE DEF got
      <4> QED
        BY <1>2, <4>1
    <3>3. p.n \in Waiting /\ Waiting' = Waiting \ {p.n} /\ \A m \in Waiting : p.n <= m
      BY <2>4, <3>1, <3>2
    <3> QED
      BY <1>0, <1>1, <1>8, <2>1, <3>3 DEF Promised!Next, Promised!Deliver, C, S
  <2>6. CASE ~ssh.open
    <3>1. Waiting = Nums(toServer) /\ Waiting' = Nums(toServer')
      BY <1>2, <2>6
    <3>2. \A m \in Nums(toServer) : p.n <= m
      <4>1. \A m \in Nums(toServer) : m \in got + 1 .. app
        BY <2>3
      <4> HIDE DEF got
      <4>2. \A m \in got + 1 .. app : got + 1 <= m
        BY <1>2
      <4> QED
        BY <2>4, <4>1, <4>2
    <3>3. p.n \in Waiting /\ Waiting' = Waiting \ {p.n} /\ \A m \in Waiting : p.n <= m
      BY <2>2, <3>1, <3>2
    <3> QED
      BY <1>0, <1>1, <1>8, <2>1, <3>3 DEF Promised!Next, Promised!Deliver, C, S
  <2> QED
    BY <1>2, <2>5, <2>6
<1>9. ASSUME Waiting' = Waiting, srv'.got = got, ssh.open, Expects(srv) = "dhinit",
             srv'.csEpoch = srv.csEpoch, srv'.scEpoch = srv.scEpoch + 1
      PROVE  Promised!Next
  <2>1. ~Coming /\ ~Sending
    BY <1>9 DEF Seen
  <2>2. ssh.csEpoch = srv.csEpoch /\ ssh.scEpoch = srv.csEpoch /\ srv.scEpoch = srv.csEpoch
    BY <1>9, <2>1 DEF Seen
  <2>3. C = S /\ C.out = C.in /\ S' = [S EXCEPT !.out = @ + 1]
    BY <1>1, <1>9, <2>2
  <2> QED
    BY <1>0, <1>1, <1>9, <2>3 DEF Promised!Next, Promised!ServerChanges, C, S
<1>10. ASSUME Waiting' = Waiting, srv'.got = got, ssh.open, Expects(srv) = "newkeys", Sending,
              srv'.csEpoch = srv.csEpoch + 1, srv'.scEpoch = srv.scEpoch
       PROVE  Promised!Next
  <2>1. ssh.csEpoch = srv.csEpoch + 1 /\ srv.scEpoch = srv.csEpoch + 1
    BY <1>10 DEF Seen
  <2>2. S = [out |-> C.out, in |-> C.out - 1] /\ S' = [S EXCEPT !.in = @ + 1]
    BY <1>1, <1>2, <1>10, <2>1
  <2> QED
    BY <1>0, <1>1, <1>10, <2>2 DEF Promised!Next, Promised!ServerFollows, Promised!Keys, C, S
<1>11. ASSUME toServer # <<>>, p.t = "newkeys"  PROVE Sending
  <2>1. 1 \in 1 .. Len(toServer) /\ toServer[1].t = "newkeys"
    BY <1>2, <1>11, TailOf DEF p
  <2> QED
    BY <2>1 DEF Sending, Kinds, Kex, KexTypes
<1>12. ASSUME toServer # <<>>, toServer' = Tail(toServer), Gets(p, srv, srv')
       PROVE  Promised!Next \/ UNCHANGED Promised!vars
  <2>1. CASE p.t = "app"
    BY <1>8, <1>12, <2>1 DEF Gets
  <2>2. CASE p.t # "app"
    <3>1. Waiting' = Waiting /\ srv'.got = got
      BY <1>7, <1>12, <2>2 DEF Gets
    <3>2. CASE Steady(srv, srv') \/ ~ssh.open
      BY <1>1, <1>3, <1>4, <3>1, <3>2
    <3>3. CASE ~Steady(srv, srv') /\ ssh.open
      BY <1>9, <1>10, <1>11, <1>12, <3>1, <3>3 DEF Gets
    <3> QED
      BY <1>12, <3>2, <3>3
  <2> QED
    BY <2>1, <2>2
<1> QED
  BY <1>5, <1>12 DEF ServerMoves, p

LEMMA Refines ==
    TInv /\ Seen /\ Seen' /\ [Next]_vars => Promised!Next \/ UNCHANGED Promised!vars
<1> SUFFICES ASSUME TInv, Seen, Seen', [Next]_vars
             PROVE  Promised!Next \/ UNCHANGED Promised!vars
  OBVIOUS
<1>1. ClientMoves \/ ServerMoves \/ UNCHANGED vars
  BY Steps DEF TInv
<1>2. IInv
  BY DEF TInv
<1>3. CASE UNCHANGED vars
  BY <1>3 DEF vars, Promised!vars, Waiting, Line, Numbers, Apps, Ends
<1> QED
  BY <1>1, <1>2, <1>3, ClientOpen, ClientCloses, ServerStep

LEMMA TInvKept == TInv /\ [Next]_vars => TInv'
<1> SUFFICES ASSUME TInv, [Next]_vars  PROVE IInv' /\ Turns(srv')
  BY DEF TInv, Turns, Expects
<1>1. IInv' /\ (ClientMoves \/ ServerMoves \/ UNCHANGED vars)
  BY Steps DEF TInv
<1>2. Seen
  BY TInvSeen
<1>3. Turns(srv) /\ srv.csEpoch \in Nat /\ srv.scEpoch \in Nat
  BY <1>2 DEF TInv, Seen
<1>4. ASSUME ClientMoves \/ UNCHANGED vars  PROVE srv' = srv
  BY <1>4 DEF ClientMoves, vars
<1>5. ASSUME ServerMoves  PROVE Turns(srv')
  BY <1>3, <1>5, TurnsKept DEF ServerMoves
<1> QED
  BY <1>1, <1>3, <1>4, <1>5

LEMMA InitRefines == Init => Promised!Init
<1> SUFFICES ASSUME Init  PROVE Promised!Init
  OBVIOUS
<1>1. TInv
  BY InitTInv
<1>2. Seen
  BY <1>1, TInvSeen
<1>3. /\ toClient = <<>> /\ app = 0 /\ ssh.open
      /\ srv = [state |-> "idle", inKex |-> FALSE, csEpoch |-> 0, scEpoch |-> 0, seq |-> 0,
                offer |-> NoOffer, got |-> 0, ok |-> TRUE]
  BY InitIs, Ssh2TransportAssumption DEF Init
<1>4. srv.csEpoch = 0 /\ srv.scEpoch = 0 /\ srv.got = 0 /\ srv.state = "idle"
  BY <1>3
<1>5. Expects(srv) = "idle" /\ ~Coming
  BY <1>3, <1>4, NoNums DEF Expects, Coming
<1>6. ssh.csEpoch = 0 /\ ssh.scEpoch = 0 /\ Waiting = 1 .. 0
  BY <1>2, <1>3, <1>4, <1>5 DEF Seen
<1>7. 1 .. 0 = {}
  OBVIOUS
<1>8. Ends(ssh.csEpoch, ssh.scEpoch) = [out |-> 0, in |-> 0]
      /\ Ends(srv.scEpoch, srv.csEpoch) = [out |-> 0, in |-> 0]
  BY <1>3, <1>4, <1>6 DEF Ends
<1> QED
  BY <1>3, <1>4, <1>6, <1>7, <1>8 DEF Promised!Init, Promised!Keys

(* The state of the connection, of its queues and of the server keeps to    *)
(* its types: sizes stay under their cap, sequence numbers in their range,  *)
(* and no more is asked or sent than the bounds allow.                      *)
THEOREM Ssh2TransportTypeCorrect == Spec => []TypeOK
<1>1. IInv => TypeOK
  <2> SUFFICES ASSUME IInv  PROVE TypeOK
    OBVIOUS
  <2>1. /\ Now \in States /\ toClient \in Seq(ServerPackets) /\ srv \in Servers
        /\ used \in [data : 0 .. MaxSrvData, requests : 0 .. MaxRequests]
    BY DEF IInv, Good
  <2>2. Now.s \in SshStates /\ Now.w \in Seq(ClientPackets) /\ Now.a \in 0 .. MaxApp
    BY <2>1 DEF States
  <2> QED
    BY <2>1, <2>2, NowIs DEF TypeOK
<1> QED
  BY <1>1, Invariant, PTL

(* However packets, dialogues, pings, timers and changes of the             *)
(* configuration are interleaved with do_ssh2_transport() and with what the *)
(* server sends, each side reads the other's packets with the keys and the  *)
(* sequence number they were made with, and only where the protocol has     *)
(* them.                                                                    *)
THEOREM PeersCorrect == Spec => []PeersUnderstandEachOther
BY IInvPeers, Invariant, PTL

(* ssh2_pkt_queuesend() and the two ways of sending keep the packets of the *)
(* layers above: those the server has not got are all there once, written,  *)
(* deferred or queued, in the order they were sent in; and when the         *)
(* connection is given up (ssh_do_close), the server gets what comes before *)
(* what is lost.                                                            *)
THEOREM AppOrderCorrect == Spec => []AppInOrder
BY IInvOrder, Invariant, PTL

(* Outside an exchange there is always a timer for the next one, if the     *)
(* configuration wants one: do_ssh2_transport(), ssh2_timer() and           *)
(* ssh_reconfig() do not lose it between them.                              *)
THEOREM RekeyTimerCorrect == Spec => []RekeyTimerIsSet
BY IInvTimer, Invariant, PTL

(* Seen from outside, the transport is one that delivers what it is given   *)
(* in order and changes its keys in an order in which neither side reads    *)
(* what was made with keys it has not come to: each step of the client's    *)
(* coroutine, of its queues and timers and of the server is a step of       *)
(* PacketTransport or cannot be seen there.                                 *)
THEOREM TransportRefines == Spec => ImplementsPacketTransport
<1>1. Spec => []TInv
  BY InitTInv, TInvKept, PTL DEF Spec
<1>2. Init => Promised!Init
  BY InitRefines
<1>3. Spec => Promised!Spec
  BY <1>1, <1>2, TInvSeen, Refines, PTL DEF Spec, Promised!Spec
<1> QED
  BY <1>3 DEF ImplementsPacketTransport

(* What PacketTransport promises of the keys is so by its own steps alone. *)
LEMMA PromisedKept ==
    ASSUME Promised!TypeOK, Promised!KeysInStep, Promised!Next \/ UNCHANGED Promised!vars,
           ssh'.open \in BOOLEAN
    PROVE  Promised!TypeOK' /\ Promised!KeysInStep'
<1> DEFINE W == Waiting
           got == srv.got
           C == Ends(ssh.csEpoch, ssh.scEpoch)
           S == Ends(srv.scEpoch, srv.csEpoch)
           Both == [out : Nat, in : Nat]
<1>1. /\ app \in Nat /\ got \in 0 .. app /\ W \subseteq got + 1 .. app
      /\ C \in Both /\ S \in Both
      /\ S.in <= C.out /\ C.out <= S.out /\ C.in <= S.out
      /\ S.out <= C.in + 1 /\ S.out <= S.in + 1
  BY DEF Promised!TypeOK, Promised!KeysInStep
<1>2. ASSUME app' \in Nat, got' \in 0 .. app', W' \subseteq got' + 1 .. app',
             C' \in Both, S' \in Both,
             S'.in <= C'.out, C'.out <= S'.out, C'.in <= S'.out,
             S'.out <= C'.in + 1, S'.out <= S'.in + 1
      PROVE  Promised!TypeOK' /\ Promised!KeysInStep'
  BY <1>2 DEF Promised!TypeOK, Promised!KeysInStep
<1>3. \/ app' = app /\ W' = W /\ got' = got
      \/ app' = app + 1 /\ W' = W \cup {app + 1} /\ got' = got
      \/ app' = app /\ W' \subseteq W /\ got' = got
      \/ /\ app' = app /\ got' \in W /\ W' = W \ {got'}
         /\ \A m \in W : got' <= m
  BY Zenon DEF Promised!Next, Promised!Send, Promised!Deliver, Promised!GiveUp, Promised!ServerChanges,
               Promised!ClientChanges, Promised!ClientFollows, Promised!ServerFollows, Promised!vars
<1>4. \/ C' = C /\ S' = S
      \/ C' = [out |-> 0, in |-> 0] /\ S' = [out |-> 0, in |-> 0]
      \/ C = S /\ C.out = C.in /\ S' = [S EXCEPT !.out = @ + 1] /\ C' = C
      \/ /\ C.out = C.in /\ S = [out |-> C.out + 1, in |-> C.in]
         /\ C' = [C EXCEPT !.out = @ + 1] /\ S' = S
      \/ /\ C = [out |-> S.out, in |-> S.out - 1] /\ C' = [C EXCEPT !.in = @ + 1] /\ S' = S
      \/ /\ S = [out |-> C.out, in |-> C.out - 1] /\ S' = [S EXCEPT !.in = @ + 1] /\ C' = C
  BY Zenon DEF Promised!Next, Promised!Deliver, Promised!GiveUp, Promised!ServerChanges, Promised!Keys,
               Promised!ClientChanges, Promised!ClientFollows, Promised!ServerFollows, Promised!vars
<1> HIDE DEF W, got, C, S
<1>5. app' \in Nat /\ got' \in 0 .. app' /\ W' \subseteq got' + 1 .. app'
  <2>1. CASE app' = app /\ W' \subseteq W /\ got' = got
    BY <1>1, <2>1
  <2>2. CASE app' = app + 1 /\ W' = W \cup {app + 1} /\ got' = got
    BY <1>1, <2>2
  <2>3. CASE /\ app' = app /\ got' \in W /\ W' = W \ {got'}
             /\ \A m \in W : got' <= m
    <3>1. PICK n \in W : got' = n
      BY <2>3
    <3>2. W' = W \ {n} /\ (\A m \in W : n <= m) /\ W \subseteq got + 1 .. app
      BY <1>1, <2>3, <3>1
    <3>3. n \in got + 1 .. app
      BY <3>2
    <3>4. ASSUME NEW m \in W, m # n  PROVE m \in n + 1 .. app
      <4>1. n <= m /\ m \in got + 1 .. app
        BY <3>2
      <4> QED
        BY <1>1, <3>3, <3>4, <4>1
    <3>5. W' \subseteq n + 1 .. app /\ n \in 0 .. app
      BY <1>1, <3>2, <3>3, <3>4
    <3> QED
      BY <1>1, <2>3, <3>1, <3>5
  <2> QED
    BY <1>3, <2>1, <2>2, <2>3
<1>6. /\ C.out \in Nat /\ C.in \in Nat /\ C = [out |-> C.out, in |-> C.in]
      /\ S.out \in Nat /\ S.in \in Nat /\ S = [out |-> S.out, in |-> S.in]
  BY <1>1
<1>7. \A x \in Both : /\ [x EXCEPT !.out = @ + 1] = [out |-> x.out + 1, in |-> x.in]
                       /\ [x EXCEPT !.in = @ + 1] = [out |-> x.out, in |-> x.in + 1]
  OBVIOUS
<1>8. \/ C' = C /\ S' = S
      \/ C' = [out |-> 0, in |-> 0] /\ S' = [out |-> 0, in |-> 0]
      \/ S' = [out |-> S.out + 1, in |-> S.in] /\ C' = C /\ C = S /\ C.out = C.in
      \/ /\ C' = [out |-> C.out + 1, in |-> C.in] /\ S' = S
         /\ C.out = C.in /\ S = [out |-> C.out + 1, in |-> C.in]
      \/ /\ C' = [out |-> C.out, in |-> C.in + 1] /\ S' = S
         /\ C = [out |-> S.out, in |-> S.out - 1]
      \/ /\ S' = [out |-> S.out, in |-> S.in + 1] /\ C' = C
         /\ S = [out |-> C.out, in |-> C.out - 1]
  BY <1>1, <1>4, <1>7
<1>9. /\ C' \in Both /\ S' \in Both
      /\ S'.in <= C'.out /\ C'.out <= S'.out /\ C'.in <= S'.out
      /\ S'.out <= C'.in + 1 /\ S'.out <= S'.in + 1
  <2>1. CASE C' = C /\ S' = S
    BY <1>1, <2>1
  <2>2. CASE C' = [out |-> 0, in |-> 0] /\ S' = [out |-> 0, in |-> 0]
    BY <2>2
  <2>3. CASE S' = [out |-> S.out + 1, in |-> S.in] /\ C' = C /\ C = S /\ C.out = C.in
    BY <1>1, <1>6, <2>3
  <2>4. CASE /\ C' = [out |-> C.out + 1, in |-> C.in] /\ S' = S
             /\ C.out = C.in /\ S = [out |-> C.out + 1, in |-> C.in]
    BY <1>1, <1>6, <2>4
  <2>5. CASE /\ C' = [out |-> C.out, in |-> C.in + 1] /\ S' = S
             /\ C = [out |-> S.out, in |-> S.out - 1]
    BY <1>1, <1>6, <2>5
  <2>6. CASE /\ S' = [out |-> S.out, in |-> S.in + 1] /\ C' = C
             /\ S = [out |-> C.out, in |-> C.out - 1]
    BY <1>1, <1>6, <2>6
  <2> QED
    BY <1>8, <2>1, <2>2, <2>3, <2>4, <2>5, <2>6
<1> QED
  BY <1>2, <1>5, <1>9

(* Hence, by what PacketTransport says alone: neither end of the connection *)
(* reads with keys the other does not send with yet, or is more than one    *)
(* key exchange behind it, and nothing is waiting that has been received or *)
(* was never sent.                                                          *)
THEOREM KeysCorrect == Spec => [](Promised!TypeOK /\ Promised!KeysInStep)
<1>1. ASSUME Promised!Init  PROVE Promised!TypeOK /\ Promised!KeysInStep
  <2> DEFINE C == Ends(ssh.csEpoch, ssh.scEpoch)
             S == Ends(srv.scEpoch, srv.csEpoch)
  <2>1. /\ ssh.open = TRUE /\ app = 0 /\ srv.got = 0 /\ Waiting = {}
        /\ C = [out |-> 0, in |-> 0] /\ S = [out |-> 0, in |-> 0]
    BY <1>1 DEF Promised!Init, Promised!Keys
  <2> HIDE DEF C, S
  <2>2. Promised!TypeOK
    <3>1. C \in [out : Nat, in : Nat] /\ S \in [out : Nat, in : Nat] /\ ssh.open \in BOOLEAN
      BY <2>1
    <3>2. app \in Nat /\ srv.got \in 0 .. app /\ Waiting \subseteq srv.got + 1 .. app
      BY <2>1
    <3> QED
      BY <3>1, <3>2 DEF Promised!TypeOK, C, S
  <2>3. Promised!KeysInStep
    BY <2>1 DEF Promised!KeysInStep, C, S
  <2> QED
    BY <2>2, <2>3
<1>2. TypeOK' /\ Promised!TypeOK /\ Promised!KeysInStep /\ [Promised!Next]_(Promised!vars)
      => Promised!TypeOK' /\ Promised!KeysInStep'
  <2>1. TypeOK' => ssh'.open \in BOOLEAN
    BY DEF TypeOK, SshStates
  <2> QED
    BY <2>1, PromisedKept
<1>3. Promised!Spec /\ []TypeOK => [](Promised!TypeOK /\ Promised!KeysInStep)
  BY <1>1, <1>2, PTL DEF Promised!Spec
<1>4. ImplementsPacketTransport => Promised!Spec
  BY DEF ImplementsPacketTransport
<1> QED
  BY <1>3, <1>4, Ssh2TransportTypeCorrect, TransportRefines, PTL
===============================================================================
