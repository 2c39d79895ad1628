----------------------------- MODULE EpocNetProofs ----------------------------
(***************************************************************************)
(* Proofs about EpocNet, for any sockets, any granule and any bounds.       *)
(***************************************************************************)
EXTENDS EpocNet, SequenceTheorems, TLAPS

-------------------------------------------------------------------------------
(* Lemmas about the operators the actions are built from.                   *)

LEMMA RunIsSeq ==
    ASSUME NEW m \in Nat, NEW n \in Nat
    PROVE  /\ Run(m, n) \in Seq(Nat)
           /\ Len(Run(m, n)) = n
           /\ \A i \in 1 .. n : Run(m, n)[i] = m + i
<1>1. Run(m, n) \in [1 .. n -> Nat]
  BY DEF Run
<1>2. Run(m, n) \in Seq(Nat)
  BY <1>1, SeqDef
<1>3. DOMAIN Run(m, n) = 1 .. n
  BY DEF Run
<1>4. Len(Run(m, n)) = n
  BY <1>2, <1>3, LenProperties
<1> QED
  BY <1>2, <1>4 DEF Run

LEMMA SubSeqType ==
    ASSUME NEW q \in Seq(Nat), NEW k \in Nat
    PROVE  /\ SubSeq(q, k + 1, Len(q)) \in Seq(Nat)
           /\ k <= Len(q) => SubSeq(q, 1, k) \in Seq(Nat)
<1>1. \A i \in 1 .. Len(q) : q[i] \in Nat
  BY ElementOfSeq
<1>2. Len(q) \in Nat
  BY LenProperties
<1>3. SubSeq(q, k + 1, Len(q)) \in Seq(Nat)
  <2>1. \A i \in (k + 1) .. Len(q) : q[i] \in Nat
    BY <1>1, <1>2
  <2> QED
    BY <2>1, <1>2, SubSeqProperties
<1>4. ASSUME k <= Len(q) PROVE SubSeq(q, 1, k) \in Seq(Nat)
  <2>1. \A i \in 1 .. k : q[i] \in Nat
    BY <1>1, <1>2, <1>4
  <2> QED
    BY <2>1, SubSeqProperties
<1> QED
  BY <1>3, <1>4

(* Whatever Sendit() does, it leaves well-typed fields and request. *)
LEMMA SenditType ==
    ASSUME TypeOK, EpocNetAssumption, NEW s \in Sock, NEW r \in SocketTag, Sendit(s, r)
    PROVE  sk' \in [Sock -> SocketTag] /\ writebuf' \in [Sock -> Requests]
<1>0. [r EXCEPT !.writable = FALSE] \in SocketTag
  BY DEF SocketTag
<1>1. CASE r.sending_oob
  <2>1. [kind |-> "oob", data |-> <<0>>] \in Requests
    BY DEF Requests
  <2>2. /\ writebuf' = [writebuf EXCEPT ![s] = [kind |-> "oob", data |-> <<0>>]]
        /\ sk' = [sk EXCEPT ![s] = [r EXCEPT !.writable = FALSE]]
    BY <1>1 DEF Sendit
  <2> QED
    BY <1>0, <2>1, <2>2 DEF TypeOK
<1>2. CASE ~r.sending_oob /\ r.output_data # <<>>
  <2>1. PICK k \in 1 .. BUFFER_GRANULE :
            /\ k <= Len(r.output_data)
            /\ writebuf' = [writebuf EXCEPT ![s] =
                               [kind |-> "data",
                                data |-> SubSeq(r.output_data, 1, k)]]
    BY <1>2 DEF Sendit
  <2>2. SubSeq(r.output_data, 1, k) \in Seq(Nat)
    BY <2>1, SubSeqType DEF SocketTag, EpocNetAssumption
  <2>3. [kind |-> "data", data |-> SubSeq(r.output_data, 1, k)] \in Requests
    BY <2>2 DEF Requests
  <2>4. sk' = [sk EXCEPT ![s] = [r EXCEPT !.writable = FALSE]]
    BY <1>2 DEF Sendit
  <2> QED
    BY <1>0, <2>1, <2>3, <2>4 DEF TypeOK
<1>3. CASE ~r.sending_oob /\ r.output_data = <<>>
  BY <1>3 DEF Sendit, TypeOK
<1> QED
  BY <1>1, <1>2, <1>3

LEMMA FreeType ==
    ASSUME TypeOK, NEW s \in Sock, NEW r \in SocketTag, Free(s, r)
    PROVE  /\ sk' \in [Sock -> SocketTag]
           /\ writebuf' \in [Sock -> Requests]
           /\ recver' \in [Sock -> Receivers]
<1>1. [r EXCEPT !.phase = "closed"] \in SocketTag
  BY DEF SocketTag, Phases
<1>2. NoSend \in Requests
  <2>1. <<>> \in Seq(Nat)
    BY EmptySeq
  <2> QED
    BY <2>1 DEF NoSend, Requests
<1>3. [recver[s] EXCEPT !.active = FALSE] \in Receivers
  BY DEF TypeOK, Receivers
<1> QED
  BY <1>1, <1>2, <1>3 DEF Free, TypeOK

LEMMA SendMoreType ==
    ASSUME TypeOK, EpocNetAssumption, NEW s \in Sock, NEW r \in SocketTag, SendMore(s, r)
    PROVE  /\ sk' \in [Sock -> SocketTag]
           /\ writebuf' \in [Sock -> Requests]
           /\ recver' \in [Sock -> Receivers]
<1>1. [r EXCEPT !.writable = TRUE] \in SocketTag
  BY DEF SocketTag
<1>2. CASE r.sending_oob \/ r.output_data # <<>>
  BY <1>1, <1>2, SenditType DEF SendMore, TypeOK
<1>3. CASE ~(r.sending_oob \/ r.output_data # <<>>) /\ r.killing
  BY <1>1, <1>3, FreeType DEF SendMore
<1>4. CASE ~(r.sending_oob \/ r.output_data # <<>>) /\ ~r.killing
  <2>1. NoSend \in Requests
    BY EmptySeq DEF NoSend, Requests
  <2> QED
    BY <1>1, <1>4, <2>1 DEF SendMore, TypeOK
<1> QED
  BY <1>2, <1>3, <1>4

LEMMA ConsumedType ==
    ASSUME TypeOK, NEW s \in Sock
    PROVE  Consumed(s) \in SocketTag
<1>1. /\ sk[s] \in SocketTag
      /\ sk[s].output_data \in Seq(Nat)
      /\ writebuf[s].data \in Seq(Nat)
  BY DEF TypeOK, SocketTag, Requests
<1>2. SubSeq(sk[s].output_data, Len(writebuf[s].data) + 1, Len(sk[s].output_data)) \in Seq(Nat)
  BY <1>1, SubSeqType, LenProperties
<1> QED
  BY <1>1, <1>2 DEF Consumed, SocketTag

LEMMA PushType ==
    ASSUME NEW q \in Seq(Frames), NEW f \in Frames
    PROVE  <<f>> \o q \in Seq(Frames)
BY ConcatProperties

-------------------------------------------------------------------------------
LEMMA TypeInit == Init => TypeOK
<1> SUFFICES ASSUME Init PROVE TypeOK
  OBVIOUS
<1>1. <<>> \in Seq(Nat) /\ <<>> \in Seq(Frames)
  BY EmptySeq
<1> QED
  BY <1>1 DEF Init, TypeOK, SocketTag, Phases, NoSend, Requests, Receivers, Faults

LEMMA TypeStep == TypeOK /\ [Next]_vars => TypeOK'
<1> USE EpocNetAssumption
<1> SUFFICES ASSUME TypeOK, [Next]_vars PROVE TypeOK'
  OBVIOUS
<1>0. \A s \in Sock :
         /\ sk[s] \in SocketTag
         /\ recver[s] \in Receivers
         /\ writebuf[s] \in Requests
  BY DEF TypeOK
<1>1. ASSUME NEW s \in Sock, NEW b \in BOOLEAN, Open(s, b) PROVE TypeOK'
  <2>1. [sk[s] EXCEPT !.phase = "open", !.writable = TRUE, !.frozen = b] \in SocketTag
    BY <1>0 DEF SocketTag, Phases
  <2>2. sk' = [sk EXCEPT ![s] =
                 [sk[s] EXCEPT !.phase = "open", !.writable = TRUE, !.frozen = b]]
    BY <1>0, <1>1 DEF Open, TypeOK, SocketTag
  <2>3. [recver[s] EXCEPT !.active = TRUE] \in Receivers
    BY <1>0 DEF Receivers
  <2> QED
    BY <1>1, <2>1, <2>2, <2>3 DEF Open, TypeOK
<1>2. ASSUME NEW s \in Sock, NEW n \in 0 .. MaxWrite, Write(s, n) PROVE TypeOK'
  <2> DEFINE q == sk[s].output_data \o Run(written[s], n)
             r == [sk[s] EXCEPT !.output_data = q]
  <2>1. n \in Nat /\ written[s] \in Nat /\ sk[s].output_data \in Seq(Nat)
    BY <1>0 DEF TypeOK, SocketTag, EpocNetAssumption
  <2>2. q \in Seq(Nat)
    BY <2>1, RunIsSeq, ConcatProperties
  <2>3. r \in SocketTag
    BY <1>0, <2>2 DEF SocketTag
  <2>4. SenditIfWritable(s, r)
    BY <1>2 DEF Write
  <2> HIDE DEF r
  <2>5. sk' \in [Sock -> SocketTag] /\ writebuf' \in [Sock -> Requests]
    BY <2>3, <2>4, SenditType DEF SenditIfWritable, TypeOK
  <2>6. written' \in [Sock -> Nat]
    BY <1>2, <2>1 DEF Write, TypeOK
  <2> QED
    BY <1>2, <2>5, <2>6 DEF Write, TypeOK
<1>3. ASSUME NEW s \in Sock, WriteOob(s) PROVE TypeOK'
  <2> DEFINE r == [sk[s] EXCEPT !.output_data = <<>>, !.sending_oob = TRUE]
  <2>1. r \in SocketTag
    BY <1>0, EmptySeq DEF SocketTag
  <2>2. SenditIfWritable(s, r)
    BY <1>3 DEF WriteOob
  <2> HIDE DEF r
  <2>3. sk' \in [Sock -> SocketTag] /\ writebuf' \in [Sock -> Requests]
    BY <2>1, <2>2, SenditType DEF SenditIfWritable, TypeOK
  <2> QED
    BY <1>3, <2>3 DEF WriteOob, TypeOK
<1>4. ASSUME NEW s \in Sock, Close(s) PROVE TypeOK'
  <2>1. [sk[s] EXCEPT !.killing = TRUE] \in SocketTag
    BY <1>0 DEF SocketTag
  <2>2. CASE sk[s].output_data # <<>> /\ ~sk[s].killing
    BY <1>4, <2>1, <2>2 DEF Close, TypeOK
  <2>3. CASE ~(sk[s].output_data # <<>> /\ ~sk[s].killing)
    <3>1. Free(s, sk[s])
      BY <1>4, <2>3 DEF Close
    <3>2. /\ sk' \in [Sock -> SocketTag]
          /\ writebuf' \in [Sock -> Requests]
          /\ recver' \in [Sock -> Receivers]
      BY <1>0, <3>1, FreeType
    <3> QED
      BY <1>4, <3>2 DEF Close, TypeOK
  <2> QED
    BY <2>2, <2>3
<1>5. ASSUME NEW s \in Sock, Freeze(s) PROVE TypeOK'
  <2>1. [sk[s] EXCEPT !.frozen = TRUE, !.frozen_readable = FALSE] \in SocketTag
    BY <1>0 DEF SocketTag
  <2>2. sk' = [sk EXCEPT ![s] =
                 [sk[s] EXCEPT !.frozen = TRUE, !.frozen_readable = FALSE]]
    BY <1>0, <1>5 DEF Freeze, TypeOK, SocketTag
  <2> QED
    BY <1>5, <2>1, <2>2 DEF Freeze, TypeOK
<1>6. ASSUME NEW s \in Sock, Unfreeze(s) PROVE TypeOK'
  <2>1. [sk[s] EXCEPT !.frozen = FALSE] \in SocketTag
    BY <1>0 DEF SocketTag
  <2>2. [fn |-> "thaw", s |-> s] \in Frames
    BY DEF Frames
  <2>3. <<[fn |-> "thaw", s |-> s]>> \o stack \in Seq(Frames)
    BY <2>2, PushType DEF TypeOK
  <2>4. got[s] \o recver[s].readbuf \in Seq(Nat)
    BY <1>0, ConcatProperties DEF TypeOK, Receivers
  <2> QED
    BY <1>6, <2>1, <2>3, <2>4 DEF Unfreeze, TypeOK
<1>7. ASSUME NEW s \in Sock, NEW n \in 1 .. MaxRead, RecvData(s, n) PROVE TypeOK'
  <2> DEFINE buf == Run(recver[s].arrived, n)
  <2>1. recver[s].arrived \in Nat /\ n \in Nat
    BY <1>0 DEF Receivers, EpocNetAssumption
  <2>2. buf \in Seq(Nat)
    BY <2>1, RunIsSeq
  <2>3. [active |-> FALSE, readbuf |-> buf, arrived |-> recver[s].arrived + n] \in Receivers
    BY <2>1, <2>2 DEF Receivers
  <2>4. got[s] \o buf \in Seq(Nat)
    BY <2>2, ConcatProperties DEF TypeOK
  <2>5. [sk[s] EXCEPT !.frozen_readable = TRUE] \in SocketTag
    BY <1>0 DEF SocketTag
  <2>6. <<[fn |-> "receive", s |-> s]>> \in Seq(Frames)
    BY DEF Frames
  <2> HIDE DEF buf
  <2>7. recver' \in [Sock -> Receivers]
    BY <1>7, <2>3 DEF RecvData, TypeOK, buf
  <2>8. sk' \in [Sock -> SocketTag] /\ stack' \in Seq(Frames) /\ got' \in [Sock -> Seq(Nat)]
    BY <1>7, <2>4, <2>5, <2>6 DEF RecvData, TypeOK, buf
  <2> QED
    BY <1>7, <2>7, <2>8 DEF RecvData, TypeOK
<1>8. ASSUME NEW s \in Sock, RecvEnd(s) PROVE TypeOK'
  <2>1. [recver[s] EXCEPT !.active = FALSE] \in Receivers
    BY <1>0 DEF Receivers
  <2>2. <<[fn |-> "closing", s |-> s]>> \in Seq(Frames)
    BY DEF Frames
  <2>3. {"deadplug"} \in SUBSET Faults
    BY DEF Faults
  <2> QED
    BY <1>8, <2>1, <2>2, <2>3 DEF RecvEnd, TypeOK
<1>9. ASSUME NEW s \in Sock, SendDone(s) PROVE TypeOK'
  <2>1. Consumed(s) \in SocketTag
    BY ConsumedType
  <2>2. peer[s] \o writebuf[s].data \in Seq(Nat)
    BY <1>0, ConcatProperties DEF TypeOK, Requests
  <2>3. peer' \in [Sock -> Seq(Nat)]
    BY <1>9, <2>2 DEF SendDone, TypeOK
  <2>4. fault' \in SUBSET Faults
    BY <1>9 DEF SendDone, Faults
  <2>5. CASE sk[s].killing
    <3>1. SendMore(s, Consumed(s)) /\ UNCHANGED stack
      BY <1>9, <2>5 DEF SendDone
    <3>2. /\ sk' \in [Sock -> SocketTag]
          /\ writebuf' \in [Sock -> Requests]
          /\ recver' \in [Sock -> Receivers]
      BY <2>1, <3>1, SendMoreType
    <3> QED
      BY <1>9, <2>3, <2>4, <3>1, <3>2 DEF SendDone, TypeOK
  <2>6. CASE ~sk[s].killing
    <3>1. NoSend \in Requests
      BY EmptySeq DEF NoSend, Requests
    <3>2. <<[fn |-> "sent", s |-> s]>> \in Seq(Frames)
      BY DEF Frames
    <3>3. /\ sk' = [sk EXCEPT ![s] = Consumed(s)]
          /\ writebuf' = [writebuf EXCEPT ![s] = NoSend]
          /\ stack' = <<[fn |-> "sent", s |-> s]>>
          /\ UNCHANGED recver
          /\ UNCHANGED <<held, written, got>>
      BY <1>9, <2>6 DEF SendDone
    <3> QED
      BY <2>1, <2>3, <2>4, <3>1, <3>2, <3>3 DEF TypeOK
  <2> QED
    BY <2>5, <2>6
<1>10. ASSUME NEW s \in Sock, SendFail(s) PROVE TypeOK'
  <2>1. [sk[s] EXCEPT !.pending_error = TRUE] \in SocketTag
    BY <1>0 DEF SocketTag
  <2>2. NoSend \in Requests
    BY EmptySeq DEF NoSend, Requests
  <2> QED
    BY <1>10, <2>1, <2>2 DEF SendFail, TypeOK
<1>11. ASSUME NEW fn \in {"receive", "thaw"}, ReturnReceive(fn) PROVE TypeOK'
  <2> DEFINE s == Head(stack).s
  <2>1. s \in Sock /\ stack' \in Seq(Frames)
    <3>1. stack \in Seq(Frames) /\ stack # <<>> /\ stack' = Tail(stack)
      BY <1>11 DEF ReturnReceive, TypeOK
    <3>2. Head(stack) \in Frames /\ Tail(stack) \in Seq(Frames)
      BY <3>1, HeadTailProperties
    <3> QED
      BY <3>1, <3>2 DEF Frames
  <2>2. [recver[s] EXCEPT !.active = TRUE] \in Receivers
    BY <1>0, <2>1 DEF Receivers
  <2>3. [sk[s] EXCEPT !.frozen_readable = FALSE] \in SocketTag
    BY <1>0, <2>1, ZenonT(60) DEF SocketTag
  <2>4. fault' \in SUBSET Faults
    BY <1>11 DEF ReturnReceive, Faults
  <2>5. recver' = [recver EXCEPT ![s].active = TRUE] \/ recver' = recver
    BY <1>11 DEF ReturnReceive
  <2>6. sk' = [sk EXCEPT ![s].frozen_readable = FALSE] \/ sk' = sk
    BY <1>11 DEF ReturnReceive
  <2>7. UNCHANGED <<writebuf, held, written, peer, got>>
    BY <1>11 DEF ReturnReceive
  <2> HIDE DEF s
  <2>8. recver' \in [Sock -> Receivers]
    BY <2>1, <2>2, <2>5 DEF TypeOK
  <2>9. sk' \in [Sock -> SocketTag]
    BY <2>1, <2>3, <2>6 DEF TypeOK
  <2> QED
    BY <2>1, <2>4, <2>7, <2>8, <2>9 DEF TypeOK
<1>12. ASSUME ReturnClosing PROVE TypeOK'
  BY <1>12, HeadTailProperties DEF ReturnClosing, TypeOK
<1>13. ASSUME ReturnSent PROVE TypeOK'
  <2> DEFINE s == Head(stack).s
  <2>1. s \in Sock /\ stack' \in Seq(Frames)
    <3>1. stack \in Seq(Frames) /\ stack # <<>> /\ stack' = Tail(stack)
      BY <1>13 DEF ReturnSent, TypeOK
    <3>2. Head(stack) \in Frames /\ Tail(stack) \in Seq(Frames)
      BY <3>1, HeadTailProperties
    <3> QED
      BY <3>1, <3>2 DEF Frames
  <2>2. CASE sk[s].phase = "closed"
    BY <1>13, <2>1, <2>2 DEF ReturnSent, TypeOK, Faults
  <2>3. CASE sk[s].phase # "closed"
    <3>1. SendMore(s, sk[s]) /\ UNCHANGED fault
      BY <1>13, <2>3 DEF ReturnSent
    <3>2. /\ sk' \in [Sock -> SocketTag]
          /\ writebuf' \in [Sock -> Requests]
          /\ recver' \in [Sock -> Receivers]
      BY <1>0, <2>1, <3>1, SendMoreType
    <3> QED
      BY <1>13, <2>1, <3>1, <3>2 DEF ReturnSent, TypeOK
  <2> QED
    BY <2>2, <2>3
<1>14. CASE UNCHANGED vars
  BY <1>14 DEF vars, TypeOK
<1> QED
  BY <1>1, <1>2, <1>3, <1>4, <1>5, <1>6, <1>7, <1>8, <1>9, <1>10, <1>11,
     <1>12, <1>13, <1>14
     DEF Next, PlugCall, Event, Return, ReturnFromRunL, ReturnFromReissue

(* Every state of EpocNet is well typed.                                    *)
THEOREM TypeCorrect == Spec => []TypeOK
BY TypeInit, TypeStep, PTL DEF Spec

-------------------------------------------------------------------------------
(* The byte stream.  StreamIntact is not inductive by itself: that a        *)
(* completed Send() may be consumed from output_data depends on what was    *)
(* sent still being at its head, and that a freed socket has nothing left   *)
(* depends on a plug closing a socket only once.                            *)

IsPrefixOf(d, q) == Len(d) <= Len(q) /\ d = SubSeq(q, 1, Len(d))

(* r: the fields of the socket, w: the request of its CSender, p: what its  *)
(* peer has, n: how much was written, h: whether the plug holds it.         *)
DataOf(r, w, p, n, h) ==
    /\ ~r.sending_oob
    /\ w.kind # "oob"
    /\ IsPrefixOf(w.data, r.output_data)
    /\ p \o r.output_data = Run(0, n)
    /\ h => r.phase = "open" /\ ~r.killing
    /\ r.phase = "unused" => ~r.killing
    /\ r.phase = "closed" => r.output_data = <<>>

DataOK(s) == DataOf(sk[s], writebuf[s], peer[s], written[s], held[s])

StreamInv == TypeOK /\ \A s \in Sock \ OobSock : DataOK(s)

LEMMA DataOKUnmoved ==
    ASSUME NEW s \in Sock, DataOK(s),
           sk'[s] = sk[s], writebuf'[s] = writebuf[s], peer'[s] = peer[s],
           written'[s] = written[s], held'[s] = held[s]
    PROVE  DataOK(s)'
BY DEF DataOK

LEMMA DataOKFields ==
    ASSUME NEW s \in Sock, DataOK(s),
           sk'[s].output_data = sk[s].output_data, sk'[s].sending_oob = sk[s].sending_oob,
           sk'[s].killing = sk[s].killing, sk'[s].phase = sk[s].phase,
           UNCHANGED <<writebuf, held, written, peer>>
    PROVE  DataOK(s)'
BY DEF DataOK, DataOf

LEMMA EmptyPrefix ==
    ASSUME NEW q \in Seq(Nat)
    PROVE  IsPrefixOf(<<>>, q)
<1>1. SubSeq(q, 1, 0) = <<>>
  BY SubSeqEmpty
<1>2. Len(<<>>) = 0 /\ Len(q) \in Nat
  BY EmptySeq, LenProperties
<1> QED
  BY <1>1, <1>2 DEF IsPrefixOf

LEMMA PrefixOfHead ==
    ASSUME NEW q \in Seq(Nat), NEW k \in Nat, k <= Len(q)
    PROVE  IsPrefixOf(SubSeq(q, 1, k), q)
<1>1. Len(SubSeq(q, 1, k)) = k
  <2>1. \A i \in 1 .. k : q[i] \in Nat
    BY ElementOfSeq, LenProperties
  <2> QED
    BY <2>1, SubSeqProperties
<1> QED
  BY <1>1 DEF IsPrefixOf

LEMMA PrefixGrows ==
    ASSUME NEW d \in Seq(Nat), NEW q \in Seq(Nat), NEW x \in Seq(Nat), IsPrefixOf(d, q)
    PROVE  IsPrefixOf(d, q \o x)
<1> DEFINE k == Len(d)
           u == q \o x
<1>1. k \in Nat /\ Len(q) \in Nat /\ Len(x) \in Nat /\ k <= Len(q)
  BY LenProperties DEF IsPrefixOf
<1>2. u \in Seq(Nat) /\ Len(u) = Len(q) + Len(x) /\ \A i \in 1 .. Len(q) : u[i] = q[i]
  BY <1>1, ConcatProperties
<1>3. /\ \A i \in 1 .. Len(q) : q[i] \in Nat
      /\ \A i \in 1 .. Len(u) : u[i] \in Nat
  BY <1>2, ElementOfSeq
<1> HIDE DEF u
<1>4. /\ SubSeq(u, 1, k) \in Seq(Nat)
      /\ Len(SubSeq(u, 1, k)) = k
      /\ \A i \in 1 .. k : SubSeq(u, 1, k)[i] = u[i]
  <2>1. \A i \in 1 .. k : u[i] \in Nat
    BY <1>1, <1>2, <1>3
  <2>2. /\ SubSeq(u, 1, k) \in Seq(Nat)
        /\ Len(SubSeq(u, 1, k)) = IF 1 <= k THEN k - 1 + 1 ELSE 0
        /\ \A i \in 1 .. k - 1 + 1 : SubSeq(u, 1, k)[i] = u[1 + i - 1]
    BY <1>1, <2>1, SubSeqProperties
  <2> QED
    BY <1>1, <2>2
<1>5. \A i \in 1 .. k : SubSeq(q, 1, k)[i] = q[i]
  <2>1. \A i \in 1 .. k : q[i] \in Nat
    BY <1>1, <1>3
  <2>2. \A i \in 1 .. k - 1 + 1 : SubSeq(q, 1, k)[i] = q[1 + i - 1]
    BY <1>1, <2>1, SubSeqProperties
  <2> QED
    BY <1>1, <2>2
<1>6. \A i \in 1 .. k : d[i] = SubSeq(u, 1, k)[i]
  <2>1. \A i \in 1 .. k : d[i] = q[i]
    <3>1. d = SubSeq(q, 1, k)
      BY DEF IsPrefixOf
    <3> HIDE DEF k
    <3> QED
      BY <1>5, <3>1
  <2>2. \A i \in 1 .. k : u[i] = q[i]
    <3>1. \A i \in 1 .. k : i \in 1 .. Len(q)
      BY <1>1
    <3> QED
      BY <1>2, <3>1
  <2> QED
    BY <1>4, <2>1, <2>2
<1>7. d = SubSeq(u, 1, k)
  BY <1>4, <1>6, SeqEqual
<1> QED
  BY <1>1, <1>2, <1>7 DEF IsPrefixOf

LEMMA ConcatIs ==
    ASSUME NEW a \in Seq(Nat), NEW b \in Seq(Nat), NEW c \in Seq(Nat),
           Len(c) = Len(a) + Len(b),
           \A i \in 1 .. Len(a) : c[i] = a[i],
           \A i \in 1 .. Len(b) : c[Len(a) + i] = b[i]
    PROVE  a \o b = c
<1> DEFINE u == a \o b
<1>1. Len(a) \in Nat /\ Len(b) \in Nat
  BY LenProperties
<1>2. /\ u \in Seq(Nat)
      /\ Len(u) = Len(a) + Len(b)
      /\ \A i \in 1 .. Len(a) + Len(b) : u[i] = IF i <= Len(a) THEN a[i] ELSE b[i - Len(a)]
  BY ConcatProperties
<1> HIDE DEF u
<1>3. ASSUME NEW i \in 1 .. Len(u) PROVE u[i] = c[i]
  <2>1. CASE i <= Len(a)
    <3>1. i \in 1 .. Len(a) /\ i \in 1 .. Len(a) + Len(b)
      BY <1>1, <1>2, <2>1
    <3>2. u[i] = a[i]
      BY <1>2, <2>1, <3>1
    <3>3. c[i] = a[i]
      BY <3>1
    <3> QED
      BY <3>2, <3>3
  <2>2. CASE i > Len(a)
    <3>1. i - Len(a) \in 1 .. Len(b) /\ i = Len(a) + (i - Len(a))
      BY <1>1, <1>2, <2>2
    <3>2. c[Len(a) + (i - Len(a))] = b[i - Len(a)]
      BY <3>1
    <3> QED
      BY <1>1, <1>2, <2>2, <3>1, <3>2, SMTT(40)
  <2> QED
    BY <1>1, <2>1, <2>2
<1>4. u = c
  BY <1>2, <1>3, SeqEqual
<1> QED
  BY <1>4 DEF u

LEMMA SeqAssoc ==
    \A a, b, c \in Seq(Nat) : (a \o b) \o c = a \o (b \o c)
BY ConcatAssociative, SMTT(40)

(* Consuming a prefix that has gone to the peer leaves the stream as it was. *)
LEMMA MovePrefix ==
    ASSUME NEW p \in Seq(Nat), NEW d \in Seq(Nat), NEW q \in Seq(Nat), IsPrefixOf(d, q)
    PROVE  (p \o d) \o SubSeq(q, Len(d) + 1, Len(q)) = p \o q
<1> DEFINE z == SubSeq(q, Len(d) + 1, Len(q))
<1>1. Len(d) \in Nat /\ Len(q) \in Nat /\ Len(d) <= Len(q)
  BY LenProperties DEF IsPrefixOf
<1>2. z \in Seq(Nat)
  BY <1>1, SubSeqType
<1>3. d \o z = q
  <2>1. d = SubSeq(q, 1, Len(d))
    BY DEF IsPrefixOf
  <2>2. \A i \in 1 .. Len(q) : q[i] \in Nat
    BY ElementOfSeq
  <2>3. /\ Len(z) = Len(q) - Len(d)
        /\ \A i \in 1 .. Len(z) : z[i] = q[Len(d) + i]
    <3>1. \A i \in Len(d) + 1 .. Len(q) : q[i] \in Nat
      BY <1>1, <2>2
    <3>2. /\ Len(z) = IF Len(d) + 1 <= Len(q) THEN Len(q) - (Len(d) + 1) + 1 ELSE 0
          /\ \A i \in 1 .. Len(q) - (Len(d) + 1) + 1 : z[i] = q[Len(d) + 1 + i - 1]
      BY <1>1, <3>1, SubSeqProperties
    <3> QED
      BY <1>1, <3>2
  <2>4. \A i \in 1 .. Len(d) : d[i] = q[i]
    <3>1. \A i \in 1 .. Len(d) : q[i] \in Nat
      BY <1>1, <2>2
    <3>2. \A i \in 1 .. Len(d) - 1 + 1 : SubSeq(q, 1, Len(d))[i] = q[1 + i - 1]
      BY <1>1, <3>1, SubSeqProperties
    <3> QED
      BY <1>1, <2>1, <3>2
  <2> HIDE DEF z
  <2>5. Len(q) = Len(d) + Len(z)
    BY <1>1, <2>3
  <2>6. \A i \in 1 .. Len(z) : q[Len(d) + i] = z[i]
    BY <2>3
  <2>7. \A i \in 1 .. Len(d) : q[i] = d[i]
    BY <2>4
  <2> QED
    BY <1>2, <2>5, <2>6, <2>7, ConcatIs
<1> HIDE DEF z
<1>4. (p \o d) \o z = p \o (d \o z)
  BY <1>2, SeqAssoc
<1> QED
  BY <1>3, <1>4 DEF z

(* Numbering goes on where it stopped. *)
LEMMA RunExtends ==
    ASSUME NEW m \in Nat, NEW n \in Nat
    PROVE  Run(0, m) \o Run(m, n) = Run(0, m + n)
<1>1. /\ Run(0, m) \in Seq(Nat) /\ Len(Run(0, m)) = m
      /\ \A i \in 1 .. m : Run(0, m)[i] = 0 + i
  BY RunIsSeq
<1>2. /\ Run(m, n) \in Seq(Nat) /\ Len(Run(m, n)) = n
      /\ \A i \in 1 .. n : Run(m, n)[i] = m + i
  BY RunIsSeq
<1>3. /\ Run(0, m + n) \in Seq(Nat) /\ Len(Run(0, m + n)) = m + n
      /\ \A i \in 1 .. m + n : Run(0, m + n)[i] = 0 + i
  BY RunIsSeq
<1> DEFINE a == Run(0, m)
           b == Run(m, n)
           c == Run(0, m + n)
<1>4. a \in Seq(Nat) /\ b \in Seq(Nat) /\ c \in Seq(Nat)
  BY <1>1, <1>2, <1>3
<1>5. Len(a) = m /\ Len(b) = n /\ Len(c) = m + n
  BY <1>1, <1>2, <1>3
<1>6. \A i \in 1 .. m : c[i] = a[i]
  BY <1>1, <1>3
<1>7. \A i \in 1 .. n : c[m + i] = b[i]
  BY <1>2, <1>3
<1> HIDE DEF a, b, c
<1>8. a \o b = c
  BY <1>4, <1>5, <1>6, <1>7, ConcatIs
<1> QED
  BY <1>8 DEF a, b, c

(* After Sendit() on fields r whose stream is intact, it still is, and the  *)
(* request is for the head of the stream.                                   *)
LEMMA SenditKeepsData ==
    ASSUME TypeOK, EpocNetAssumption, NEW s \in Sock, NEW r \in SocketTag, Sendit(s, r),
           NEW p, NEW n, NEW h,
           DataOf(r, writebuf[s], p, n, h) \/ (r.output_data # <<>> /\ DataOf(r, NoSend, p, n, h))
    PROVE  /\ DataOf(sk'[s], writebuf'[s], p, n, h)
           /\ \A t \in Sock \ {s} : sk'[t] = sk[t] /\ writebuf'[t] = writebuf[t]
<1>1. ~r.sending_oob
  BY DEF DataOf
<1>2. r.output_data \in Seq(Nat)
  BY DEF SocketTag
<1>3. CASE r.output_data # <<>>
  <2>1. PICK k \in 1 .. BUFFER_GRANULE :
            /\ k <= Len(r.output_data)
            /\ writebuf' = [writebuf EXCEPT ![s] =
                               [kind |-> "data",
                                data |-> SubSeq(r.output_data, 1, k)]]
    BY <1>1, <1>3 DEF Sendit
  <2>2. sk' = [sk EXCEPT ![s] = [r EXCEPT !.writable = FALSE]]
    BY <1>1, <1>3 DEF Sendit
  <2>3. k \in Nat
    BY DEF EpocNetAssumption
  <2>4. IsPrefixOf(SubSeq(r.output_data, 1, k), r.output_data)
    BY <1>2, <2>1, <2>3, PrefixOfHead
  <2>5. /\ sk'[s] = [r EXCEPT !.writable = FALSE]
        /\ writebuf'[s] = [kind |-> "data", data |-> SubSeq(r.output_data, 1, k)]
    BY <2>1, <2>2 DEF TypeOK
  <2>6. /\ sk'[s].output_data = r.output_data /\ ~sk'[s].sending_oob
        /\ sk'[s].killing = r.killing /\ sk'[s].phase = r.phase
        /\ writebuf'[s].kind = "data"
        /\ writebuf'[s].data = SubSeq(r.output_data, 1, k)
    BY <1>1, <2>5 DEF SocketTag
  <2>7. DataOf(sk'[s], writebuf'[s], p, n, h)
    BY <2>4, <2>6 DEF DataOf
  <2> QED
    BY <2>1, <2>2, <2>7 DEF TypeOK
<1>4. CASE r.output_data = <<>>
  BY <1>1, <1>4 DEF Sendit, TypeOK
<1> QED
  BY <1>3, <1>4

LEMMA NoSendData ==
    ASSUME NEW r \in SocketTag, NEW w, NEW p, NEW n, NEW h, DataOf(r, w, p, n, h)
    PROVE  DataOf(r, NoSend, p, n, h)
<1>1. IsPrefixOf(<<>>, r.output_data)
  BY EmptyPrefix DEF SocketTag
<1> QED
  BY <1>1 DEF DataOf, NoSend

(* So does all that CSender::DoRunL() does after a completed Send().        *)
LEMMA SendMoreKeepsData ==
    ASSUME TypeOK, EpocNetAssumption, NEW s \in Sock, NEW r \in SocketTag, SendMore(s, r),
           NEW p, NEW n, NEW h, DataOf(r, NoSend, p, n, h)
    PROVE  /\ DataOf(sk'[s], writebuf'[s], p, n, h)
           /\ \A t \in Sock \ {s} : sk'[t] = sk[t] /\ writebuf'[t] = writebuf[t]
<1> DEFINE rw == [r EXCEPT !.writable = TRUE]
<1>1. rw \in SocketTag
  BY DEF SocketTag
<1>2. /\ rw.output_data = r.output_data /\ rw.sending_oob = r.sending_oob
      /\ rw.killing = r.killing /\ rw.phase = r.phase
  BY DEF SocketTag
<1>3. DataOf(rw, NoSend, p, n, h)
  BY <1>2 DEF DataOf
<1>4. ~r.sending_oob
  BY DEF DataOf
<1>5. CASE r.output_data # <<>>
  <2>1. Sendit(s, rw)
    BY <1>4, <1>5 DEF SendMore
  <2> HIDE DEF rw
  <2> QED
    BY <1>1, <1>2, <1>3, <1>5, <2>1, SenditKeepsData
<1>6. CASE r.output_data = <<>> /\ r.killing
  <2>1. Free(s, rw)
    BY <1>4, <1>6 DEF SendMore
  <2>2. sk'[s] = [rw EXCEPT !.phase = "closed"] /\ writebuf'[s] = NoSend
    BY <2>1 DEF Free, TypeOK
  <2>3. DataOf(sk'[s], writebuf'[s], p, n, h)
    <3>1. /\ sk'[s].output_data = rw.output_data /\ sk'[s].sending_oob = rw.sending_oob
          /\ sk'[s].killing = rw.killing
      BY <1>1, <2>2 DEF SocketTag
    <3>2. sk'[s].phase = "closed"
      BY <1>1, <2>2 DEF SocketTag
    <3> HIDE DEF rw
    <3>3. DataOf(sk'[s], NoSend, p, n, h)
      BY <1>2, <1>3, <1>6, <3>1, <3>2 DEF DataOf
    <3> QED
      BY <2>2, <3>3
  <2> QED
    BY <2>1, <2>3 DEF Free, TypeOK
<1>7. CASE r.output_data = <<>> /\ ~r.killing
  <2>1. sk' = [sk EXCEPT ![s] = rw] /\ writebuf' = [writebuf EXCEPT ![s] = NoSend]
    BY <1>4, <1>7 DEF SendMore
  <2> QED
    BY <1>3, <2>1 DEF TypeOK
<1> QED
  BY <1>5, <1>6, <1>7

(* What is consumed when a Send() completes has gone to the peer.           *)
LEMMA ConsumedKeepsData ==
    ASSUME TypeOK, NEW s \in Sock, DataOK(s), sk[s].phase = "open"
    PROVE  DataOf(Consumed(s), NoSend, peer[s] \o writebuf[s].data, written[s], held[s])
<1> DEFINE d == writebuf[s].data
           q == sk[s].output_data
           z == SubSeq(q, Len(d) + 1, Len(q))
           c == Consumed(s)
<1>1. sk[s] \in SocketTag /\ d \in Seq(Nat) /\ q \in Seq(Nat) /\ peer[s] \in Seq(Nat)
  BY DEF TypeOK, SocketTag, Requests
<1>2. ~sk[s].sending_oob /\ IsPrefixOf(d, q) /\ peer[s] \o q = Run(0, written[s])
      /\ (held[s] => ~sk[s].killing)
  BY DEF DataOK, DataOf
<1>3. z \in Seq(Nat)
  BY <1>1, SubSeqType, LenProperties
<1>4. c = [sk[s] EXCEPT !.output_data = z]
  BY <1>2 DEF Consumed
<1>5. (peer[s] \o d) \o z = Run(0, written[s])
  BY <1>1, <1>2, MovePrefix
<1>6. /\ c.output_data = z /\ ~c.sending_oob /\ c.killing = sk[s].killing /\ c.phase = "open"
  BY <1>1, <1>2, <1>4 DEF SocketTag
<1>7. IsPrefixOf(<<>>, z)
  BY <1>3, EmptyPrefix
<1> HIDE DEF z, c
<1>8. DataOf(c, NoSend, peer[s] \o d, written[s], held[s])
  BY <1>2, <1>5, <1>6, <1>7 DEF DataOf, NoSend
<1> QED
  BY <1>8 DEF c

LEMMA StreamInit == Init => StreamInv
<1> SUFFICES ASSUME Init PROVE StreamInv
  OBVIOUS
<1>1. TypeOK
  BY TypeInit
<1>2. ASSUME NEW s \in Sock \ OobSock PROVE DataOK(s)
  <2>1. IsPrefixOf(<<>>, <<>>)
    BY EmptyPrefix, EmptySeq
  <2>2. Run(0, 0) = <<>>
    BY RunIsSeq, EmptySeq
  <2>3. <<>> \o <<>> = <<>>
    BY ConcatEmptySeq, EmptySeq
  <2> QED
    BY <2>1, <2>2, <2>3 DEF Init, DataOK, DataOf, NoSend
<1> QED
  BY <1>1, <1>2 DEF StreamInv

LEMMA StreamStep == StreamInv /\ TypeOK' /\ [Next]_vars => StreamInv'
<1> USE EpocNetAssumption
<1> SUFFICES ASSUME StreamInv, TypeOK', [Next]_vars,
                    NEW t \in Sock, t \notin OobSock
             PROVE  DataOK(t)'
  BY DEF StreamInv
<1>0. /\ TypeOK /\ DataOK(t)
      /\ \A s \in Sock : sk[s] \in SocketTag /\ sk[s].output_data \in Seq(Nat)
                        /\ writebuf[s] \in Requests
  BY DEF StreamInv, TypeOK, SocketTag
<1> DEFINE Same == /\ sk'[t] = sk[t] /\ writebuf'[t] = writebuf[t] /\ peer'[t] = peer[t]
                   /\ written'[t] = written[t] /\ held'[t] = held[t]
<1>s. Same => DataOK(t)'
  BY <1>0, DataOKUnmoved
<1>1. ASSUME NEW s \in Sock, NEW b \in BOOLEAN, Open(s, b) PROVE DataOK(t)'
  <2>1. CASE t = s
    <3>1. sk'[t] = [sk[t] EXCEPT !.phase = "open", !.writable = TRUE, !.frozen = b]
      BY <1>0, <1>1, <2>1 DEF Open, TypeOK, SocketTag
    <3>2. /\ sk'[t].output_data = sk[t].output_data /\ sk'[t].sending_oob = sk[t].sending_oob
          /\ sk'[t].killing = sk[t].killing /\ sk'[t].phase = "open" /\ sk[t].phase = "unused"
      <4>1. sk[t] \in SocketTag /\ sk[t].phase = "unused"
        BY <1>0, <1>1, <2>1 DEF Open
      <4> QED
        BY <3>1, <4>1 DEF SocketTag
    <3> QED
      BY <1>0, <1>1, <2>1, <3>2 DEF Open, DataOK, DataOf
  <2>2. CASE t # s
    BY <1>1, <1>s, <2>2 DEF Open, TypeOK
  <2> QED
    BY <2>1, <2>2
<1>2. ASSUME NEW s \in Sock, NEW n \in 0 .. MaxWrite, Write(s, n) PROVE DataOK(t)'
  <2> DEFINE q == sk[s].output_data \o Run(written[s], n)
             r == [sk[s] EXCEPT !.output_data = q]
  <2>1. SenditIfWritable(s, r)
    BY <1>2 DEF Write
  <2>2. n \in Nat /\ written[s] \in Nat /\ Run(written[s], n) \in Seq(Nat)
    <3>1. n \in Nat /\ written[s] \in Nat
      BY <1>0 DEF TypeOK, EpocNetAssumption
    <3> QED
      BY <3>1, RunIsSeq
  <2>3. q \in Seq(Nat)
    BY <1>0, <2>2, ConcatProperties
  <2>4. r \in SocketTag /\ r.output_data = q /\ r.sending_oob = sk[s].sending_oob
        /\ r.killing = sk[s].killing /\ r.phase = sk[s].phase
    BY <1>0, <2>3 DEF SocketTag
  <2>5. written'[s] = written[s] + n /\ UNCHANGED <<held, peer>> /\ held[s]
        /\ \A u \in Sock \ {s} : written'[u] = written[u]
    BY <1>0, <1>2 DEF Write, TypeOK, MayCall
  <2>6. CASE t = s
    <3>1. IsPrefixOf(writebuf[s].data, q)
      BY <1>0, <2>2, <2>6, PrefixGrows DEF DataOK, DataOf, Requests
    <3>2. peer[s] \o q = Run(0, written[s] + n)
      <4>1. peer[s] \in Seq(Nat) /\ peer[s] \o sk[s].output_data = Run(0, written[s])
        BY <1>0, <2>6 DEF TypeOK, DataOK, DataOf
      <4>2. (peer[s] \o sk[s].output_data) \o Run(written[s], n) = peer[s] \o q
        BY <1>0, <2>2, <4>1, SeqAssoc
      <4>3. Run(0, written[s]) \o Run(written[s], n) = Run(0, written[s] + n)
        BY <2>2, RunExtends
      <4> QED
        BY <4>1, <4>2, <4>3
    <3> HIDE DEF q, r
    <3>3. DataOf(r, writebuf[s], peer[s], written[s] + n, held[s])
      BY <1>0, <2>4, <2>5, <2>6, <3>1, <3>2 DEF DataOK, DataOf
    <3>4. DataOf(sk'[s], writebuf'[s], peer[s], written[s] + n, held[s])
      <4>1. CASE r.writable
        BY <1>0, <2>1, <2>4, <3>3, <4>1, SenditKeepsData DEF SenditIfWritable
      <4>2. CASE ~r.writable
        BY <1>0, <2>1, <3>3, <4>2 DEF SenditIfWritable, TypeOK
      <4> QED
        BY <4>1, <4>2
    <3> QED
      BY <2>5, <2>6, <3>4 DEF DataOK
  <2>7. CASE t # s
    <3> HIDE DEF r
    <3>1. sk'[t] = sk[t] /\ writebuf'[t] = writebuf[t]
      BY <1>0, <2>1, <2>7, SMTT(40) DEF SenditIfWritable, Sendit, TypeOK
    <3> QED
      BY <1>s, <2>5, <2>7, <3>1
  <2> QED
    BY <2>6, <2>7
<1>3. ASSUME NEW s \in Sock, WriteOob(s) PROVE DataOK(t)'
  <2> DEFINE r == [sk[s] EXCEPT !.output_data = <<>>, !.sending_oob = TRUE]
  <2>1. t # s /\ SenditIfWritable(s, r) /\ UNCHANGED <<held, written, peer>>
    BY <1>3 DEF WriteOob
  <2> HIDE DEF r
  <2>2. sk'[t] = sk[t] /\ writebuf'[t] = writebuf[t]
    BY <1>0, <2>1 DEF SenditIfWritable, Sendit, TypeOK
  <2> QED
    BY <1>s, <2>1, <2>2
<1>4. ASSUME NEW s \in Sock, Close(s) PROVE DataOK(t)'
  <2>1. /\ held[s] /\ UNCHANGED <<written, peer>> /\ held' = [held EXCEPT ![s] = FALSE]
    BY <1>4 DEF Close, MayCall
  <2>2. CASE sk[s].output_data # <<>> /\ ~sk[s].killing
    <3>1. sk' = [sk EXCEPT ![s].killing = TRUE] /\ UNCHANGED writebuf
      BY <1>4, <2>2 DEF Close
    <3>2. CASE t = s
      <4>1. sk'[t] = [sk[t] EXCEPT !.killing = TRUE]
        BY <1>0, <3>1, <3>2 DEF TypeOK
      <4>2. /\ sk'[t].output_data = sk[t].output_data /\ sk'[t].sending_oob = sk[t].sending_oob
            /\ sk'[t].phase = sk[t].phase
        BY <1>0, <4>1 DEF SocketTag
      <4>3. held'[t] = FALSE /\ sk[t].phase = "open"
        BY <1>0, <2>1, <3>2 DEF TypeOK, DataOK, DataOf
      <4> QED
        BY <1>0, <2>1, <3>1, <4>2, <4>3 DEF DataOK, DataOf
    <3>3. CASE t # s
      BY <1>0, <1>s, <2>1, <3>1, <3>3 DEF TypeOK
    <3> QED
      BY <3>2, <3>3
  <2>3. CASE ~(sk[s].output_data # <<>> /\ ~sk[s].killing)
    <3>1. Free(s, sk[s])
      BY <1>4, <2>3 DEF Close
    <3>2. CASE t = s
      <4>1. sk'[t] = [sk[t] EXCEPT !.phase = "closed"] /\ writebuf'[t] = NoSend /\ held'[t] = FALSE
        BY <1>0, <2>1, <3>1, <3>2 DEF Free, TypeOK
      <4>2. /\ sk'[t].output_data = sk[t].output_data /\ sk'[t].sending_oob = sk[t].sending_oob
            /\ sk'[t].phase = "closed"
        BY <1>0, <4>1 DEF SocketTag
      <4>3. sk[t].output_data = <<>>
        BY <1>0, <2>1, <2>3, <3>2 DEF DataOK, DataOf
      <4>4. IsPrefixOf(<<>>, <<>>)
        BY EmptyPrefix, EmptySeq
      <4>5. DataOf(sk'[t], NoSend, peer[t], written[t], FALSE)
        BY <1>0, <4>2, <4>3, <4>4 DEF DataOK, DataOf, NoSend
      <4> QED
        BY <2>1, <4>1, <4>5 DEF DataOK
    <3>3. CASE t # s
      BY <1>0, <1>s, <2>1, <3>1, <3>3 DEF Free, TypeOK
    <3> QED
      BY <3>2, <3>3
  <2> QED
    BY <2>2, <2>3
<1>5. ASSUME NEW s \in Sock, Freeze(s) \/ Unfreeze(s) PROVE DataOK(t)'
  <2>1. UNCHANGED <<writebuf, held, written, peer>>
    BY <1>5 DEF Freeze, Unfreeze
  <2>2. \/ sk' = [sk EXCEPT ![s].frozen = TRUE, ![s].frozen_readable = FALSE]
        \/ sk' = [sk EXCEPT ![s].frozen = FALSE]
    BY <1>5 DEF Freeze, Unfreeze
  <2>3. CASE t = s
    <3>1. \/ sk'[t] = [sk[t] EXCEPT !.frozen = TRUE, !.frozen_readable = FALSE]
          \/ sk'[t] = [sk[t] EXCEPT !.frozen = FALSE]
      BY <1>0, <2>2, <2>3 DEF TypeOK, SocketTag
    <3>2. sk[t] \in SocketTag
      BY <1>0
    <3>3. /\ sk'[t].output_data = sk[t].output_data /\ sk'[t].sending_oob = sk[t].sending_oob
          /\ sk'[t].killing = sk[t].killing /\ sk'[t].phase = sk[t].phase
      BY <3>1, <3>2 DEF SocketTag
    <3> QED
      BY <1>0, <2>1, <3>3, DataOKFields
  <2>4. CASE t # s
    BY <1>0, <1>s, <2>1, <2>2, <2>4 DEF TypeOK
  <2> QED
    BY <2>3, <2>4
<1>6. ASSUME NEW s \in Sock, NEW n \in 1 .. MaxRead, RecvData(s, n) PROVE DataOK(t)'
  <2>1. UNCHANGED <<writebuf, held, written, peer>>
    BY <1>6 DEF RecvData
  <2>2. sk' = sk \/ sk' = [sk EXCEPT ![s].frozen_readable = TRUE]
    BY <1>6 DEF RecvData
  <2>3. sk'[t] = sk[t] \/ sk'[t] = [sk[t] EXCEPT !.frozen_readable = TRUE]
    BY <1>0, <2>2 DEF TypeOK
  <2>4. sk[t] \in SocketTag
    BY <1>0
  <2>5. /\ sk'[t].output_data = sk[t].output_data /\ sk'[t].sending_oob = sk[t].sending_oob
        /\ sk'[t].killing = sk[t].killing /\ sk'[t].phase = sk[t].phase
    BY <2>3, <2>4 DEF SocketTag
  <2> QED
    BY <1>0, <2>1, <2>5, DataOKFields
<1>7. ASSUME NEW s \in Sock, RecvEnd(s) PROVE DataOK(t)'
  BY <1>7, <1>s DEF RecvEnd
<1>8. ASSUME NEW s \in Sock, SendDone(s) PROVE DataOK(t)'
  <2>1. UNCHANGED <<held, written>> /\ sk[s].phase = "open"
    BY <1>8 DEF SendDone, MayRun
  <2>2. CASE t = s
    <3>1. writebuf[s].kind = "data"
      BY <1>0, <1>8, <2>2 DEF SendDone, DataOK, DataOf, Requests
    <3>2. peer'[s] = peer[s] \o writebuf[s].data
      BY <1>0, <1>8, <3>1 DEF SendDone, TypeOK
    <3>3. DataOf(Consumed(s), NoSend, peer'[s], written[s], held[s])
      BY <1>0, <2>1, <2>2, <3>2, ConsumedKeepsData
    <3>4. Consumed(s) \in SocketTag
      BY <1>0, ConsumedType
    <3>5. CASE sk[s].killing
      <4>1. SendMore(s, Consumed(s))
        BY <1>8, <3>5 DEF SendDone
      <4>2. DataOf(sk'[s], writebuf'[s], peer'[s], written[s], held[s])
        BY <1>0, <3>3, <3>4, <4>1, SendMoreKeepsData
      <4> QED
        BY <2>1, <2>2, <4>2 DEF DataOK
    <3>6. CASE ~sk[s].killing
      <4>1. sk' = [sk EXCEPT ![s] = Consumed(s)] /\ writebuf' = [writebuf EXCEPT ![s] = NoSend]
        BY <1>8, <3>6 DEF SendDone
      <4> QED
        BY <1>0, <2>1, <2>2, <3>3, <4>1 DEF TypeOK, DataOK
    <3> QED
      BY <3>5, <3>6
  <2>3. CASE t # s
    <3>1. peer'[t] = peer[t]
      BY <1>0, <1>8, <2>3 DEF SendDone, TypeOK
    <3>2. sk'[t] = sk[t] /\ writebuf'[t] = writebuf[t]
      <4>1. \/ SendMore(s, Consumed(s))
            \/ sk' = [sk EXCEPT ![s] = Consumed(s)] /\ writebuf' = [writebuf EXCEPT ![s] = NoSend]
        BY <1>8 DEF SendDone
      <4>2. CASE SendMore(s, Consumed(s))
        BY <1>0, <2>3, <4>2, SMTT(40) DEF SendMore, Sendit, Free, TypeOK
      <4>3. CASE sk' = [sk EXCEPT ![s] = Consumed(s)] /\ writebuf' = [writebuf EXCEPT ![s] = NoSend]
        BY <1>0, <2>3, <4>3 DEF TypeOK
      <4> QED
        BY <4>1, <4>2, <4>3
    <3> QED
      BY <1>s, <2>1, <3>1, <3>2
  <2> QED
    BY <2>2, <2>3
<1>9. ASSUME NEW s \in Sock, SendFail(s) PROVE DataOK(t)'
  <2>1. UNCHANGED <<held, written, peer>>
    BY <1>9 DEF SendFail
  <2>2. CASE t = s
    <3>1. sk'[t] = [sk[t] EXCEPT !.pending_error = TRUE] /\ writebuf'[t] = NoSend
      BY <1>0, <1>9, <2>2 DEF SendFail, TypeOK
    <3>2. /\ sk'[t].output_data = sk[t].output_data /\ sk'[t].sending_oob = sk[t].sending_oob
          /\ sk'[t].killing = sk[t].killing /\ sk'[t].phase = sk[t].phase
      BY <1>0, <3>1 DEF SocketTag
    <3>3. IsPrefixOf(<<>>, sk[t].output_data)
      BY <1>0, EmptyPrefix
    <3>4. DataOf(sk'[t], NoSend, peer[t], written[t], held[t])
      BY <1>0, <3>2, <3>3 DEF DataOK, DataOf, NoSend
    <3> QED
      BY <2>1, <3>1, <3>4 DEF DataOK
  <2>3. CASE t # s
    BY <1>0, <1>9, <1>s, <2>1, <2>3 DEF SendFail, TypeOK
  <2> QED
    BY <2>2, <2>3
<1>10. ASSUME NEW fn, ReturnReceive(fn) PROVE DataOK(t)'
  <2>1. UNCHANGED <<writebuf, held, written, peer>>
    BY <1>10 DEF ReturnReceive
  <2>2. sk' = sk \/ sk' = [sk EXCEPT ![Head(stack).s].frozen_readable = FALSE]
    BY <1>10 DEF ReturnReceive
  <2>3. sk'[t] = sk[t] \/ sk'[t] = [sk[t] EXCEPT !.frozen_readable = FALSE]
    BY <1>0, <2>2 DEF TypeOK
  <2>4. sk[t] \in SocketTag
    BY <1>0
  <2>5. /\ sk'[t].output_data = sk[t].output_data /\ sk'[t].sending_oob = sk[t].sending_oob
        /\ sk'[t].killing = sk[t].killing /\ sk'[t].phase = sk[t].phase
    BY <2>3, <2>4 DEF SocketTag
  <2> QED
    BY <1>0, <2>1, <2>5, DataOKFields
<1>11. ASSUME ReturnClosing PROVE DataOK(t)'
  BY <1>11, <1>s DEF ReturnClosing
<1>12. ASSUME ReturnSent PROVE DataOK(t)'
  <2> DEFINE s == Head(stack).s
  <2>1. s \in Sock /\ UNCHANGED <<held, written, peer>>
    <3>1. stack \in Seq(Frames) /\ stack # <<>>
      BY <1>0, <1>12 DEF ReturnSent, TypeOK
    <3>2. Head(stack) \in Frames
      BY <3>1, HeadTailProperties
    <3> QED
      BY <1>12, <3>2 DEF ReturnSent, Frames
  <2>2. CASE sk[s].phase = "closed"
    BY <1>12, <1>s, <2>2 DEF ReturnSent
  <2>3. CASE sk[s].phase # "closed"
    <3>1. SendMore(s, sk[s])
      BY <1>12, <2>3 DEF ReturnSent
    <3> HIDE DEF s
    <3>2. CASE t = s
      <4>1. DataOf(sk[s], NoSend, peer[s], written[s], held[s])
        BY <1>0, <3>2, NoSendData DEF DataOK
      <4>2. DataOf(sk'[s], writebuf'[s], peer[s], written[s], held[s])
        BY <1>0, <2>1, <3>1, <4>1, SendMoreKeepsData
      <4> QED
        BY <2>1, <3>2, <4>2 DEF DataOK
    <3>3. CASE t # s
      <4>1. sk'[t] = sk[t] /\ writebuf'[t] = writebuf[t]
        BY <1>0, <3>1, <3>3, ZenonT(60) DEF SendMore, Sendit, Free, TypeOK
      <4> QED
        BY <1>s, <2>1, <4>1
    <3> QED
      BY <3>2, <3>3
  <2> QED
    BY <2>2, <2>3
<1>13. CASE UNCHANGED vars
  BY <1>13, <1>s DEF vars
<1> QED
  BY <1>1, <1>2, <1>3, <1>4, <1>5, <1>6, <1>7, <1>8, <1>9, <1>10, <1>11, <1>12, <1>13
     DEF Next, PlugCall, Event, Return, ReturnFromRunL, ReturnFromReissue

LEMMA StreamAlways == Spec => []StreamInv
<1>1. TypeOK /\ [Next]_vars => TypeOK'
  BY TypeStep
<1>2. StreamInv => TypeOK
  BY DEF StreamInv
<1> QED
  BY <1>1, <1>2, StreamInit, StreamStep, PTL DEF Spec

(* No byte written to a socket is lost, repeated or reordered, whatever     *)
(* plugs do from inside their callbacks, and a Send() in progress is for    *)
(* the bytes that will be consumed when it completes.                       *)
THEOREM StreamCorrect == Spec => [](StreamIntact /\ SendIsPrefix)
<1>1. StreamInv => StreamIntact /\ SendIsPrefix
  BY DEF StreamInv, DataOK, DataOf, IsPrefixOf, StreamIntact, SendIsPrefix
<1> QED
  BY <1>1, StreamAlways, PTL

(* sk_tcp_close() never frees a socket with data its peer has not got.      *)
THEOREM CloseCorrect == Spec => []ClosedIsDrained
<1>1. StreamInv => ClosedIsDrained
  <2> SUFFICES ASSUME StreamInv, NEW s \in Sock, s \notin OobSock, sk[s].phase = "closed"
               PROVE  peer[s] = Run(0, written[s])
    BY DEF ClosedIsDrained
  <2>1. peer[s] \in Seq(Nat) /\ DataOK(s)
    BY DEF StreamInv, TypeOK
  <2>2. peer[s] \o <<>> = Run(0, written[s])
    BY <2>1 DEF DataOK, DataOf
  <2> QED
    BY <2>1, <2>2, ConcatEmptySeq
<1> QED
  BY <1>1, StreamAlways, PTL

-------------------------------------------------------------------------------
(* Callbacks.  Events are dispatched with no callback in progress, so that  *)
(* only the outermost frame is not that of a Reissue(); and a socket has at *)
(* most one RunL() in progress, since being frozen inside of it makes it    *)
(* forget that there is something to be read.                               *)

InRunL(s) == InFrame("receive", s) \/ InFrame("thaw", s)

FramesOf(q) ==
    /\ \A i \in 1 .. Len(q) : q[i].fn # "thaw" => i = Len(q)
    /\ \A i, j \in 1 .. Len(q) :
          /\ q[i].fn \in {"receive", "thaw"} /\ q[j].fn \in {"receive", "thaw"}
          /\ q[i].s = q[j].s
          => i = j

Among(q, fn, s) == \E i \in 1 .. Len(q) : q[i] = [fn |-> fn, s |-> s]

(* What CSender and the fields of its socket agree on. *)
SenderOK(s) ==
    /\ held[s] => sk[s].phase = "open" /\ ~sk[s].killing
    /\ sk[s].phase = "unused" =>
          writebuf[s] = NoSend /\ ~sk[s].sending_oob /\ ~sk[s].killing /\ ~InFrame("sent", s)
    /\ writebuf[s].kind = "none" => writebuf[s] = NoSend
    /\ writebuf[s].kind = "data" => writebuf[s].data # <<>>
    /\ sk[s].writable \/ InFrame("sent", s) => writebuf[s] = NoSend
    /\ InFrame("sent", s) => ~sk[s].writable
    /\ ~sk[s].sending_oob => Len(writebuf[s].data) <= Len(sk[s].output_data)
    /\ InFrame("sent", s) /\ sk[s].killing => sk[s].output_data # <<>>

(* What CRecver and the fields of its socket agree on. *)
RecverOK(s) ==
    /\ held[s] => sk[s].phase = "open" /\ ~sk[s].killing
    /\ recver[s].active => sk[s].phase = "open"
    /\ sk[s].phase = "unused" =>
          ~sk[s].frozen_readable /\ got[s] = <<>> /\ recver[s].arrived = 0
    /\ InRunL(s) =>
          /\ ~recver[s].active
          /\ sk[s].phase # "unused"
          /\ sk[s].phase = "open" => ~(sk[s].frozen /\ sk[s].frozen_readable)
    /\ sk[s].phase = "open" /\ sk[s].frozen_readable =>
          /\ ~recver[s].active
          /\ sk[s].frozen \/ InFrame("thaw", s)

(* FreezingLosesNothing of one socket. *)
Pending(s) ==
    IF sk[s].frozen_readable /\ ~InFrame("thaw", s) THEN recver[s].readbuf ELSE <<>>

ReceivedOK(s) ==
    held[s] =>
        /\ got[s] \o Pending(s) = Run(0, recver[s].arrived)
        /\ ~(\E fn \in {"receive", "thaw", "closing"} : InFrame(fn, s))
              => recver[s].active \/ (sk[s].frozen /\ sk[s].frozen_readable)

CallbacksOK ==
    /\ FramesOf(stack)
    /\ fault \cap {"consume", "active"} = {}
    /\ \A s \in Sock : SenderOK(s) /\ RecverOK(s) /\ ReceivedOK(s)

(* What a peer gets is in the order of writing.  What is being sent is the  *)
(* head of output_data, unless urgent data has replaced that since.         *)
Ascending(q) == \A i, j \in 1 .. Len(q) : i < j => q[i] < q[j]
AllBefore(p, q) == \A i \in 1 .. Len(p), j \in 1 .. Len(q) : p[i] < q[j]
UpTo(q, n) == \A i \in 1 .. Len(q) : q[i] <= n

OrderOf(r, w, p, n) ==
    /\ Ascending(p) /\ Ascending(r.output_data)
    /\ AllBefore(p, r.output_data)
    /\ UpTo(p, n) /\ UpTo(r.output_data, n)
    /\ w.kind = "data" =>
          /\ IF r.sending_oob
             THEN /\ Ascending(w.data) /\ AllBefore(p, w.data)
                  /\ AllBefore(w.data, r.output_data) /\ UpTo(w.data, n)
             ELSE IsPrefixOf(w.data, r.output_data)

OrderOK(s) == OrderOf(sk[s], writebuf[s], peer[s], written[s])
OrderInv == \A s \in Sock : OrderOK(s)

(* Lemmas about the stack of callbacks.                                     *)

LEMMA NoFrames ==
    /\ FramesOf(<<>>)
    /\ \A fn, s : ~Among(<<>>, fn, s)
<1>1. Len(<<>>) = 0
  BY EmptySeq
<1> QED
  BY <1>1 DEF FramesOf, Among

(* An event: its callback is the only one. *)
LEMMA OneFrame ==
    ASSUME NEW f \in Frames
    PROVE  /\ FramesOf(<<f>>)
           /\ \A fn, s : Among(<<f>>, fn, s) <=> f.fn = fn /\ f.s = s
<1>1. Len(<<f>>) = 1 /\ <<f>>[1] = f
  OBVIOUS
<1>2. f = [fn |-> f.fn, s |-> f.s]
  BY DEF Frames
<1>3. FramesOf(<<f>>)
  BY <1>1 DEF FramesOf
<1>4. \A fn, s : Among(<<f>>, fn, s) <=> f.fn = fn /\ f.s = s
  <2> SUFFICES ASSUME NEW fn, NEW s
               PROVE  Among(<<f>>, fn, s) <=> f.fn = fn /\ f.s = s
    OBVIOUS
  <2>1. Among(<<f>>, fn, s) <=> f = [fn |-> fn, s |-> s]
    BY <1>1 DEF Among
  <2> QED
    BY <1>2, <2>1
<1> QED
  BY <1>3, <1>4

LEMMA AmongMember ==
    ASSUME NEW q \in Seq(Frames), NEW fn, NEW s
    PROVE  Among(q, fn, s) <=> \E i \in 1 .. Len(q) : q[i].fn = fn /\ q[i].s = s
<1>1. \A i \in 1 .. Len(q) : q[i] \in Frames
  BY ElementOfSeq
<1>2. \A i \in 1 .. Len(q) : q[i] = [fn |-> q[i].fn, s |-> q[i].s]
  BY <1>1 DEF Frames
<1>3. \A i \in 1 .. Len(q) : q[i] = [fn |-> fn, s |-> s] <=> q[i].fn = fn /\ q[i].s = s
  BY <1>2
<1> QED
  BY <1>3 DEF Among

LEMMA PushIs ==
    ASSUME NEW q \in Seq(Frames), NEW f \in Frames
    PROVE  /\ <<f>> \o q \in Seq(Frames) /\ Len(<<f>> \o q) = Len(q) + 1
           /\ (<<f>> \o q)[1] = f
           /\ \A i \in 1 .. Len(q) : (<<f>> \o q)[i + 1] = q[i]
<1> DEFINE p == <<f>> \o q
<1>1. <<f>> \in Seq(Frames) /\ Len(<<f>>) = 1 /\ <<f>>[1] = f
  OBVIOUS
<1>2. Len(q) \in Nat
  BY LenProperties
<1>3. /\ p \in Seq(Frames) /\ Len(p) = 1 + Len(q)
      /\ \A i \in 1 .. 1 + Len(q) : p[i] = IF i <= 1 THEN <<f>>[i] ELSE q[i - 1]
  BY <1>1, ConcatProperties
<1> HIDE DEF p
<1>4. /\ p \in Seq(Frames) /\ Len(p) = Len(q) + 1 /\ p[1] = f
      /\ \A i \in 1 .. Len(q) : p[i + 1] = q[i]
  BY <1>1, <1>2, <1>3
<1> QED
  BY <1>4 DEF p

LEMMA PopIs ==
    ASSUME NEW q \in Seq(Frames), q # <<>>
    PROVE  /\ Tail(q) \in Seq(Frames) /\ Len(q) = Len(Tail(q)) + 1
           /\ Head(q) = q[1]
           /\ \A i \in 1 .. Len(Tail(q)) : Tail(q)[i] = q[i + 1]
<1>1. /\ Tail(q) \in Seq(Frames)
      /\ Len(Tail(q)) = Len(q) - 1
      /\ \A i \in 1 .. Len(Tail(q)) : Tail(q)[i] = q[i + 1]
      /\ Head(q) = q[1]
  BY HeadTailProperties
<1>2. Len(q) \in Nat
  BY LenProperties
<1> QED
  BY <1>1, <1>2

(* Reissue(): one more callback of a socket that has none of the kind. *)
LEMMA ThawFrame ==
    ASSUME NEW q \in Seq(Frames), NEW s \in Sock, FramesOf(q),
           ~Among(q, "receive", s), ~Among(q, "thaw", s),
           NEW p \in Seq(Frames), Len(p) = Len(q) + 1,
           p[1] = [fn |-> "thaw", s |-> s],
           \A i \in 1 .. Len(q) : p[i + 1] = q[i]
    PROVE  /\ FramesOf(p)
           /\ \A fn, u : Among(p, fn, u) <=> Among(q, fn, u) \/ (fn = "thaw" /\ u = s)
<1> DEFINE f == [fn |-> "thaw", s |-> s]
<1>1. f \in Frames /\ f.fn = "thaw" /\ f.s = s
  BY DEF Frames
<1>2. /\ p \in Seq(Frames) /\ Len(p) = Len(q) + 1 /\ Len(q) \in Nat
      /\ p[1] = f /\ \A i \in 1 .. Len(q) : p[i + 1] = q[i]
  BY LenProperties
<1> HIDE DEF f
<1>3. \A i \in 1 .. Len(p) : \/ i = 1 /\ p[i] = f
                             \/ i - 1 \in 1 .. Len(q) /\ p[i] = q[i - 1]
  <2> TAKE i \in 1 .. Len(p)
  <2>1. CASE i = 1
    BY <1>2, <2>1
  <2>2. CASE i # 1
    <3>1. i - 1 \in 1 .. Len(q) /\ i = (i - 1) + 1
      BY <1>2, <2>2
    <3> QED
      BY <1>2, <3>1
  <2> QED
    BY <2>1, <2>2
<1>4. \A i \in 1 .. Len(q) : ~(q[i].fn \in {"receive", "thaw"} /\ q[i].s = s)
  BY AmongMember
<1>5. FramesOf(p)
  <2>1. ASSUME NEW i \in 1 .. Len(p), p[i].fn # "thaw" PROVE i = Len(p)
    <3>1. i - 1 \in 1 .. Len(q) /\ p[i] = q[i - 1]
      BY <1>1, <1>3, <2>1
    <3>2. i - 1 = Len(q)
      BY <2>1, <3>1 DEF FramesOf
    <3>3. i \in Int
      OBVIOUS
    <3>4. Len(p) = Len(q) + 1 /\ Len(q) \in Nat
      BY <1>2
    <3> QED
      BY <3>2, <3>3, <3>4
  <2>2. ASSUME NEW i \in 1 .. Len(p), NEW j \in 1 .. Len(p),
               p[i].fn \in {"receive", "thaw"}, p[j].fn \in {"receive", "thaw"},
               p[i].s = p[j].s
        PROVE  i = j
    <3>1. CASE i = 1 /\ p[i] = f /\ j - 1 \in 1 .. Len(q) /\ p[j] = q[j - 1]
      BY <1>1, <1>4, <2>2, <3>1
    <3>2. CASE j = 1 /\ p[j] = f /\ i - 1 \in 1 .. Len(q) /\ p[i] = q[i - 1]
      BY <1>1, <1>4, <2>2, <3>2
    <3>3. CASE i - 1 \in 1 .. Len(q) /\ p[i] = q[i - 1] /\ j - 1 \in 1 .. Len(q) /\ p[j] = q[j - 1]
      <4>1. i - 1 = j - 1
        BY <2>2, <3>3 DEF FramesOf
      <4> QED
        BY <4>1, <1>2
    <3> QED
      BY <1>3, <3>1, <3>2, <3>3
  <2> QED
    BY <2>1, <2>2 DEF FramesOf
<1>6. \A fn, u : Among(p, fn, u) <=> Among(q, fn, u) \/ (fn = "thaw" /\ u = s)
  <2> SUFFICES ASSUME NEW fn, NEW u
               PROVE  Among(p, fn, u) <=> Among(q, fn, u) \/ (fn = "thaw" /\ u = s)
    OBVIOUS
  <2>1. Among(p, fn, u) <=> \E i \in 1 .. Len(p) : p[i].fn = fn /\ p[i].s = u
    <3>1. p \in Seq(Frames)
      BY <1>2
    <3> QED
      BY <3>1, AmongMember
  <2>2. Among(q, fn, u) <=> \E i \in 1 .. Len(q) : q[i].fn = fn /\ q[i].s = u
    BY AmongMember
  <2>3. ASSUME Among(p, fn, u) PROVE Among(q, fn, u) \/ (fn = "thaw" /\ u = s)
    <3>1. PICK i \in 1 .. Len(p) : p[i].fn = fn /\ p[i].s = u
      BY <2>1, <2>3
    <3> QED
      BY <1>1, <1>3, <2>2, <3>1
  <2>4. ASSUME Among(q, fn, u) PROVE Among(p, fn, u)
    <3>1. PICK i \in 1 .. Len(q) : q[i].fn = fn /\ q[i].s = u
      BY <2>2, <2>4
    <3>2. i + 1 \in 1 .. Len(p) /\ p[i + 1] = q[i]
      BY <1>2
    <3> QED
      BY <2>1, <3>1, <3>2
  <2>5. ASSUME fn = "thaw", u = s PROVE Among(p, fn, u)
    <3>1. 1 \in 1 .. Len(p)
      BY <1>2
    <3> QED
      BY <1>1, <1>2, <2>1, <2>5, <3>1
  <2> QED
    BY <2>3, <2>4, <2>5
<1> QED
  BY <1>5, <1>6

(* A callback returns. *)
LEMMA PopFrame ==
    ASSUME NEW q \in Seq(Frames), FramesOf(q), NEW h, h = q[1],
           NEW p \in Seq(Frames), Len(q) = Len(p) + 1,
           \A i \in 1 .. Len(p) : p[i] = q[i + 1]
    PROVE  /\ FramesOf(p)
           /\ \A fn, u : Among(p, fn, u) => Among(q, fn, u)
           /\ \A fn, u : Among(q, fn, u) /\ (h.fn # fn \/ h.s # u) => Among(p, fn, u)
           /\ h \in Frames /\ Among(q, h.fn, h.s)
           /\ h.fn # "thaw" => p = <<>>
           /\ h.fn \in {"receive", "thaw"} =>
                 ~Among(p, "receive", h.s) /\ ~Among(p, "thaw", h.s)
<1>1. /\ p \in Seq(Frames) /\ Len(q) \in Nat /\ Len(p) \in Nat /\ Len(q) > 0 /\ Len(p) = Len(q) - 1
      /\ h = q[1] /\ \A i \in 1 .. Len(p) : p[i] = q[i + 1]
  <2>1. Len(q) \in Nat /\ Len(p) \in Nat
    BY LenProperties
  <2> QED
    BY <2>1
<1>2. \A i \in 1 .. Len(p) : i + 1 \in 1 .. Len(q)
  BY <1>1
<1>3. 1 \in 1 .. Len(q) /\ h \in Frames
  BY <1>1, ElementOfSeq
<1>4. \A i \in 1 .. Len(q) : i = 1 \/ (i - 1 \in 1 .. Len(p) /\ p[i - 1] = q[i])
  <2> TAKE i \in 1 .. Len(q)
  <2>1. CASE i # 1
    <3>1. i - 1 \in 1 .. Len(p) /\ (i - 1) + 1 = i
      BY <1>1, <2>1
    <3> QED
      BY <1>1, <3>1
  <2> QED
    BY <2>1
<1>5. FramesOf(p)
  <2>1. ASSUME NEW i \in 1 .. Len(p), p[i].fn # "thaw" PROVE i = Len(p)
    <3>1. i + 1 = Len(q)
      BY <1>1, <1>2, <2>1 DEF FramesOf
    <3>2. i \in Int
      OBVIOUS
    <3>3. Len(q) = Len(p) + 1 /\ Len(p) \in Nat
      BY <1>1
    <3> QED
      BY <3>1, <3>2, <3>3
  <2>2. ASSUME NEW i \in 1 .. Len(p), NEW j \in 1 .. Len(p),
               p[i].fn \in {"receive", "thaw"}, p[j].fn \in {"receive", "thaw"},
               p[i].s = p[j].s
        PROVE  i = j
    <3>1. i + 1 = j + 1
      BY <1>1, <1>2, <2>2 DEF FramesOf
    <3> QED
      BY <1>1, <3>1
  <2> QED
    BY <2>1, <2>2 DEF FramesOf
<1>6. ASSUME NEW fn, NEW u PROVE Among(p, fn, u) => Among(q, fn, u)
  BY <1>1, <1>2 DEF Among
<1>7. ASSUME NEW fn, NEW u, Among(q, fn, u), h.fn # fn \/ h.s # u
      PROVE  Among(p, fn, u)
  <2>1. PICK i \in 1 .. Len(q) : q[i].fn = fn /\ q[i].s = u
    BY <1>7, AmongMember
  <2>2. i # 1
    BY <1>1, <1>7, <2>1
  <2>3. i - 1 \in 1 .. Len(p) /\ p[i - 1] = q[i]
    BY <1>4, <2>2
  <2> QED
    BY <1>1, <2>1, <2>3, AmongMember
<1>8. Among(q, h.fn, h.s)
  BY <1>1, <1>3, AmongMember
<1>9. ASSUME h.fn # "thaw" PROVE p = <<>>
  <2>1. Len(q) = 1
    BY <1>1, <1>3, <1>9 DEF FramesOf
  <2>2. Len(p) = 0
    BY <1>1, <2>1
  <2> QED
    BY <1>1, <2>2, EmptySeq
<1>10. ASSUME h.fn \in {"receive", "thaw"}, NEW fn \in {"receive", "thaw"},
              Among(p, fn, h.s)
       PROVE  FALSE
  <2> DEFINE u == h.s
  <2>0. p \in Seq(Frames) /\ Among(p, fn, u)
    BY <1>1, <1>10
  <2> HIDE DEF u
  <2>1. PICK i \in 1 .. Len(p) : p[i].fn = fn /\ p[i].s = u
    BY <2>0, AmongMember
  <2>2. /\ i + 1 \in 1 .. Len(q) /\ q[i + 1].fn = fn /\ q[i + 1].s = q[1].s
        /\ q[1].fn \in {"receive", "thaw"}
    BY <1>1, <1>2, <1>10, <2>1 DEF u
  <2>3. i + 1 = 1
    BY <1>3, <2>2 DEF FramesOf
  <2> QED
    BY <1>1, <2>3
<1> QED
  BY <1>3, <1>5, <1>6, <1>7, <1>8, <1>9, <1>10

-------------------------------------------------------------------------------
(* What the steps of a CSender do to the fields of its socket.              *)

SameFields(r, q) ==
    /\ r.phase = q.phase /\ r.killing = q.killing
    /\ r.output_data = q.output_data /\ r.sending_oob = q.sending_oob
    /\ r.frozen = q.frozen /\ r.frozen_readable = q.frozen_readable

(* The request w is for what the fields r say is to be sent next. *)
SendsFrom(r, w) ==
    \/ w.kind = "oob" /\ r.sending_oob
    \/ /\ w.kind = "data" /\ ~r.sending_oob
       /\ w.data \in Seq(Nat) /\ w.data # <<>> /\ IsPrefixOf(w.data, r.output_data)

LEMMA SenditIs ==
    ASSUME TypeOK, EpocNetAssumption, NEW s \in Sock, NEW r \in SocketTag, Sendit(s, r)
    PROVE  /\ SameFields(sk'[s], r)
           /\ \/ /\ r.sending_oob \/ r.output_data # <<>>
                 /\ sk'[s].writable = FALSE /\ SendsFrom(r, writebuf'[s])
              \/ /\ ~r.sending_oob /\ r.output_data = <<>>
                 /\ sk'[s] = r /\ writebuf'[s] = writebuf[s]
           /\ \A u \in Sock \ {s} : sk'[u] = sk[u] /\ writebuf'[u] = writebuf[u]
<1> DEFINE rw == [r EXCEPT !.writable = FALSE]
<1>1. SameFields(rw, r) /\ rw.writable = FALSE
  BY DEF SocketTag, SameFields
<1>2. CASE r.sending_oob
  <2>1. /\ writebuf' = [writebuf EXCEPT ![s] = [kind |-> "oob", data |-> <<0>>]]
        /\ sk' = [sk EXCEPT ![s] = rw]
    BY <1>2 DEF Sendit
  <2> HIDE DEF rw
  <2>2. sk'[s] = rw /\ writebuf'[s].kind = "oob"
    BY <2>1 DEF TypeOK
  <2> QED
    BY <1>1, <1>2, <2>1, <2>2 DEF TypeOK, SendsFrom
<1>3. CASE ~r.sending_oob /\ r.output_data # <<>>
  <2>1. PICK k \in 1 .. BUFFER_GRANULE :
            /\ k <= Len(r.output_data)
            /\ writebuf' = [writebuf EXCEPT ![s] =
                               [kind |-> "data",
                                data |-> SubSeq(r.output_data, 1, k)]]
    BY <1>3 DEF Sendit
  <2>2. sk' = [sk EXCEPT ![s] = rw]
    BY <1>3 DEF Sendit
  <2>3. r.output_data \in Seq(Nat) /\ k \in Nat /\ k > 0
    BY DEF SocketTag, EpocNetAssumption
  <2> DEFINE d == SubSeq(r.output_data, 1, k)
  <2>4. d \in Seq(Nat) /\ IsPrefixOf(d, r.output_data)
    BY <2>1, <2>3, SubSeqType, PrefixOfHead
  <2>5. Len(d) = k
    <3>1. \A i \in 1 .. k : r.output_data[i] \in Nat
      BY <2>1, <2>3, ElementOfSeq, LenProperties
    <3> QED
      BY <2>3, <3>1, SubSeqProperties
  <2>6. writebuf' = [writebuf EXCEPT ![s] = [kind |-> "data", data |-> d]]
    BY <2>1
  <2> HIDE DEF rw, d
  <2>7. sk'[s] = rw /\ writebuf'[s] = [kind |-> "data", data |-> d]
    BY <2>2, <2>6 DEF TypeOK
  <2>8. d # <<>>
    BY <2>3, <2>5, EmptySeq
  <2>9. SendsFrom(r, writebuf'[s])
    BY <1>3, <2>4, <2>7, <2>8 DEF SendsFrom
  <2> QED
    BY <1>1, <1>3, <2>2, <2>6, <2>7, <2>9 DEF TypeOK
<1>4. CASE ~r.sending_oob /\ r.output_data = <<>>
  BY <1>4 DEF Sendit, TypeOK, SameFields
<1> QED
  BY <1>2, <1>3, <1>4

LEMMA SendMoreIs ==
    ASSUME TypeOK, EpocNetAssumption, NEW s \in Sock, NEW r \in SocketTag, SendMore(s, r)
    PROVE  /\ \/ /\ r.sending_oob \/ r.output_data # <<>>
                 /\ SameFields(sk'[s], r) /\ sk'[s].writable = FALSE
                 /\ SendsFrom(r, writebuf'[s]) /\ recver' = recver
              \/ /\ ~r.sending_oob /\ r.output_data = <<>> /\ ~r.killing
                 /\ SameFields(sk'[s], r)
                 /\ writebuf'[s] = NoSend /\ recver' = recver
              \/ /\ ~r.sending_oob /\ r.output_data = <<>> /\ r.killing
                 /\ sk'[s].phase = "closed"
                 /\ sk'[s].killing = r.killing /\ sk'[s].output_data = <<>>
                 /\ ~sk'[s].sending_oob
                 /\ writebuf'[s] = NoSend
                 /\ recver'[s].active = FALSE
           /\ \A u \in Sock \ {s} :
                 sk'[u] = sk[u] /\ writebuf'[u] = writebuf[u] /\ recver'[u] = recver[u]
<1> DEFINE rw == [r EXCEPT !.writable = TRUE]
<1>1. rw \in SocketTag /\ SameFields(rw, r)
  BY DEF SocketTag, SameFields
<1>2. CASE r.sending_oob \/ r.output_data # <<>>
  <2>1. Sendit(s, rw) /\ recver' = recver
    BY <1>2 DEF SendMore
  <2> HIDE DEF rw
  <2>2. /\ SameFields(sk'[s], rw) /\ sk'[s].writable = FALSE /\ SendsFrom(rw, writebuf'[s])
        /\ \A u \in Sock \ {s} : sk'[u] = sk[u] /\ writebuf'[u] = writebuf[u]
    BY <1>1, <1>2, <2>1, SenditIs, ZenonT(60) DEF SameFields
  <2> QED
    BY <1>1, <1>2, <2>1, <2>2 DEF SameFields, SendsFrom
<1>3. CASE ~r.sending_oob /\ r.output_data = <<>> /\ r.killing
  <2>1. Free(s, rw)
    BY <1>3 DEF SendMore
  <2>2. /\ sk'[s] = [rw EXCEPT !.phase = "closed"] /\ writebuf'[s] = NoSend
        /\ recver'[s] = [recver[s] EXCEPT !.active = FALSE]
        /\ \A u \in Sock \ {s} :
              sk'[u] = sk[u] /\ writebuf'[u] = writebuf[u] /\ recver'[u] = recver[u]
    BY <2>1 DEF Free, TypeOK
  <2> HIDE DEF rw
  <2>3. /\ sk'[s].phase = "closed" /\ sk'[s].killing = rw.killing
        /\ sk'[s].output_data = rw.output_data /\ sk'[s].sending_oob = rw.sending_oob
    BY <1>1, <2>2 DEF SocketTag
  <2>4. recver'[s].active = FALSE
    <3>1. recver[s] \in Receivers
      BY DEF TypeOK
    <3> QED
      BY <2>2, <3>1 DEF Receivers
  <2> QED
    BY <1>1, <1>3, <2>2, <2>3, <2>4 DEF SameFields
<1>4. CASE ~r.sending_oob /\ r.output_data = <<>> /\ ~r.killing
  <2>1. sk' = [sk EXCEPT ![s] = rw] /\ writebuf' = [writebuf EXCEPT ![s] = NoSend]
        /\ recver' = recver
    BY <1>4 DEF SendMore
  <2> HIDE DEF rw
  <2> QED
    BY <1>1, <1>4, <2>1 DEF TypeOK
<1> QED
  BY <1>2, <1>3, <1>4

(* Half of CallbacksOK is about fields that the other half's steps leave.   *)
LEMMA SenderUnmoved ==
    ASSUME NEW t \in Sock, SenderOK(t),
           sk'[t].phase = sk[t].phase, sk'[t].killing = sk[t].killing,
           sk'[t].writable = sk[t].writable, sk'[t].sending_oob = sk[t].sending_oob,
           sk'[t].output_data = sk[t].output_data,
           writebuf'[t] = writebuf[t], held'[t] => held[t],
           InFrame("sent", t)' => InFrame("sent", t)
    PROVE  SenderOK(t)'
<1> HIDE DEF InFrame
<1> QED
  BY DEF SenderOK, NoSend

LEMMA RecverUnmoved ==
    ASSUME NEW t \in Sock, RecverOK(t), ReceivedOK(t),
           sk'[t].phase = sk[t].phase, sk'[t].killing = sk[t].killing,
           sk'[t].frozen = sk[t].frozen, sk'[t].frozen_readable = sk[t].frozen_readable,
           recver'[t] = recver[t], got'[t] = got[t], held'[t] => held[t],
           \A fn \in {"receive", "thaw", "closing"} : InFrame(fn, t)' <=> InFrame(fn, t)
    PROVE  RecverOK(t)' /\ ReceivedOK(t)'
<1>1. /\ InFrame("receive", t)' <=> InFrame("receive", t)
      /\ InFrame("thaw", t)' <=> InFrame("thaw", t)
      /\ InFrame("closing", t)' <=> InFrame("closing", t)
  OBVIOUS
<1> HIDE DEF InFrame
<1>2. RecverOK(t)'
  BY <1>1 DEF RecverOK, InRunL
<1>3. ReceivedOK(t)'
  <2>1. Pending(t)' = Pending(t)
    BY <1>1 DEF Pending
  <2> QED
    BY <1>1, <2>1 DEF ReceivedOK
<1> QED
  BY <1>2, <1>3

-------------------------------------------------------------------------------
(* Each step keeps CallbacksOK: the socket it is about, by its fields; the  *)
(* others, because nothing that is said of them changes.                    *)

LEMMA FramesKept ==
    ASSUME UNCHANGED stack
    PROVE  \A fn, u : InFrame(fn, u)' <=> InFrame(fn, u)
BY DEF InFrame

LEMMA RunOfNone == Run(0, 0) = <<>>
<1>1. Run(0, 0) \in Seq(Nat) /\ Len(Run(0, 0)) = 0
  BY RunIsSeq
<1> QED
  BY <1>1, EmptySeq

LEMMA Fields ==
    ASSUME TypeOK, NEW s \in Sock
    PROVE  /\ sk[s] \in SocketTag /\ writebuf[s] \in Requests /\ recver[s] \in Receivers
           /\ held[s] \in BOOLEAN /\ got[s] \in Seq(Nat)
           /\ recver[s].readbuf \in Seq(Nat) /\ recver[s].arrived \in Nat
           /\ Len(sk[s].output_data) \in Nat /\ Len(writebuf[s].data) \in Nat
           /\ sk[s].output_data \in Seq(Nat)
BY LenProperties DEF TypeOK, SocketTag, Requests, Receivers

(* An action that leaves the stack, and the sockets other than s.           *)
LEMMA OthersKept ==
    ASSUME TypeOK, CallbacksOK, NEW s \in Sock, UNCHANGED stack,
           SenderOK(s)', RecverOK(s)', ReceivedOK(s)',
           fault' \cap {"consume", "active"} = {},
           \A t \in Sock \ {s} :
              /\ sk'[t] = sk[t] /\ writebuf'[t] = writebuf[t] /\ recver'[t] = recver[t]
              /\ held'[t] = held[t] /\ got'[t] = got[t]
    PROVE  CallbacksOK'
<1>1. \A fn, u : InFrame(fn, u)' <=> InFrame(fn, u)
  BY FramesKept
<1>2. ASSUME NEW t \in Sock \ {s} PROVE SenderOK(t)' /\ RecverOK(t)' /\ ReceivedOK(t)'
  <2>1. SenderOK(t) /\ RecverOK(t) /\ ReceivedOK(t)
    BY DEF CallbacksOK
  <2>2. SenderOK(t)'
    BY <1>1, <2>1, SenderUnmoved
  <2>3. RecverOK(t)' /\ ReceivedOK(t)'
    <3>1. \A fn \in {"receive", "thaw", "closing"} : InFrame(fn, t)' <=> InFrame(fn, t)
      BY <1>1
    <3> QED
      BY <2>1, <3>1, RecverUnmoved
  <2> QED
    BY <2>2, <2>3
<1>3. FramesOf(stack)'
  BY DEF CallbacksOK, FramesOf
<1> QED
  BY <1>2, <1>3 DEF CallbacksOK

LEMMA CallbacksOpen ==
    ASSUME TypeOK, CallbacksOK, NEW s \in Sock, NEW b \in BOOLEAN, Open(s, b)
    PROVE  CallbacksOK'
<1>0. SenderOK(s) /\ RecverOK(s) /\ ReceivedOK(s) /\ UNCHANGED stack
  BY DEF CallbacksOK, Open
<1>1. \A fn, u : InFrame(fn, u)' <=> InFrame(fn, u)
  BY <1>0, FramesKept
<1>2. /\ sk[s].phase = "unused"
      /\ sk'[s] = [sk[s] EXCEPT !.phase = "open", !.writable = TRUE, !.frozen = b]
      /\ recver'[s] = [recver[s] EXCEPT !.active = TRUE]
      /\ held'[s] = TRUE /\ writebuf'[s] = writebuf[s] /\ got'[s] = got[s]
  BY Fields DEF Open, TypeOK, SocketTag
<1>3. /\ sk'[s].phase = "open" /\ sk'[s].killing = sk[s].killing
      /\ sk'[s].sending_oob = sk[s].sending_oob
      /\ sk'[s].frozen_readable = sk[s].frozen_readable
      /\ sk'[s].output_data = sk[s].output_data
  BY <1>2, Fields DEF SocketTag
<1>4. recver'[s].active = TRUE /\ recver'[s].arrived = recver[s].arrived
  BY <1>2, Fields DEF Receivers
<1>5. SenderOK(s)'
  <2>1. Len(<<>>) = 0 /\ Len(sk[s].output_data) \in Nat
    BY EmptySeq, Fields
  <2> HIDE DEF InFrame
  <2> QED
    BY <1>0, <1>1, <1>2, <1>3, <2>1 DEF SenderOK, NoSend
<1>6. RecverOK(s)'
  BY <1>0, <1>1, <1>2, <1>3, <1>4 DEF RecverOK, InRunL, SenderOK
<1>7. ReceivedOK(s)'
  <2>1. Pending(s)' = <<>>
    BY <1>0, <1>2, <1>3 DEF Pending, RecverOK
  <2>2. got'[s] = <<>> /\ recver'[s].arrived = 0
    BY <1>0, <1>2, <1>4 DEF RecverOK
  <2>3. <<>> \o <<>> = Run(0, 0)
    BY RunOfNone, ConcatEmptySeq, EmptySeq
  <2> QED
    BY <1>4, <2>1, <2>2, <2>3 DEF ReceivedOK
<1> QED
  BY <1>0, <1>5, <1>6, <1>7, OthersKept DEF Open, CallbacksOK, TypeOK

(* sk_tcp_write() and sk_tcp_write_oob(): the fields, and what is now to be *)
(* sent.                                                                    *)
LEMMA CallbacksWrite ==
    ASSUME TypeOK, EpocNetAssumption, CallbacksOK, NEW s \in Sock, held[s],
           NEW r \in SocketTag, SenditIfWritable(s, r),
           r.phase = sk[s].phase, r.killing = sk[s].killing,
           r.writable = sk[s].writable, r.frozen = sk[s].frozen,
           r.frozen_readable = sk[s].frozen_readable,
           r.sending_oob \/ (/\ ~sk[s].sending_oob
                             /\ Len(r.output_data) >= Len(sk[s].output_data)),
           UNCHANGED <<recver, held, stack, fault, got>>
    PROVE  CallbacksOK'
<1>0. SenderOK(s) /\ RecverOK(s) /\ ReceivedOK(s) /\ sk[s].phase = "open" /\ ~sk[s].killing
  BY DEF CallbacksOK, SenderOK
<1>1. \A fn, u : InFrame(fn, u)' <=> InFrame(fn, u)
  BY FramesKept
<1>2. /\ SameFields(sk'[s], r)
      /\ \/ sk'[s].writable = FALSE /\ SendsFrom(r, writebuf'[s]) /\ sk[s].writable
         \/ sk'[s].writable = sk[s].writable /\ writebuf'[s] = writebuf[s]
      /\ \A u \in Sock \ {s} : sk'[u] = sk[u] /\ writebuf'[u] = writebuf[u]
  <2>1. CASE r.writable
    <3>1. Sendit(s, r)
      BY <2>1 DEF SenditIfWritable
    <3> QED
      BY <2>1, <3>1, SenditIs
  <2>2. CASE ~r.writable
    BY <2>2 DEF SenditIfWritable, TypeOK, SameFields
  <2> QED
    BY <2>1, <2>2
<1>3. RecverOK(s)' /\ ReceivedOK(s)'
  <2>1. \A fn \in {"receive", "thaw", "closing"} : InFrame(fn, s)' <=> InFrame(fn, s)
    BY <1>1
  <2> QED
    BY <1>0, <1>2, <2>1, RecverUnmoved DEF SameFields
<1>4. SenderOK(s)'
  <2>1. CASE sk'[s].writable = FALSE /\ SendsFrom(r, writebuf'[s]) /\ sk[s].writable
    <3>1. ~InFrame("sent", s)'
      BY <1>0, <1>1, <2>1 DEF SenderOK
    <3>2. Len(writebuf'[s].data) <= Len(r.output_data) \/ r.sending_oob
      BY <2>1 DEF SendsFrom, IsPrefixOf
    <3> HIDE DEF InFrame
    <3> QED
      BY <1>0, <1>2, <2>1, <3>1, <3>2 DEF SenderOK, SendsFrom, SameFields
  <2>2. CASE sk'[s].writable = sk[s].writable /\ writebuf'[s] = writebuf[s]
    <3>1. /\ InFrame("sent", s)' <=> InFrame("sent", s)
      BY <1>1
    <3>2. ~r.sending_oob => Len(writebuf[s].data) <= Len(r.output_data)
      BY <1>0, Fields, LenProperties DEF SenderOK, SocketTag
    <3> HIDE DEF InFrame
    <3> QED
      BY <1>0, <1>2, <2>2, <3>1, <3>2 DEF SenderOK, SameFields
  <2> QED
    BY <1>2, <2>1, <2>2
<1> QED
  BY <1>2, <1>3, <1>4, OthersKept DEF CallbacksOK

LEMMA CallbacksPlugWrite ==
    ASSUME TypeOK, EpocNetAssumption, CallbacksOK, NEW s \in Sock,
           NEW n \in 0 .. MaxWrite, Write(s, n)
    PROVE  CallbacksOK'
<1> DEFINE q == sk[s].output_data \o Run(written[s], n)
           r == [sk[s] EXCEPT !.output_data = q]
<1>1. n \in Nat /\ written[s] \in Nat /\ sk[s] \in SocketTag
      /\ sk[s].output_data \in Seq(Nat) /\ Len(sk[s].output_data) \in Nat
  BY Fields DEF TypeOK, EpocNetAssumption
<1>2. Run(written[s], n) \in Seq(Nat) /\ Len(Run(written[s], n)) = n
  BY <1>1, RunIsSeq
<1>3. q \in Seq(Nat) /\ Len(q) = Len(sk[s].output_data) + n
  BY <1>1, <1>2, ConcatProperties
<1>4. /\ SenditIfWritable(s, r) /\ held[s]
      /\ UNCHANGED <<recver, held, stack, fault, got>>
  BY DEF Write, MayCall
<1> HIDE DEF q
<1>5. /\ r \in SocketTag /\ r.output_data = q /\ r.sending_oob = sk[s].sending_oob
      /\ r.phase = sk[s].phase /\ r.killing = sk[s].killing
      /\ r.writable = sk[s].writable /\ r.frozen = sk[s].frozen
      /\ r.frozen_readable = sk[s].frozen_readable
      /\ r.sending_oob \in BOOLEAN
  BY <1>1, <1>3 DEF SocketTag
<1> HIDE DEF r
<1>6. r.sending_oob \/ (~sk[s].sending_oob /\ Len(r.output_data) >= Len(sk[s].output_data))
  BY <1>1, <1>3, <1>5
<1> QED
  BY <1>4, <1>5, <1>6, CallbacksWrite

LEMMA CallbacksWriteOob ==
    ASSUME TypeOK, EpocNetAssumption, CallbacksOK, NEW s \in Sock, WriteOob(s)
    PROVE  CallbacksOK'
<1> DEFINE r == [sk[s] EXCEPT !.output_data = <<>>, !.sending_oob = TRUE]
<1>1. /\ SenditIfWritable(s, r) /\ held[s]
      /\ UNCHANGED <<recver, held, stack, fault, got>>
  BY DEF WriteOob, MayCall
<1>2. /\ r \in SocketTag /\ r.sending_oob
      /\ r.phase = sk[s].phase /\ r.killing = sk[s].killing
      /\ r.writable = sk[s].writable /\ r.frozen = sk[s].frozen
      /\ r.frozen_readable = sk[s].frozen_readable
  BY Fields, EmptySeq DEF SocketTag
<1> HIDE DEF r
<1> QED
  BY <1>1, <1>2, CallbacksWrite

LEMMA CallbacksClose ==
    ASSUME TypeOK, CallbacksOK, NEW s \in Sock, Close(s)
    PROVE  CallbacksOK'
<1>0. SenderOK(s) /\ RecverOK(s) /\ ReceivedOK(s) /\ held[s] /\ UNCHANGED stack
      /\ sk[s].phase = "open" /\ ~sk[s].killing
      /\ (InFrame("sent", s) => sk[s].output_data # <<>>)
      /\ held'[s] = FALSE /\ UNCHANGED <<fault, got>>
      /\ \A u \in Sock \ {s} : held'[u] = held[u]
  BY DEF CallbacksOK, Close, MayCall, SenderOK, TypeOK
<1>1. \A fn, u : InFrame(fn, u)' <=> InFrame(fn, u)
  BY <1>0, FramesKept
<1>2. ReceivedOK(s)'
  BY <1>0 DEF ReceivedOK
<1>3. CASE sk[s].output_data # <<>>
  <2>1. UNCHANGED <<writebuf, recver>> /\ sk' = [sk EXCEPT ![s].killing = TRUE]
    BY <1>0, <1>3 DEF Close
  <2>2. /\ sk'[s].phase = sk[s].phase /\ sk'[s].writable = sk[s].writable
        /\ sk'[s].sending_oob = sk[s].sending_oob /\ sk'[s].output_data = sk[s].output_data
        /\ sk'[s].frozen = sk[s].frozen /\ sk'[s].frozen_readable = sk[s].frozen_readable
        /\ \A u \in Sock \ {s} : sk'[u] = sk[u]
    BY <2>1, Fields DEF TypeOK, SocketTag
  <2>3. SenderOK(s)'
    <3> HIDE DEF InFrame
    <3> QED
      BY <1>0, <1>1, <1>3, <2>1, <2>2 DEF SenderOK
  <2>4. RecverOK(s)'
    BY <1>0, <1>1, <2>1, <2>2 DEF RecverOK, InRunL
  <2> QED
    BY <1>0, <1>2, <2>1, <2>2, <2>3, <2>4, OthersKept DEF CallbacksOK
<1>4. CASE sk[s].output_data = <<>>
  <2>1. Free(s, sk[s])
    BY <1>4 DEF Close
  <2>2. /\ sk'[s] = [sk[s] EXCEPT !.phase = "closed"] /\ writebuf'[s] = NoSend
        /\ recver'[s] = [recver[s] EXCEPT !.active = FALSE]
        /\ \A u \in Sock \ {s} :
              sk'[u] = sk[u] /\ writebuf'[u] = writebuf[u] /\ recver'[u] = recver[u]
    BY <2>1 DEF Free, TypeOK
  <2>3. /\ sk'[s].phase = "closed" /\ sk'[s].killing = sk[s].killing
        /\ sk'[s].sending_oob = sk[s].sending_oob /\ sk'[s].output_data = sk[s].output_data
        /\ recver'[s].active = FALSE
        /\ Len(sk[s].output_data) \in Nat
    BY <2>2, Fields DEF SocketTag, Receivers
  <2>4. ~InFrame("sent", s)
    BY <1>0, <1>4
  <2>5. SenderOK(s)'
    <3>1. Len(<<>>) = 0
      BY EmptySeq
    <3>2. ~InFrame("sent", s)'
      BY <1>1, <2>4
    <3> HIDE DEF InFrame
    <3> QED
      BY <1>0, <2>2, <2>3, <3>1, <3>2 DEF SenderOK, NoSend
  <2>6. RecverOK(s)'
    BY <1>0, <2>3 DEF RecverOK
  <2> QED
    BY <1>0, <1>2, <2>2, <2>5, <2>6, OthersKept DEF CallbacksOK
<1> QED
  BY <1>3, <1>4

LEMMA CallbacksFreeze ==
    ASSUME TypeOK, CallbacksOK, NEW s \in Sock, Freeze(s)
    PROVE  CallbacksOK'
<1>0. /\ SenderOK(s) /\ RecverOK(s) /\ ReceivedOK(s) /\ held[s] /\ ~sk[s].frozen
      /\ UNCHANGED <<writebuf, recver, held, stack, fault, got>>
      /\ sk' = [sk EXCEPT ![s].frozen = TRUE, ![s].frozen_readable = FALSE]
  BY DEF CallbacksOK, Freeze, MayCall
<1>1. \A fn, u : InFrame(fn, u)' <=> InFrame(fn, u)
  BY <1>0, FramesKept
<1>2. /\ sk'[s].phase = sk[s].phase /\ sk'[s].writable = sk[s].writable
      /\ sk'[s].sending_oob = sk[s].sending_oob /\ sk'[s].output_data = sk[s].output_data
      /\ sk'[s].killing = sk[s].killing
      /\ sk'[s].frozen = TRUE /\ sk'[s].frozen_readable = FALSE
      /\ \A u \in Sock \ {s} : sk'[u] = sk[u]
  BY <1>0, Fields DEF TypeOK, SocketTag
<1>3. SenderOK(s)'
  BY <1>0, <1>1, <1>2, SenderUnmoved
<1>4. RecverOK(s)'
  BY <1>0, <1>1, <1>2 DEF RecverOK, InRunL
<1>5. ReceivedOK(s)'
  <2>1. Pending(s)' = <<>>
    BY <1>2 DEF Pending
  <2>2. Pending(s) = <<>>
    <3>1. sk[s].frozen_readable => InFrame("thaw", s)
      BY <1>0 DEF RecverOK
    <3> QED
      BY <3>1 DEF Pending
  <2>3. /\ InFrame("receive", s)' <=> InFrame("receive", s)
        /\ InFrame("thaw", s)' <=> InFrame("thaw", s)
        /\ InFrame("closing", s)' <=> InFrame("closing", s)
    BY <1>1
  <2> HIDE DEF InFrame, Pending
  <2> QED
    BY <1>0, <1>2, <2>1, <2>2, <2>3 DEF ReceivedOK
<1> QED
  BY <1>0, <1>2, <1>3, <1>4, <1>5, OthersKept DEF CallbacksOK

LEMMA CallbacksSendFail ==
    ASSUME TypeOK, CallbacksOK, NEW s \in Sock, SendFail(s)
    PROVE  CallbacksOK'
<1>0. /\ SenderOK(s) /\ RecverOK(s) /\ ReceivedOK(s)
      /\ UNCHANGED <<recver, held, stack, fault, got>>
      /\ sk' = [sk EXCEPT ![s].pending_error = TRUE]
      /\ writebuf' = [writebuf EXCEPT ![s] = NoSend]
  BY DEF CallbacksOK, SendFail
<1>1. \A fn, u : InFrame(fn, u)' <=> InFrame(fn, u)
  BY <1>0, FramesKept
<1>2. /\ sk'[s].phase = sk[s].phase /\ sk'[s].writable = sk[s].writable
      /\ sk'[s].sending_oob = sk[s].sending_oob /\ sk'[s].output_data = sk[s].output_data
      /\ sk'[s].killing = sk[s].killing
      /\ sk'[s].frozen = sk[s].frozen /\ sk'[s].frozen_readable = sk[s].frozen_readable
      /\ writebuf'[s] = NoSend /\ Len(sk[s].output_data) \in Nat
      /\ \A u \in Sock \ {s} : sk'[u] = sk[u] /\ writebuf'[u] = writebuf[u]
  BY <1>0, Fields DEF TypeOK, SocketTag
<1>3. SenderOK(s)'
  <2>1. Len(<<>>) = 0
    BY EmptySeq
  <2>2. InFrame("sent", s)' <=> InFrame("sent", s)
    BY <1>1
  <2> HIDE DEF InFrame
  <2> QED
    BY <1>0, <1>2, <2>1, <2>2 DEF SenderOK, NoSend
<1>4. RecverOK(s)' /\ ReceivedOK(s)'
  <2>1. \A fn \in {"receive", "thaw", "closing"} : InFrame(fn, s)' <=> InFrame(fn, s)
    BY <1>1
  <2> QED
    BY <1>0, <1>2, <2>1, RecverUnmoved
<1> QED
  BY <1>0, <1>2, <1>3, <1>4, OthersKept DEF CallbacksOK

(* A callback returns, or an event calls one.                               *)
LEMMA PopStack ==
    ASSUME TypeOK, FramesOf(stack), stack # <<>>, stack' = Tail(stack)
    PROVE  /\ Head(stack) \in Frames /\ FramesOf(stack)'
           /\ InFrame(Head(stack).fn, Head(stack).s)
           /\ \A fn, u : InFrame(fn, u)' => InFrame(fn, u)
           /\ \A fn, u : InFrame(fn, u) /\ (Head(stack).fn # fn \/ Head(stack).s # u)
                            => InFrame(fn, u)'
           /\ Head(stack).fn # "thaw" => \A fn, u : ~InFrame(fn, u)'
           /\ Head(stack).fn \in {"receive", "thaw"} =>
                 \A u : u = Head(stack).s => ~InFrame("receive", u)' /\ ~InFrame("thaw", u)'
<1> DEFINE h == Head(stack)
           p == Tail(stack)
<1>1. stack \in Seq(Frames)
  BY DEF TypeOK
<1>2. /\ p \in Seq(Frames) /\ Len(stack) = Len(p) + 1 /\ h = stack[1]
      /\ \A i \in 1 .. Len(p) : p[i] = stack[i + 1]
  BY <1>1, PopIs
<1>3. stack' = p
  OBVIOUS
<1>4. /\ \A fn, u : InFrame(fn, u) <=> Among(stack, fn, u)
      /\ \A fn, u : InFrame(fn, u)' <=> Among(p, fn, u)
      /\ FramesOf(stack)' <=> FramesOf(p)
  BY <1>3 DEF InFrame, Among, FramesOf
<1> HIDE DEF h, p, InFrame, FramesOf
<1>5. /\ FramesOf(p)
      /\ \A fn, u : Among(p, fn, u) => Among(stack, fn, u)
      /\ \A fn, u : Among(stack, fn, u) /\ (h.fn # fn \/ h.s # u) => Among(p, fn, u)
      /\ h \in Frames /\ Among(stack, h.fn, h.s)
      /\ h.fn # "thaw" => p = <<>>
      /\ h.fn \in {"receive", "thaw"} => ~Among(p, "receive", h.s) /\ ~Among(p, "thaw", h.s)
  BY <1>1, <1>2, PopFrame
<1>6. h.fn # "thaw" => \A fn, u : ~Among(p, fn, u)
  BY <1>5, NoFrames
<1>7. /\ h \in Frames /\ FramesOf(stack)'
      /\ InFrame(h.fn, h.s)
      /\ \A fn, u : InFrame(fn, u)' => InFrame(fn, u)
      /\ \A fn, u : InFrame(fn, u) /\ (h.fn # fn \/ h.s # u) => InFrame(fn, u)'
      /\ h.fn # "thaw" => \A fn, u : ~InFrame(fn, u)'
      /\ h.fn \in {"receive", "thaw"} =>
            \A u : u = h.s => ~InFrame("receive", u)' /\ ~InFrame("thaw", u)'
  BY <1>4, <1>5, <1>6
<1> QED
  BY <1>7 DEF h

LEMMA NoStack ==
    ASSUME stack = <<>>
    PROVE  \A fn, u : ~InFrame(fn, u)
<1>1. \A fn, u : InFrame(fn, u) <=> Among(stack, fn, u)
  BY DEF InFrame, Among
<1> HIDE DEF InFrame
<1> QED
  BY <1>1, NoFrames

LEMMA EventStack ==
    ASSUME NEW fn, NEW s \in Sock, fn \in {"receive", "sent", "closing"},
           stack' = <<[fn |-> fn, s |-> s]>>
    PROVE  /\ FramesOf(stack)'
           /\ \A g, u : InFrame(g, u)' <=> g = fn /\ u = s
<1> DEFINE f == [fn |-> fn, s |-> s]
<1>1. f \in Frames /\ f.fn = fn /\ f.s = s
  BY DEF Frames
<1>2. /\ \A g, u : InFrame(g, u)' <=> Among(<<f>>, g, u)
      /\ FramesOf(stack)' <=> FramesOf(<<f>>)
  BY DEF InFrame, Among, FramesOf
<1> HIDE DEF f, InFrame, FramesOf
<1>3. FramesOf(<<f>>) /\ \A g, u : Among(<<f>>, g, u) <=> f.fn = g /\ f.s = u
  BY <1>1, OneFrame
<1> QED
  BY <1>1, <1>2, <1>3

(* An action about s that also pushes or pops a frame of s.                 *)
LEMMA OthersFramed ==
    ASSUME TypeOK, CallbacksOK, NEW s \in Sock, FramesOf(stack)',
           SenderOK(s)', RecverOK(s)', ReceivedOK(s)',
           fault' \cap {"consume", "active"} = {},
           \A fn : \A t \in Sock \ {s} : InFrame(fn, t)' <=> InFrame(fn, t),
           \A t \in Sock \ {s} :
              /\ sk'[t] = sk[t] /\ writebuf'[t] = writebuf[t] /\ recver'[t] = recver[t]
              /\ held'[t] = held[t] /\ got'[t] = got[t]
    PROVE  CallbacksOK'
<1>2. ASSUME NEW t \in Sock \ {s} PROVE SenderOK(t)' /\ RecverOK(t)' /\ ReceivedOK(t)'
  <2>1. SenderOK(t) /\ RecverOK(t) /\ ReceivedOK(t)
    BY DEF CallbacksOK
  <2>2. \A fn : InFrame(fn, t)' <=> InFrame(fn, t)
    OBVIOUS
  <2>3. SenderOK(t)'
    BY <2>1, <2>2, SenderUnmoved
  <2>4. RecverOK(t)' /\ ReceivedOK(t)'
    <3>1. \A fn \in {"receive", "thaw", "closing"} : InFrame(fn, t)' <=> InFrame(fn, t)
      BY <2>2
    <3> QED
      BY <2>1, <3>1, RecverUnmoved
  <2> QED
    BY <2>3, <2>4
<1> QED
  BY <1>2 DEF CallbacksOK

LEMMA CallbacksUnfreeze ==
    ASSUME TypeOK, CallbacksOK, NEW s \in Sock, Unfreeze(s)
    PROVE  CallbacksOK'
<1>0. /\ SenderOK(s) /\ RecverOK(s) /\ ReceivedOK(s) /\ held[s] /\ sk[s].frozen
      /\ UNCHANGED <<writebuf, recver, held, fault>>
      /\ sk' = [sk EXCEPT ![s].frozen = FALSE]
      /\ sk[s].phase = "open" /\ FramesOf(stack)
  BY DEF CallbacksOK, Unfreeze, MayCall, SenderOK
<1>1. /\ sk'[s].phase = sk[s].phase /\ sk'[s].writable = sk[s].writable
      /\ sk'[s].sending_oob = sk[s].sending_oob /\ sk'[s].output_data = sk[s].output_data
      /\ sk'[s].killing = sk[s].killing
      /\ sk'[s].frozen = FALSE /\ sk'[s].frozen_readable = sk[s].frozen_readable
      /\ \A u \in Sock \ {s} : sk'[u] = sk[u]
  BY <1>0, Fields DEF TypeOK, SocketTag
<1>2. CASE ~sk[s].frozen_readable
  <2>0. UNCHANGED <<stack, got>>
    BY <1>2 DEF Unfreeze
  <2>1. \A fn, u : InFrame(fn, u)' <=> InFrame(fn, u)
    BY <2>0, FramesKept
  <2>2. SenderOK(s)'
    BY <1>0, <1>1, <2>1, SenderUnmoved
  <2>3. RecverOK(s)'
    BY <1>0, <1>1, <1>2, <2>0, <2>1 DEF RecverOK, InRunL
  <2>4. ReceivedOK(s)'
    <3>1. Pending(s)' = <<>> /\ Pending(s) = <<>>
      BY <1>1, <1>2 DEF Pending
    <3>3. /\ InFrame("receive", s)' <=> InFrame("receive", s)
          /\ InFrame("thaw", s)' <=> InFrame("thaw", s)
          /\ InFrame("closing", s)' <=> InFrame("closing", s)
      BY <2>1
    <3> HIDE DEF InFrame, Pending
    <3> QED
      BY <1>0, <1>1, <1>2, <2>0, <3>1, <3>3 DEF ReceivedOK
  <2> QED
    BY <1>0, <1>1, <2>0, <2>2, <2>3, <2>4, OthersKept DEF CallbacksOK
<1>3. CASE sk[s].frozen_readable
  <2> DEFINE f == [fn |-> "thaw", s |-> s]
             p == <<f>> \o stack
  <2>0. /\ stack' = p
        /\ got'[s] = got[s] \o recver[s].readbuf
        /\ \A u \in Sock \ {s} : got'[u] = got[u]
    BY <1>3 DEF Unfreeze, TypeOK
  <2>1. ~InFrame("receive", s) /\ ~InFrame("thaw", s)
    BY <1>0, <1>3 DEF RecverOK, InRunL
  <2>2. f \in Frames /\ stack \in Seq(Frames)
    BY DEF Frames, TypeOK
  <2>3. /\ p \in Seq(Frames) /\ Len(p) = Len(stack) + 1 /\ p[1] = f
        /\ \A i \in 1 .. Len(stack) : p[i + 1] = stack[i]
    BY <2>2, PushIs
  <2>4. /\ \A fn, u : InFrame(fn, u) <=> Among(stack, fn, u)
        /\ \A fn, u : InFrame(fn, u)' <=> Among(p, fn, u)
        /\ FramesOf(stack)' <=> FramesOf(p)
    BY <2>0 DEF InFrame, Among, FramesOf
  <2> HIDE DEF p, InFrame, FramesOf
  <2>5. /\ FramesOf(p)
        /\ \A fn, u : Among(p, fn, u) <=> Among(stack, fn, u) \/ (fn = "thaw" /\ u = s)
    BY <1>0, <2>1, <2>2, <2>3, <2>4, ThawFrame
  <2>6. /\ FramesOf(stack)'
        /\ \A fn, u : InFrame(fn, u)' <=> InFrame(fn, u) \/ (fn = "thaw" /\ u = s)
    BY <2>4, <2>5
  <2> HIDE DEF f
  <2>7. SenderOK(s)'
    <3>1. InFrame("sent", s)' => InFrame("sent", s)
      BY <2>6
    <3> QED
      BY <1>0, <1>1, <3>1, SenderUnmoved
  <2>8. RecverOK(s)'
    <3>1. InFrame("thaw", s)'
      BY <2>6
    <3> QED
      BY <1>0, <1>1, <1>3, <3>1 DEF RecverOK, InRunL
  <2>9. ReceivedOK(s)'
    <3>1. InFrame("thaw", s)'
      BY <2>6
    <3>2. Pending(s) = recver[s].readbuf /\ Pending(s)' = <<>>
      BY <1>3, <2>1, <3>1 DEF Pending
    <3>3. got'[s] = Run(0, recver[s].arrived)
      BY <1>0, <2>0, <3>2 DEF ReceivedOK
    <3>4. got'[s] \o <<>> = got'[s]
      <4>1. got[s] \o recver[s].readbuf \in Seq(Nat)
        BY Fields, ConcatProperties
      <4> QED
        BY <2>0, <4>1, ConcatEmptySeq
    <3> QED
      BY <1>0, <3>1, <3>2, <3>3, <3>4 DEF ReceivedOK
  <2> QED
    BY <1>0, <1>1, <2>0, <2>6, <2>7, <2>8, <2>9, OthersFramed DEF CallbacksOK
<1> QED
  BY <1>2, <1>3

LEMMA CallbacksRecvData ==
    ASSUME TypeOK, EpocNetAssumption, CallbacksOK, NEW s \in Sock,
           NEW n \in 1 .. MaxRead, RecvData(s, n)
    PROVE  CallbacksOK'
<1> DEFINE a == recver[s].arrived
           buf == Run(a, n)
<1>0. /\ SenderOK(s) /\ RecverOK(s) /\ ReceivedOK(s) /\ stack = <<>> /\ FramesOf(stack)
      /\ UNCHANGED <<writebuf, held, fault>>
      /\ sk[s].phase = "open" /\ recver[s].active
      /\ recver' = [recver EXCEPT ![s] = [active |-> FALSE, readbuf |-> buf, arrived |-> a + n]]
  BY DEF CallbacksOK, RecvData, MayRun
<1>1. \A fn, u : ~InFrame(fn, u)
  BY <1>0, NoStack
<1>2. ~sk[s].frozen_readable
  BY <1>0 DEF RecverOK
<1>3. n \in Nat /\ a \in Nat /\ got[s] \in Seq(Nat)
  BY Fields DEF EpocNetAssumption
<1>4. buf \in Seq(Nat) /\ Run(0, a) \o buf = Run(0, a + n)
  BY <1>3, RunIsSeq, RunExtends
<1>5. held[s] => got[s] = Run(0, a)
  <2>1. Pending(s) = <<>>
    BY <1>2 DEF Pending
  <2> QED
    BY <1>0, <1>3, <2>1, ConcatEmptySeq DEF ReceivedOK
<1> HIDE DEF buf, a
<1>6. /\ recver'[s].active = FALSE /\ recver'[s].readbuf = buf /\ recver'[s].arrived = a + n
      /\ \A u \in Sock \ {s} : recver'[u] = recver[u]
  BY <1>0 DEF TypeOK
<1>7. CASE sk[s].killing
  <2>1. UNCHANGED <<sk, stack, got>>
    BY <1>7 DEF RecvData
  <2>2. \A fn, u : InFrame(fn, u)' <=> InFrame(fn, u)
    BY <2>1, FramesKept
  <2>3. SenderOK(s)'
    BY <1>0, <2>1, <2>2, SenderUnmoved
  <2>4. RecverOK(s)'
    <3>1. ~InFrame("receive", s)' /\ ~InFrame("thaw", s)'
      BY <1>1, <2>2
    <3> QED
      BY <1>0, <1>2, <1>6, <2>1, <3>1 DEF RecverOK, InRunL
  <2>5. ReceivedOK(s)'
    BY <1>0, <1>7, <2>1 DEF ReceivedOK, SenderOK
  <2> QED
    BY <1>0, <1>6, <2>1, <2>3, <2>4, <2>5, OthersKept DEF CallbacksOK
<1>8. CASE ~sk[s].killing /\ sk[s].frozen
  <2>1. UNCHANGED <<stack, got>> /\ sk' = [sk EXCEPT ![s].frozen_readable = TRUE]
    BY <1>8 DEF RecvData
  <2>2. \A fn, u : InFrame(fn, u)' <=> InFrame(fn, u)
    BY <2>1, FramesKept
  <2>a. /\ sk'[s].phase = sk[s].phase /\ sk'[s].writable = sk[s].writable
        /\ sk'[s].sending_oob = sk[s].sending_oob /\ sk'[s].output_data = sk[s].output_data
        /\ sk'[s].killing = sk[s].killing
        /\ sk'[s].frozen = sk[s].frozen /\ sk'[s].frozen_readable = TRUE
        /\ \A u \in Sock \ {s} : sk'[u] = sk[u]
    BY <2>1, Fields DEF TypeOK, SocketTag
  <2>b. ~InFrame("receive", s)' /\ ~InFrame("thaw", s)'
    BY <1>1, <2>2
  <2>3. SenderOK(s)'
    BY <1>0, <2>a, <2>2, SenderUnmoved
  <2>4. RecverOK(s)'
    BY <1>0, <1>6, <1>8, <2>a, <2>b DEF RecverOK, InRunL
  <2>5. ReceivedOK(s)'
    <3>1. Pending(s)' = buf
      BY <1>6, <2>a, <2>b DEF Pending
    <3>2. held[s] => got'[s] \o buf = Run(0, a + n)
      BY <1>4, <1>5, <2>1
    <3> HIDE DEF Pending
    <3> QED
      BY <1>0, <1>6, <1>8, <2>a, <3>1, <3>2 DEF ReceivedOK
  <2> QED
    BY <1>0, <1>6, <2>1, <2>a, <2>3, <2>4, <2>5, OthersKept DEF CallbacksOK
<1>9. CASE ~sk[s].killing /\ ~sk[s].frozen
  <2>1. /\ stack' = <<[fn |-> "receive", s |-> s]>>
        /\ got' = [got EXCEPT ![s] = got[s] \o buf] /\ UNCHANGED sk
    BY <1>9 DEF RecvData, buf, a
  <2>2. FramesOf(stack)' /\ \A g, u : InFrame(g, u)' <=> g = "receive" /\ u = s
    BY <2>1, EventStack
  <2>a. got'[s] = got[s] \o buf /\ \A u \in Sock \ {s} : got'[u] = got[u]
    BY <2>1 DEF TypeOK
  <2>b. ~InFrame("sent", s)' /\ ~InFrame("thaw", s)' /\ InFrame("receive", s)'
    BY <2>2
  <2>3. SenderOK(s)'
    BY <1>0, <2>1, <2>b, SenderUnmoved
  <2>4. RecverOK(s)'
    BY <1>0, <1>2, <1>6, <2>1, <2>b DEF RecverOK, InRunL
  <2>5. ReceivedOK(s)'
    <3>1. Pending(s)' = <<>>
      BY <1>2, <2>1 DEF Pending
    <3>2. held[s] => got'[s] \o <<>> = Run(0, a + n)
      <4>1. got'[s] \o <<>> = got[s] \o buf
        BY <1>3, <1>4, <2>a, ConcatProperties, ConcatEmptySeq
      <4> QED
        BY <1>4, <1>5, <4>1
    <3> HIDE DEF Pending
    <3> QED
      BY <1>0, <1>6, <2>b, <3>1, <3>2 DEF ReceivedOK
  <2>6. \A fn : \A u \in Sock \ {s} : InFrame(fn, u)' <=> InFrame(fn, u)
    BY <1>1, <2>2
  <2> QED
    BY <1>0, <1>6, <2>1, <2>2, <2>a, <2>3, <2>4, <2>5, <2>6, OthersFramed DEF CallbacksOK
<1> QED
  BY <1>7, <1>8, <1>9

LEMMA CallbacksRecvEnd ==
    ASSUME TypeOK, CallbacksOK, NEW s \in Sock, RecvEnd(s)
    PROVE  CallbacksOK'
<1>0. /\ SenderOK(s) /\ RecverOK(s) /\ ReceivedOK(s) /\ stack = <<>>
      /\ UNCHANGED <<sk, writebuf, held, got>>
      /\ sk[s].phase = "open" /\ recver[s].active /\ fault = {}
      /\ recver' = [recver EXCEPT ![s].active = FALSE]
      /\ stack' = <<[fn |-> "closing", s |-> s]>>
      /\ fault' \cap {"consume", "active"} = {}
  BY DEF CallbacksOK, RecvEnd, MayRun
<1>1. \A fn, u : ~InFrame(fn, u)
  BY <1>0, NoStack
<1>2. FramesOf(stack)' /\ \A g, u : InFrame(g, u)' <=> g = "closing" /\ u = s
  BY <1>0, EventStack
<1>3. /\ recver'[s].active = FALSE /\ recver'[s].arrived = recver[s].arrived
      /\ recver'[s].readbuf = recver[s].readbuf
      /\ \A u \in Sock \ {s} : recver'[u] = recver[u]
  BY <1>0, Fields DEF TypeOK, Receivers
<1>4. /\ ~InFrame("sent", s)' /\ ~InFrame("thaw", s)' /\ ~InFrame("receive", s)'
      /\ InFrame("closing", s)' /\ ~InFrame("thaw", s)
  BY <1>1, <1>2
<1>5. SenderOK(s)'
  BY <1>0, <1>4, SenderUnmoved
<1>6. RecverOK(s)'
  BY <1>0, <1>3, <1>4 DEF RecverOK, InRunL
<1>7. ReceivedOK(s)'
  <2>1. Pending(s)' = Pending(s)
    BY <1>0, <1>3, <1>4 DEF Pending
  <2> HIDE DEF Pending
  <2> QED
    BY <1>0, <1>3, <1>4, <2>1 DEF ReceivedOK
<1>8. \A fn : \A u \in Sock \ {s} : InFrame(fn, u)' <=> InFrame(fn, u)
  BY <1>1, <1>2
<1> QED
  BY <1>0, <1>2, <1>3, <1>5, <1>6, <1>7, <1>8, OthersFramed

(* What Consumed() leaves alone.                                            *)
LEMMA ConsumedIs ==
    ASSUME TypeOK, NEW s \in Sock
    PROVE  /\ Consumed(s) \in SocketTag
           /\ Consumed(s).phase = sk[s].phase /\ Consumed(s).killing = sk[s].killing
           /\ Consumed(s).writable = sk[s].writable /\ ~Consumed(s).sending_oob
           /\ Consumed(s).frozen = sk[s].frozen
           /\ Consumed(s).frozen_readable = sk[s].frozen_readable
<1> DEFINE z == SubSeq(sk[s].output_data, Len(writebuf[s].data) + 1, Len(sk[s].output_data))
<1>1. z \in Seq(Nat)
  BY Fields, SubSeqType
<1>2. Consumed(s) = IF sk[s].sending_oob THEN [sk[s] EXCEPT !.sending_oob = FALSE]
                    ELSE [sk[s] EXCEPT !.output_data = z]
  BY DEF Consumed
<1> HIDE DEF z
<1> QED
  BY <1>1, <1>2, Fields DEF SocketTag

LEMMA CallbacksSendDone ==
    ASSUME TypeOK, EpocNetAssumption, CallbacksOK, NEW s \in Sock, SendDone(s)
    PROVE  CallbacksOK'
<1> DEFINE c == Consumed(s)
<1>0. /\ SenderOK(s) /\ RecverOK(s) /\ ReceivedOK(s) /\ stack = <<>>
      /\ UNCHANGED <<held, got>>
      /\ sk[s].phase = "open" /\ fault = {} /\ writebuf[s].kind # "none"
  BY DEF CallbacksOK, SendDone, MayRun
<1>1. \A fn, u : ~InFrame(fn, u)
  BY <1>0, NoStack
<1>2. fault' = {}
  <2>1. ~(~sk[s].sending_oob /\ Len(writebuf[s].data) > Len(sk[s].output_data))
    BY <1>0, Fields DEF SenderOK
  <2> QED
    BY <2>1 DEF SendDone
<1>3. /\ c \in SocketTag /\ c.phase = sk[s].phase /\ c.killing = sk[s].killing
      /\ c.writable = sk[s].writable /\ ~c.sending_oob /\ c.frozen = sk[s].frozen
      /\ c.frozen_readable = sk[s].frozen_readable
  BY ConsumedIs
<1>4. ~sk[s].writable
  BY <1>0 DEF SenderOK, NoSend
<1> HIDE DEF c
<1>5. CASE sk[s].killing
  <2>1. SendMore(s, c) /\ UNCHANGED stack
    BY <1>5 DEF SendDone, c
  <2>2. \A fn, u : InFrame(fn, u)' <=> InFrame(fn, u)
    BY <2>1, FramesKept
  <2>3. /\ \/ /\ SameFields(sk'[s], c) /\ sk'[s].writable = FALSE
              /\ SendsFrom(c, writebuf'[s]) /\ recver' = recver
           \/ /\ sk'[s].phase = "closed" /\ sk'[s].killing /\ sk'[s].output_data = <<>>
              /\ ~sk'[s].sending_oob
              /\ writebuf'[s] = NoSend /\ recver'[s].active = FALSE
        /\ \A u \in Sock \ {s} :
              sk'[u] = sk[u] /\ writebuf'[u] = writebuf[u] /\ recver'[u] = recver[u]
    BY <1>3, <1>5, <2>1, SendMoreIs
  <2>4. ~held[s]
    BY <1>0, <1>5 DEF SenderOK
  <2>5. ~InFrame("sent", s)' /\ ~InFrame("thaw", s)' /\ ~InFrame("receive", s)'
    BY <1>1, <2>2
  <2>6. ReceivedOK(s)'
    BY <1>0, <2>4 DEF ReceivedOK
  <2>7. CASE /\ SameFields(sk'[s], c) /\ sk'[s].writable = FALSE
             /\ SendsFrom(c, writebuf'[s]) /\ recver' = recver
    <3>1. SenderOK(s)'
      <4> HIDE DEF InFrame
      <4> QED
        BY <1>0, <1>3, <2>4, <2>5, <2>7 DEF SenderOK, SameFields, SendsFrom, IsPrefixOf
    <3>2. RecverOK(s)'
      BY <1>0, <1>1, <1>3, <2>4, <2>5, <2>7 DEF RecverOK, SameFields, InRunL
    <3> QED
      BY <1>0, <1>2, <2>1, <2>3, <2>6, <3>1, <3>2, OthersKept
  <2>8. CASE /\ sk'[s].phase = "closed" /\ sk'[s].killing /\ sk'[s].output_data = <<>>
             /\ ~sk'[s].sending_oob
             /\ writebuf'[s] = NoSend /\ recver'[s].active = FALSE
    <3>1. SenderOK(s)'
      <4>1. Len(<<>>) = 0
        BY EmptySeq
      <4> HIDE DEF InFrame
      <4> QED
        BY <1>0, <2>4, <2>5, <2>8, <4>1 DEF SenderOK, NoSend
    <3>2. RecverOK(s)'
      BY <1>0, <2>4, <2>8 DEF RecverOK
    <3> QED
      BY <1>0, <1>2, <2>1, <2>3, <2>6, <3>1, <3>2, OthersKept
  <2> QED
    BY <2>3, <2>7, <2>8
<1>6. CASE ~sk[s].killing
  <2>1. /\ sk' = [sk EXCEPT ![s] = c] /\ writebuf' = [writebuf EXCEPT ![s] = NoSend]
        /\ stack' = <<[fn |-> "sent", s |-> s]>> /\ UNCHANGED recver
    BY <1>6 DEF SendDone, c
  <2>2. FramesOf(stack)' /\ \A g, u : InFrame(g, u)' <=> g = "sent" /\ u = s
    BY <2>1, EventStack
  <2>3. /\ sk'[s] = c /\ writebuf'[s] = NoSend
        /\ \A u \in Sock \ {s} : sk'[u] = sk[u] /\ writebuf'[u] = writebuf[u]
    BY <2>1 DEF TypeOK
  <2>4. SenderOK(s)'
    <3>1. Len(<<>>) = 0 /\ Len(c.output_data) \in Nat
      BY <1>3, EmptySeq, LenProperties DEF SocketTag
    <3> HIDE DEF InFrame
    <3> QED
      BY <1>0, <1>3, <1>4, <1>6, <2>3, <3>1 DEF SenderOK, NoSend
  <2>5. RecverOK(s)' /\ ReceivedOK(s)'
    <3>1. \A fn \in {"receive", "thaw", "closing"} : InFrame(fn, s)' <=> InFrame(fn, s)
      BY <1>1, <2>2
    <3> QED
      BY <1>0, <1>3, <2>1, <2>3, <3>1, RecverUnmoved
  <2>6. \A fn : \A u \in Sock \ {s} : InFrame(fn, u)' <=> InFrame(fn, u)
    BY <1>1, <2>2
  <2> QED
    BY <1>0, <1>2, <2>1, <2>2, <2>3, <2>4, <2>5, <2>6, OthersFramed
<1> QED
  BY <1>5, <1>6

LEMMA CallbacksReturnReceive ==
    ASSUME TypeOK, CallbacksOK, NEW fn \in {"receive", "thaw"}, ReturnReceive(fn)
    PROVE  CallbacksOK'
<1> DEFINE s == Head(stack).s
           restart == held[s] \/ s \in FwdSock
           freed == sk[s].phase = "closed"
<1>0. /\ stack # <<>> /\ Head(stack).fn = fn /\ stack' = Tail(stack) /\ FramesOf(stack)
      /\ UNCHANGED <<writebuf, held, got>>
      /\ fault' = IF freed /\ (restart \/ fn = "thaw") THEN {"freed"}
                  ELSE IF restart /\ recver[s].active THEN {"active"}
                  ELSE {}
      /\ recver' = IF restart /\ ~freed
                   THEN [recver EXCEPT ![s].active = TRUE] ELSE recver
      /\ sk' = IF fn = "thaw" /\ ~freed
               THEN [sk EXCEPT ![s].frozen_readable = FALSE] ELSE sk
  BY DEF CallbacksOK, ReturnReceive
<1> HIDE DEF InFrame
<1>1. /\ s \in Sock /\ FramesOf(stack)'
      /\ InFrame(fn, s)
      /\ \A g, u : InFrame(g, u)' => InFrame(g, u)
      /\ \A g, u : InFrame(g, u) /\ (fn # g \/ s # u) => InFrame(g, u)'
      /\ fn # "thaw" => \A g, u : ~InFrame(g, u)'
      /\ \A u : u = s => ~InFrame("receive", u)' /\ ~InFrame("thaw", u)'
  BY <1>0, PopStack DEF Frames
<1>s. PICK v \in Sock : v = s
  BY <1>1
<1>2. /\ FramesOf(stack)' /\ InFrame(fn, v)
      /\ \A g : \A u \in Sock \ {v} : InFrame(g, u)' <=> InFrame(g, u)
      /\ InFrame("sent", v)' <=> InFrame("sent", v)
      /\ InFrame("closing", v)' <=> InFrame("closing", v)
      /\ ~InFrame("receive", v)' /\ ~InFrame("thaw", v)'
      /\ fn = "receive" => ~InFrame("thaw", v)
  BY <1>1, <1>s
<1> DEFINE again == held[v] \/ v \in FwdSock
           gone == sk[v].phase = "closed"
<1>3. /\ fault' = IF gone /\ (again \/ fn = "thaw") THEN {"freed"}
                  ELSE IF again /\ recver[v].active THEN {"active"}
                  ELSE {}
      /\ recver' = IF again /\ ~gone
                   THEN [recver EXCEPT ![v].active = TRUE] ELSE recver
      /\ sk' = IF fn = "thaw" /\ ~gone
               THEN [sk EXCEPT ![v].frozen_readable = FALSE] ELSE sk
  BY <1>0, <1>s
<1> HIDE DEF s, restart, freed
<1>4. SenderOK(v) /\ RecverOK(v) /\ ReceivedOK(v)
  BY DEF CallbacksOK
<1>5. /\ ~recver[v].active /\ sk[v].phase # "unused"
      /\ sk[v].phase = "open" => ~(sk[v].frozen /\ sk[v].frozen_readable)
      /\ fn = "receive" /\ sk[v].phase = "open" => ~sk[v].frozen_readable
  BY <1>2, <1>4 DEF RecverOK, InRunL
<1>6. fault' \cap {"consume", "active"} = {}
  BY <1>3, <1>5
<1>7. /\ sk'[v].phase = sk[v].phase /\ sk'[v].writable = sk[v].writable
      /\ sk'[v].sending_oob = sk[v].sending_oob /\ sk'[v].output_data = sk[v].output_data
      /\ sk'[v].killing = sk[v].killing /\ sk'[v].frozen = sk[v].frozen
      /\ sk[v].phase = "open" => ~sk'[v].frozen_readable
      /\ \A u \in Sock \ {v} : sk'[u] = sk[u]
  BY <1>3, <1>5, Fields DEF TypeOK, SocketTag
<1>8. /\ recver'[v].active = (again /\ ~gone)
      /\ recver'[v].arrived = recver[v].arrived
      /\ \A u \in Sock \ {v} : recver'[u] = recver[u]
  <2>1. CASE again /\ ~gone
    BY <1>3, <2>1, Fields DEF TypeOK, Receivers
  <2>2. CASE ~(again /\ ~gone)
    BY <1>3, <1>5, <2>2, Fields DEF TypeOK, Receivers
  <2> QED
    BY <2>1, <2>2
<1>9. SenderOK(v)'
  BY <1>0, <1>2, <1>4, <1>7, SenderUnmoved
<1>10. RecverOK(v)'
  <2>1. sk[v].phase \in {"open", "closed"}
    BY <1>5, Fields DEF SocketTag, Phases
  <2>2. held'[v] => sk'[v].phase = "open" /\ ~sk'[v].killing
    BY <1>0, <1>4, <1>7 DEF RecverOK
  <2>3. recver'[v].active => sk'[v].phase = "open"
    BY <1>7, <1>8, <2>1
  <2> QED
    BY <1>2, <1>5, <1>7, <2>2, <2>3 DEF RecverOK, InRunL
<1>11. ReceivedOK(v)'
  <2> SUFFICES ASSUME held[v]
               PROVE  /\ got'[v] \o Pending(v)' = Run(0, recver'[v].arrived)
                      /\ recver'[v].active
    BY <1>0 DEF ReceivedOK
  <2>1. sk[v].phase = "open"
    BY <1>4 DEF RecverOK
  <2>2. Pending(v)' = <<>> /\ Pending(v) = <<>>
    BY <1>2, <1>5, <1>7, <2>1 DEF Pending
  <2>3. got[v] \o Pending(v) = Run(0, recver[v].arrived)
    BY <1>4 DEF ReceivedOK
  <2> QED
    BY <1>0, <1>8, <2>1, <2>2, <2>3
<1> QED
  BY <1>0, <1>2, <1>6, <1>7, <1>8, <1>9, <1>10, <1>11, OthersFramed

LEMMA CallbacksReturnClosing ==
    ASSUME TypeOK, CallbacksOK, ReturnClosing
    PROVE  CallbacksOK'
<1>0. /\ stack # <<>> /\ Head(stack).fn = "closing" /\ stack' = Tail(stack) /\ FramesOf(stack)
      /\ ~held[Head(stack).s]
      /\ UNCHANGED <<sk, writebuf, recver, held, fault, got>>
  BY DEF CallbacksOK, ReturnClosing
<1> HIDE DEF InFrame
<1>1. PICK v \in Sock : v = Head(stack).s
  BY <1>0, PopStack DEF Frames
<1>2. /\ FramesOf(stack)'
      /\ \A g, u : InFrame(g, u)' => InFrame(g, u)
      /\ \A g, u : InFrame(g, u) /\ ("closing" # g \/ v # u) => InFrame(g, u)'
  BY <1>0, <1>1, PopStack
<1>3. SenderOK(v) /\ RecverOK(v) /\ ReceivedOK(v)
  BY DEF CallbacksOK
<1>4. SenderOK(v)'
  BY <1>0, <1>2, <1>3, SenderUnmoved
<1>5. RecverOK(v)'
  <2>1. /\ InFrame("receive", v)' <=> InFrame("receive", v)
        /\ InFrame("thaw", v)' <=> InFrame("thaw", v)
    BY <1>2
  <2> QED
    BY <1>0, <1>3, <2>1 DEF RecverOK, InRunL
<1>6. ReceivedOK(v)'
  BY <1>0, <1>1 DEF ReceivedOK
<1>7. \A fn : \A t \in Sock \ {v} : InFrame(fn, t)' <=> InFrame(fn, t)
  BY <1>2
<1> QED
  BY <1>0, <1>2, <1>4, <1>5, <1>6, <1>7, OthersFramed DEF CallbacksOK

LEMMA CallbacksReturnSent ==
    ASSUME TypeOK, EpocNetAssumption, CallbacksOK, ReturnSent
    PROVE  CallbacksOK'
<1>0. /\ stack # <<>> /\ Head(stack).fn = "sent" /\ stack' = Tail(stack) /\ FramesOf(stack)
      /\ UNCHANGED <<held, got>>
  BY DEF CallbacksOK, ReturnSent
<1> HIDE DEF InFrame
<1>1. PICK v \in Sock : v = Head(stack).s
  BY <1>0, PopStack DEF Frames
<1>2. /\ FramesOf(stack)' /\ InFrame("sent", v)
      /\ \A g, u : InFrame(g, u)' => InFrame(g, u)
      /\ \A g, u : InFrame(g, u) /\ ("sent" # g \/ v # u) => InFrame(g, u)'
      /\ \A u : ~InFrame("sent", u)'
  BY <1>0, <1>1, PopStack
<1>3. SenderOK(v) /\ RecverOK(v) /\ ReceivedOK(v)
  BY DEF CallbacksOK
<1>4. \A fn \in {"receive", "thaw", "closing"} : InFrame(fn, v)' <=> InFrame(fn, v)
  BY <1>2
<1>5. \A fn : \A t \in Sock \ {v} : InFrame(fn, t)' <=> InFrame(fn, t)
  BY <1>2
<1>6. CASE sk[v].phase = "closed"
  <2>1. fault' = {"freed"} /\ UNCHANGED <<sk, writebuf, recver>>
    BY <1>1, <1>6 DEF ReturnSent
  <2>2. SenderOK(v)'
    BY <1>0, <1>2, <1>3, <2>1, SenderUnmoved
  <2>3. RecverOK(v)' /\ ReceivedOK(v)'
    BY <1>0, <1>3, <1>4, <2>1, RecverUnmoved
  <2> QED
    BY <1>0, <1>2, <1>5, <2>1, <2>2, <2>3, OthersFramed
<1>7. CASE sk[v].phase # "closed"
  <2>1. SendMore(v, sk[v]) /\ UNCHANGED fault
    BY <1>1, <1>7 DEF ReturnSent
  <2>2. sk[v].killing => sk[v].output_data # <<>>
    BY <1>2, <1>3 DEF SenderOK
  <2>3. /\ SameFields(sk'[v], sk[v]) /\ recver' = recver
        /\ \/ sk'[v].writable = FALSE /\ SendsFrom(sk[v], writebuf'[v])
           \/ ~sk[v].killing /\ writebuf'[v] = NoSend
        /\ \A u \in Sock \ {v} :
              sk'[u] = sk[u] /\ writebuf'[u] = writebuf[u]
    BY <2>1, <2>2, Fields, SendMoreIs
  <2>4. SenderOK(v)'
    <3>1. Len(<<>>) = 0 /\ Len(sk[v].output_data) \in Nat
      BY EmptySeq, Fields
    <3>2. sk[v].phase # "unused"
      BY <1>2, <1>3 DEF SenderOK
    <3>3. ~InFrame("sent", v)'
      BY <1>2
    <3>4. CASE sk'[v].writable = FALSE /\ SendsFrom(sk[v], writebuf'[v])
      BY <1>0, <1>3, <2>3, <3>2, <3>3, <3>4 DEF SenderOK, SameFields, SendsFrom, IsPrefixOf
    <3>5. CASE ~sk[v].killing /\ writebuf'[v] = NoSend
      BY <1>0, <1>3, <2>3, <3>1, <3>2, <3>3, <3>5 DEF SenderOK, SameFields, NoSend
    <3> QED
      BY <2>3, <3>4, <3>5
  <2>5. RecverOK(v)' /\ ReceivedOK(v)'
    BY <1>0, <1>3, <1>4, <2>3, RecverUnmoved DEF SameFields
  <2> QED
    BY <1>0, <1>2, <1>5, <2>1, <2>3, <2>4, <2>5, OthersFramed DEF CallbacksOK
<1> QED
  BY <1>6, <1>7

LEMMA CallbacksInit == Init => CallbacksOK
<1> SUFFICES ASSUME Init PROVE CallbacksOK
  OBVIOUS
<1>1. \A fn, u : ~InFrame(fn, u)
  BY NoStack DEF Init
<1>2. FramesOf(stack)
  BY NoFrames DEF Init
<1>3. <<>> \o <<>> = Run(0, 0)
  BY RunOfNone, ConcatEmptySeq, EmptySeq
<1>4. Len(<<>>) = 0
  BY EmptySeq
<1> HIDE DEF InFrame
<1>5. ASSUME NEW s \in Sock PROVE SenderOK(s) /\ RecverOK(s) /\ ReceivedOK(s)
  BY <1>1, <1>3, <1>4 DEF Init, SenderOK, RecverOK, ReceivedOK, InRunL, NoSend
<1> QED
  BY <1>2, <1>5 DEF CallbacksOK, Init

LEMMA CallbacksStep == TypeOK /\ CallbacksOK /\ [Next]_vars => CallbacksOK'
<1> USE EpocNetAssumption
<1> SUFFICES ASSUME TypeOK, CallbacksOK, [Next]_vars PROVE CallbacksOK'
  OBVIOUS
<1>1. ASSUME NEW s \in Sock, PlugCall(s) PROVE CallbacksOK'
  BY <1>1, CallbacksOpen, CallbacksPlugWrite, CallbacksWriteOob, CallbacksClose,
     CallbacksFreeze, CallbacksUnfreeze DEF PlugCall
<1>2. ASSUME NEW s \in Sock, Event(s) PROVE CallbacksOK'
  BY <1>2, CallbacksRecvData, CallbacksRecvEnd, CallbacksSendDone, CallbacksSendFail
     DEF Event
<1>3. ASSUME Return PROVE CallbacksOK'
  <2>1. ASSUME ReturnFromRunL PROVE CallbacksOK'
    BY <2>1, CallbacksReturnReceive DEF ReturnFromRunL
  <2>2. ASSUME ReturnFromReissue PROVE CallbacksOK'
    BY <2>2, CallbacksReturnReceive DEF ReturnFromReissue
  <2>3. ASSUME ReturnClosing PROVE CallbacksOK'
    BY <2>3, CallbacksReturnClosing
  <2>4. ASSUME ReturnSent PROVE CallbacksOK'
    BY <2>4, CallbacksReturnSent
  <2> QED
    BY <1>3, <2>1, <2>2, <2>3, <2>4 DEF Return
<1>4. CASE UNCHANGED vars
  <2>1. \A fn, u : InFrame(fn, u)' <=> InFrame(fn, u)
    BY <1>4, FramesKept DEF vars
  <2>2. FramesOf(stack)' /\ fault' \cap {"consume", "active"} = {}
    BY <1>4 DEF vars, CallbacksOK, FramesOf
  <2>3. ASSUME NEW t \in Sock PROVE SenderOK(t)' /\ RecverOK(t)' /\ ReceivedOK(t)'
    <3>1. SenderOK(t) /\ RecverOK(t) /\ ReceivedOK(t)
      BY DEF CallbacksOK
    <3>2. SenderOK(t)'
      BY <1>4, <2>1, <3>1, SenderUnmoved DEF vars
    <3>3. \A fn \in {"receive", "thaw", "closing"} : InFrame(fn, t)' <=> InFrame(fn, t)
      BY <2>1
    <3>4. RecverOK(t)' /\ ReceivedOK(t)'
      BY <1>4, <3>1, <3>3, RecverUnmoved DEF vars
    <3> QED
      BY <3>2, <3>4
  <2> QED
    BY <2>2, <2>3 DEF CallbacksOK
<1> QED
  BY <1>1, <1>2, <1>3, <1>4 DEF Next

LEMMA CallbacksAlways == Spec => [](TypeOK /\ CallbacksOK)
BY TypeInit, TypeStep, CallbacksInit, CallbacksStep, PTL DEF Spec

(* Nothing makes the layer panic: bufchain_consume()'s assertion holds, and *)
(* neither active object is started while it is active.                     *)
THEOREM PanicCorrect == Spec => []NoPanic
<1>1. CallbacksOK => NoPanic
  BY DEF CallbacksOK, SenderOK, NoPanic
<1> QED
  BY <1>1, CallbacksAlways, PTL

(* Freezing and thawing a socket, in any order and from inside of each      *)
(* other's callbacks, loses nothing that arrives, gives nothing to the plug *)
(* twice, and does not leave a socket deaf.                                 *)
THEOREM FreezingCorrect == Spec => []FreezingLosesNothing
<1>1. CallbacksOK => FreezingLosesNothing
  BY DEF CallbacksOK, ReceivedOK, Pending, FreezingLosesNothing, ReceivedOnce, NeverDeaf
<1> QED
  BY <1>1, CallbacksAlways, PTL

-------------------------------------------------------------------------------
(* The order in which a peer gets its bytes, with urgent data as well.      *)

LEMMA RestIs ==
    ASSUME NEW q \in Seq(Nat), NEW k \in Nat, k <= Len(q)
    PROVE  /\ SubSeq(q, k + 1, Len(q)) \in Seq(Nat)
           /\ Len(SubSeq(q, k + 1, Len(q))) = Len(q) - k
           /\ \A i \in 1 .. Len(SubSeq(q, k + 1, Len(q))) :
                 SubSeq(q, k + 1, Len(q))[i] = q[i + k]
<1>1. Len(q) \in Nat
  BY LenProperties
<1>2. \A i \in k + 1 .. Len(q) : q[i] \in Nat
  BY <1>1, ElementOfSeq
<1> DEFINE z == SubSeq(q, k + 1, Len(q))
<1>3. /\ z \in Seq(Nat)
      /\ Len(z) = IF k + 1 <= Len(q) THEN Len(q) - (k + 1) + 1 ELSE 0
      /\ \A i \in 1 .. Len(q) - (k + 1) + 1 : z[i] = q[(k + 1) + i - 1]
  BY <1>1, <1>2, SubSeqProperties
<1> HIDE DEF z
<1>4. Len(z) = Len(q) - k
  BY <1>1, <1>3
<1>5. ASSUME NEW i \in 1 .. Len(z) PROVE z[i] = q[i + k]
  <2>1. i \in 1 .. Len(q) - (k + 1) + 1 /\ (k + 1) + i - 1 = i + k
    BY <1>1, <1>4
  <2> QED
    BY <1>3, <2>1
<1> QED
  BY <1>3, <1>4, <1>5 DEF z

LEMMA OrderOfNone ==
    ASSUME NEW q \in Seq(Nat), NEW n \in Nat
    PROVE  Ascending(<<>>) /\ AllBefore(<<>>, q) /\ AllBefore(q, <<>>) /\ UpTo(<<>>, n)
<1>1. Len(<<>>) = 0 /\ 1 .. 0 = {}
  BY EmptySeq
<1> QED
  BY <1>1 DEF Ascending, AllBefore, UpTo

(* z is q without its first k elements. *)
LEMMA OrderOfRest ==
    ASSUME NEW q \in Seq(Nat), NEW z \in Seq(Nat), NEW k \in Nat,
           k <= Len(q), Len(z) = Len(q) - k,
           \A i \in 1 .. Len(z) : z[i] = q[i + k],
           NEW p \in Seq(Nat), NEW n \in Nat,
           Ascending(q), AllBefore(p, q), UpTo(q, n)
    PROVE  Ascending(z) /\ AllBefore(p, z) /\ UpTo(z, n)
<1>1. Len(q) \in Nat /\ Len(z) \in Nat
  BY LenProperties
<1>2. \A i \in 1 .. Len(z) : i + k \in 1 .. Len(q)
  BY <1>1
<1>3. Ascending(z)
  <2> SUFFICES ASSUME NEW i \in 1 .. Len(z), NEW j \in 1 .. Len(z), i < j
               PROVE  z[i] < z[j]
    BY DEF Ascending
  <2>1. i + k < j + k
    BY <1>1
  <2>2. q[i + k] < q[j + k]
    BY <1>2, <2>1 DEF Ascending
  <2> QED
    BY <2>2
<1>4. AllBefore(p, z)
  BY <1>2 DEF AllBefore
<1>5. UpTo(z, n)
  BY <1>2 DEF UpTo
<1> QED
  BY <1>3, <1>4, <1>5

(* d is the first k elements of q. *)
LEMMA OrderOfHead ==
    ASSUME NEW q \in Seq(Nat), NEW d \in Seq(Nat), IsPrefixOf(d, q),
           NEW p \in Seq(Nat), NEW n \in Nat,
           Ascending(q), AllBefore(p, q), UpTo(q, n)
    PROVE  /\ Ascending(d) /\ AllBefore(p, d) /\ UpTo(d, n)
           /\ AllBefore(d, SubSeq(q, Len(d) + 1, Len(q)))
<1> DEFINE z == SubSeq(q, Len(d) + 1, Len(q))
           k == Len(d)
<1>1. Len(q) \in Nat /\ k \in Nat /\ k <= Len(q) /\ d = SubSeq(q, 1, k)
  BY LenProperties DEF IsPrefixOf
<1>2. \A i \in 1 .. Len(q) : q[i] \in Nat
  BY ElementOfSeq
<1>3. \A i \in 1 .. k : SubSeq(q, 1, k)[i] = q[i]
  <2>1. \A i \in 1 .. k : q[i] \in Nat
    BY <1>1, <1>2
  <2>2. \A i \in 1 .. k - 1 + 1 : SubSeq(q, 1, k)[i] = q[1 + i - 1]
    BY <1>1, <2>1, SubSeqProperties
  <2> QED
    BY <1>1, <2>2
<1>4. \A i \in 1 .. k : d[i] = q[i] /\ i \in 1 .. Len(q)
  <2>1. \A i \in 1 .. k : d[i] = SubSeq(q, 1, k)[i]
    BY <1>1
  <2> QED
    BY <1>1, <1>3, <2>1
<1>5. z \in Seq(Nat) /\ Len(z) = Len(q) - k /\ \A i \in 1 .. Len(z) : z[i] = q[i + k]
  BY <1>1, RestIs
<1>6. \A i \in 1 .. Len(z) : i + k \in 1 .. Len(q) /\ i + k > k
  BY <1>1, <1>5
<1> HIDE DEF z, k
<1>7. AllBefore(d, z)
  <2> SUFFICES ASSUME NEW i \in 1 .. Len(d), NEW j \in 1 .. Len(z) PROVE d[i] < z[j]
    BY DEF AllBefore
  <2>1. i \in 1 .. k /\ d[i] = q[i] /\ i \in 1 .. Len(q)
    BY <1>4 DEF k
  <2>2. j + k \in 1 .. Len(q) /\ j + k > k /\ z[j] = q[j + k]
    BY <1>5, <1>6
  <2>3. i < j + k
    BY <1>1, <2>1, <2>2
  <2> QED
    BY <2>1, <2>2, <2>3 DEF Ascending
<1>8. Ascending(d)
  BY <1>4 DEF Ascending, k
<1>9. AllBefore(p, d)
  BY <1>4 DEF AllBefore, k
<1>10. UpTo(d, n)
  BY <1>4 DEF UpTo, k
<1> QED
  BY <1>7, <1>8, <1>9, <1>10 DEF z, k

LEMMA OrderOfBoth ==
    ASSUME NEW a \in Seq(Nat), NEW b \in Seq(Nat), NEW c \in Seq(Nat), NEW n \in Nat,
           Ascending(a), Ascending(b), AllBefore(a, b)
    PROVE  /\ a \o b \in Seq(Nat)
           /\ Ascending(a \o b)
           /\ AllBefore(a, c) /\ AllBefore(b, c) => AllBefore(a \o b, c)
           /\ AllBefore(c, a) /\ AllBefore(c, b) => AllBefore(c, a \o b)
           /\ UpTo(a, n) /\ UpTo(b, n) => UpTo(a \o b, n)
<1> DEFINE u == a \o b
<1>1. Len(a) \in Nat /\ Len(b) \in Nat
  BY LenProperties
<1>2. /\ u \in Seq(Nat) /\ Len(u) = Len(a) + Len(b)
      /\ \A i \in 1 .. Len(a) + Len(b) : u[i] = IF i <= Len(a) THEN a[i] ELSE b[i - Len(a)]
  BY ConcatProperties
<1> HIDE DEF u
<1>3. ASSUME NEW i \in 1 .. Len(u)
      PROVE  \/ i \in 1 .. Len(a) /\ u[i] = a[i]
             \/ i - Len(a) \in 1 .. Len(b) /\ u[i] = b[i - Len(a)] /\ i > Len(a)
  <2>1. CASE i <= Len(a)
    BY <1>1, <1>2, <2>1
  <2>2. CASE ~(i <= Len(a))
    <3>1. i - Len(a) \in 1 .. Len(b) /\ i > Len(a)
      BY <1>1, <1>2, <2>2
    <3> QED
      BY <1>2, <2>2, <3>1
  <2> QED
    BY <2>1, <2>2
<1>4. Ascending(u)
  <2> SUFFICES ASSUME NEW i \in 1 .. Len(u), NEW j \in 1 .. Len(u), i < j
               PROVE  u[i] < u[j]
    BY DEF Ascending
  <2>1. CASE j \in 1 .. Len(a) /\ u[j] = a[j]
    <3>1. i \in 1 .. Len(a) /\ u[i] = a[i]
      BY <1>1, <1>3, <2>1
    <3> QED
      BY <2>1, <3>1 DEF Ascending
  <2>2. CASE j - Len(a) \in 1 .. Len(b) /\ u[j] = b[j - Len(a)]
    <3>1. CASE i \in 1 .. Len(a) /\ u[i] = a[i]
      BY <2>2, <3>1 DEF AllBefore
    <3>2. CASE i - Len(a) \in 1 .. Len(b) /\ u[i] = b[i - Len(a)]
      <4>1. i - Len(a) < j - Len(a)
        BY <1>1
      <4> QED
        BY <2>2, <3>2, <4>1 DEF Ascending
    <3> QED
      BY <1>3, <3>1, <3>2
  <2> QED
    BY <1>3, <2>1, <2>2
<1>5. ASSUME AllBefore(a, c), AllBefore(b, c) PROVE AllBefore(u, c)
  <2> SUFFICES ASSUME NEW i \in 1 .. Len(u), NEW j \in 1 .. Len(c) PROVE u[i] < c[j]
    BY DEF AllBefore
  <2> QED
    BY <1>3, <1>5 DEF AllBefore
<1>6. ASSUME AllBefore(c, a), AllBefore(c, b) PROVE AllBefore(c, u)
  <2> SUFFICES ASSUME NEW i \in 1 .. Len(c), NEW j \in 1 .. Len(u) PROVE c[i] < u[j]
    BY DEF AllBefore
  <2> QED
    BY <1>3, <1>6 DEF AllBefore
<1>7. ASSUME UpTo(a, n), UpTo(b, n) PROVE UpTo(u, n)
  <2> SUFFICES ASSUME NEW i \in 1 .. Len(u) PROVE u[i] <= n
    BY DEF UpTo
  <2> QED
    BY <1>3, <1>7 DEF UpTo
<1> QED
  BY <1>2, <1>4, <1>5, <1>6, <1>7 DEF u

(* What is written next comes after all that has been written. *)
LEMMA OrderOfRun ==
    ASSUME NEW m \in Nat, NEW n \in Nat, NEW q \in Seq(Nat), UpTo(q, m)
    PROVE  /\ Ascending(Run(m, n)) /\ AllBefore(q, Run(m, n))
           /\ UpTo(Run(m, n), m + n) /\ UpTo(q, m + n)
<1> DEFINE u == Run(m, n)
<1>1. u \in Seq(Nat) /\ Len(u) = n /\ \A i \in 1 .. n : u[i] = m + i
  BY RunIsSeq
<1>2. \A i \in 1 .. Len(q) : q[i] \in Nat /\ q[i] <= m
  BY ElementOfSeq DEF UpTo
<1> HIDE DEF u
<1>3. Ascending(u)
  BY <1>1 DEF Ascending
<1>4. AllBefore(q, u)
  BY <1>1, <1>2 DEF AllBefore
<1>5. UpTo(u, m + n)
  BY <1>1 DEF UpTo
<1>6. UpTo(q, m + n)
  BY <1>2 DEF UpTo
<1> QED
  BY <1>3, <1>4, <1>5, <1>6 DEF u

(* OrderOf without the request of the CSender. *)
LEMMA OrderOfIdle ==
    ASSUME NEW r, NEW x, NEW w, NEW v, NEW p, NEW n, OrderOf(r, w, p, n),
           x.output_data = r.output_data, v.kind # "data"
    PROVE  OrderOf(x, v, p, n)
BY DEF OrderOf

(* A new request is for what is due next. *)
LEMMA OrderOfSends ==
    ASSUME NEW r \in SocketTag, NEW x, NEW w, NEW v, NEW p, NEW n,
           OrderOf(r, w, p, n), SameFields(x, r), SendsFrom(r, v)
    PROVE  OrderOf(x, v, p, n)
BY DEF OrderOf, SameFields, SendsFrom

LEMMA OrderUnmoved ==
    ASSUME NEW t \in Sock, OrderOK(t),
           sk'[t].output_data = sk[t].output_data, sk'[t].sending_oob = sk[t].sending_oob,
           writebuf'[t] = writebuf[t] \/ writebuf'[t] = NoSend,
           peer'[t] = peer[t], written'[t] = written[t]
    PROVE  OrderOK(t)'
BY DEF OrderOK, OrderOf, NoSend

LEMMA OrderOthers ==
    ASSUME OrderInv, NEW s \in Sock, OrderOK(s)',
           \A t \in Sock \ {s} :
              /\ sk'[t] = sk[t] /\ writebuf'[t] = writebuf[t]
              /\ peer'[t] = peer[t] /\ written'[t] = written[t]
    PROVE  OrderInv'
<1>1. ASSUME NEW t \in Sock \ {s} PROVE OrderOK(t)'
  BY OrderUnmoved DEF OrderInv
<1> QED
  BY <1>1 DEF OrderInv

LEMMA OrderInit == Init => OrderInv
<1> SUFFICES ASSUME Init, NEW s \in Sock PROVE OrderOK(s)
  BY DEF OrderInv
<1>1. Ascending(<<>>) /\ AllBefore(<<>>, <<>>) /\ UpTo(<<>>, 0)
  BY EmptySeq, OrderOfNone
<1>2. sk[s].output_data = <<>> /\ peer[s] = <<>> /\ written[s] = 0 /\ writebuf[s].kind # "data"
  BY DEF Init, NoSend
<1> HIDE DEF Ascending, AllBefore, UpTo
<1> QED
  BY <1>1, <1>2 DEF OrderOK, OrderOf

(* What is written goes to the end of the queue. *)
LEMMA OrderOfWrite ==
    ASSUME TypeOK, NEW s \in Sock, OrderOK(s), NEW n \in Nat, NEW r \in SocketTag,
           r.output_data = sk[s].output_data \o Run(written[s], n),
           r.sending_oob = sk[s].sending_oob
    PROVE  OrderOf(r, writebuf[s], peer[s], written[s] + n)
<1> DEFINE q == sk[s].output_data
           w == writebuf[s]
           p == peer[s]
           m == written[s]
           x == Run(m, n)
<1>0. /\ q \in Seq(Nat) /\ w.data \in Seq(Nat) /\ p \in Seq(Nat) /\ m \in Nat /\ x \in Seq(Nat)
  BY Fields, RunIsSeq DEF TypeOK, Requests
<1>1. /\ Ascending(p) /\ Ascending(q) /\ AllBefore(p, q) /\ UpTo(p, m) /\ UpTo(q, m)
      /\ w.kind = "data" /\ sk[s].sending_oob =>
            /\ Ascending(w.data) /\ AllBefore(p, w.data) /\ AllBefore(w.data, q)
            /\ UpTo(w.data, m)
      /\ w.kind = "data" /\ ~sk[s].sending_oob => IsPrefixOf(w.data, q)
  BY DEF OrderOK, OrderOf
<1> HIDE DEF q, w, p, m, x, Ascending, AllBefore, UpTo, IsPrefixOf
<1>2. /\ Ascending(x) /\ AllBefore(q, x) /\ AllBefore(p, x) /\ UpTo(x, m + n)
      /\ UpTo(q, m + n) /\ UpTo(p, m + n)
  BY <1>0, <1>1, OrderOfRun DEF x
<1>3. m + n \in Nat
  BY <1>0
<1>4. /\ q \o x \in Seq(Nat) /\ Ascending(q \o x)
      /\ AllBefore(p, q \o x) /\ UpTo(q \o x, m + n)
  BY <1>0, <1>1, <1>2, <1>3, OrderOfBoth
<1>5. ASSUME w.kind = "data", sk[s].sending_oob
      PROVE  UpTo(w.data, m + n) /\ AllBefore(w.data, q \o x)
  <2>1. UpTo(w.data, m) /\ AllBefore(w.data, q)
    BY <1>1, <1>5
  <2>2. AllBefore(w.data, x) /\ UpTo(w.data, m + n)
    BY <1>0, <2>1, OrderOfRun DEF x
  <2> QED
    BY <1>0, <1>1, <1>2, <1>3, <2>1, <2>2, OrderOfBoth
<1>6. w.kind = "data" /\ ~sk[s].sending_oob => IsPrefixOf(w.data, q \o x)
  BY <1>0, <1>1, PrefixGrows
<1>7. r.output_data = q \o x
  BY DEF q, x, m
<1>8. OrderOf(r, w, p, m + n)
  BY <1>1, <1>2, <1>4, <1>5, <1>6, <1>7 DEF OrderOf
<1> QED
  BY <1>8 DEF w, p, m

LEMMA OrderOfSendit ==
    ASSUME TypeOK, EpocNetAssumption, OrderInv, NEW s \in Sock, NEW r \in SocketTag,
           SenditIfWritable(s, r), UNCHANGED peer,
           OrderOf(r, writebuf[s], peer[s], written'[s]),
           \A t \in Sock \ {s} : written'[t] = written[t]
    PROVE  OrderInv'
<1>1. CASE r.writable
  <2>1. Sendit(s, r)
    BY <1>1 DEF SenditIfWritable
  <2>2. /\ SameFields(sk'[s], r)
        /\ SendsFrom(r, writebuf'[s]) \/ (sk'[s] = r /\ writebuf'[s] = writebuf[s])
        /\ \A u \in Sock \ {s} : sk'[u] = sk[u] /\ writebuf'[u] = writebuf[u]
    BY <2>1, SenditIs
  <2>3. OrderOf(sk'[s], writebuf'[s], peer[s], written'[s])
    <3>1. CASE SendsFrom(r, writebuf'[s])
      BY <2>2, <3>1, OrderOfSends
    <3>2. CASE sk'[s] = r /\ writebuf'[s] = writebuf[s]
      BY <3>2
    <3> QED
      BY <2>2, <3>1, <3>2
  <2> QED
    BY <2>2, <2>3, OrderOthers DEF OrderOK
<1>2. CASE ~r.writable
  <2>1. sk' = [sk EXCEPT ![s] = r] /\ UNCHANGED writebuf
    BY <1>2 DEF SenditIfWritable
  <2>2. sk'[s] = r /\ \A u \in Sock \ {s} : sk'[u] = sk[u]
    BY <2>1 DEF TypeOK
  <2> QED
    BY <2>1, <2>2, OrderOthers DEF OrderOK
<1> QED
  BY <1>1, <1>2

LEMMA OrderOfSendMore ==
    ASSUME TypeOK, EpocNetAssumption, OrderInv, NEW s \in Sock, NEW r \in SocketTag,
           SendMore(s, r), UNCHANGED written,
           OrderOf(r, NoSend, peer'[s], written[s]),
           \A t \in Sock \ {s} : peer'[t] = peer[t]
    PROVE  OrderInv'
<1>1. /\ \/ SameFields(sk'[s], r) /\ SendsFrom(r, writebuf'[s])
         \/ SameFields(sk'[s], r) /\ writebuf'[s] = NoSend
         \/ sk'[s].output_data = <<>> /\ r.output_data = <<>> /\ writebuf'[s] = NoSend
      /\ \A u \in Sock \ {s} : sk'[u] = sk[u] /\ writebuf'[u] = writebuf[u]
  BY SendMoreIs
<1>2. OrderOf(sk'[s], writebuf'[s], peer'[s], written[s])
  <2>1. CASE SameFields(sk'[s], r) /\ SendsFrom(r, writebuf'[s])
    BY <2>1, OrderOfSends
  <2>2. CASE SameFields(sk'[s], r) /\ writebuf'[s] = NoSend
    BY <2>2, OrderOfIdle DEF SameFields, NoSend
  <2>3. CASE sk'[s].output_data = <<>> /\ r.output_data = <<>> /\ writebuf'[s] = NoSend
    <3>1. NoSend.kind # "data"
      BY DEF NoSend
    <3> QED
      BY <2>3, <3>1, OrderOfIdle
  <2> QED
    BY <1>1, <2>1, <2>2, <2>3
<1> QED
  BY <1>1, <1>2, OrderOthers DEF OrderOK

(* A completed Send(): what it sent is now with the peer. *)
LEMMA OrderOfDone ==
    ASSUME TypeOK, CallbacksOK, NEW s \in Sock, OrderOK(s), NEW y \in Seq(Nat),
           writebuf[s].kind = "data" => y = peer[s] \o writebuf[s].data,
           writebuf[s].kind # "data" => y = peer[s]
    PROVE  OrderOf(Consumed(s), NoSend, y, written[s])
<1> DEFINE q == sk[s].output_data
           w == writebuf[s]
           d == w.data
           p == peer[s]
           m == written[s]
           k == Len(d)
           z == SubSeq(q, k + 1, Len(q))
           c == Consumed(s)
<1>0. /\ q \in Seq(Nat) /\ d \in Seq(Nat) /\ p \in Seq(Nat) /\ m \in Nat /\ k \in Nat
  BY Fields DEF TypeOK, Requests
<1>1. /\ Ascending(p) /\ Ascending(q) /\ AllBefore(p, q) /\ UpTo(p, m) /\ UpTo(q, m)
      /\ w.kind = "data" /\ sk[s].sending_oob =>
            Ascending(d) /\ AllBefore(p, d) /\ AllBefore(d, q) /\ UpTo(d, m)
      /\ w.kind = "data" /\ ~sk[s].sending_oob => IsPrefixOf(d, q)
  BY DEF OrderOK, OrderOf
<1>2. ~sk[s].sending_oob => k <= Len(q)
  BY DEF CallbacksOK, SenderOK
<1>3. ~sk[s].sending_oob =>
         /\ z \in Seq(Nat) /\ Len(z) = Len(q) - k /\ \A i \in 1 .. Len(z) : z[i] = q[i + k]
  BY <1>0, <1>2, RestIs
<1>4. /\ sk[s].sending_oob => c.output_data = q
      /\ ~sk[s].sending_oob => c.output_data = z
  <2>1. sk[s] \in SocketTag
    BY Fields
  <2>2. c = IF sk[s].sending_oob THEN [sk[s] EXCEPT !.sending_oob = FALSE]
            ELSE [sk[s] EXCEPT !.output_data = z]
    BY DEF Consumed
  <2> HIDE DEF z, c
  <2> QED
    BY <2>1, <2>2 DEF SocketTag
<1>5. NoSend.kind # "data"
  BY DEF NoSend
<1> HIDE DEF q, c, d, p, m, k, z, Ascending, AllBefore, UpTo, IsPrefixOf
<1>6. CASE w.kind = "data" /\ sk[s].sending_oob
  <2>1. y = p \o d
    BY <1>6 DEF p, d
  <2>2. Ascending(y) /\ AllBefore(y, q) /\ UpTo(y, m)
    BY <1>0, <1>1, <1>6, <2>1, OrderOfBoth
  <2> QED
    BY <1>1, <1>4, <1>5, <1>6, <2>2 DEF OrderOf, c, m
<1>7. CASE w.kind = "data" /\ ~sk[s].sending_oob
  <2>1. y = p \o d
    BY <1>7 DEF p, d
  <2>2. IsPrefixOf(d, q)
    BY <1>1, <1>7
  <2>3. Ascending(d) /\ AllBefore(p, d) /\ UpTo(d, m) /\ AllBefore(d, z)
    BY <1>0, <1>1, <2>2, OrderOfHead DEF z, k
  <2>4. Ascending(z) /\ AllBefore(p, z) /\ UpTo(z, m)
    BY <1>0, <1>1, <1>2, <1>3, <1>7, OrderOfRest
  <2>5. Ascending(y) /\ AllBefore(y, z) /\ UpTo(y, m)
    BY <1>0, <1>1, <1>3, <1>7, <2>1, <2>3, <2>4, OrderOfBoth
  <2> QED
    BY <1>4, <1>5, <1>7, <2>4, <2>5 DEF OrderOf, c, m
<1>8. CASE w.kind # "data" /\ sk[s].sending_oob
  BY <1>1, <1>4, <1>5, <1>8 DEF OrderOf, c, p, m
<1>9. CASE w.kind # "data" /\ ~sk[s].sending_oob
  <2>1. y = p
    BY <1>9 DEF p
  <2>4. Ascending(z) /\ AllBefore(p, z) /\ UpTo(z, m)
    BY <1>0, <1>1, <1>2, <1>3, <1>9, OrderOfRest
  <2> QED
    BY <1>1, <1>4, <1>5, <1>9, <2>1, <2>4 DEF OrderOf, c, m
<1> QED
  BY <1>6, <1>7, <1>8, <1>9

(* Steps that leave what is queued and what the peer has. *)
LEMMA OrderQuiet ==
    ASSUME OrderInv, UNCHANGED <<peer, written>>,
           \A t \in Sock :
              /\ sk'[t].output_data = sk[t].output_data
              /\ sk'[t].sending_oob = sk[t].sending_oob
              /\ writebuf'[t] = writebuf[t] \/ writebuf'[t] = NoSend
    PROVE  OrderInv'
<1>1. ASSUME NEW t \in Sock PROVE OrderOK(t)'
  BY OrderUnmoved DEF OrderInv
<1> QED
  BY <1>1 DEF OrderInv

LEMMA OrderWrite ==
    ASSUME TypeOK, EpocNetAssumption, OrderInv, NEW s \in Sock,
           NEW n \in 0 .. MaxWrite, Write(s, n)
    PROVE  OrderInv'
<1> DEFINE q == sk[s].output_data \o Run(written[s], n)
           r == [sk[s] EXCEPT !.output_data = q]
<1>1. n \in Nat /\ written[s] \in Nat /\ sk[s] \in SocketTag
      /\ sk[s].output_data \in Seq(Nat)
  BY Fields DEF TypeOK, EpocNetAssumption
<1>2. q \in Seq(Nat)
  BY <1>1, RunIsSeq, ConcatProperties
<1>3. /\ SenditIfWritable(s, r) /\ UNCHANGED peer
      /\ written'[s] = written[s] + n
      /\ \A t \in Sock \ {s} : written'[t] = written[t]
  BY DEF Write, TypeOK
<1> HIDE DEF q
<1>4. r \in SocketTag /\ r.output_data = q /\ r.sending_oob = sk[s].sending_oob
  BY <1>1, <1>2 DEF SocketTag
<1> HIDE DEF r
<1>5. OrderOf(r, writebuf[s], peer[s], written[s] + n)
  <2>1. OrderOK(s)
    BY DEF OrderInv
  <2>2. r.output_data = sk[s].output_data \o Run(written[s], n)
    BY <1>4 DEF q
  <2> QED
    BY <1>1, <1>4, <2>1, <2>2, OrderOfWrite
<1> QED
  BY <1>3, <1>4, <1>5, OrderOfSendit

LEMMA OrderWriteOob ==
    ASSUME TypeOK, EpocNetAssumption, OrderInv, NEW s \in Sock, WriteOob(s)
    PROVE  OrderInv'
<1> DEFINE r == [sk[s] EXCEPT !.output_data = <<>>, !.sending_oob = TRUE]
           q == sk[s].output_data
           w == writebuf[s]
           p == peer[s]
           m == written[s]
<1>1. SenditIfWritable(s, r) /\ UNCHANGED <<peer, written>>
  BY DEF WriteOob
<1>2. r \in SocketTag /\ r.output_data = <<>> /\ r.sending_oob
  BY Fields, EmptySeq DEF SocketTag
<1> HIDE DEF r
<1>3. /\ q \in Seq(Nat) /\ w.data \in Seq(Nat) /\ p \in Seq(Nat) /\ m \in Nat
      /\ <<>> \in Seq(Nat)
  BY Fields, EmptySeq DEF TypeOK, Requests
<1>4. OrderOf(sk[s], w, p, m)
  BY DEF OrderInv, OrderOK
<1> HIDE DEF q, w, p, m
<1>5. /\ Ascending(p) /\ Ascending(q) /\ AllBefore(p, q) /\ UpTo(p, m) /\ UpTo(q, m)
      /\ w.kind = "data" /\ sk[s].sending_oob =>
            Ascending(w.data) /\ AllBefore(p, w.data) /\ UpTo(w.data, m)
      /\ w.kind = "data" /\ ~sk[s].sending_oob => IsPrefixOf(w.data, q)
  BY <1>4 DEF OrderOf, q
<1> HIDE DEF Ascending, AllBefore, UpTo, IsPrefixOf
<1>6. w.kind = "data" =>
         Ascending(w.data) /\ AllBefore(p, w.data) /\ UpTo(w.data, m)
  BY <1>3, <1>5, OrderOfHead
<1>7. /\ Ascending(<<>>) /\ AllBefore(p, <<>>) /\ UpTo(<<>>, m) /\ AllBefore(w.data, <<>>)
  BY <1>3, OrderOfNone
<1>8. OrderOf(r, w, p, m)
  BY <1>2, <1>5, <1>6, <1>7 DEF OrderOf
<1> QED
  BY <1>1, <1>2, <1>8, OrderOfSendit DEF w, p, m

LEMMA SameQueue ==
    ASSUME TypeOK, NEW s \in Sock,
           \/ sk' = sk
           \/ sk' = [sk EXCEPT ![s].killing = TRUE]
           \/ sk' = [sk EXCEPT ![s].pending_error = TRUE]
           \/ sk' = [sk EXCEPT ![s].frozen = FALSE]
           \/ sk' = [sk EXCEPT ![s].frozen = TRUE, ![s].frozen_readable = FALSE]
           \/ sk' = [sk EXCEPT ![s].frozen_readable = TRUE]
           \/ sk' = [sk EXCEPT ![s].frozen_readable = FALSE]
           \/ sk' = [sk EXCEPT ![s] = [sk[s] EXCEPT !.phase = "closed"]]
    PROVE  \A t \in Sock :
              /\ sk'[t].output_data = sk[t].output_data
              /\ sk'[t].sending_oob = sk[t].sending_oob
<1> SUFFICES ASSUME NEW t \in Sock
             PROVE  /\ sk'[t].output_data = sk[t].output_data
                    /\ sk'[t].sending_oob = sk[t].sending_oob
  OBVIOUS
<1>1. sk[t] \in SocketTag /\ sk[s] \in SocketTag
  BY Fields
<1>2. CASE t = s
  BY <1>1, <1>2 DEF TypeOK, SocketTag
<1>3. CASE t # s
  BY <1>3 DEF TypeOK
<1> QED
  BY <1>2, <1>3

LEMMA OrderClose ==
    ASSUME TypeOK, OrderInv, NEW s \in Sock, Close(s)
    PROVE  OrderInv'
<1>1. /\ UNCHANGED <<peer, written>>
      /\ \/ sk' = [sk EXCEPT ![s].killing = TRUE] /\ UNCHANGED writebuf
         \/ Free(s, sk[s])
  BY DEF Close
<1>2. /\ \/ sk' = [sk EXCEPT ![s].killing = TRUE]
         \/ sk' = [sk EXCEPT ![s] = [sk[s] EXCEPT !.phase = "closed"]]
      /\ \A t \in Sock : writebuf'[t] = writebuf[t] \/ writebuf'[t] = NoSend
  BY <1>1 DEF Free, TypeOK
<1>3. \A t \in Sock :
         /\ sk'[t].output_data = sk[t].output_data
         /\ sk'[t].sending_oob = sk[t].sending_oob
  BY <1>2, SameQueue
<1> QED
  BY <1>1, <1>2, <1>3, OrderQuiet

LEMMA OrderSendDone ==
    ASSUME TypeOK, TypeOK', EpocNetAssumption, CallbacksOK, OrderInv, NEW s \in Sock, SendDone(s)
    PROVE  OrderInv'
<1>1. /\ UNCHANGED written
      /\ writebuf[s].kind = "data" => peer'[s] = peer[s] \o writebuf[s].data
      /\ writebuf[s].kind # "data" => peer'[s] = peer[s]
      /\ \A t \in Sock \ {s} : peer'[t] = peer[t]
      /\ peer'[s] \in Seq(Nat)
  BY DEF SendDone, TypeOK
<1>2. OrderOf(Consumed(s), NoSend, peer'[s], written[s])
  BY <1>1, OrderOfDone DEF OrderInv
<1>3. Consumed(s) \in SocketTag
  BY ConsumedIs
<1>4. CASE sk[s].killing
  <2>1. SendMore(s, Consumed(s))
    BY <1>4 DEF SendDone
  <2> QED
    BY <1>1, <1>2, <1>3, <2>1, OrderOfSendMore
<1>5. CASE ~sk[s].killing
  <2>1. sk' = [sk EXCEPT ![s] = Consumed(s)] /\ writebuf' = [writebuf EXCEPT ![s] = NoSend]
    BY <1>5 DEF SendDone
  <2>2. /\ sk'[s] = Consumed(s) /\ writebuf'[s] = NoSend
        /\ \A u \in Sock \ {s} : sk'[u] = sk[u] /\ writebuf'[u] = writebuf[u]
    BY <2>1 DEF TypeOK
  <2>3. OrderOK(s)'
    BY <1>1, <1>2, <2>2 DEF OrderOK
  <2> QED
    BY <1>1, <2>2, <2>3, OrderOthers
<1> QED
  BY <1>4, <1>5

LEMMA OrderReturnSent ==
    ASSUME TypeOK, EpocNetAssumption, CallbacksOK, OrderInv, ReturnSent
    PROVE  OrderInv'
<1>0. /\ stack # <<>> /\ Head(stack).fn = "sent" /\ stack' = Tail(stack) /\ FramesOf(stack)
      /\ UNCHANGED <<peer, written>>
  BY DEF CallbacksOK, ReturnSent
<1>1. PICK v \in Sock : v = Head(stack).s /\ InFrame("sent", v)
  BY <1>0, PopStack DEF Frames
<1>2. CASE sk[v].phase = "closed"
  BY <1>0, <1>1, <1>2, OrderQuiet DEF ReturnSent
<1>3. CASE sk[v].phase # "closed"
  <2>1. SendMore(v, sk[v])
    BY <1>1, <1>3 DEF ReturnSent
  <2>2. writebuf[v] = NoSend
    BY <1>1 DEF CallbacksOK, SenderOK
  <2>3. OrderOf(sk[v], NoSend, peer'[v], written[v])
    BY <1>0, <2>2 DEF OrderInv, OrderOK
  <2> QED
    BY <1>0, <2>1, <2>3, Fields, OrderOfSendMore
<1> QED
  BY <1>2, <1>3

LEMMA OrderStep ==
    TypeOK /\ TypeOK' /\ CallbacksOK /\ OrderInv /\ [Next]_vars => OrderInv'
<1> USE EpocNetAssumption
<1> SUFFICES ASSUME TypeOK, TypeOK', CallbacksOK, OrderInv, [Next]_vars PROVE OrderInv'
  OBVIOUS
<1> DEFINE Quiet ==
              /\ UNCHANGED <<peer, written>>
              /\ \A t \in Sock :
                    /\ sk'[t].output_data = sk[t].output_data
                    /\ sk'[t].sending_oob = sk[t].sending_oob
                    /\ writebuf'[t] = writebuf[t] \/ writebuf'[t] = NoSend
<1>0. Quiet => OrderInv'
  BY OrderQuiet
<1>1. ASSUME NEW s \in Sock, NEW b \in BOOLEAN, Open(s, b) PROVE Quiet
  BY <1>1, Fields DEF Open, TypeOK, SocketTag
<1>2. ASSUME NEW s \in Sock, Freeze(s) \/ Unfreeze(s) PROVE Quiet
  <2>1. /\ \/ sk' = [sk EXCEPT ![s].frozen = TRUE, ![s].frozen_readable = FALSE]
           \/ sk' = [sk EXCEPT ![s].frozen = FALSE]
        /\ UNCHANGED <<writebuf, peer, written>>
    BY <1>2 DEF Freeze, Unfreeze
  <2> QED
    BY <2>1, SameQueue
<1>3. ASSUME NEW s \in Sock, NEW n \in 1 .. MaxRead, RecvData(s, n) PROVE Quiet
  <2>1. /\ sk' = sk \/ sk' = [sk EXCEPT ![s].frozen_readable = TRUE]
        /\ UNCHANGED <<writebuf, peer, written>>
    BY <1>3 DEF RecvData
  <2> QED
    BY <2>1, SameQueue
<1>4. ASSUME NEW s \in Sock, RecvEnd(s) PROVE Quiet
  BY <1>4 DEF RecvEnd
<1>5. ASSUME NEW s \in Sock, SendFail(s) PROVE Quiet
  <2>1. /\ sk' = [sk EXCEPT ![s].pending_error = TRUE]
        /\ writebuf' = [writebuf EXCEPT ![s] = NoSend] /\ UNCHANGED <<peer, written>>
    BY <1>5 DEF SendFail
  <2>2. \A t \in Sock : writebuf'[t] = writebuf[t] \/ writebuf'[t] = NoSend
    BY <2>1 DEF TypeOK
  <2> QED
    BY <2>1, <2>2, SameQueue
<1>6. ASSUME ReturnFromRunL \/ ReturnFromReissue PROVE Quiet
  <2>1. PICK fn \in {"receive", "thaw"} : ReturnReceive(fn)
    BY <1>6 DEF ReturnFromRunL, ReturnFromReissue
  <2>2. Head(stack).s \in Sock
    BY <2>1, PopStack DEF ReturnReceive, CallbacksOK, Frames
  <2>3. /\ sk' = sk \/ sk' = [sk EXCEPT ![Head(stack).s].frozen_readable = FALSE]
        /\ UNCHANGED <<writebuf, peer, written>>
    BY <2>1 DEF ReturnReceive
  <2> QED
    BY <2>2, <2>3, SameQueue
<1>7. ASSUME ReturnClosing PROVE Quiet
  BY <1>7 DEF ReturnClosing
<1>8. CASE UNCHANGED vars
  BY <1>0, <1>8 DEF vars
<1> HIDE DEF Quiet
<1>9. ASSUME NEW s \in Sock, PlugCall(s) PROVE OrderInv'
  BY <1>0, <1>1, <1>2, <1>9, OrderWrite, OrderWriteOob, OrderClose DEF PlugCall
<1>10. ASSUME NEW s \in Sock, Event(s) PROVE OrderInv'
  BY <1>0, <1>3, <1>4, <1>5, <1>10, OrderSendDone DEF Event
<1>11. ASSUME Return PROVE OrderInv'
  BY <1>0, <1>6, <1>7, <1>11, OrderReturnSent DEF Return
<1> QED
  BY <1>8, <1>9, <1>10, <1>11 DEF Next

(* A peer never gets a byte twice, or after a later one, whatever urgent    *)
(* data is sent meanwhile and whichever Send() fails.                       *)
THEOREM OrderCorrect == Spec => []PeerInOrder
<1>1. OrderInv => PeerInOrder
  BY DEF OrderInv, OrderOK, OrderOf, Ascending, PeerInOrder
<1> QED
  BY <1>1, TypeInit, TypeStep, CallbacksInit, CallbacksStep, OrderInit, OrderStep, PTL
     DEF Spec

-------------------------------------------------------------------------------
(* The refinement.  A plug's write and its close are those of ByteStream; a *)
(* completed Send() is its Carry; everything else is a step that ByteStream *)
(* does not see.                                                            *)

Closing(s) == ~held[s] /\ sk[s].phase # "unused"
Gone(s) == sk[s].phase = "closed"

LEMMA StreamInitial == Init => Stream!Init
<1> SUFFICES ASSUME Init PROVE Stream!Init
  OBVIOUS
<1>1. Len(<<>>) = 0
  BY EmptySeq
<1>2. \A s \in Plain : s \in Sock
  BY DEF Plain
<1>3. /\ [s \in Plain |-> written[s]] = [s \in Plain |-> 0]
      /\ [s \in Plain |-> Len(peer[s])] = [s \in Plain |-> 0]
      /\ [s \in Plain |-> ~held[s] /\ sk[s].phase # "unused"] = [s \in Plain |-> FALSE]
      /\ [s \in Plain |-> sk[s].phase = "closed"] = [s \in Plain |-> FALSE]
  <2>1. \A s \in Plain : written[s] = 0 /\ Len(peer[s]) = 0
    BY <1>1, <1>2 DEF Init
  <2>2. \A s \in Plain : sk[s].phase = "unused"
    BY <1>2 DEF Init
  <2>3. \A s \in Plain : (~held[s] /\ sk[s].phase # "unused") = FALSE
    BY <2>2
  <2>4. \A s \in Plain : (sk[s].phase = "closed") = FALSE
    BY <2>2
  <2>5. [s \in Plain |-> ~held[s] /\ sk[s].phase # "unused"] = [s \in Plain |-> FALSE]
    BY <2>3, Zenon
  <2>6. [s \in Plain |-> sk[s].phase = "closed"] = [s \in Plain |-> FALSE]
    BY <2>4, Zenon
  <2> QED
    BY <2>1, <2>5, <2>6
<1> QED
  BY <1>3 DEF Stream!Init

LEMMA StreamStutter ==
    ASSUME \A t \in Plain :
              /\ written'[t] = written[t] /\ peer'[t] = peer[t]
              /\ Closing(t)' <=> Closing(t)
              /\ Gone(t)' <=> Gone(t)
    PROVE  UNCHANGED Stream!vars
<1>1. /\ [s \in Plain |-> written[s]]' = [s \in Plain |-> written[s]]
      /\ [s \in Plain |-> Len(peer[s])]' = [s \in Plain |-> Len(peer[s])]
  OBVIOUS
<1>2. \A s \in Plain :
         /\ (~held'[s] /\ sk'[s].phase # "unused") = (~held[s] /\ sk[s].phase # "unused")
         /\ (sk'[s].phase = "closed") = (sk[s].phase = "closed")
  BY Zenon DEF Closing, Gone
<1>3. [s \in Plain |-> ~held[s] /\ sk[s].phase # "unused"]'
         = [s \in Plain |-> ~held[s] /\ sk[s].phase # "unused"]
  BY <1>2, Zenon
<1>4. [s \in Plain |-> sk[s].phase = "closed"]' = [s \in Plain |-> sk[s].phase = "closed"]
  BY <1>2, Zenon
<1> QED
  BY <1>1, <1>3, <1>4 DEF Stream!vars

LEMMA StreamWrites ==
    ASSUME NEW s \in Plain, ~Closing(s), NEW n \in written[s] .. MaxWrite,
           written'[s] = n,
           \A t \in Plain \ {s} : written'[t] = written[t],
           \A t \in Plain : peer'[t] = peer[t] /\ (Closing(t)' <=> Closing(t))
                                               /\ (Gone(t)' <=> Gone(t))
    PROVE  Stream!Write(s)
<1> DEFINE W == [t \in Plain |-> written[t]]
           C == [t \in Plain |-> ~held[t] /\ sk[t].phase # "unused"]
           G == [t \in Plain |-> sk[t].phase = "closed"]
<1>1. W' = [W EXCEPT ![s] = n]
  OBVIOUS
<1>2. [t \in Plain |-> Len(peer[t])]' = [t \in Plain |-> Len(peer[t])]
  OBVIOUS
<1>3. \A t \in Plain :
         /\ (~held'[t] /\ sk'[t].phase # "unused") = (~held[t] /\ sk[t].phase # "unused")
         /\ (sk'[t].phase = "closed") = (sk[t].phase = "closed")
  BY Zenon DEF Closing, Gone
<1>4. C' = C
  BY <1>3, Zenon
<1>5. G' = G
  BY <1>3, Zenon
<1>6. ~C[s]
  BY DEF Closing
<1>7. n \in W[s] .. MaxWrite
  OBVIOUS
<1> QED
  BY <1>1, <1>2, <1>4, <1>5, <1>6, <1>7 DEF Stream!Write

LEMMA StreamCarries ==
    ASSUME NEW s \in Plain, ~Gone(s),
           Len(peer'[s]) \in Len(peer[s]) + 1 .. written[s],
           \A t \in Plain \ {s} : peer'[t] = peer[t] /\ (Gone(t)' <=> Gone(t)),
           \A t \in Plain : written'[t] = written[t] /\ (Closing(t)' <=> Closing(t)),
           \/ Gone(s)' <=> Gone(s)
           \/ Gone(s)' /\ Closing(s) /\ Len(peer'[s]) = written[s]
    PROVE  Stream!Carry(s)
<1> DEFINE W == [t \in Plain |-> written[t]]
           R == [t \in Plain |-> Len(peer[t])]
           C == [t \in Plain |-> ~held[t] /\ sk[t].phase # "unused"]
           G == [t \in Plain |-> sk[t].phase = "closed"]
           n == Len(peer'[s])
<1>1. W' = W
  OBVIOUS
<1>2. R' = [R EXCEPT ![s] = n] /\ R[s] = Len(peer[s]) /\ W[s] = written[s]
  OBVIOUS
<1>3. \A t \in Plain :
         (~held'[t] /\ sk'[t].phase # "unused") = (~held[t] /\ sk[t].phase # "unused")
  BY Zenon DEF Closing
<1>4. C' = C
  BY <1>3, Zenon
<1>5. ~G[s]
  BY DEF Gone
<1>6. n \in R[s] + 1 .. W[s]
  BY <1>2
<1>7. UNCHANGED G \/ (C[s] /\ n = W[s] /\ G' = [G EXCEPT ![s] = TRUE])
  <2>1. CASE Gone(s)' <=> Gone(s)
    <3>1. \A t \in Plain : (sk'[t].phase = "closed") = (sk[t].phase = "closed")
      BY <2>1, Zenon DEF Gone
    <3>2. G' = G
      BY <3>1, Zenon
    <3> QED
      BY <3>2
  <2>2. CASE Gone(s)' /\ Closing(s) /\ Len(peer'[s]) = written[s]
    <3>1. \A t \in Plain : (sk'[t].phase = "closed") = (IF t = s THEN TRUE ELSE G[t])
      <4> SUFFICES ASSUME NEW t \in Plain
                   PROVE  (sk'[t].phase = "closed") = (IF t = s THEN TRUE ELSE G[t])
        OBVIOUS
      <4>1. CASE t = s
        BY <2>2, <4>1 DEF Gone
      <4>2. CASE t # s
        BY <4>2 DEF Gone
      <4> QED
        BY <4>1, <4>2
    <3>2. G' = [t \in Plain |-> IF t = s THEN TRUE ELSE G[t]]
      BY <3>1, Zenon
    <3>3. G' = [G EXCEPT ![s] = TRUE]
      BY <3>2
    <3>4. C[s]
      BY <2>2 DEF Closing
    <3> QED
      BY <2>2, <3>3, <3>4
  <2> QED
    BY <2>1, <2>2
<1>8. (R')[s] = n
  BY <1>2
<1> HIDE DEF W, R, C, G, n
<1>9. /\ ~G[s]
      /\ \E k \in R[s] + 1 .. W[s] : R' = [R EXCEPT ![s] = k]
      /\ UNCHANGED G \/ (C[s] /\ (R')[s] = W[s] /\ G' = [G EXCEPT ![s] = TRUE])
      /\ UNCHANGED <<W, C>>
  BY <1>1, <1>2, <1>4, <1>5, <1>6, <1>7, <1>8
<1> QED
  BY <1>9 DEF Stream!Carry, W, R, C, G

LEMMA StreamCloses ==
    ASSUME NEW s \in Plain, ~Closing(s), Closing(s)',
           Gone(s)' <=> Len(peer[s]) = written[s],
           \A t \in Plain \ {s} : (Closing(t)' <=> Closing(t)) /\ (Gone(t)' <=> Gone(t)),
           \A t \in Plain : written'[t] = written[t] /\ peer'[t] = peer[t]
    PROVE  Stream!Close(s)
<1> DEFINE W == [t \in Plain |-> written[t]]
           R == [t \in Plain |-> Len(peer[t])]
           C == [t \in Plain |-> ~held[t] /\ sk[t].phase # "unused"]
           G == [t \in Plain |-> sk[t].phase = "closed"]
<1>1. W' = W /\ R' = R /\ W[s] = written[s] /\ R[s] = Len(peer[s])
  OBVIOUS
<1>2. ~C[s]
  BY DEF Closing
<1>3. C' = [C EXCEPT ![s] = TRUE]
  <2>1. \A t \in Plain : (~held'[t] /\ sk'[t].phase # "unused") = (IF t = s THEN TRUE ELSE C[t])
    <3> SUFFICES ASSUME NEW t \in Plain
                 PROVE  (~held'[t] /\ sk'[t].phase # "unused") = (IF t = s THEN TRUE ELSE C[t])
      OBVIOUS
    <3>1. CASE t = s
      BY <3>1 DEF Closing
    <3>2. CASE t # s
      BY <3>2 DEF Closing
    <3> QED
      BY <3>1, <3>2
  <2>2. C' = [t \in Plain |-> IF t = s THEN TRUE ELSE C[t]]
    BY <2>1, Zenon
  <2> QED
    BY <2>2
<1>4. G' = [G EXCEPT ![s] = (R[s] = W[s])]
  <2>1. \A t \in Plain : (sk'[t].phase = "closed") = (IF t = s THEN R[s] = W[s] ELSE G[t])
    <3> SUFFICES ASSUME NEW t \in Plain
                 PROVE  (sk'[t].phase = "closed") = (IF t = s THEN R[s] = W[s] ELSE G[t])
      OBVIOUS
    <3>1. CASE t = s
      BY <1>1, <3>1 DEF Gone
    <3>2. CASE t # s
      BY <3>2 DEF Gone
    <3> QED
      BY <3>1, <3>2
  <2>2. G' = [t \in Plain |-> IF t = s THEN R[s] = W[s] ELSE G[t]]
    BY <2>1, Zenon
  <2> QED
    BY <2>2
<1> HIDE DEF W, R, C, G
<1>5. /\ ~C[s] /\ C' = [C EXCEPT ![s] = TRUE]
      /\ G' = [G EXCEPT ![s] = (R[s] = W[s])] /\ UNCHANGED <<W, R>>
  BY <1>1, <1>2, <1>3, <1>4
<1> QED
  BY <1>5 DEF Stream!Close, W, R, C, G

Unseen ==
    \A t \in Plain :
       /\ written'[t] = written[t] /\ peer'[t] = peer[t]
       /\ Closing(t)' <=> Closing(t)
       /\ Gone(t)' <=> Gone(t)

LEMMA UnseenPhases ==
    ASSUME UNCHANGED <<written, peer, held>>,
           \A t \in Sock : sk'[t].phase = sk[t].phase
    PROVE  Unseen
BY DEF Unseen, Closing, Gone, Plain

LEMMA SamePhase ==
    ASSUME TypeOK, NEW s \in Sock,
           \/ sk' = sk
           \/ sk' = [sk EXCEPT ![s].killing = TRUE]
           \/ sk' = [sk EXCEPT ![s].pending_error = TRUE]
           \/ sk' = [sk EXCEPT ![s].frozen = FALSE]
           \/ sk' = [sk EXCEPT ![s].frozen = TRUE, ![s].frozen_readable = FALSE]
           \/ sk' = [sk EXCEPT ![s].frozen_readable = TRUE]
           \/ sk' = [sk EXCEPT ![s].frozen_readable = FALSE]
    PROVE  \A t \in Sock : sk'[t].phase = sk[t].phase
<1> SUFFICES ASSUME NEW t \in Sock PROVE sk'[t].phase = sk[t].phase
  OBVIOUS
<1>1. sk[t] \in SocketTag /\ sk[s] \in SocketTag
  BY Fields
<1>2. CASE t = s
  BY <1>1, <1>2 DEF TypeOK, SocketTag
<1>3. CASE t # s
  BY <1>3 DEF TypeOK
<1> QED
  BY <1>2, <1>3

LEMMA WritePhase ==
    ASSUME TypeOK, EpocNetAssumption, NEW s \in Sock, NEW r \in SocketTag,
           SenditIfWritable(s, r), r.phase = sk[s].phase
    PROVE  \A t \in Sock : sk'[t].phase = sk[t].phase
<1>1. CASE r.writable
  <2>1. Sendit(s, r)
    BY <1>1 DEF SenditIfWritable
  <2>2. SameFields(sk'[s], r) /\ \A u \in Sock \ {s} : sk'[u] = sk[u]
    BY <2>1, SenditIs
  <2>3. sk'[s].phase = sk[s].phase
    BY <2>2 DEF SameFields
  <2> QED
    BY <2>2, <2>3
<1>2. CASE ~r.writable
  BY <1>2 DEF SenditIfWritable, TypeOK
<1> QED
  BY <1>1, <1>2

(* How much the peer of a plain socket has, and is still to get. *)
LEMMA PlainLengths ==
    ASSUME StreamInv, NEW s \in Plain
    PROVE  /\ Len(peer[s]) \in Nat /\ written[s] \in Nat
           /\ Len(peer[s]) + Len(sk[s].output_data) = written[s]
           /\ sk[s].output_data = <<>> <=> Len(peer[s]) = written[s]
           /\ writebuf[s].kind # "oob" /\ ~sk[s].sending_oob
           /\ Len(writebuf[s].data) <= Len(sk[s].output_data)
<1> DEFINE p == peer[s]
           q == sk[s].output_data
<1>1. s \in Sock /\ s \notin OobSock /\ TypeOK
  BY DEF Plain, StreamInv
<1>2. p \in Seq(Nat) /\ q \in Seq(Nat) /\ written[s] \in Nat /\ Len(p) \in Nat /\ Len(q) \in Nat
  BY <1>1, Fields, LenProperties DEF TypeOK
<1>3. /\ p \o q = Run(0, written[s])
      /\ writebuf[s].kind # "oob" /\ ~sk[s].sending_oob
      /\ Len(writebuf[s].data) <= Len(q)
  BY <1>1 DEF StreamInv, DataOK, DataOf, IsPrefixOf
<1> HIDE DEF p, q
<1>4. Len(p \o q) = Len(p) + Len(q)
  BY <1>2, ConcatProperties
<1>5. Len(p) + Len(q) = written[s]
  <2>1. Len(Run(0, written[s])) = written[s]
    BY <1>2, RunIsSeq
  <2> QED
    BY <1>3, <1>4, <2>1
<1>6. q = <<>> <=> Len(p) = written[s]
  <2>1. q = <<>> <=> Len(q) = 0
    BY <1>2, EmptySeq
  <2>2. Len(q) = 0 <=> Len(p) = written[s]
    BY <1>2, <1>5
  <2> QED
    BY <2>1, <2>2
<1> QED
  BY <1>2, <1>3, <1>5, <1>6 DEF p, q

LEMMA RefineWrite ==
    ASSUME StreamInv, EpocNetAssumption, CallbacksOK, NEW s \in Sock,
           NEW n \in 0 .. MaxWrite, Write(s, n)
    PROVE  Unseen \/ (s \in Plain /\ Stream!Write(s))
<1> DEFINE q == sk[s].output_data \o Run(written[s], n)
           r == [sk[s] EXCEPT !.output_data = q]
<1>1. /\ TypeOK /\ n \in Nat /\ written[s] \in Nat /\ sk[s] \in SocketTag
      /\ sk[s].output_data \in Seq(Nat) /\ MaxWrite \in Nat
  BY Fields DEF StreamInv, TypeOK, EpocNetAssumption
<1>2. q \in Seq(Nat)
  BY <1>1, RunIsSeq, ConcatProperties
<1>3. /\ SenditIfWritable(s, r) /\ UNCHANGED <<peer, held>> /\ held[s]
      /\ written'[s] = written[s] + n /\ written[s] + n <= MaxWrite
      /\ \A t \in Sock \ {s} : written'[t] = written[t]
  BY <1>1 DEF Write, MayCall, TypeOK
<1> HIDE DEF q
<1>4. r \in SocketTag /\ r.phase = sk[s].phase
  BY <1>1, <1>2 DEF SocketTag
<1> HIDE DEF r
<1>5. \A t \in Sock : sk'[t].phase = sk[t].phase
  BY <1>1, <1>3, <1>4, WritePhase
<1>6. \A t \in Plain : (Closing(t)' <=> Closing(t)) /\ (Gone(t)' <=> Gone(t)) /\ t \in Sock
  BY <1>3, <1>5 DEF Closing, Gone, Plain
<1>7. CASE s \in Plain
  <2>1. ~Closing(s)
    BY <1>3 DEF Closing
  <2>2. written'[s] \in written[s] .. MaxWrite
    BY <1>1, <1>3
  <2> QED
    BY <1>3, <1>6, <1>7, <2>1, <2>2, StreamWrites
<1>8. CASE s \notin Plain
  BY <1>3, <1>6, <1>8 DEF Unseen
<1> QED
  BY <1>7, <1>8

LEMMA RefineClose ==
    ASSUME StreamInv, CallbacksOK, NEW s \in Sock, Close(s)
    PROVE  Unseen \/ (s \in Plain /\ Stream!Close(s))
<1>1. /\ TypeOK /\ held[s] /\ ~sk[s].killing /\ sk[s].phase = "open"
      /\ held'[s] = FALSE /\ UNCHANGED <<written, peer>>
      /\ \A t \in Sock \ {s} : held'[t] = held[t]
      /\ sk[s] \in SocketTag
  BY Fields DEF StreamInv, CallbacksOK, SenderOK, Close, MayCall, TypeOK
<1>2. /\ sk[s].output_data # <<>> => sk' = [sk EXCEPT ![s].killing = TRUE]
      /\ sk[s].output_data = <<>> => sk' = [sk EXCEPT ![s] = [sk[s] EXCEPT !.phase = "closed"]]
  BY <1>1 DEF Close, Free
<1>3. /\ sk[s].output_data # <<>> => sk'[s].phase = "open"
      /\ sk[s].output_data = <<>> => sk'[s].phase = "closed"
      /\ \A t \in Sock \ {s} : sk'[t] = sk[t]
  BY <1>1, <1>2 DEF TypeOK, SocketTag
<1>4. \A t \in Plain \ {s} :
         (Closing(t)' <=> Closing(t)) /\ (Gone(t)' <=> Gone(t)) /\ t \in Sock
  BY <1>1, <1>3 DEF Closing, Gone, Plain
<1>5. CASE s \in Plain
  <2>1. sk[s].output_data = <<>> <=> Len(peer[s]) = written[s]
    BY <1>5, PlainLengths
  <2>2. ~Closing(s) /\ Closing(s)' /\ (Gone(s)' <=> Len(peer[s]) = written[s])
    BY <1>1, <1>3, <2>1 DEF Closing, Gone
  <2> QED
    BY <1>1, <1>4, <1>5, <2>2, StreamCloses
<1>6. CASE s \notin Plain
  BY <1>1, <1>4, <1>6 DEF Unseen
<1> QED
  BY <1>5, <1>6

LEMMA RefineSendDone ==
    ASSUME StreamInv, StreamInv', EpocNetAssumption, CallbacksOK, NEW s \in Sock, SendDone(s)
    PROVE  Unseen \/ (s \in Plain /\ Stream!Carry(s))
<1>1. /\ TypeOK /\ TypeOK' /\ UNCHANGED <<written, held>> /\ sk[s].phase = "open"
      /\ writebuf[s].kind # "none"
      /\ writebuf[s].kind = "data" => peer'[s] = peer[s] \o writebuf[s].data
      /\ \A t \in Sock \ {s} : peer'[t] = peer[t]
  BY DEF StreamInv, SendDone, MayRun, TypeOK
<1>2. Consumed(s) \in SocketTag /\ Consumed(s).phase = "open" /\ Consumed(s).killing = sk[s].killing
  BY <1>1, ConsumedIs
<1>3. /\ \/ sk'[s].phase = "open"
         \/ sk[s].killing /\ sk'[s].phase = "closed" /\ sk'[s].output_data = <<>>
      /\ \A t \in Sock \ {s} : sk'[t] = sk[t]
  <2>1. CASE sk[s].killing
    <3>1. SendMore(s, Consumed(s))
      BY <2>1 DEF SendDone
    <3> DEFINE c == Consumed(s)
    <3> HIDE DEF c
    <3>2. /\ \/ SameFields(sk'[s], c)
             \/ sk'[s].phase = "closed" /\ sk'[s].output_data = <<>>
          /\ \A u \in Sock \ {s} : sk'[u] = sk[u]
      <4>1. c \in SocketTag /\ SendMore(s, c) /\ TypeOK
        BY <1>1, <1>2, <3>1 DEF c
      <4> QED
        BY <4>1, SendMoreIs
    <3>3. SameFields(sk'[s], c) => sk'[s].phase = "open"
      BY <1>2 DEF SameFields, c
    <3> QED
      BY <2>1, <3>2, <3>3
  <2>2. CASE ~sk[s].killing
    BY <1>1, <1>2, <2>2 DEF SendDone, TypeOK
  <2> QED
    BY <2>1, <2>2
<1>4. ~held[s] \/ ~sk[s].killing
  BY DEF CallbacksOK, SenderOK
<1>5. \A t \in Plain : (Closing(t)' <=> Closing(t)) /\ t \in Sock
  <2>1. \A t \in Sock : sk'[t].phase = "unused" <=> sk[t].phase = "unused"
    BY <1>1, <1>3
  <2> QED
    BY <1>1, <2>1 DEF Closing, Plain
<1>6. \A t \in Plain \ {s} : peer'[t] = peer[t] /\ (Gone(t)' <=> Gone(t))
  BY <1>1, <1>3, <1>5 DEF Gone
<1>7. CASE s \in Plain
  <2>1. /\ Len(peer[s]) \in Nat /\ written[s] \in Nat /\ writebuf[s].kind # "oob"
        /\ Len(peer[s]) + Len(sk[s].output_data) = written[s]
        /\ Len(writebuf[s].data) <= Len(sk[s].output_data)
    BY <1>7, PlainLengths
  <2>2. /\ peer[s] \in Seq(Nat) /\ writebuf[s].data \in Seq(Nat)
        /\ Len(writebuf[s].data) \in Nat /\ Len(sk[s].output_data) \in Nat
    BY <1>1, Fields DEF TypeOK, Requests
  <2>3. writebuf[s].kind = "data"
    BY <1>1, <2>1, Fields DEF Requests
  <2>4. Len(writebuf[s].data) # 0
    <3>1. writebuf[s].data # <<>>
      BY <2>3 DEF CallbacksOK, SenderOK
    <3> QED
      BY <2>2, <3>1, EmptySeq
  <2>5. Len(peer'[s]) = Len(peer[s]) + Len(writebuf[s].data)
    <3> DEFINE p == peer[s]
               d == writebuf[s].data
    <3>1. p \in Seq(Nat) /\ d \in Seq(Nat) /\ peer'[s] = p \o d
      BY <1>1, <2>2, <2>3
    <3> HIDE DEF p, d
    <3>2. Len(p \o d) = Len(p) + Len(d)
      BY <3>1, ConcatProperties
    <3>3. Len(peer'[s]) = Len(p) + Len(d)
      BY <3>1, <3>2
    <3> QED
      BY <3>3 DEF p, d
  <2>6. Len(peer'[s]) \in Len(peer[s]) + 1 .. written[s]
    <3> DEFINE a == Len(peer[s])
               b == Len(writebuf[s].data)
               q == Len(sk[s].output_data)
               y == Len(peer'[s])
    <3>1. a \in Nat /\ b \in Nat /\ q \in Nat /\ a + q = written[s] /\ b <= q /\ b # 0
          /\ y = a + b
      BY <2>1, <2>2, <2>4, <2>5
    <3> HIDE DEF a, b, q, y
    <3>2. y \in a + 1 .. written[s]
      BY <3>1
    <3> QED
      BY <3>2 DEF a, y
  <2>7. ~Gone(s)
    BY <1>1 DEF Gone
  <2>8. \/ Gone(s)' <=> Gone(s)
        \/ Gone(s)' /\ Closing(s) /\ Len(peer'[s]) = written[s]
    <3>1. CASE sk'[s].phase = "open"
      BY <1>1, <3>1 DEF Gone
    <3>2. CASE sk[s].killing /\ sk'[s].phase = "closed" /\ sk'[s].output_data = <<>>
      <4>1. DataOK(s)'
        BY <1>5, <1>7 DEF StreamInv, Plain
      <4>2. peer'[s] \o <<>> = Run(0, written'[s]) /\ peer'[s] \in Seq(Nat)
        BY <1>1, <3>2, <4>1 DEF DataOK, DataOf, TypeOK
      <4>3. Len(peer'[s]) = written[s]
        BY <1>1, <2>1, <4>2, ConcatEmptySeq, RunIsSeq
      <4> QED
        BY <1>1, <1>4, <3>2, <4>3 DEF Gone, Closing
    <3> QED
      BY <1>3, <3>1, <3>2
  <2> QED
    BY <1>1, <1>5, <1>6, <1>7, <2>6, <2>7, <2>8, StreamCarries
<1>8. CASE s \notin Plain
  BY <1>1, <1>5, <1>6, <1>8 DEF Unseen
<1> QED
  BY <1>7, <1>8

LEMMA RefineReturnSent ==
    ASSUME StreamInv, EpocNetAssumption, CallbacksOK, ReturnSent
    PROVE  Unseen
<1>0. /\ stack # <<>> /\ Head(stack).fn = "sent" /\ stack' = Tail(stack) /\ FramesOf(stack)
      /\ UNCHANGED <<peer, written, held>> /\ TypeOK
  BY DEF CallbacksOK, ReturnSent, StreamInv
<1>1. PICK v \in Sock : v = Head(stack).s /\ InFrame("sent", v)
  BY <1>0, PopStack DEF Frames
<1>2. CASE sk[v].phase = "closed"
  BY <1>0, <1>1, <1>2, UnseenPhases DEF ReturnSent
<1>3. CASE sk[v].phase # "closed"
  <2>1. SendMore(v, sk[v])
    BY <1>1, <1>3 DEF ReturnSent
  <2>2. sk[v].killing => sk[v].output_data # <<>>
    BY <1>1 DEF CallbacksOK, SenderOK
  <2>3. \A t \in Sock : sk'[t].phase = sk[t].phase
    <3>1. sk[v] \in SocketTag
      BY <1>0, Fields
    <3>2. /\ SameFields(sk'[v], sk[v])
          /\ \A u \in Sock \ {v} : sk'[u] = sk[u]
      BY <1>0, <2>1, <2>2, <3>1, SendMoreIs
    <3>3. sk'[v].phase = sk[v].phase
      BY <3>2 DEF SameFields
    <3> QED
      BY <3>2, <3>3
  <2> QED
    BY <1>0, <2>3, UnseenPhases
<1> QED
  BY <1>2, <1>3

LEMMA StreamRefined ==
    StreamInv /\ StreamInv' /\ CallbacksOK /\ [Next]_vars => [Stream!Next]_(Stream!vars)
<1> USE EpocNetAssumption
<1> SUFFICES ASSUME StreamInv, StreamInv', CallbacksOK, [Next]_vars
             PROVE  Stream!Next \/ UNCHANGED Stream!vars
  OBVIOUS
<1>t. TypeOK
  BY DEF StreamInv
<1>0. Unseen => UNCHANGED Stream!vars
  BY StreamStutter DEF Unseen
<1>1. ASSUME NEW s \in Sock, PlugCall(s) PROVE Unseen \/ Stream!Next
  <2>1. ASSUME NEW b \in BOOLEAN, Open(s, b) PROVE Unseen
    <3>1. /\ UNCHANGED <<written, peer>> /\ sk[s].phase = "unused" /\ ~held[s] /\ held'[s]
          /\ \A t \in Sock \ {s} : held'[t] = held[t] /\ sk'[t] = sk[t]
      BY <1>t, <2>1 DEF Open, TypeOK, CallbacksOK, SenderOK
    <3>2. sk'[s].phase = "open"
      BY <1>t, <2>1, Fields DEF Open, TypeOK, SocketTag
    <3> QED
      BY <3>1, <3>2 DEF Unseen, Closing, Gone, Plain
  <2>2. ASSUME WriteOob(s) PROVE Unseen
    <3> DEFINE r == [sk[s] EXCEPT !.output_data = <<>>, !.sending_oob = TRUE]
    <3>1. SenditIfWritable(s, r) /\ UNCHANGED <<peer, written, held>>
      BY <2>2 DEF WriteOob
    <3>2. r \in SocketTag /\ r.phase = sk[s].phase
      BY <1>t, Fields, EmptySeq DEF SocketTag
    <3> HIDE DEF r
    <3> QED
      BY <1>t, <3>1, <3>2, WritePhase, UnseenPhases
  <2>3. ASSUME Freeze(s) \/ Unfreeze(s) PROVE Unseen
    <3>1. /\ \/ sk' = [sk EXCEPT ![s].frozen = TRUE, ![s].frozen_readable = FALSE]
             \/ sk' = [sk EXCEPT ![s].frozen = FALSE]
          /\ UNCHANGED <<held, peer, written>>
      BY <2>3 DEF Freeze, Unfreeze
    <3> QED
      BY <1>t, <3>1, SamePhase, UnseenPhases
  <2> QED
    BY <1>1, <2>1, <2>2, <2>3, RefineWrite, RefineClose DEF PlugCall, Stream!Next
<1>2. ASSUME NEW s \in Sock, Event(s) PROVE Unseen \/ Stream!Next
  <2>1. ASSUME NEW n \in 1 .. MaxRead, RecvData(s, n) PROVE Unseen
    <3>1. /\ sk' = sk \/ sk' = [sk EXCEPT ![s].frozen_readable = TRUE]
          /\ UNCHANGED <<held, peer, written>>
      BY <2>1 DEF RecvData
    <3> QED
      BY <1>t, <3>1, SamePhase, UnseenPhases
  <2>2. ASSUME RecvEnd(s) \/ SendFail(s) PROVE Unseen
    <3>1. /\ sk' = sk \/ sk' = [sk EXCEPT ![s].pending_error = TRUE]
          /\ UNCHANGED <<held, peer, written>>
      BY <2>2 DEF RecvEnd, SendFail
    <3> QED
      BY <1>t, <3>1, SamePhase, UnseenPhases
  <2> QED
    BY <1>2, <2>1, <2>2, RefineSendDone DEF Event, Stream!Next
<1>3. ASSUME Return PROVE Unseen
  <2>1. ASSUME ReturnFromRunL \/ ReturnFromReissue PROVE Unseen
    <3>1. PICK fn \in {"receive", "thaw"} : ReturnReceive(fn)
      BY <2>1 DEF ReturnFromRunL, ReturnFromReissue
    <3>2. Head(stack).s \in Sock
      BY <1>t, <3>1, PopStack DEF ReturnReceive, CallbacksOK, Frames
    <3>3. /\ sk' = sk \/ sk' = [sk EXCEPT ![Head(stack).s].frozen_readable = FALSE]
          /\ UNCHANGED <<held, peer, written>>
      BY <3>1 DEF ReturnReceive
    <3> QED
      BY <1>t, <3>2, <3>3, SamePhase, UnseenPhases
  <2>2. ASSUME ReturnClosing PROVE Unseen
    BY <2>2, UnseenPhases DEF ReturnClosing
  <2> QED
    BY <1>3, <2>1, <2>2, RefineReturnSent DEF Return
<1>4. ASSUME UNCHANGED vars PROVE Unseen
  BY <1>4, UnseenPhases DEF vars
<1> QED
  BY <1>0, <1>1, <1>2, <1>3, <1>4 DEF Next

(* On the sockets without urgent data the layer implements the byte stream  *)
(* a plug expects, through any writes, callbacks, errors and closes.        *)
THEOREM RefinementCorrect == Spec => ImplementsByteStream
<1>1. Spec => [](StreamInv /\ CallbacksOK)
  BY StreamAlways, CallbacksAlways, PTL
<1>2. Spec => Stream!Spec
  BY <1>1, StreamInitial, StreamRefined, PTL DEF Spec, Stream!Spec
<1> QED
  BY <1>2 DEF ImplementsByteStream
===============================================================================
