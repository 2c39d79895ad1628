--------------------------- MODULE Ssh1ChannelsProofs ---------------------------
(***************************************************************************)
(* Proofs about Ssh1Channels, for any finite set of channels, any limit,    *)
(* any segments and any bounds.                                             *)
(***************************************************************************)
EXTENDS Ssh1Channels, FiniteSetTheorems, SequenceTheorems, WellFoundedInduction, TLAPS

(* The count is right only because a channel that has been deleted does not *)
(* throttle: its record is used for the next one.                           *)
DeletedAreQuiet ==
    \A c \in Chan : channel[c].type = "none" => ~channel[c].throttling

IInv == TypeOK /\ CountIsReasons /\ DeletedAreQuiet

-------------------------------------------------------------------------------
(* Lemmas about sequences, and about packets.                               *)

LEMMA SubSeqType ==
    ASSUME NEW S, NEW q \in Seq(S), NEW k \in Nat
    PROVE  /\ SubSeq(q, k + 1, Len(q)) \in Seq(S)
           /\ k <= Len(q) => SubSeq(q, 1, k) \in Seq(S)
<1>1. /\ \A i \in 1 .. Len(q) : q[i] \in S
      /\ Len(q) \in Nat
  BY ElementOfSeq, LenProperties
<1>2. SubSeq(q, k + 1, Len(q)) \in Seq(S)
  <2>1. \A i \in (k + 1) .. Len(q) : q[i] \in S
    BY <1>1
  <2> QED
    BY <2>1, <1>1, SubSeqProperties
<1>3. ASSUME k <= Len(q) PROVE SubSeq(q, 1, k) \in Seq(S)
  <2>1. \A i \in 1 .. k : q[i] \in S
    BY <1>1, <1>3
  <2> QED
    BY <2>1, SubSeqProperties
<1> QED
  BY <1>2, <1>3

LEMMA TailType ==
    ASSUME NEW S, NEW q \in Seq(S), q # <<>>
    PROVE  Head(q) \in S /\ Tail(q) \in Seq(S)
BY HeadTailProperties

(* The packet that is processed is one, and names a channel unless it opens *)
(* one; what is left is a sequence of packets.                              *)
LEMMA GetsType ==
    ASSUME TypeOK, NEW t, Gets(t)
    PROVE  /\ queued' \in Seq(Packets)
           /\ data' \in Seq(Packets)
           /\ Packet \in Packets
           /\ t # "open" => Packet.c \in Chan
           /\ t = "data" => Packet.n \in Nat
<1>1. queued \in Seq(Packets) /\ data \in Seq(Packets)
  BY DEF TypeOK
<1>2. CASE queued # <<>>
  <2>1. queued' = Tail(queued) /\ data' = data /\ Packet = Head(queued) /\ Packet.t = t
    BY <1>2 DEF Gets, Consumed, Packet
  <2>2. Packet \in Packets /\ queued' \in Seq(Packets)
    BY <1>1, <1>2, <2>1, TailType
  <2> QED
    BY <1>1, <2>1, <2>2 DEF Packets
<1>3. CASE queued = <<>>
  <2>1. /\ data # <<>> /\ data' = Tail(data) /\ queued' = queued /\ Packet = Head(data)
        /\ Packet.t = t
    BY <1>3 DEF Gets, Consumed, Packet, Processing
  <2>2. Packet \in Packets /\ data' \in Seq(Packets)
    BY <1>1, <2>1, TailType
  <2> QED
    BY <1>1, <2>1, <2>2 DEF Packets
<1> QED
  BY <1>2, <1>3

LEMMA SendsType ==
    ASSUME TypeOK, NEW c \in Chan, NEW m \in Messages, Sends(c, m)
    PROVE  toServer' \in [Chan -> Seq(Messages)]
<1>1. toServer[c] \in Seq(Messages)
  BY DEF TypeOK
<1>2. Append(toServer[c], m) \in Seq(Messages)
  BY <1>1, AppendProperties
<1> QED
  BY <1>2 DEF Sends, TypeOK

LEMMA SrvSendsType ==
    ASSUME TypeOK, NEW p \in Packets, SrvSends(p)
    PROVE  net' \in Seq(Packets)
<1>1. net \in Seq(Packets)
  BY DEF TypeOK
<1> QED
  BY <1>1, AppendProperties DEF SrvSends

LEMMA ForClientType ==
    ASSUME NEW t \in {"confirm", "failure", "data", "close", "confirmation"},
           NEW c \in Chan, NEW n \in Nat
    PROVE  ForClient(t, c, n) \in Packets
BY DEF ForClient, Packets, PacketTypes

LEMMA NoChannelType == NoChannel \in Channels
BY EmptySeq DEF NoChannel, Channels

LEMMA NoServerType ==
    /\ NoServer \in Servers
    /\ \A r \in Servers : Finished(r) \in Servers
BY DEF NoServer, Servers, Finished

-------------------------------------------------------------------------------
(* Lemmas about the count.                                                  *)

LEMMA ThrottlingIsFinite ==
    ASSUME Ssh1ChannelsAssumption
    PROVE  IsFiniteSet(Throttling)
BY FS_Subset DEF Throttling, Ssh1ChannelsAssumption

(* As long as the connection is not frozen, no channel throttles. *)
LEMMA NoneThrottle ==
    ASSUME IInv, Ssh1ChannelsAssumption, ~frozen
    PROVE  /\ v1_throttle_count = 0
           /\ Throttling = {}
           /\ \A c \in Chan : ~channel[c].throttling
<1>1. v1_throttle_count = 0
  BY DEF IInv, CountIsReasons, TypeOK
<1>2. Throttling = {}
  BY <1>1, ThrottlingIsFinite, FS_EmptySet DEF IInv, CountIsReasons
<1>3. ASSUME NEW c \in Chan, channel[c].throttling PROVE FALSE
  <2>1. c \in Throttling
    BY <1>3 DEF Throttling
  <2> QED
    BY <1>2, <2>1
<1> QED
  BY <1>1, <1>2, <1>3

(* A step that touches neither the count nor who throttles. *)
LEMMA CountStays ==
    ASSUME CountIsReasons, Throttling' = Throttling,
           UNCHANGED <<v1_throttle_count, frozen, sk_frozen>>
    PROVE  CountIsReasons'
BY DEF CountIsReasons

LEMMA ThrottleCounts ==
    ASSUME IInv, Ssh1ChannelsAssumption, NEW c \in Chan, c \notin Throttling,
           Throttling' = Throttling \cup {c}, Throttle
    PROVE  /\ CountIsReasons'
           /\ v1_throttle_count' \in Nat
           /\ frozen' \in BOOLEAN /\ sk_frozen' \in BOOLEAN
<1>1. Cardinality(Throttling') = Cardinality(Throttling) + 1
  BY ThrottlingIsFinite, FS_AddElement
<1>2. v1_throttle_count \in Nat /\ v1_throttle_count = Cardinality(Throttling)
  BY DEF IInv, CountIsReasons, TypeOK
<1>3. v1_throttle_count' = v1_throttle_count + 1
  BY DEF Throttle
<1>4. frozen' = TRUE /\ sk_frozen' = TRUE
  <2>1. CASE v1_throttle_count = 0
    BY <2>1 DEF Throttle
  <2>2. CASE v1_throttle_count # 0
    <3>1. v1_throttle_count > 0
      BY <2>2, <1>2
    <3>2. frozen = TRUE /\ sk_frozen = TRUE
      BY <3>1 DEF IInv, CountIsReasons
    <3> QED
      BY <2>2, <3>2 DEF Throttle
  <2> QED
    BY <2>1, <2>2
<1>5. v1_throttle_count' > 0 /\ v1_throttle_count' \in Nat
  BY <1>2, <1>3
<1> QED
  BY <1>1, <1>2, <1>3, <1>4, <1>5 DEF CountIsReasons

LEMMA UnthrottleCounts ==
    ASSUME IInv, Ssh1ChannelsAssumption, NEW c \in Throttling,
           Throttling' = Throttling \ {c}, Unthrottle
    PROVE  /\ CountIsReasons'
           /\ v1_throttle_count' \in Nat
           /\ frozen' \in BOOLEAN /\ sk_frozen' \in BOOLEAN
           /\ queued' \in Seq(Packets) /\ held' \in Seq(Packets)
<1>1. Cardinality(Throttling') = Cardinality(Throttling) - 1
  BY ThrottlingIsFinite, FS_RemoveElement
<1>2. v1_throttle_count \in Nat /\ v1_throttle_count = Cardinality(Throttling)
  BY DEF IInv, CountIsReasons, TypeOK
<1>3. Cardinality(Throttling) # 0
  BY ThrottlingIsFinite, FS_EmptySet
<1>4. v1_throttle_count > 0
  BY <1>2, <1>3
<1>5. frozen = TRUE /\ sk_frozen = TRUE
  BY <1>4 DEF IInv, CountIsReasons
<1>6. v1_throttle_count' = v1_throttle_count - 1 /\ v1_throttle_count' \in Nat
  BY <1>2, <1>4 DEF Unthrottle
<1>7. queued \in Seq(Packets) /\ held \in Seq(Packets)
  BY DEF IInv, TypeOK
<1>8. CASE v1_throttle_count = 1
  <2>1. /\ queued' = queued \o held /\ held' = <<>>
        /\ sk_frozen' = FALSE /\ frozen' = FALSE
    BY <1>8 DEF Unthrottle, Thaw
  <2>2. queued' \in Seq(Packets) /\ held' \in Seq(Packets)
    BY <1>7, <2>1, ConcatProperties, EmptySeq
  <2>3. ~(v1_throttle_count' > 0)
    BY <1>6, <1>8
  <2>4. (frozen' <=> v1_throttle_count' > 0) /\ (sk_frozen' <=> frozen')
    BY <2>1, <2>3
  <2>5. v1_throttle_count' = Cardinality(Throttling')
    BY <1>1, <1>2, <1>6
  <2> QED
    BY <1>6, <2>1, <2>2, <2>4, <2>5 DEF CountIsReasons
<1>9. CASE v1_throttle_count # 1
  <2>1. UNCHANGED <<frozen, sk_frozen, queued, held>>
    BY <1>9 DEF Unthrottle
  <2>2. v1_throttle_count' > 0
    BY <1>2, <1>4, <1>6, <1>9
  <2>3. (frozen' <=> v1_throttle_count' > 0) /\ (sk_frozen' <=> frozen')
    BY <1>5, <2>1, <2>2
  <2>4. v1_throttle_count' = Cardinality(Throttling')
    BY <1>1, <1>2, <1>6
  <2> QED
    BY <1>5, <1>6, <1>7, <2>1, <2>3, <2>4 DEF CountIsReasons
<1> QED
  BY <1>8, <1>9

(* A step that changes at most the record of c, and not whether it          *)
(* throttles.                                                               *)
LEMMA OthersStay ==
    ASSUME IInv, NEW c \in Chan,
           \A d \in Chan : d # c => channel'[d] = channel[d],
           channel'[c].throttling <=> channel[c].throttling,
           channel'[c].type = "none" => ~channel'[c].throttling
    PROVE  Throttling' = Throttling /\ DeletedAreQuiet'
<1>1. \A d \in Chan : channel'[d].throttling <=> channel[d].throttling
  OBVIOUS
<1>2. Throttling' = Throttling
  BY <1>1 DEF Throttling
<1>3. DeletedAreQuiet'
  BY DEF DeletedAreQuiet, IInv
<1> QED
  BY <1>2, <1>3

(* A record of a channel is one field by field. *)
LEMMA ChannelsType ==
    ASSUME TypeOK, NEW c \in Chan
    PROVE  /\ channel[c] \in Channels
           /\ channel[c].closes \subseteq AllOfClosing
           /\ channel[c].out \in Seq(Nat)
           /\ NoSocket(channel[c]) \in Channels
           /\ NoSocket(channel[c]).throttling <=> channel[c].throttling
<1>1. channel[c] \in Channels
  BY DEF TypeOK
<1>2. channel[c].closes \subseteq AllOfClosing /\ channel[c].out \in Seq(Nat)
  BY <1>1 DEF Channels
<1>3. NoSocket(channel[c]) \in Channels
  BY <1>1, EmptySeq DEF NoSocket, Channels
<1>4. NoSocket(channel[c]).throttling = channel[c].throttling
  BY <1>1 DEF NoSocket, Channels
<1> QED
  BY <1>1, <1>2, <1>3, <1>4

-------------------------------------------------------------------------------
(* The steps of ssh_gotdata().                                              *)

LEMMA ReceiveStep ==
    ASSUME IInv, Ssh1ChannelsAssumption, Receive
    PROVE  IInv'
<1>1. PICK k \in 1 .. MaxSegment :
        /\ k <= Len(net)
        /\ net' = SubSeq(net, k + 1, Len(net))
        /\ IF sk_frozen
           THEN held' = SubSeq(net, 1, k) /\ UNCHANGED <<busy, data>>
           ELSE busy' = TRUE /\ data' = SubSeq(net, 1, k) /\ UNCHANGED held
  BY DEF Receive
<1>2. k \in Nat /\ net \in Seq(Packets)
  BY DEF Ssh1ChannelsAssumption, IInv, TypeOK
<1>3. net' \in Seq(Packets) /\ SubSeq(net, 1, k) \in Seq(Packets)
  BY <1>1, <1>2, SubSeqType
<1>4. UNCHANGED <<channel, v1_throttle_count, frozen, queued, sk_frozen,
                  toServer, srv, opens, took, fault>>
  BY DEF Receive
<1>5. held' \in Seq(Packets) /\ data' \in Seq(Packets) /\ busy' \in BOOLEAN
  BY <1>1, <1>3 DEF IInv, TypeOK
<1>6. TypeOK'
  BY <1>3, <1>4, <1>5 DEF IInv, TypeOK
<1>7. CountIsReasons' /\ DeletedAreQuiet'
  BY <1>4, CountStays DEF IInv, Throttling, DeletedAreQuiet
<1> QED
  BY <1>6, <1>7 DEF IInv

LEMMA QueueIncomingDataStep ==
    ASSUME IInv, QueueIncomingData
    PROVE  IInv'
<1>1. queued \in Seq(Packets) /\ data \in Seq(Packets)
  BY DEF IInv, TypeOK
<1>2. queued' \in Seq(Packets) /\ data' \in Seq(Packets)
  BY <1>1, ConcatProperties, EmptySeq DEF QueueIncomingData
<1>3. TypeOK'
  BY <1>2 DEF QueueIncomingData, IInv, TypeOK
<1>4. CountIsReasons' /\ DeletedAreQuiet'
  BY CountStays DEF QueueIncomingData, IInv, Throttling, DeletedAreQuiet
<1> QED
  BY <1>3, <1>4 DEF IInv

LEMMA OutOfDataStep ==
    ASSUME IInv, OutOfData
    PROVE  IInv'
<1>1. TypeOK'
  BY DEF OutOfData, IInv, TypeOK, conn
<1>2. CountIsReasons' /\ DeletedAreQuiet'
  BY CountStays DEF OutOfData, conn, IInv, Throttling, DeletedAreQuiet
<1> QED
  BY <1>1, <1>2 DEF IInv

LEMMA OpenConfirmationStep ==
    ASSUME IInv, Ssh1ChannelsAssumption, OpenConfirmation
    PROVE  IInv'
<1> DEFINE c == Packet.c
<1>1. c \in Chan /\ queued' \in Seq(Packets) /\ data' \in Seq(Packets)
  BY GetsType DEF OpenConfirmation, IInv
<1>2. ~frozen
  BY DEF OpenConfirmation, Gets, Processing
<1>3. \A d \in Chan : ~channel[d].throttling
  BY <1>2, NoneThrottle
<1>4. UNCHANGED <<v1_throttle_count, frozen, sk_frozen, held, busy, net,
                  srv, opens, took, fault>>
  BY DEF OpenConfirmation
<1>5. channel[c] \in Channels
  BY <1>1 DEF IInv, TypeOK
<1>6. channel' = IF channel[c].type = "dormant"
                 THEN [channel EXCEPT ![c].type = "sockdata",
                                      ![c].halfopen = FALSE,
                                      ![c].throttling = FALSE]
                 ELSE channel
  BY DEF OpenConfirmation
<1>7. channel' \in [Chan -> Channels]
  BY <1>1, <1>5, <1>6 DEF IInv, TypeOK, Channels
<1>8. /\ \A d \in Chan : d # c => channel'[d] = channel[d]
      /\ ~channel'[c].throttling
  BY <1>1, <1>3, <1>5, <1>6 DEF IInv, TypeOK, Channels
<1>9. toServer' \in [Chan -> Seq(Messages)]
  <2>1. Sends(c, "close") \/ toServer' = toServer
    BY DEF OpenConfirmation
  <2>2. "close" \in Messages
    BY DEF Messages
  <2> QED
    BY <1>1, <2>1, <2>2, SendsType DEF IInv, TypeOK
<1>10. TypeOK'
  BY <1>1, <1>4, <1>7, <1>9 DEF IInv, TypeOK
<1>11. Throttling' = Throttling /\ DeletedAreQuiet'
  BY <1>1, <1>3, <1>8, OthersStay
<1> QED
  BY <1>4, <1>10, <1>11, CountStays DEF IInv

LEMMA OpenFailureStep ==
    ASSUME IInv, Ssh1ChannelsAssumption, OpenFailure
    PROVE  IInv'
<1> DEFINE c == Packet.c
<1>1. c \in Chan /\ queued' \in Seq(Packets) /\ data' \in Seq(Packets)
  BY GetsType DEF OpenFailure, IInv
<1>2. ~frozen
  BY DEF OpenFailure, Gets, Processing
<1>3. \A d \in Chan : ~channel[d].throttling
  BY <1>2, NoneThrottle
<1>4. UNCHANGED <<v1_throttle_count, frozen, sk_frozen, held, busy, net,
                  toServer, srv, opens, took, fault>>
  BY DEF OpenFailure
<1>5. \/ channel' = [channel EXCEPT ![c] = NoChannel]
      \/ channel' = channel
  BY DEF OpenFailure
<1>6. channel' \in [Chan -> Channels]
  BY <1>1, <1>5, NoChannelType DEF IInv, TypeOK
<1>7. ~NoChannel.throttling
  BY DEF NoChannel
<1>8. /\ \A d \in Chan : d # c => channel'[d] = channel[d]
      /\ ~channel'[c].throttling
  BY <1>1, <1>3, <1>5, <1>7 DEF IInv, TypeOK
<1>9. TypeOK'
  BY <1>1, <1>4, <1>6 DEF IInv, TypeOK
<1>10. Throttling' = Throttling /\ DeletedAreQuiet'
  BY <1>1, <1>3, <1>8, OthersStay
<1> QED
  BY <1>4, <1>9, <1>10, CountStays DEF IInv

(* CLOSE and CLOSE_CONFIRMATION. *)
LEMMA ChannelCloseStep ==
    ASSUME IInv, Ssh1ChannelsAssumption,
           NEW t \in {"close", "confirmation"},
           NEW sent \in AllOfClosing, NEW seen \in AllOfClosing,
           ChannelClose(t, sent, seen)
    PROVE  IInv'
<1> DEFINE c == Packet.c
           r == IF channel[c].closes = {} /\ channel[c].type = "sockdata"
                THEN NoSocket(channel[c])
                ELSE channel[c]
           closes == channel[c].closes \cup {seen, sent}
<1>1. c \in Chan /\ queued' \in Seq(Packets) /\ data' \in Seq(Packets)
  BY GetsType DEF ChannelClose, IInv
<1>2. ~frozen
  BY DEF ChannelClose, Gets, Processing
<1>3. \A d \in Chan : ~channel[d].throttling
  BY <1>2, NoneThrottle
<1>4. UNCHANGED <<v1_throttle_count, frozen, sk_frozen, held, busy, net,
                  srv, opens, took>>
  BY DEF ChannelClose
<1>5. \/ fault' = TRUE /\ UNCHANGED <<channel, toServer>>
      \/ /\ channel' = [channel EXCEPT ![c] =
                          IF Deleted(closes) THEN NoChannel
                          ELSE [r EXCEPT !.closes = closes]]
         /\ toServer' = toServer \/ Sends(c, t)
         /\ fault' = fault
  BY DEF ChannelClose
<1>6. r \in Channels /\ ~r.throttling
  BY <1>1, <1>3, ChannelsType DEF IInv
<1>7. /\ [r EXCEPT !.closes = closes] \in Channels
      /\ ~[r EXCEPT !.closes = closes].throttling
  <2>1. closes \subseteq AllOfClosing
    BY <1>1, ChannelsType DEF IInv
  <2> HIDE DEF r, closes
  <2> QED
    BY <1>6, <2>1 DEF Channels
<1>8. NoChannel \in Channels /\ ~NoChannel.throttling
  BY NoChannelType DEF NoChannel
<1>9. /\ channel' \in [Chan -> Channels]
      /\ \A d \in Chan : d # c => channel'[d] = channel[d]
      /\ ~channel'[c].throttling
  <2> HIDE DEF r, closes, c
  <2> QED
    BY <1>1, <1>3, <1>5, <1>7, <1>8 DEF IInv, TypeOK
<1>10. toServer' \in [Chan -> Seq(Messages)]
  <2>1. t \in Messages
    BY DEF Messages
  <2> QED
    BY <1>1, <1>5, <2>1, SendsType DEF IInv, TypeOK
<1>11. fault' \in BOOLEAN
  BY <1>5 DEF IInv, TypeOK
<1>12. TypeOK'
  BY <1>1, <1>4, <1>9, <1>10, <1>11 DEF IInv, TypeOK
<1>13. Throttling' = Throttling /\ DeletedAreQuiet'
  BY <1>1, <1>3, <1>9, OthersStay
<1> QED
  BY <1>4, <1>12, <1>13, CountStays DEF IInv

(* A packet of data may freeze the connection. *)
LEMMA ChannelDataStep ==
    ASSUME IInv, Ssh1ChannelsAssumption, ChannelData
    PROVE  IInv'
<1> DEFINE c == Packet.c
           open == channel[c].type = "sockdata" /\ channel[c].s
           out == Append(channel[c].out, Packet.n)
           backlog == IF open THEN Len(out) ELSE 0
           throttles == ~channel[c].throttling /\ backlog > SSH1_BUFFER_LIMIT
<1>1. /\ c \in Chan /\ Packet.n \in Nat
      /\ queued' \in Seq(Packets) /\ data' \in Seq(Packets)
  BY GetsType DEF ChannelData, IInv
<1>2. ~frozen
  BY DEF ChannelData, Gets, Processing
<1>3. v1_throttle_count = 0 /\ Throttling = {} /\ \A d \in Chan : ~channel[d].throttling
  BY <1>2, NoneThrottle
<1>4. UNCHANGED <<busy, net, toServer, srv, opens, took, fault>>
  BY DEF ChannelData
<1>5. channel' = [channel EXCEPT ![c].out = IF open THEN out ELSE @,
                                 ![c].throttling = @ \/ throttles]
  BY DEF ChannelData
<1>6. channel[c] \in Channels /\ out \in Seq(Nat)
  BY <1>1, ChannelsType, AppendProperties DEF IInv
<1>7. /\ channel' \in [Chan -> Channels]
      /\ \A d \in Chan : d # c => channel'[d] = channel[d]
      /\ channel'[c].throttling <=> throttles
      /\ channel'[c].type = channel[c].type
  <2>1. throttles \in BOOLEAN
    OBVIOUS
  <2> HIDE DEF c, open, out, throttles
  <2> QED
    BY <1>1, <1>3, <1>5, <1>6, <2>1 DEF IInv, TypeOK, Channels
<1>8. CASE throttles
  <2>1. Throttle
    BY <1>8 DEF ChannelData
  <2>2. open
    BY <1>8 DEF Ssh1ChannelsAssumption
  <2>3. Throttling' = Throttling \cup {c}
    BY <1>1, <1>3, <1>7, <1>8 DEF Throttling
  <2>4. /\ CountIsReasons' /\ v1_throttle_count' \in Nat
        /\ frozen' \in BOOLEAN /\ sk_frozen' \in BOOLEAN
    BY <1>1, <1>3, <2>1, <2>3, ThrottleCounts
  <2>5. held' = held
    BY <2>1 DEF Throttle
  <2>6. DeletedAreQuiet'
    BY <1>3, <1>7, <2>2 DEF DeletedAreQuiet
  <2>7. TypeOK'
    BY <1>1, <1>4, <1>7, <2>4, <2>5 DEF IInv, TypeOK
  <2> QED
    BY <2>4, <2>6, <2>7 DEF IInv
<1>9. CASE ~throttles
  <2>1. UNCHANGED <<v1_throttle_count, frozen, sk_frozen, held>>
    BY <1>9 DEF ChannelData
  <2>2. TypeOK'
    BY <1>1, <1>4, <1>7, <2>1 DEF IInv, TypeOK
  <2>3. Throttling' = Throttling /\ DeletedAreQuiet'
    BY <1>1, <1>3, <1>7, <1>9, OthersStay
  <2> QED
    BY <2>1, <2>2, <2>3, CountStays DEF IInv
<1> QED
  BY <1>8, <1>9

LEMMA PortOpenStep ==
    ASSUME IInv, Ssh1ChannelsAssumption, PortOpen
    PROVE  IInv'
<1>1. queued' \in Seq(Packets) /\ data' \in Seq(Packets)
  BY GetsType DEF PortOpen, IInv
<1>2. UNCHANGED <<v1_throttle_count, frozen, sk_frozen, held, busy, net, opens, fault>>
  BY DEF PortOpen
<1>3. CASE UNCHANGED <<channel, toServer, srv, took>>
  <2>1. TypeOK'
    BY <1>1, <1>2, <1>3 DEF IInv, TypeOK
  <2>2. Throttling' = Throttling /\ DeletedAreQuiet'
    BY <1>3 DEF Throttling, DeletedAreQuiet, IInv
  <2> QED
    BY <1>2, <2>1, <2>2, CountStays DEF IInv
<1>4. ASSUME NEW c \in Chan,
             Unused(c),
             channel' = [channel EXCEPT ![c] =
                           [NoChannel EXCEPT !.type = "sockdata", !.s = TRUE]],
             Sends(c, "confirm"),
             srv' = [srv EXCEPT ![c].state = "asking"],
             took' = [took EXCEPT ![c] = <<>>]
      PROVE  IInv'
  <2> DEFINE r == [NoChannel EXCEPT !.type = "sockdata", !.s = TRUE]
  <2>1. r \in Channels /\ ~r.throttling
    BY EmptySeq DEF NoChannel, Channels
  <2>2. ~channel[c].throttling
    BY <1>4 DEF Unused, IInv, DeletedAreQuiet
  <2>3. /\ channel' \in [Chan -> Channels]
        /\ \A d \in Chan : d # c => channel'[d] = channel[d]
        /\ ~channel'[c].throttling
    <3> HIDE DEF r
    <3>1. channel' = [channel EXCEPT ![c] = r]
      BY <1>4 DEF r
    <3> QED
      BY <2>1, <3>1 DEF IInv, TypeOK
  <2>4. toServer' \in [Chan -> Seq(Messages)]
    <3>1. "confirm" \in Messages
      BY DEF Messages
    <3> QED
      BY <1>4, <3>1, SendsType DEF IInv
  <2>5. srv' \in [Chan -> Servers] /\ took' \in [Chan -> Seq(Nat)]
    BY <1>4, EmptySeq, ZenonT(60) DEF IInv, TypeOK, Servers
  <2>6. TypeOK'
    BY <1>1, <1>2, <2>3, <2>4, <2>5 DEF IInv, TypeOK
  <2>7. Throttling' = Throttling /\ DeletedAreQuiet'
    BY <2>2, <2>3, OthersStay
  <2> QED
    BY <1>2, <2>6, <2>7, CountStays DEF IInv
<1> QED
  BY <1>3, <1>4 DEF PortOpen

-------------------------------------------------------------------------------
(* The steps of the applications.                                           *)

LEMMA AcceptingStep ==
    ASSUME IInv, Ssh1ChannelsAssumption, NEW c \in Chan, Accepting(c)
    PROVE  IInv'
<1> DEFINE r == [NoChannel EXCEPT !.type = "dormant", !.halfopen = TRUE, !.s = TRUE]
<1>1. /\ UNCHANGED <<v1_throttle_count, frozen, queued, sk_frozen, held, busy, data, net, fault>>
      /\ opens' = opens + 1
      /\ channel' = [channel EXCEPT ![c] = r]
      /\ srv' = [srv EXCEPT ![c].state = "asking"]
      /\ took' = [took EXCEPT ![c] = <<>>]
  BY DEF Accepting, conn
<1>2. r \in Channels /\ ~r.throttling
  BY EmptySeq DEF NoChannel, Channels
<1>3. ~channel[c].throttling
  BY DEF Accepting, Unused, IInv, DeletedAreQuiet
<1>4. /\ channel' \in [Chan -> Channels]
      /\ \A d \in Chan : d # c => channel'[d] = channel[d]
      /\ ~channel'[c].throttling
  <2> HIDE DEF r
  <2> QED
    BY <1>1, <1>2 DEF IInv, TypeOK
<1>5. toServer' \in [Chan -> Seq(Messages)]
  <2>1. "open" \in Messages
    BY DEF Messages
  <2> QED
    BY <2>1, SendsType DEF Accepting, IInv
<1>6. srv' \in [Chan -> Servers] /\ took' \in [Chan -> Seq(Nat)]
  BY <1>1, EmptySeq, ZenonT(60) DEF IInv, TypeOK, Servers
<1>7. opens' \in Nat
  BY <1>1 DEF IInv, TypeOK
<1>8. TypeOK'
  BY <1>1, <1>4, <1>5, <1>6, <1>7 DEF IInv, TypeOK
<1>9. Throttling' = Throttling /\ DeletedAreQuiet'
  BY <1>3, <1>4, OthersStay
<1> QED
  BY <1>1, <1>8, <1>9, CountStays DEF IInv

(* Taking data may thaw the connection. *)
LEMMA AppTakesStep ==
    ASSUME IInv, Ssh1ChannelsAssumption, NEW c \in Chan, NEW n \in 1 .. MaxData,
           AppTakes(c, n)
    PROVE  IInv'
<1> DEFINE out == channel[c].out
           rest == SubSeq(out, n + 1, Len(out))
           unthrottles == Unthrottles(channel[c], Len(rest))
<1>1. /\ n <= Len(out)
      /\ took' = [took EXCEPT ![c] = @ \o SubSeq(out, 1, n)]
      /\ channel' = [channel EXCEPT ![c].out = rest,
                                    ![c].throttling = @ /\ ~unthrottles]
      /\ UNCHANGED <<busy, data, net, toServer, srv, opens, fault>>
  BY DEF AppTakes
<1>2. IF unthrottles THEN Unthrottle ELSE UNCHANGED conn
  BY DEF AppTakes
<1>3. n \in Nat /\ out \in Seq(Nat) /\ channel[c] \in Channels /\ took[c] \in Seq(Nat)
  BY ChannelsType DEF Ssh1ChannelsAssumption, IInv, TypeOK
<1>4. rest \in Seq(Nat) /\ SubSeq(out, 1, n) \in Seq(Nat)
  <2> HIDE DEF out
  <2> QED
    BY <1>1, <1>3, SubSeqType
<1>5. took' \in [Chan -> Seq(Nat)]
  <2>1. took[c] \o SubSeq(out, 1, n) \in Seq(Nat)
    BY <1>3, <1>4, ConcatProperties
  <2> HIDE DEF out
  <2> QED
    BY <1>1, <2>1 DEF IInv, TypeOK
<1>6. /\ channel' \in [Chan -> Channels]
      /\ \A d \in Chan : d # c => channel'[d] = channel[d]
      /\ channel'[c].throttling <=> channel[c].throttling /\ ~unthrottles
      /\ channel'[c].type = channel[c].type
  <2>1. (channel[c].throttling /\ ~unthrottles) \in BOOLEAN
    OBVIOUS
  <2> HIDE DEF rest, unthrottles
  <2> QED
    BY <1>1, <1>3, <1>4, <2>1 DEF IInv, TypeOK, Channels
<1>7. CASE unthrottles
  <2>1. c \in Throttling
    BY <1>7 DEF Unthrottles, Throttling
  <2>2. Throttling' = Throttling \ {c}
    BY <1>6, <1>7 DEF Throttling
  <2>3. /\ CountIsReasons' /\ v1_throttle_count' \in Nat
        /\ frozen' \in BOOLEAN /\ sk_frozen' \in BOOLEAN
        /\ queued' \in Seq(Packets) /\ held' \in Seq(Packets)
    BY <1>2, <1>7, <2>1, <2>2, UnthrottleCounts
  <2>4. DeletedAreQuiet'
    BY <1>6, <1>7 DEF IInv, DeletedAreQuiet
  <2>5. TypeOK'
    BY <1>1, <1>5, <1>6, <2>3 DEF IInv, TypeOK
  <2> QED
    BY <2>3, <2>4, <2>5 DEF IInv
<1>8. CASE ~unthrottles
  <2>1. UNCHANGED <<v1_throttle_count, frozen, queued, sk_frozen, held>>
    BY <1>2, <1>8 DEF conn
  <2>2. TypeOK'
    BY <1>1, <1>5, <1>6, <2>1 DEF IInv, TypeOK
  <2>3. channel'[c].type = "none" => ~channel'[c].throttling
    BY <1>6 DEF IInv, DeletedAreQuiet
  <2>4. Throttling' = Throttling /\ DeletedAreQuiet'
    BY <1>6, <1>8, <2>3, OthersStay
  <2> QED
    BY <2>1, <2>2, <2>4, CountStays DEF IInv
<1> QED
  BY <1>7, <1>8

LEMMA AppEndsStep ==
    ASSUME IInv, Ssh1ChannelsAssumption, NEW c \in Chan, AppEnds(c)
    PROVE  IInv'
<1> DEFINE r == [NoSocket(channel[c]) EXCEPT !.closes = {SentClose}]
<1>1. /\ UNCHANGED <<v1_throttle_count, frozen, queued, sk_frozen, held, busy, data, net,
                     srv, opens, took, fault>>
      /\ channel' = [channel EXCEPT ![c] = r]
      /\ toServer' = toServer \/ Sends(c, "close")
  BY DEF AppEnds, conn
<1>2. r \in Channels /\ (r.throttling <=> channel[c].throttling)
      /\ r.type = channel[c].type
  <2>1. {SentClose} \subseteq AllOfClosing
    BY DEF AllOfClosing
  <2>2. channel[c] \in Channels
    BY ChannelsType DEF IInv
  <2> QED
    BY <2>1, <2>2, EmptySeq DEF NoSocket, Channels
<1>3. /\ channel' \in [Chan -> Channels]
      /\ \A d \in Chan : d # c => channel'[d] = channel[d]
      /\ channel'[c] = r
  <2> HIDE DEF r
  <2> QED
    BY <1>1, <1>2 DEF IInv, TypeOK
<1>4. channel'[c].type = "none" => ~channel'[c].throttling
  <2> HIDE DEF r
  <2> QED
    BY <1>2, <1>3 DEF IInv, DeletedAreQuiet
<1>5. toServer' \in [Chan -> Seq(Messages)]
  <2>1. "close" \in Messages
    BY DEF Messages
  <2> QED
    BY <1>1, <2>1, SendsType DEF IInv, TypeOK
<1>6. TypeOK'
  BY <1>1, <1>3, <1>5 DEF IInv, TypeOK
<1>7. Throttling' = Throttling /\ DeletedAreQuiet'
  <2> HIDE DEF r
  <2> QED
    BY <1>2, <1>3, <1>4, OthersStay
<1> QED
  BY <1>1, <1>6, <1>7, CountStays DEF IInv

-------------------------------------------------------------------------------
(* The steps of the server, which keep the client's state.                  *)

LEMMA ServerKeeps ==
    ASSUME IInv, UNCHANGED <<channel, v1_throttle_count, frozen, queued, sk_frozen, held,
                             busy, data, took, fault>>,
           net' \in Seq(Packets), toServer' \in [Chan -> Seq(Messages)],
           srv' \in [Chan -> Servers], opens' \in Nat
    PROVE  IInv'
<1>1. TypeOK'
  BY DEF IInv, TypeOK
<1>2. Throttling' = Throttling /\ DeletedAreQuiet'
  BY DEF Throttling, DeletedAreQuiet, IInv
<1> QED
  BY <1>1, <1>2, CountStays DEF IInv

(* The server's record of a channel, whatever it learns or says. *)
LEMMA SrvType ==
    ASSUME TypeOK, NEW c \in Chan
    PROVE  /\ srv[c] \in Servers
           /\ [srv[c] EXCEPT !.state = "open"] \in Servers
           /\ Finished([srv[c] EXCEPT !.gotClose = TRUE]) \in Servers
           /\ Finished([srv[c] EXCEPT !.gotConfirmation = TRUE]) \in Servers
           /\ Finished([srv[c] EXCEPT !.sentClose = TRUE]) \in Servers
           /\ Finished([srv[c] EXCEPT !.sentConfirmation = TRUE]) \in Servers
           /\ [srv[c] EXCEPT !.sent = @ + 1] \in Servers
<1>1. srv[c] \in Servers
  BY DEF TypeOK
<1>2. /\ [srv[c] EXCEPT !.gotClose = TRUE] \in Servers
      /\ [srv[c] EXCEPT !.gotConfirmation = TRUE] \in Servers
      /\ [srv[c] EXCEPT !.sentClose = TRUE] \in Servers
      /\ [srv[c] EXCEPT !.sentConfirmation = TRUE] \in Servers
      /\ [srv[c] EXCEPT !.state = "open"] \in Servers
  BY <1>1 DEF Servers
<1>3. [srv[c] EXCEPT !.sent = @ + 1] \in Servers
  <2>1. srv[c].sent + 1 \in Nat
    BY <1>1 DEF Servers
  <2> QED
    BY <1>1, <2>1 DEF Servers
<1> QED
  BY <1>1, <1>2, <1>3, NoServerType

LEMMA SrvTakesStep ==
    ASSUME IInv, NEW c \in Chan, SrvTakes(c)
    PROVE  IInv'
<1>1. /\ UNCHANGED <<channel, v1_throttle_count, frozen, queued, sk_frozen, held,
                     busy, data, opens, took, fault>>
      /\ toServer' = [toServer EXCEPT ![c] = Tail(@)]
  BY DEF SrvTakes, conn
<1>2. toServer' \in [Chan -> Seq(Messages)]
  <2>1. toServer[c] \in Seq(Messages) /\ toServer[c] # <<>>
    BY DEF SrvTakes, IInv, TypeOK
  <2>2. Tail(toServer[c]) \in Seq(Messages)
    BY <2>1, TailType
  <2> QED
    BY <1>1, <2>2 DEF IInv, TypeOK
<1>3. /\ ForClient("confirm", c, 0) \in Packets
      /\ ForClient("failure", c, 0) \in Packets
  BY ForClientType
<1>4. /\ \/ net' = net
         \/ SrvSends(ForClient("confirm", c, 0))
         \/ SrvSends(ForClient("failure", c, 0))
      /\ \/ srv' = [srv EXCEPT ![c].state = "open"]
         \/ srv' = [srv EXCEPT ![c] = NoServer]
         \/ srv' = [srv EXCEPT ![c] = Finished([@ EXCEPT !.gotClose = TRUE])]
         \/ srv' = [srv EXCEPT ![c] = Finished([@ EXCEPT !.gotConfirmation = TRUE])]
  BY DEF SrvTakes
<1>5. net' \in Seq(Packets)
  BY <1>3, <1>4, SrvSendsType DEF IInv, TypeOK
<1>6. srv' \in [Chan -> Servers]
  BY <1>4, SrvType, NoServerType DEF IInv, TypeOK
<1>7. opens' \in Nat
  BY <1>1 DEF IInv, TypeOK
<1> QED
  BY <1>1, <1>2, <1>5, <1>6, <1>7, ServerKeeps

LEMMA SrvWritesStep ==
    ASSUME IInv, NEW c \in Chan, SrvWrites(c)
    PROVE  IInv'
<1>1. srv[c].sent + 1 \in Nat
  BY SrvType DEF IInv, Servers
<1>2. net' \in Seq(Packets)
  BY <1>1, ForClientType, SrvSendsType DEF SrvWrites, IInv
<1>3. srv' \in [Chan -> Servers]
  BY SrvType DEF SrvWrites, IInv, TypeOK
<1> QED
  BY <1>2, <1>3, ServerKeeps DEF SrvWrites, SrvMaySend, conn, IInv, TypeOK

LEMMA SrvClosesStep ==
    ASSUME IInv, NEW c \in Chan, SrvCloses(c)
    PROVE  IInv'
<1>1. net' \in Seq(Packets)
  BY ForClientType, SrvSendsType DEF SrvCloses, IInv
<1>2. srv' \in [Chan -> Servers]
  BY SrvType DEF SrvCloses, IInv, TypeOK
<1> QED
  BY <1>1, <1>2, ServerKeeps DEF SrvCloses, SrvMaySend, conn, IInv, TypeOK

LEMMA SrvConfirmsCloseStep ==
    ASSUME IInv, NEW c \in Chan, SrvConfirmsClose(c)
    PROVE  IInv'
<1>1. net' \in Seq(Packets)
  BY ForClientType, SrvSendsType DEF SrvConfirmsClose, IInv
<1>2. srv' \in [Chan -> Servers]
  BY SrvType DEF SrvConfirmsClose, IInv, TypeOK
<1> QED
  BY <1>1, <1>2, ServerKeeps DEF SrvConfirmsClose, SrvMaySend, conn, IInv, TypeOK

LEMMA SrvOpensStep ==
    ASSUME IInv, SrvOpens
    PROVE  IInv'
<1>1. [t |-> "open"] \in Packets
  BY DEF Packets
<1>2. net' \in Seq(Packets)
  BY <1>1, SrvSendsType DEF SrvOpens, IInv
<1>3. opens' \in Nat
  BY DEF SrvOpens, IInv, TypeOK
<1> QED
  BY <1>2, <1>3, ServerKeeps DEF SrvOpens, SrvMaySend, conn, IInv, TypeOK

-------------------------------------------------------------------------------

LEMMA InitHolds ==
    ASSUME Ssh1ChannelsAssumption, Init
    PROVE  IInv
<1>1. TypeOK
  BY EmptySeq, NoChannelType, NoServerType DEF Init, TypeOK
<1>2. \A c \in Chan : ~channel[c].throttling
  BY DEF Init, NoChannel
<1>3. Throttling = {}
  BY <1>2 DEF Throttling
<1>4. CountIsReasons
  BY <1>3, FS_EmptySet DEF Init, CountIsReasons
<1> QED
  BY <1>1, <1>2, <1>4 DEF IInv, DeletedAreQuiet

LEMMA NextKeeps ==
    ASSUME IInv, Ssh1ChannelsAssumption, [Next]_vars
    PROVE  IInv'
<1>1. CASE Receive
  BY <1>1, ReceiveStep
<1>2. CASE GotData
  <2>1. /\ "close" \in {"close", "confirmation"} /\ "confirmation" \in {"close", "confirmation"}
        /\ {SentClose, SeenClose, SentConfirmation, SeenConfirmation} \subseteq AllOfClosing
    BY DEF AllOfClosing
  <2> QED
    BY <1>2, <2>1, OpenConfirmationStep, OpenFailureStep, ChannelCloseStep, ChannelDataStep,
       PortOpenStep, QueueIncomingDataStep, OutOfDataStep DEF GotData
<1>3. ASSUME NEW c \in Chan, Application(c)
      PROVE  IInv'
  BY <1>3, AcceptingStep, AppTakesStep, AppEndsStep DEF Application
<1>4. ASSUME NEW c \in Chan, Server(c)
      PROVE  IInv'
  BY <1>4, SrvTakesStep, SrvWritesStep, SrvClosesStep, SrvConfirmsCloseStep DEF Server
<1>5. CASE SrvOpens
  BY <1>5, SrvOpensStep
<1>6. CASE UNCHANGED vars
  <2>1. UNCHANGED <<channel, v1_throttle_count, frozen, queued, sk_frozen, held,
                    busy, data, took, fault, net, toServer, srv, opens>>
    BY <1>6 DEF vars, conn
  <2> QED
    BY <2>1, ServerKeeps DEF IInv, TypeOK
<1> QED
  BY <1>1, <1>2, <1>3, <1>4, <1>5, <1>6 DEF Next

LEMMA Invariant == Spec => []IInv
<1>1. Init => IInv
  BY InitHolds, Ssh1ChannelsAssumption
<1>2. IInv /\ [Next]_vars => IInv'
  BY NextKeeps, Ssh1ChannelsAssumption
<1> QED
  BY <1>1, <1>2, PTL DEF Spec

(* The variables keep their types: a packet that is processed is one, the   *)
(* count is never negative.                                                 *)
THEOREM Ssh1TypeCorrect == Spec => []TypeOK
<1>1. IInv => TypeOK
  BY DEF IInv
<1> QED
  BY <1>1, Invariant, PTL

(* ssh->v1_throttle_count is the number of channels that throttle, and the  *)
(* connection and its socket are frozen when it is not zero, however        *)
(* packets, applications and closing are interleaved.                       *)
THEOREM CountCorrect == Spec => []CountIsReasons
<1>1. IInv => CountIsReasons
  BY DEF IInv
<1> QED
  BY <1>1, Invariant, PTL

-------------------------------------------------------------------------------
(* The life of a channel: r is its record, q what is on its way to the      *)
(* server, p what is on its way from there, v the server's end of it.       *)

Never(p, t) == \A i \in 1 .. Len(p) : p[i].t # t
Once(p, t) == \E i \in 1 .. Len(p) : p[i].t = t /\ \A j \in 1 .. Len(p) : p[j].t = t => j = i

(* After a CLOSE comes no more data. *)
DataEnds(p) ==
    \A i, j \in 1 .. Len(p) : i < j /\ p[i].t = "close" => p[j].t # "data"

(* The server has said m, and it is on its way until it has been seen.      *)
Says(p, m, said, seen) ==
    /\ seen => said /\ Never(p, m)
    /\ said /\ ~seen => Once(p, m)
    /\ ~said => Never(p, m)

HalfOpen(r) == r.type = "dormant" /\ r.halfopen /\ r.closes \in {{}, {SentClose}}
Established(r) == r.type = "sockdata" /\ ~r.halfopen

AnswerIsPast(p) == Never(p, "confirm") /\ Never(p, "failure")

(* What both ends know of each other's CLOSE. *)
Closing(r, q, p, v) ==
    /\ Says(p, "close", v.sentClose, SeenClose \in r.closes)
    /\ SeenClose \in r.closes => Never(p, "data") /\ SentClose \in r.closes
    /\ Says(p, "confirmation", v.sentConfirmation, SeenConfirmation \in r.closes)
    /\ v.sentConfirmation => v.gotClose
    /\ DataEnds(p)
    /\ SentClose \in r.closes <=> q = <<"close">> \/ v.gotClose
    /\ SentConfirmation \in r.closes <=> SeenConfirmation \in r.closes
    /\ SentConfirmation \in r.closes <=> q = <<"confirmation">> \/ v.gotConfirmation
    /\ q = <<"close">> => ~v.gotClose
    /\ q = <<"confirmation">> => ~v.gotConfirmation
    /\ ~(SeenClose \in r.closes /\ SeenConfirmation \in r.closes)
    /\ ~(v.sentClose /\ v.sentConfirmation /\ v.gotClose /\ v.gotConfirmation)

Asking == [NoServer EXCEPT !.state = "asking"]

(* The client has asked for the channel. *)
Asked(r, q, p, v) == HalfOpen(r) /\ q = <<"open">> /\ p = <<>> /\ v = Asking
(* The server has refused it. *)
Declined(r, q, p, v) ==
    HalfOpen(r) /\ q = <<>> /\ Len(p) = 1 /\ p[1].t = "failure" /\ v = NoServer
(* The server has confirmed it, and goes on. *)
Accepted(r, q, p, v) ==
    /\ HalfOpen(r) /\ q = <<>>
    /\ Len(p) > 0 /\ p[1].t = "confirm" /\ Once(p, "confirm") /\ Never(p, "failure")
    /\ v.state = "open" /\ ~v.gotClose /\ ~v.gotConfirmation /\ ~v.sentConfirmation
    /\ Says(p, "close", v.sentClose, FALSE) /\ Never(p, "confirmation") /\ DataEnds(p)
(* The client has opened one that the server asked for. *)
Offered(r, q, p, v) ==
    /\ Established(r) /\ p = <<>> /\ v = Asking
    /\ \/ q = <<"confirm">> /\ r.closes = {}
       \/ q = <<"confirm", "close">> /\ r.closes = {SentClose}
(* Both have opened it. *)
Joined(r, q, p, v) ==
    /\ Established(r) /\ v.state = "open"
    /\ q \in {<<>>, <<"close">>, <<"confirmation">>}
    /\ AnswerIsPast(p) /\ Closing(r, q, p, v)
(* The server has deleted it, and its CLOSE is still on its way. *)
Orphaned(r, q, p, v) ==
    /\ Established(r) /\ v = NoServer /\ q = <<>>
    /\ AnswerIsPast(p) /\ Never(p, "confirmation") /\ Once(p, "close") /\ DataEnds(p)
    /\ r.closes = {SentClose, SentConfirmation, SeenConfirmation}
(* The client has deleted it, or never opened it. *)
Gone(r, q, p, v) ==
    /\ r.type = "none" /\ p = <<>>
    /\ \/ q = <<>> /\ v = NoServer
       \/ /\ q = <<"confirmation">>
          /\ v.state = "open" /\ v.sentClose /\ v.sentConfirmation /\ v.gotClose
          /\ ~v.gotConfirmation

Phase(r, q, p, v) ==
    \/ Asked(r, q, p, v) \/ Declined(r, q, p, v) \/ Accepted(r, q, p, v)
    \/ Offered(r, q, p, v) \/ Joined(r, q, p, v) \/ Orphaned(r, q, p, v)
    \/ Gone(r, q, p, v)

DataNumbers(c, p) == Numbers(Selected(p, About(c, {"data"})))
Count(k) == [i \in 1 .. k |-> i]

(* A channel with a socket has not been closed, and the data is in order. *)
Whole(c, r, p, v, a) ==
    r.s => /\ r.type # "none" /\ r.closes = {}
           /\ a \o r.out \o DataNumbers(c, p) = Count(v.sent)

Good(c, r, q, p, v, a) == Phase(r, q, p, v) /\ Whole(c, r, p, v, a)

ChannelIsGood(c) ==
    Good(c, channel[c], toServer[c], OfChannel(c, Unprocessed), srv[c], took[c])

HInv ==
    /\ IInv
    /\ ~fault
    /\ ~busy => data = <<>>
    /\ \A c \in Chan : ChannelIsGood(c)

-------------------------------------------------------------------------------
(* Lemmas about Selected().                                                 *)

(* A set of natural numbers that contains 0 and the successors of its       *)
(* members below m contains all up to m.                                    *)
LEMMA UpTo ==
    ASSUME NEW m \in Nat, NEW G, 0 \in G,
           \A k \in Nat : k < m /\ k \in G => k + 1 \in G
    PROVE  \A k \in 0 .. m : k \in G
<1> DEFINE Bad == {k \in Nat : k <= m /\ k \notin G}
<1>1. SUFFICES ASSUME Bad # {} PROVE FALSE
  BY <1>1
<1>2. Bad \subseteq Nat
  OBVIOUS
<1>3. PICK x \in Bad : \A y \in Bad : ~(<<y, x>> \in OpToRel(<, Nat))
  <2> HIDE DEF Bad
  <2> QED
    BY <1>1, <1>2, NatLessThanWellFounded, WFMin
<1>4. \A y \in Bad : ~(y < x)
  BY <1>2, <1>3 DEF OpToRel
<1>5. x \in Nat /\ x <= m /\ x \notin G /\ x # 0
  BY <1>3
<1>6. x - 1 \in Nat /\ x - 1 < x /\ x - 1 < m /\ x - 1 <= m
  BY <1>5
<1>7. x - 1 \notin Bad
  BY <1>4, <1>6
<1>8. x - 1 \in G
  BY <1>6, <1>7
<1>9. (x - 1) + 1 \in G
  BY <1>6, <1>8
<1> QED
  BY <1>5, <1>9

(* f gives what is selected from the first elements of s. *)
Selects(f, s, kept) ==
    /\ f \in [0 .. Len(s) -> Seq(kept)]
    /\ f[0] = <<>>
    /\ \A i \in 1 .. Len(s) :
          f[i] = IF s[i] \in kept THEN Append(f[i - 1], s[i]) ELSE f[i - 1]

LEMMA SelectsExist ==
    ASSUME NEW S, NEW s \in Seq(S), NEW kept
    PROVE  \E f : Selects(f, s, kept)
<1> DEFINE Upto(f, k) == /\ f \in [0 .. k -> Seq(kept)]
                         /\ f[0] = <<>>
                         /\ \A i \in 1 .. k :
                               f[i] = IF s[i] \in kept THEN Append(f[i - 1], s[i]) ELSE f[i - 1]
           G == {k \in Nat : \E f : Upto(f, k)}
<1>1. Len(s) \in Nat
  BY LenProperties
<1>2. 0 \in G
  <2>1. Upto([i \in 0 .. 0 |-> <<>>], 0)
    BY EmptySeq
  <2> QED
    BY <2>1
<1>3. ASSUME NEW k \in Nat, k < Len(s), k \in G PROVE k + 1 \in G
  <2>1. PICK f : Upto(f, k)
    BY <1>3
  <2> DEFINE x == IF s[k + 1] \in kept THEN Append(f[k], s[k + 1]) ELSE f[k]
             g == [i \in 0 .. (k + 1) |-> IF i = k + 1 THEN x ELSE f[i]]
  <2>2. f[k] \in Seq(kept)
    BY <1>3, <2>1
  <2>a. x \in Seq(kept)
    BY <2>2, AppendProperties
  <2> HIDE DEF x
  <2>3. \A i \in 0 .. k : g[i] = f[i] /\ f[i] \in Seq(kept)
    BY <2>1
  <2>4. g[k + 1] = x
    OBVIOUS
  <2>5. g \in [0 .. (k + 1) -> Seq(kept)]
    BY <2>1, <2>a
  <2> HIDE DEF g
  <2>6. g[0] = <<>>
    BY <2>1, <2>3
  <2>7. ASSUME NEW i \in 1 .. (k + 1)
        PROVE  g[i] = IF s[i] \in kept THEN Append(g[i - 1], s[i]) ELSE g[i - 1]
    <3>1. CASE i = k + 1
      <4>1. i - 1 = k /\ k \in 0 .. k
        BY <3>1
      <4>2. g[i - 1] = f[k] /\ g[i] = x
        BY <2>3, <2>4, <3>1, <4>1
      <4> QED
        BY <3>1, <4>2 DEF x
    <3>2. CASE i \in 1 .. k
      <4>1. i - 1 \in 0 .. k /\ i \in 0 .. k
        BY <3>2
      <4> QED
        BY <2>1, <2>3, <3>2, <4>1
    <3> QED
      BY <3>1, <3>2
  <2>8. Upto(g, k + 1)
    BY <2>5, <2>6, <2>7
  <2>9. k + 1 \in Nat
    OBVIOUS
  <2> HIDE DEF Upto
  <2> QED
    BY <2>8, <2>9
<1>4. Len(s) \in G
  <2> HIDE DEF G
  <2>1. \A k \in 0 .. Len(s) : k \in G
    BY <1>1, <1>2, <1>3, UpTo
  <2> QED
    BY <1>1, <2>1
<1> QED
  BY <1>4 DEF Selects

(* Selected() is the last of them. *)
LEMMA SelectedIsLast ==
    ASSUME NEW S, NEW s \in Seq(S), NEW kept, NEW f, Selects(f, s, kept)
    PROVE  Selected(s, kept) = f[Len(s)] /\ Selected(s, kept) \in Seq(kept)
<1> DEFINE Rec(h) == h = [i \in 0 .. Len(s) |->
                            IF i = 0 THEN <<>>
                            ELSE IF s[i] \in kept THEN Append(h[i - 1], s[i]) ELSE h[i - 1]]
<1>1. Len(s) \in Nat
  BY LenProperties
<1>2. Rec(f)
  <2>1. \A i \in 0 .. Len(s) :
          f[i] = IF i = 0 THEN <<>>
                 ELSE IF s[i] \in kept THEN Append(f[i - 1], s[i]) ELSE f[i - 1]
    <3> TAKE i \in 0 .. Len(s)
    <3>1. CASE i = 0
      BY <3>1 DEF Selects
    <3>2. CASE i # 0
      <4>1. i \in 1 .. Len(s)
        BY <1>1, <3>2
      <4>2. f[i] = IF s[i] \in kept THEN Append(f[i - 1], s[i]) ELSE f[i - 1]
        BY <4>1, Zenon DEF Selects
      <4> QED
        BY <3>2, <4>2
    <3> QED
      BY <3>1, <3>2
  <2> QED
    BY <2>1 DEF Selects
<1>3. PICK h : Rec(h) /\ Selected(s, kept) = h[Len(s)]
  <2>1. Selected(s, kept) = (CHOOSE h : Rec(h))[Len(s)]
    BY DEF Selected
  <2>2. Rec(CHOOSE h : Rec(h))
    BY <1>2
  <2> HIDE DEF Rec
  <2> QED
    BY <2>1, <2>2
<1>4. \A i \in 0 .. Len(s) :
        h[i] = IF i = 0 THEN <<>>
               ELSE IF s[i] \in kept THEN Append(h[i - 1], s[i]) ELSE h[i - 1]
  <2>1. \A i \in 0 .. Len(s) :
          [j \in 0 .. Len(s) |->
             IF j = 0 THEN <<>>
             ELSE IF s[j] \in kept THEN Append(h[j - 1], s[j]) ELSE h[j - 1]][i]
          = IF i = 0 THEN <<>>
            ELSE IF s[i] \in kept THEN Append(h[i - 1], s[i]) ELSE h[i - 1]
    OBVIOUS
  <2> QED
    BY <1>3, <2>1
<1> DEFINE G == {k \in Nat : k <= Len(s) => f[k] = h[k]}
<1>5. 0 \in G
  <2>1. 0 \in 0 .. Len(s)
    BY <1>1
  <2>2. h[0] = <<>>
    BY <1>4, <2>1
  <2> QED
    BY <2>2 DEF Selects
<1>6. ASSUME NEW k \in Nat, k < Len(s), k \in G PROVE k + 1 \in G
  <2>1. k + 1 \in 1 .. Len(s) /\ k + 1 \in 0 .. Len(s) /\ (k + 1) - 1 = k /\ f[k] = h[k]
        /\ k + 1 # 0
    BY <1>1, <1>6
  <2>2. f[k + 1] = IF s[k + 1] \in kept THEN Append(f[(k + 1) - 1], s[k + 1])
                   ELSE f[(k + 1) - 1]
    BY <2>1 DEF Selects
  <2>3. h[k + 1] = IF s[k + 1] \in kept THEN Append(h[(k + 1) - 1], s[k + 1])
                   ELSE h[(k + 1) - 1]
    BY <1>4, <2>1, Zenon
  <2>4. f[k + 1] = h[k + 1]
    BY <2>1, <2>2, <2>3
  <2> QED
    BY <2>4
<1>7. \A k \in 0 .. Len(s) : k \in G
  <2> HIDE DEF G
  <2> QED
    BY <1>1, <1>5, <1>6, UpTo
<1>8. f[Len(s)] = h[Len(s)] /\ f[Len(s)] \in Seq(kept)
  BY <1>1, <1>7 DEF Selects
<1> QED
  BY <1>3, <1>8

LEMMA SelectedType ==
    ASSUME NEW S, NEW s \in Seq(S), NEW kept
    PROVE  Selected(s, kept) \in Seq(kept)
BY SelectsExist, SelectedIsLast

LEMMA SelectedEmpty ==
    ASSUME NEW kept
    PROVE  Selected(<<>>, kept) = <<>>
<1> DEFINE none == <<>>
<1>1. none \in Seq({}) /\ Len(none) = 0
  BY EmptySeq
<1> HIDE DEF none
<1>2. PICK f : Selects(f, none, kept)
  BY <1>1, SelectsExist
<1>3. Selected(none, kept) = f[Len(none)]
  BY <1>1, <1>2, SelectedIsLast
<1> QED
  BY <1>1, <1>2, <1>3 DEF Selects, none

LEMMA SelectedAppend ==
    ASSUME NEW S, NEW s \in Seq(S), NEW x \in S, NEW kept
    PROVE  Selected(Append(s, x), kept)
             = IF x \in kept THEN Append(Selected(s, kept), x) ELSE Selected(s, kept)
<1> DEFINE t == Append(s, x)
<1>1. t \in Seq(S) /\ Len(s) \in Nat /\ Len(t) = Len(s) + 1 /\ t[Len(t)] = x
      /\ \A i \in 1 .. Len(s) : t[i] = s[i]
  BY AppendProperties, LenProperties
<1> HIDE DEF t
<1>2. PICK f : Selects(f, t, kept)
  BY <1>1, SelectsExist
<1> DEFINE g == [i \in 0 .. Len(s) |-> f[i]]
<1>3. \A i \in 0 .. Len(s) : g[i] = f[i] /\ f[i] \in Seq(kept)
  <2>1. \A i \in 0 .. Len(s) : i \in 0 .. Len(t)
    BY <1>1
  <2>2. \A i \in 0 .. Len(t) : f[i] \in Seq(kept)
    BY <1>2 DEF Selects
  <2> QED
    BY <2>1, <2>2
<1>4. g \in [0 .. Len(s) -> Seq(kept)]
  BY <1>3
<1>5. Selects(g, s, kept)
  <2> HIDE DEF g
  <2>1. g[0] = <<>>
    BY <1>1, <1>2, <1>3 DEF Selects
  <2>2. ASSUME NEW i \in 1 .. Len(s)
        PROVE  g[i] = IF s[i] \in kept THEN Append(g[i - 1], s[i]) ELSE g[i - 1]
    <3>1. i \in 1 .. Len(t) /\ i \in 0 .. Len(s) /\ i - 1 \in 0 .. Len(s)
      BY <1>1
    <3>2. f[i] = IF t[i] \in kept THEN Append(f[i - 1], t[i]) ELSE f[i - 1]
      BY <1>2, <3>1 DEF Selects
    <3> QED
      BY <1>1, <1>3, <3>1, <3>2
  <2> QED
    BY <1>4, <2>1, <2>2 DEF Selects
<1>6. f[Len(t)] = (IF x \in kept THEN Append(f[Len(t) - 1], x) ELSE f[Len(t) - 1])
      /\ Len(t) - 1 = Len(s)
  <2>1. Len(t) \in 1 .. Len(t) /\ Len(t) - 1 = Len(s)
    BY <1>1
  <2>2. f[Len(t)] = IF t[Len(t)] \in kept THEN Append(f[Len(t) - 1], t[Len(t)])
                    ELSE f[Len(t) - 1]
    BY <1>2, <2>1 DEF Selects
  <2> QED
    BY <1>1, <2>1, <2>2
<1>7. Selected(t, kept) = f[Len(t)] /\ Selected(s, kept) = g[Len(s)]
  BY <1>1, <1>2, <1>5, SelectedIsLast
<1>8. g[Len(s)] = f[Len(s)]
  BY <1>1, <1>3
<1> QED
  BY <1>6, <1>7, <1>8 DEF t

(* What is selected begins with the first element, if that is selected. *)
LEMMA SelectedTail ==
    ASSUME NEW S, NEW s \in Seq(S), s # <<>>, NEW kept
    PROVE  /\ Head(s) \in kept =>
                /\ Selected(s, kept) # <<>>
                /\ Head(Selected(s, kept)) = Head(s)
                /\ Tail(Selected(s, kept)) = Selected(Tail(s), kept)
           /\ Head(s) \notin kept => Selected(s, kept) = Selected(Tail(s), kept)
<1> DEFINE t == Tail(s)
           x == Head(s)
<1>1. t \in Seq(S) /\ Len(s) \in Nat /\ Len(t) \in Nat /\ Len(t) + 1 = Len(s) /\ s[1] = x
      /\ \A i \in 1 .. Len(t) : t[i] = s[i + 1]
  <2>1. t \in Seq(S) /\ Len(s) \in Nat /\ Len(t) \in Nat
    BY HeadTailProperties, LenProperties
  <2>2. Len(t) = Len(s) - 1 /\ \A i \in 1 .. Len(t) : t[i] = s[i + 1]
    BY HeadTailProperties
  <2>3. s[1] = x
    BY HeadTailProperties
  <2> QED
    BY <2>1, <2>2, <2>3
<1> HIDE DEF t, x
<1>2. PICK f : Selects(f, s, kept)
  BY <1>1, SelectsExist
<1>3. PICK g : Selects(g, t, kept)
  BY <1>1, SelectsExist
<1>4. Selected(s, kept) = f[Len(s)] /\ Selected(t, kept) = g[Len(t)]
      /\ f[Len(s)] \in Seq(kept)
  BY <1>1, <1>2, <1>3, SelectedIsLast
<1>5. f[1] = IF x \in kept THEN Append(<<>>, x) ELSE <<>>
  <2>1. 1 \in 1 .. Len(s) /\ 1 - 1 = 0
    BY <1>1
  <2>2. f[1] = IF s[1] \in kept THEN Append(f[1 - 1], s[1]) ELSE f[1 - 1]
    BY <1>2, <2>1 DEF Selects
  <2>3. f[0] = <<>>
    BY <1>2 DEF Selects
  <2> QED
    BY <1>1, <2>1, <2>2, <2>3
<1>6. g[0] = <<>>
  BY <1>3 DEF Selects
<1>7. ASSUME NEW k \in Nat, k < Len(t)
      PROVE  /\ f[(k + 1) + 1] = IF t[k + 1] \in kept THEN Append(f[k + 1], t[k + 1])
                                 ELSE f[k + 1]
             /\ g[k + 1] = IF t[k + 1] \in kept THEN Append(g[k], t[k + 1]) ELSE g[k]
             /\ f[k + 1] \in Seq(kept) /\ g[k] \in Seq(kept)
  <2>1. k + 1 \in 1 .. Len(t) /\ (k + 1) - 1 = k /\ k \in 0 .. Len(t)
        /\ (k + 1) + 1 \in 1 .. Len(s) /\ ((k + 1) + 1) - 1 = k + 1 /\ k + 1 \in 0 .. Len(s)
    BY <1>1, <1>7
  <2>2. f[(k + 1) + 1] = IF s[(k + 1) + 1] \in kept
                         THEN Append(f[((k + 1) + 1) - 1], s[(k + 1) + 1])
                         ELSE f[((k + 1) + 1) - 1]
    BY <1>2, <2>1 DEF Selects
  <2>3. g[k + 1] = IF t[k + 1] \in kept THEN Append(g[(k + 1) - 1], t[k + 1])
                   ELSE g[(k + 1) - 1]
    BY <1>3, <2>1 DEF Selects
  <2>4. t[k + 1] = s[(k + 1) + 1]
    BY <1>1, <2>1
  <2>5. f[k + 1] \in Seq(kept) /\ g[k] \in Seq(kept)
    BY <1>2, <1>3, <2>1 DEF Selects
  <2> QED
    BY <2>1, <2>2, <2>3, <2>4, <2>5
<1>8. CASE x \in kept
  <2> DEFINE G == {k \in Nat : k <= Len(t) =>
                     f[k + 1] # <<>> /\ Head(f[k + 1]) = x /\ Tail(f[k + 1]) = g[k]}
  <2>1. 0 \in G
    <3>1. f[1] = <<x>>
      BY <1>5, <1>8
    <3>2. Head(<<x>>) = x /\ Tail(<<x>>) = <<>> /\ <<x>> # <<>>
      OBVIOUS
    <3>a. 0 + 1 = 1
      OBVIOUS
    <3>3. f[0 + 1] # <<>> /\ Head(f[0 + 1]) = x /\ Tail(f[0 + 1]) = g[0]
      BY <1>6, <3>1, <3>2, <3>a, Zenon
    <3> QED
      BY <3>3
  <2>2. ASSUME NEW k \in Nat, k < Len(t), k \in G PROVE k + 1 \in G
    <3> DEFINE y == t[k + 1]
               e == f[k + 1]
    <3>1. e # <<>> /\ Head(e) = x /\ Tail(e) = g[k]
      BY <1>1, <2>2
    <3>2. e \in Seq(kept)
      BY <1>7, <2>2
    <3>3. f[(k + 1) + 1] = (IF y \in kept THEN Append(e, y) ELSE e)
          /\ g[k + 1] = (IF y \in kept THEN Append(g[k], y) ELSE g[k])
      BY <1>7, <2>2
    <3> HIDE DEF e, y
    <3>4. ASSUME y \in kept
          PROVE  Append(e, y) # <<>> /\ Head(Append(e, y)) = x /\ Tail(Append(e, y)) = Append(g[k], y)
      <4>1. Append(e, y) # <<>>
        BY <3>2, <3>4, AppendProperties
      <4>2. Head(Append(e, y)) = IF e = <<>> THEN y ELSE Head(e)
        BY <3>2, HeadTailAppend
      <4>3. Tail(Append(e, y)) = IF e = <<>> THEN <<>> ELSE Append(Tail(e), y)
        BY <3>2, HeadTailAppend
      <4> QED
        BY <3>1, <4>1, <4>2, <4>3, Zenon
    <3>5. f[(k + 1) + 1] # <<>> /\ Head(f[(k + 1) + 1]) = x /\ Tail(f[(k + 1) + 1]) = g[k + 1]
      BY <3>1, <3>3, <3>4
    <3> QED
      BY <3>5
  <2>3. \A k \in 0 .. Len(t) : k \in G
    <3> HIDE DEF G
    <3> QED
      BY <1>1, <2>1, <2>2, UpTo
  <2>4. f[Len(s)] # <<>> /\ Head(f[Len(s)]) = x /\ Tail(f[Len(s)]) = g[Len(t)]
    BY <1>1, <2>3
  <2> QED
    BY <1>4, <1>8, <2>4 DEF x, t
<1>9. CASE x \notin kept
  <2> DEFINE G == {k \in Nat : k <= Len(t) => f[k + 1] = g[k]}
  <2>1. 0 \in G
    <3>1. f[0 + 1] = g[0]
      BY <1>5, <1>6, <1>9
    <3> QED
      BY <3>1
  <2>2. ASSUME NEW k \in Nat, k < Len(t), k \in G PROVE k + 1 \in G
    <3>1. f[k + 1] = g[k]
      BY <1>1, <2>2
    <3>2. f[(k + 1) + 1] = g[k + 1]
      BY <1>7, <2>2, <3>1
    <3> QED
      BY <3>2
  <2>3. \A k \in 0 .. Len(t) : k \in G
    <3> HIDE DEF G
    <3> QED
      BY <1>1, <2>1, <2>2, UpTo
  <2>4. f[Len(s)] = g[Len(t)]
    BY <1>1, <2>3
  <2> QED
    BY <1>4, <1>9, <2>4 DEF x, t
<1> QED
  BY <1>8, <1>9
-------------------------------------------------------------------------------
(* What taking the first packet and adding a last one do.                   *)

LEMMA TailFacts ==
    ASSUME NEW S, NEW p \in Seq(S), p # <<>>
    PROVE  /\ \A t : Never(p, t) => Never(Tail(p), t) /\ Head(p).t # t
           /\ \A t : Once(p, t) /\ Head(p).t = t => Never(Tail(p), t)
           /\ \A t : Once(p, t) /\ Head(p).t # t => Once(Tail(p), t)
           /\ DataEnds(p) => DataEnds(Tail(p))
           /\ DataEnds(p) /\ Head(p).t = "close" => Never(Tail(p), "data")
<1> DEFINE q == Tail(p)
           h == Head(p)
<1>1. Len(p) \in Nat /\ Len(q) \in Nat /\ Len(q) + 1 = Len(p) /\ h = p[1]
      /\ \A i \in 1 .. Len(q) : q[i] = p[i + 1]
  <2>1. Len(p) \in Nat /\ Len(q) \in Nat
    BY HeadTailProperties, LenProperties
  <2>2. Len(q) = Len(p) - 1 /\ \A i \in 1 .. Len(q) : q[i] = p[i + 1]
    BY HeadTailProperties
  <2> QED
    BY <2>1, <2>2
<1> HIDE DEF q, h
<1>2. \A i \in 1 .. Len(q) : i + 1 \in 1 .. Len(p) /\ q[i] = p[i + 1]
  BY <1>1
<1>3. \A i \in 1 .. Len(p) : i # 1 => i - 1 \in 1 .. Len(q) /\ p[i] = q[i - 1]
  <2> TAKE i \in 1 .. Len(p)
  <2> HAVE i # 1
  <2>1. i - 1 \in 1 .. Len(q) /\ (i - 1) + 1 = i
    BY <1>1
  <2> QED
    BY <1>1, <2>1
<1>4. 1 \in 1 .. Len(p)
  BY <1>1
<1>5. ASSUME NEW t, Never(p, t) PROVE Never(q, t) /\ h.t # t
  BY <1>1, <1>2, <1>4, <1>5 DEF Never
<1>6. ASSUME NEW t, Once(p, t), h.t = t PROVE Never(q, t)
  <2>1. \A j \in 1 .. Len(p) : p[j].t = t => j = 1
    BY <1>1, <1>4, <1>6 DEF Once
  <2>2. ASSUME NEW i \in 1 .. Len(q), q[i].t = t PROVE FALSE
    <3>1. i + 1 \in 1 .. Len(p) /\ p[i + 1].t = t /\ i + 1 # 1
      BY <1>2, <2>2
    <3> QED
      BY <2>1, <3>1
  <2> QED
    BY <2>2 DEF Never
<1>7. ASSUME NEW t, Once(p, t), h.t # t PROVE Once(q, t)
  <2>1. PICK i \in 1 .. Len(p) : p[i].t = t /\ \A j \in 1 .. Len(p) : p[j].t = t => j = i
    BY <1>7 DEF Once
  <2>2. i # 1
    BY <1>1, <1>7, <2>1
  <2>3. i - 1 \in 1 .. Len(q) /\ q[i - 1].t = t
    BY <1>3, <2>1, <2>2
  <2>4. ASSUME NEW j \in 1 .. Len(q), q[j].t = t PROVE j = i - 1
    <3>1. j + 1 \in 1 .. Len(p) /\ p[j + 1].t = t
      BY <1>2, <2>4
    <3>2. j + 1 = i
      BY <2>1, <3>1
    <3> QED
      BY <3>2
  <2> QED
    BY <2>3, <2>4 DEF Once
<1>8. ASSUME DataEnds(p) PROVE DataEnds(q)
  <2>1. ASSUME NEW i \in 1 .. Len(q), NEW j \in 1 .. Len(q), i < j, q[i].t = "close"
        PROVE  q[j].t # "data"
    <3>1. i + 1 \in 1 .. Len(p) /\ j + 1 \in 1 .. Len(p) /\ i + 1 < j + 1
          /\ p[i + 1].t = "close"
      BY <1>2, <2>1
    <3>2. p[j + 1].t # "data"
      BY <1>8, <3>1 DEF DataEnds
    <3> QED
      BY <1>2, <3>2
  <2> QED
    BY <2>1 DEF DataEnds
<1>9. ASSUME DataEnds(p), h.t = "close" PROVE Never(q, "data")
  <2>1. ASSUME NEW i \in 1 .. Len(q) PROVE q[i].t # "data"
    <3>1. i + 1 \in 1 .. Len(p) /\ 1 < i + 1 /\ q[i] = p[i + 1]
      BY <1>2
    <3>2. p[i + 1].t # "data"
      BY <1>1, <1>4, <1>9, <3>1 DEF DataEnds
    <3> QED
      BY <3>1, <3>2
  <2> QED
    BY <2>1 DEF Never
<1> QED
  BY <1>5, <1>6, <1>7, <1>8, <1>9 DEF q, h

LEMMA AppendFacts ==
    ASSUME NEW S, NEW p \in Seq(S), NEW x \in S
    PROVE  /\ \A t : Never(p, t) /\ x.t # t => Never(Append(p, x), t)
           /\ \A t : Never(p, t) /\ x.t = t => Once(Append(p, x), t)
           /\ \A t : Once(p, t) /\ x.t # t => Once(Append(p, x), t)
           /\ DataEnds(p) /\ (x.t # "data" \/ Never(p, "close")) => DataEnds(Append(p, x))
<1> DEFINE q == Append(p, x)
           n == Len(p) + 1
<1>1. /\ Len(p) \in Nat /\ Len(q) = n /\ n \in Nat /\ n = Len(p) + 1 /\ q[n] = x
      /\ \A i \in 1 .. Len(p) : q[i] = p[i]
  BY AppendProperties, LenProperties
<1> HIDE DEF q, n
<1>2. \A i \in 1 .. n : i = n \/ i \in 1 .. Len(p)
  BY <1>1
<1>3. \A i \in 1 .. Len(p) : i \in 1 .. n /\ i < n
  BY <1>1
<1>4. n \in 1 .. n
  BY <1>1
<1>5. ASSUME NEW t, Never(p, t), x.t # t PROVE Never(q, t)
  BY <1>1, <1>2, <1>5 DEF Never
<1>6. ASSUME NEW t, Never(p, t), x.t = t PROVE Once(q, t)
  <2>1. \A j \in 1 .. n : q[j].t = t => j = n
    BY <1>1, <1>2, <1>6 DEF Never
  <2> QED
    BY <1>1, <1>4, <1>6, <2>1 DEF Once
<1>7. ASSUME NEW t, Once(p, t), x.t # t PROVE Once(q, t)
  <2>1. PICK i \in 1 .. Len(p) : p[i].t = t /\ \A j \in 1 .. Len(p) : p[j].t = t => j = i
    BY <1>7 DEF Once
  <2>2. i \in 1 .. n /\ q[i].t = t
    BY <1>1, <1>3, <2>1
  <2>3. \A j \in 1 .. n : q[j].t = t => j = i
    BY <1>1, <1>2, <1>7, <2>1
  <2> QED
    BY <1>1, <2>2, <2>3 DEF Once
<1>8. ASSUME DataEnds(p), x.t # "data" \/ Never(p, "close") PROVE DataEnds(q)
  <2>1. ASSUME NEW i \in 1 .. n, NEW j \in 1 .. n, i < j, q[i].t = "close"
        PROVE  q[j].t # "data"
    <3>1. i \in 1 .. Len(p) /\ q[i] = p[i]
      BY <1>1, <1>2, <2>1
    <3>2. CASE j \in 1 .. Len(p)
      BY <1>1, <1>8, <2>1, <3>1, <3>2 DEF DataEnds
    <3>3. CASE j = n
      BY <1>1, <1>8, <2>1, <3>1, <3>3 DEF Never
    <3> QED
      BY <1>2, <3>2, <3>3
  <2> QED
    BY <1>1, <2>1 DEF DataEnds
<1> QED
  BY <1>5, <1>6, <1>7, <1>8 DEF q

LEMMA NothingNever ==
    /\ \A t : Never(<<>>, t)
    /\ DataEnds(<<>>)
BY DEF Never, DataEnds

LEMMA NoPackets ==
    ASSUME NEW c, NEW p \in Seq(About(c, PacketTypes)),
           \A t \in PacketTypes : Never(p, t)
    PROVE  p = <<>>
<1>1. ASSUME p # <<>> PROVE FALSE
  <2>1. Head(p) \in About(c, PacketTypes)
    BY <1>1, HeadTailProperties
  <2>2. Head(p).t \in PacketTypes
    BY <2>1 DEF About
  <2>3. Head(p).t # Head(p).t
    BY <1>1, <2>2, TailFacts
  <2> QED
    BY <2>3
<1> QED
  BY <1>1

-------------------------------------------------------------------------------
(* The numbers of the data that is on its way.                              *)

LEMMA DataNumbersType ==
    ASSUME NEW c, NEW p \in Seq(About(c, PacketTypes))
    PROVE  DataNumbers(c, p) \in Seq(Nat)
<1> DEFINE D == About(c, {"data"})
           d == Selected(p, D)
<1>1. d \in Seq(D)
  BY SelectedType
<1> HIDE DEF D, d
<1>2. Len(d) \in Nat /\ \A i \in 1 .. Len(d) : d[i] \in D
  BY <1>1, LenProperties, ElementOfSeq
<1>3. \A i \in 1 .. Len(d) : d[i].n \in Nat
  BY <1>2 DEF D, About
<1>4. Numbers(d) \in [1 .. Len(d) -> Nat]
  BY <1>3 DEF Numbers
<1>5. Numbers(d) \in Seq(Nat)
  BY <1>2, <1>4, SeqDef
<1> QED
  BY <1>5 DEF DataNumbers, d, D

LEMMA NumbersAppend ==
    ASSUME NEW D, NEW d \in Seq(D), NEW x \in D
    PROVE  Numbers(Append(d, x)) = Append(Numbers(d), x.n)
<1> DEFINE e == Append(d, x)
           N == Numbers(d)
<1>1. Len(d) \in Nat /\ Len(e) = Len(d) + 1 /\ e[Len(d) + 1] = x
      /\ \A i \in 1 .. Len(d) : e[i] = d[i]
  BY AppendProperties, LenProperties
<1> HIDE DEF e
<1>2. Numbers(e) = [i \in 1 .. Len(d) + 1 |-> e[i].n]
  BY <1>1 DEF Numbers
<1>3. Len(N) = Len(d) /\ \A i \in 1 .. Len(d) : N[i] = d[i].n
  BY <1>1 DEF Numbers
<1>4. Append(N, x.n) = [i \in 1 .. Len(d) + 1 |-> IF i = Len(d) + 1 THEN x.n ELSE N[i]]
  <2>1. N \in Seq({d[i].n : i \in 1 .. Len(d)})
    BY <1>1, SeqDef DEF Numbers
  <2> HIDE DEF N
  <2> QED
    BY <1>1, <1>3, <2>1
<1>5. \A i \in 1 .. Len(d) + 1 : e[i].n = IF i = Len(d) + 1 THEN x.n ELSE N[i]
  BY <1>1, <1>3
<1> HIDE DEF N
<1>6. Numbers(e) = Append(N, x.n)
  BY <1>2, <1>4, <1>5
<1> QED
  BY <1>6 DEF e, N

LEMMA NumbersTail ==
    ASSUME NEW D, NEW d \in Seq(D), d # <<>>, \A x \in D : x.n \in Nat
    PROVE  Numbers(d) = <<Head(d).n>> \o Numbers(Tail(d))
<1> DEFINE e == Tail(d)
           M == Numbers(d)
           N == Numbers(e)
           x == Head(d).n
           one == <<x>>
<1>1. Len(d) \in Nat /\ Len(e) \in Nat /\ Len(e) + 1 = Len(d) /\ Head(d) = d[1]
      /\ (\A i \in 1 .. Len(e) : e[i] = d[i + 1]) /\ e \in Seq(D)
  <2>1. e \in Seq(D) /\ Len(d) \in Nat /\ Len(e) \in Nat
    BY HeadTailProperties, LenProperties
  <2>2. Len(e) = Len(d) - 1 /\ \A i \in 1 .. Len(e) : e[i] = d[i + 1]
    BY HeadTailProperties
  <2> QED
    BY <2>1, <2>2
<1> HIDE DEF e
<1>2. (\A i \in 1 .. Len(d) : d[i].n \in Nat) /\ (\A i \in 1 .. Len(e) : e[i].n \in Nat)
  BY <1>1, ElementOfSeq
<1>3. M \in Seq(Nat) /\ Len(M) = Len(d) /\ \A i \in 1 .. Len(d) : M[i] = d[i].n
  BY <1>1, <1>2, SeqDef DEF Numbers
<1>4. N \in Seq(Nat) /\ Len(N) = Len(e) /\ \A i \in 1 .. Len(e) : N[i] = e[i].n
  BY <1>1, <1>2, SeqDef DEF Numbers
<1>5. one \in Seq(Nat) /\ Len(one) = 1 /\ one[1] = d[1].n
  <2>1. 1 \in 1 .. Len(d)
    BY <1>1
  <2> QED
    BY <1>1, <1>2, <2>1
<1> HIDE DEF M, N, one
<1>6. /\ one \o N \in Seq(Nat) /\ Len(one \o N) = 1 + Len(N)
      /\ \A i \in 1 .. 1 + Len(N) : (one \o N)[i] = IF i <= 1 THEN one[i] ELSE N[i - 1]
  <2>1. /\ one \o N \in Seq(Nat) /\ Len(one \o N) = Len(one) + Len(N)
        /\ \A i \in 1 .. Len(one) + Len(N) :
              (one \o N)[i] = IF i <= Len(one) THEN one[i] ELSE N[i - Len(one)]
    BY <1>4, <1>5, ConcatProperties, ZenonT(60)
  <2> QED
    BY <1>5, <2>1, Zenon
<1>7. Len(M) = Len(one \o N)
  BY <1>1, <1>3, <1>4, <1>6
<1>8. ASSUME NEW i \in 1 .. Len(M) PROVE M[i] = (one \o N)[i]
  <2>1. i \in 1 .. Len(d) /\ i \in 1 .. 1 + Len(N) /\ M[i] = d[i].n
    BY <1>1, <1>3, <1>4
  <2>2. CASE i = 1
    BY <1>5, <1>6, <2>1, <2>2
  <2>3. CASE i # 1
    <3>1. i - 1 \in 1 .. Len(e) /\ (i - 1) + 1 = i /\ ~(i <= 1)
      BY <1>1, <2>1, <2>3
    <3>2. N[i - 1] = d[i].n
      BY <1>1, <1>4, <3>1
    <3> QED
      BY <1>6, <2>1, <3>1, <3>2
  <2> QED
    BY <2>2, <2>3
<1>9. M = one \o N
  BY <1>3, <1>6, <1>7, <1>8, SeqEqual
<1> QED
  BY <1>9 DEF M, N, one, x, e

LEMMA DataNumbersEmpty == \A c : DataNumbers(c, <<>>) = <<>>
<1>1. Numbers(<<>>) = <<>>
  BY DEF Numbers
<1> QED
  BY <1>1, SelectedEmpty DEF DataNumbers

LEMMA DataNumbersAppend ==
    ASSUME NEW c, NEW p \in Seq(About(c, PacketTypes)), NEW x \in About(c, PacketTypes)
    PROVE  DataNumbers(c, Append(p, x))
             = IF x.t = "data" THEN Append(DataNumbers(c, p), x.n) ELSE DataNumbers(c, p)
<1> DEFINE D == About(c, {"data"})
<1>1. x \in D <=> x.t = "data"
  BY DEF About, PacketTypes
<1>2. Selected(Append(p, x), D)
        = IF x \in D THEN Append(Selected(p, D), x) ELSE Selected(p, D)
  BY SelectedAppend
<1>3. Selected(p, D) \in Seq(D)
  BY SelectedType
<1>4. x \in D => Numbers(Append(Selected(p, D), x)) = Append(Numbers(Selected(p, D)), x.n)
  BY <1>3, NumbersAppend
<1> HIDE DEF D
<1> QED
  BY <1>1, <1>2, <1>4 DEF DataNumbers, D

LEMMA DataNumbersTail ==
    ASSUME NEW c, NEW p \in Seq(About(c, PacketTypes)), p # <<>>
    PROVE  DataNumbers(c, p)
             = IF Head(p).t = "data" THEN <<Head(p).n>> \o DataNumbers(c, Tail(p))
               ELSE DataNumbers(c, Tail(p))
<1> DEFINE D == About(c, {"data"})
           d == Selected(p, D)
<1>1. Head(p) \in About(c, PacketTypes)
  BY HeadTailProperties
<1>2. Head(p) \in D <=> Head(p).t = "data"
  BY <1>1 DEF About, PacketTypes
<1>3. /\ Head(p) \in D =>
           d # <<>> /\ Head(d) = Head(p) /\ Tail(d) = Selected(Tail(p), D)
      /\ Head(p) \notin D => d = Selected(Tail(p), D)
  BY SelectedTail
<1>4. d \in Seq(D) /\ \A x \in D : x.n \in Nat
  BY SelectedType DEF About
<1> HIDE DEF D, d
<1>5. d # <<>> => Numbers(d) = <<Head(d).n>> \o Numbers(Tail(d))
  BY <1>4, NumbersTail
<1>6. CASE Head(p) \in D
  BY <1>2, <1>3, <1>5, <1>6, Zenon DEF DataNumbers, d, D
<1>7. CASE Head(p) \notin D
  BY <1>2, <1>3, <1>7, Zenon DEF DataNumbers, d, D
<1> QED
  BY <1>6, <1>7
-------------------------------------------------------------------------------
(* The four places where packets wait, as one sequence.                     *)

Cat(a, b) == a \o b

LEMMA CatFacts ==
    ASSUME NEW S, NEW a \in Seq(S), NEW b \in Seq(S)
    PROVE  /\ Cat(a, b) \in Seq(S)
           /\ Cat(<<>>, a) = a /\ Cat(a, <<>>) = a
<1>1. a \o b \in Seq(S) /\ <<>> \o a = a /\ a \o <<>> = a
  BY ConcatProperties, ConcatEmptySeq
<1> QED
  BY <1>1, Zenon DEF Cat

LEMMA CatAssociative ==
    ASSUME NEW S, NEW a \in Seq(S), NEW b \in Seq(S), NEW c \in Seq(S)
    PROVE  Cat(Cat(a, b), c) = Cat(a, Cat(b, c))
<1>1. (a \o b) \o c = a \o (b \o c)
  BY ConcatAssociative
<1> QED
  BY <1>1, Zenon DEF Cat

LEMMA CatAppend ==
    ASSUME NEW S, NEW a \in Seq(S), NEW b \in Seq(S), NEW x \in S
    PROVE  Cat(a, Append(b, x)) = Append(Cat(a, b), x)
<1> DEFINE one == <<x>>
<1>1. one \in Seq(S)
  OBVIOUS
<1>2. a \o b \in Seq(S)
  BY ConcatProperties
<1>3. Append(b, x) = b \o one /\ Append(a \o b, x) = (a \o b) \o one
  BY <1>2, AppendIsConcat
<1>4. (a \o b) \o one = a \o (b \o one)
  <2> HIDE DEF one
  <2> QED
    BY <1>1, ConcatAssociative
<1> HIDE DEF one
<1> QED
  BY <1>3, <1>4, Zenon DEF Cat

LEMMA CatTail ==
    ASSUME NEW S, NEW a \in Seq(S), a # <<>>, NEW b \in Seq(S)
    PROVE  /\ Cat(a, b) # <<>>
           /\ Head(Cat(a, b)) = Head(a)
           /\ Tail(Cat(a, b)) = Cat(Tail(a), b)
<1> DEFINE c == Cat(a, b)
           e == Tail(a)
           d == Cat(e, b)
<1>1. e \in Seq(S) /\ Len(a) \in Nat /\ Len(b) \in Nat /\ Len(e) \in Nat
      /\ Len(e) + 1 = Len(a) /\ \A i \in 1 .. Len(e) : e[i] = a[i + 1]
  <2>1. e \in Seq(S) /\ Len(a) \in Nat /\ Len(b) \in Nat /\ Len(e) \in Nat
    BY HeadTailProperties, LenProperties
  <2>2. Len(e) = Len(a) - 1 /\ \A i \in 1 .. Len(e) : e[i] = a[i + 1]
    BY HeadTailProperties
  <2> QED
    BY <2>1, <2>2
<1> HIDE DEF e
<1>2. c \in Seq(S) /\ Len(c) = Len(a) + Len(b)
      /\ \A i \in 1 .. Len(a) + Len(b) : c[i] = IF i <= Len(a) THEN a[i] ELSE b[i - Len(a)]
  BY ConcatProperties, Zenon DEF Cat
<1>3. d \in Seq(S) /\ Len(d) = Len(e) + Len(b)
      /\ \A i \in 1 .. Len(e) + Len(b) : d[i] = IF i <= Len(e) THEN e[i] ELSE b[i - Len(e)]
  <2>1. /\ e \o b \in Seq(S) /\ Len(e \o b) = Len(e) + Len(b)
        /\ \A i \in 1 .. Len(e) + Len(b) :
              (e \o b)[i] = IF i <= Len(e) THEN e[i] ELSE b[i - Len(e)]
    BY <1>1, ConcatProperties
  <2> QED
    BY <2>1, Zenon DEF Cat
<1> HIDE DEF c, d
<1>4. c # <<>>
  <2>1. Len(c) # 0
    BY <1>1, <1>2
  <2> QED
    BY <2>1
<1>5. c[1] = a[1] /\ Head(c) = c[1] /\ Head(a) = a[1]
  <2>1. 1 \in 1 .. Len(a) + Len(b) /\ 1 <= Len(a)
    BY <1>1
  <2> QED
    BY <1>2, <2>1
<1>6. Tail(c) \in Seq(S) /\ Len(Tail(c)) = Len(c) - 1
      /\ \A i \in 1 .. Len(Tail(c)) : Tail(c)[i] = c[i + 1]
  BY <1>2, <1>4, HeadTailProperties
<1>7. Len(Tail(c)) = Len(d)
  BY <1>1, <1>2, <1>3, <1>6
<1>8. ASSUME NEW i \in 1 .. Len(d) PROVE Tail(c)[i] = d[i]
  <2>1. i \in 1 .. Len(e) + Len(b) /\ i + 1 \in 1 .. Len(a) + Len(b)
        /\ (i <= Len(e) <=> i + 1 <= Len(a)) /\ (i + 1) - Len(a) = i - Len(e)
        /\ (i <= Len(e) => i \in 1 .. Len(e))
    <3> DEFINE l == Len(e)
               m == Len(b)
               n == Len(a)
    <3>1. l \in Nat /\ m \in Nat /\ n = l + 1 /\ i \in 1 .. l + m
      BY <1>1, <1>3
    <3> HIDE DEF l, m, n
    <3>2. i \in 1 .. l + m /\ i + 1 \in 1 .. n + m /\ (i <= l <=> i + 1 <= n)
          /\ (i + 1) - n = i - l /\ (i <= l => i \in 1 .. l)
      BY <3>1
    <3> QED
      BY <3>2 DEF l, m, n
  <2>2. Tail(c)[i] = c[i + 1]
    BY <1>6, <1>7
  <2>3. c[i + 1] = IF i + 1 <= Len(a) THEN a[i + 1] ELSE b[(i + 1) - Len(a)]
    BY <1>2, <2>1, SMTT(40)
  <2>4. d[i] = IF i <= Len(e) THEN e[i] ELSE b[i - Len(e)]
    BY <1>3, <2>1
  <2> QED
    BY <1>1, <2>1, <2>2, <2>3, <2>4
<1>9. Tail(c) = d
  BY <1>3, <1>6, <1>7, <1>8, SeqEqual
<1> QED
  BY <1>4, <1>5, <1>9 DEF c, d, e

Queue == Seq(Packets)
Leads(w, h, t) == w # <<>> /\ Head(w) = h /\ Tail(w) = t

LEMMA QueueCat ==
    ASSUME NEW a \in Queue, NEW b \in Queue
    PROVE  /\ Cat(a, b) \in Queue
           /\ Cat(<<>>, a) = a /\ Cat(a, <<>>) = a
BY CatFacts DEF Queue

LEMMA QueueAssociative ==
    ASSUME NEW a \in Queue, NEW b \in Queue, NEW c \in Queue
    PROVE  Cat(Cat(a, b), c) = Cat(a, Cat(b, c))
BY CatAssociative DEF Queue

LEMMA QueueTail ==
    ASSUME NEW a \in Queue, a # <<>>
    PROVE  Leads(a, Head(a), Tail(a)) /\ Tail(a) \in Queue
<1>1. Tail(a) \in Queue
  BY HeadTailProperties DEF Queue
<1> QED
  BY <1>1, Zenon DEF Leads

LEMMA QueueAppend ==
    ASSUME NEW a \in Queue, NEW b \in Queue, NEW x \in Packets
    PROVE  Cat(a, Append(b, x)) = Append(Cat(a, b), x)
BY CatAppend DEF Queue

LEMMA CatLeads ==
    ASSUME NEW a \in Queue, NEW b \in Queue, NEW h, NEW t, Leads(a, h, t)
    PROVE  Leads(Cat(a, b), h, Cat(t, b))
<1>1. a \in Seq(Packets) /\ b \in Seq(Packets) /\ a # <<>> /\ Head(a) = h /\ Tail(a) = t
  BY DEF Leads, Queue
<1>2. Cat(a, b) # <<>> /\ Head(Cat(a, b)) = Head(a) /\ Tail(Cat(a, b)) = Cat(Tail(a), b)
  BY <1>1, CatTail
<1> QED
  BY <1>1, <1>2, Zenon DEF Leads

Four(a, b, c, d) == Cat(Cat(Cat(a, b), c), d)

LEMMA UnprocessedIs == Unprocessed = Four(queued, data, held, net)
BY DEF Unprocessed, Four, Cat

LEMMA FourType ==
    ASSUME NEW a \in Queue, NEW b \in Queue, NEW c \in Queue, NEW d \in Queue
    PROVE  Four(a, b, c, d) \in Queue
<1>1. Cat(a, b) \in Queue
  BY QueueCat
<1>2. Cat(Cat(a, b), c) \in Queue
  BY <1>1, QueueCat
<1> QED
  BY <1>2, QueueCat DEF Four

LEMMA FourFirst ==
    ASSUME NEW a \in Queue, NEW b \in Queue, NEW c \in Queue, NEW d \in Queue,
           NEW h, NEW t, Leads(a, h, t)
    PROVE  Leads(Four(a, b, c, d), h, Four(t, b, c, d))
<1> DEFINE ab == Cat(a, b)
           abc == Cat(ab, c)
           tb == Cat(t, b)
<1>1. ab \in Queue /\ Leads(ab, h, tb)
  BY QueueCat, CatLeads
<1>2. abc \in Queue
  BY <1>1, QueueCat
<1> HIDE DEF ab, tb
<1>3. Leads(abc, h, Cat(tb, c))
  BY <1>1, CatLeads
<1> HIDE DEF abc
<1>4. Leads(Cat(abc, d), h, Cat(Cat(tb, c), d))
  BY <1>2, <1>3, CatLeads
<1> QED
  BY <1>4, Zenon DEF Four, ab, abc, tb

LEMMA FourSecond ==
    ASSUME NEW b \in Queue, NEW c \in Queue, NEW d \in Queue,
           NEW h, NEW t \in Queue, Leads(b, h, t)
    PROVE  Leads(Four(<<>>, b, c, d), h, Four(<<>>, t, c, d))
<1> DEFINE bc == Cat(b, c)
           tc == Cat(t, c)
<1>1. Cat(<<>>, b) = b /\ Cat(<<>>, t) = t
  BY QueueCat
<1>2. bc \in Queue /\ Leads(bc, h, tc)
  BY QueueCat, CatLeads
<1> HIDE DEF bc, tc
<1>3. Leads(Cat(bc, d), h, Cat(tc, d))
  BY <1>2, CatLeads
<1> QED
  BY <1>1, <1>3, Zenon DEF Four, bc, tc

LEMMA UnprocessedAppend ==
    ASSUME NEW x \in Packets, queued \in Queue, data \in Queue, held \in Queue, net \in Queue
    PROVE  Four(queued, data, held, Append(net, x)) = Append(Unprocessed, x)
<1> DEFINE abc == Cat(Cat(queued, data), held)
<1>1. abc \in Queue
  <2>1. Cat(queued, data) \in Queue
    BY QueueCat
  <2> QED
    BY <2>1, QueueCat
<1> HIDE DEF abc
<1>2. Cat(abc, Append(net, x)) = Append(Cat(abc, net), x)
  BY <1>1, QueueAppend
<1> QED
  BY <1>2, UnprocessedIs, Zenon DEF Four, abc

(* What moves from one place to the next keeps its place in the line. *)
LEMMA FourMoves ==
    ASSUME NEW a \in Queue, NEW b \in Queue, NEW c \in Queue, NEW d \in Queue
    PROVE  /\ Four(a, b, <<>>, Cat(c, d)) = Four(a, b, c, d)
           /\ Four(Cat(a, b), <<>>, c, d) = Four(a, b, c, d)
<1> DEFINE ab == Cat(a, b)
<1>1. ab \in Queue
  BY QueueCat
<1> HIDE DEF ab
<1>2. Cat(ab, <<>>) = ab
  BY <1>1, QueueCat
<1>3. Cat(ab, Cat(c, d)) = Cat(Cat(ab, c), d)
  BY <1>1, QueueAssociative
<1>4. Four(a, b, <<>>, Cat(c, d)) = Four(a, b, c, d)
  BY <1>2, <1>3, Zenon DEF Four, ab
<1>5. Four(Cat(a, b), <<>>, c, d) = Four(a, b, c, d)
  BY <1>2, Zenon DEF Four, ab
<1> QED
  BY <1>4, <1>5, Zenon

LEMMA FourSkips ==
    ASSUME NEW a \in Queue, NEW c \in Queue, NEW d \in Queue
    PROVE  /\ Four(a, <<>>, <<>>, Cat(c, d)) = Four(a, c, <<>>, d)
           /\ Four(Cat(a, c), <<>>, <<>>, d) = Four(a, <<>>, c, d)
<1> DEFINE ac == Cat(a, c)
<1>1. ac \in Queue
  BY QueueCat
<1> HIDE DEF ac
<1>2. Cat(a, <<>>) = a /\ Cat(ac, <<>>) = ac
  BY <1>1, QueueCat
<1>3. Cat(a, Cat(c, d)) = Cat(ac, d)
  BY QueueAssociative DEF ac
<1>4. Four(a, <<>>, <<>>, Cat(c, d)) = Four(a, c, <<>>, d)
  BY <1>2, <1>3, Zenon DEF Four, ac
<1>5. Four(Cat(a, c), <<>>, <<>>, d) = Four(a, <<>>, c, d)
  BY <1>2, Zenon DEF Four, ac
<1> QED
  BY <1>4, <1>5, Zenon

-------------------------------------------------------------------------------
(* What steps do to the packets of each channel.                            *)

Line(c) == OfChannel(c, Unprocessed)

LEMMA Queues ==
    ASSUME TypeOK
    PROVE  /\ queued \in Queue /\ data \in Queue /\ held \in Queue /\ net \in Queue
           /\ Unprocessed \in Queue
           /\ \A c \in Chan : Line(c) \in Seq(About(c, PacketTypes))
<1>1. queued \in Queue /\ data \in Queue /\ held \in Queue /\ net \in Queue
  BY DEF TypeOK, Queue
<1>2. Unprocessed \in Queue
  BY <1>1, FourType, UnprocessedIs
<1>3. \A c \in Chan : Line(c) \in Seq(About(c, PacketTypes))
  <2>1. Unprocessed \in Seq(Packets)
    BY <1>2 DEF Queue
  <2> QED
    BY <2>1, SelectedType DEF Line, OfChannel
<1> QED
  BY <1>1, <1>2, <1>3

LEMMA LinesStay ==
    ASSUME Unprocessed' = Unprocessed
    PROVE  \A c \in Chan : Line(c)' = Line(c)
BY DEF Line, OfChannel

LEMMA PacketIs ==
    ASSUME TypeOK, NEW t, Gets(t), UNCHANGED <<held, net>>
    PROVE  /\ Unprocessed # <<>>
           /\ Head(Unprocessed) = Packet
           /\ Unprocessed' = Tail(Unprocessed)
           /\ Packet \in Packets /\ Packet.t = t
<1> DEFINE U == Four(queued, data, held, net)
<1>1. queued \in Queue /\ data \in Queue /\ held \in Queue /\ net \in Queue
  BY Queues
<1>2. Packet \in Packets /\ Packet.t = t
  BY GetsType DEF Gets
<1>3. Unprocessed' = Four(queued', data', held, net)
  BY DEF Unprocessed, Four, Cat
<1>4. CASE queued # <<>>
  <2>1. queued' = Tail(queued) /\ data' = data /\ Packet = Head(queued)
    BY <1>4 DEF Gets, Consumed, Packet
  <2>2. Leads(queued, Head(queued), Tail(queued))
    BY <1>1, <1>4, QueueTail
  <2>3. Leads(U, Head(queued), Four(Tail(queued), data, held, net))
    BY <1>1, <2>2, FourFirst
  <2> QED
    BY <1>2, <1>3, <2>1, <2>3, UnprocessedIs, Zenon DEF Leads
<1>5. CASE queued = <<>>
  <2>1. data # <<>> /\ data' = Tail(data) /\ queued' = queued /\ Packet = Head(data)
    BY <1>5 DEF Gets, Consumed, Packet, Processing
  <2>2. Leads(data, Head(data), Tail(data)) /\ Tail(data) \in Queue
    BY <1>1, <2>1, QueueTail
  <2>3. Leads(Four(<<>>, data, held, net), Head(data), Four(<<>>, Tail(data), held, net))
    BY <1>1, <2>2, FourSecond
  <2> QED
    BY <1>2, <1>3, <1>5, <2>1, <2>3, UnprocessedIs, Zenon DEF Leads
<1> QED
  BY <1>4, <1>5

LEMMA AboutIs ==
    ASSUME NEW x \in Packets, NEW c \in Chan
    PROVE  x \in About(c, PacketTypes) <=> x.t # "open" /\ x.c = c
BY DEF Packets, About, PacketTypes

LEMMA LineGets ==
    ASSUME TypeOK, NEW t, Gets(t), t # "open", UNCHANGED <<held, net>>
    PROVE  /\ Packet.c \in Chan /\ Packet.t = t
           /\ Packet \in About(Packet.c, PacketTypes)
           /\ Line(Packet.c) # <<>>
           /\ Head(Line(Packet.c)) = Packet
           /\ \A d \in Chan : d = Packet.c => Line(d)' = Tail(Line(d))
           /\ \A d \in Chan : d # Packet.c => Line(d)' = Line(d)
<1> DEFINE U == Unprocessed
           V == Tail(U)
           x == Packet
<1>1. U # <<>> /\ Head(U) = x /\ Unprocessed' = V /\ x \in Packets /\ x.t = t
  BY PacketIs
<1>2. U \in Seq(Packets)
  BY Queues DEF Queue
<1>3. x.c \in Chan
  BY <1>1 DEF Packets
<1>4. \A d \in Chan : Line(d) = OfChannel(d, U) /\ Line(d)' = OfChannel(d, V)
  BY <1>1 DEF Line, OfChannel
<1> HIDE DEF x, U, V
<1>5. ASSUME NEW d \in Chan
      PROVE  /\ d = x.c => /\ OfChannel(d, U) # <<>>
                           /\ Head(OfChannel(d, U)) = x
                           /\ Tail(OfChannel(d, U)) = OfChannel(d, Tail(U))
             /\ d # x.c => OfChannel(d, U) = OfChannel(d, Tail(U))
  <2>1. x \in About(d, PacketTypes) <=> x.c = d
    BY <1>1, AboutIs
  <2> DEFINE kept == About(d, PacketTypes)
  <2> HIDE DEF kept
  <2>2. /\ x \in kept =>
             /\ Selected(U, kept) # <<>>
             /\ Head(Selected(U, kept)) = x
             /\ Tail(Selected(U, kept)) = Selected(Tail(U), kept)
        /\ x \notin kept => Selected(U, kept) = Selected(Tail(U), kept)
    BY <1>1, <1>2, SelectedTail
  <2> QED
    BY <2>1, <2>2, Zenon DEF OfChannel, kept
<1>6. x \in About(x.c, PacketTypes)
  BY <1>1, <1>3, AboutIs
<1> QED
  BY <1>1, <1>3, <1>4, <1>5, <1>6 DEF x, V

LEMMA LineGetsOpen ==
    ASSUME TypeOK, Gets("open"), UNCHANGED <<held, net>>
    PROVE  \A d \in Chan : Line(d)' = Line(d)
<1> DEFINE U == Unprocessed
           V == Tail(U)
           x == Packet
<1>1. U # <<>> /\ Head(U) = x /\ Unprocessed' = V /\ x \in Packets /\ x.t = "open"
  BY PacketIs
<1>2. U \in Seq(Packets)
  BY Queues DEF Queue
<1>4. \A d \in Chan : Line(d) = OfChannel(d, U) /\ Line(d)' = OfChannel(d, V)
  BY <1>1 DEF Line, OfChannel
<1> HIDE DEF x, U
<1>5. ASSUME NEW d \in Chan PROVE OfChannel(d, U) = OfChannel(d, V)
  <2>1. x \notin About(d, PacketTypes)
    BY <1>1, AboutIs
  <2> QED
    BY <1>1, <1>2, <2>1, SelectedTail DEF OfChannel
<1> QED
  BY <1>4, <1>5

LEMMA LineSends ==
    ASSUME TypeOK, NEW x \in Packets, SrvSends(x), UNCHANGED <<queued, data, held>>
    PROVE  /\ \A c \in Chan : x \in About(c, PacketTypes) => Line(c)' = Append(Line(c), x)
           /\ \A c \in Chan : x \notin About(c, PacketTypes) => Line(c)' = Line(c)
<1> DEFINE U == Unprocessed
           V == Append(U, x)
<1>1. U \in Seq(Packets)
  BY Queues DEF Queue
<1>2. Unprocessed' = V
  <2>1. Four(queued, data, held, Append(net, x)) = V
    BY Queues, UnprocessedAppend
  <2>2. Unprocessed' = Four(queued, data, held, Append(net, x))
    BY DEF Unprocessed, Four, Cat, SrvSends
  <2> QED
    BY <2>1, <2>2, Zenon
<1>3. \A c \in Chan : Line(c) = OfChannel(c, U) /\ Line(c)' = OfChannel(c, V)
  BY <1>2 DEF Line, OfChannel
<1> HIDE DEF U
<1>4. \A c \in Chan :
        OfChannel(c, V) = IF x \in About(c, PacketTypes) THEN Append(OfChannel(c, U), x)
                          ELSE OfChannel(c, U)
  BY <1>1, SelectedAppend DEF OfChannel
<1> HIDE DEF V
<1> QED
  BY <1>3, <1>4

-------------------------------------------------------------------------------
(* The life of a channel, step by step: what the client does with a packet. *)
(* Each of these lemmas is about any record r, queues q and p, and end v of *)
(* the server; x is the first packet of p, and e what is behind it.         *)

LEMMA LeadsFacts ==
    ASSUME NEW S, NEW p \in Seq(S), NEW x, NEW e, Leads(p, x, e)
    PROVE  /\ \A t : Never(p, t) => Never(e, t) /\ x.t # t
           /\ \A t : Once(p, t) /\ x.t = t => Never(e, t)
           /\ \A t : Once(p, t) /\ x.t # t => Once(e, t)
           /\ DataEnds(p) => DataEnds(e)
           /\ DataEnds(p) /\ x.t = "close" => Never(e, "data")
           /\ p # <<>> /\ p[1] = x
           /\ Len(p) = 1 => e = <<>>
<1>1. p # <<>> /\ Head(p) = x /\ Tail(p) = e
  BY DEF Leads
<1>2. /\ \A t : Never(p, t) => Never(Tail(p), t) /\ Head(p).t # t
      /\ \A t : Once(p, t) /\ Head(p).t = t => Never(Tail(p), t)
      /\ \A t : Once(p, t) /\ Head(p).t # t => Once(Tail(p), t)
      /\ DataEnds(p) => DataEnds(Tail(p))
      /\ DataEnds(p) /\ Head(p).t = "close" => Never(Tail(p), "data")
  BY <1>1, TailFacts
<1>3. p[1] = Head(p)
  BY <1>1
<1>4. Len(p) = 1 => Tail(p) = <<>>
  <2> DEFINE f == Tail(p)
  <2>1. f \in Seq(S) /\ Len(f) = Len(p) - 1
    BY <1>1, HeadTailProperties
  <2> HIDE DEF f
  <2>2. Len(p) = 1 => Len(f) = 0
    BY <2>1
  <2>3. Len(f) = 0 => f = <<>>
    BY <2>1, EmptySeq
  <2> QED
    BY <2>2, <2>3 DEF f
<1> QED
  BY <1>1, <1>2, <1>3, <1>4, Zenon

LEMMA Bits ==
    /\ SentClose # SentConfirmation /\ SentClose # SeenClose
    /\ SentClose # SeenConfirmation /\ SentConfirmation # SeenClose
    /\ SentConfirmation # SeenConfirmation /\ SeenClose # SeenConfirmation
BY DEF SentClose, SentConfirmation, SeenClose, SeenConfirmation

LEMMA Short ==
    /\ <<"close">> # <<>> /\ <<"confirmation">> # <<>> /\ <<"close">> # <<"confirmation">>
    /\ Append(<<>>, "close") = <<"close">>
    /\ Append(<<>>, "confirmation") = <<"confirmation">>
OBVIOUS

LEMMA ConfirmedWas ==
    ASSUME NEW c, NEW r, NEW q, NEW p \in Seq(About(c, PacketTypes)), NEW v,
           NEW x, NEW e, Leads(p, x, e), x.t = "confirm", Phase(r, q, p, v)
    PROVE  Accepted(r, q, p, v)
<1>1. ~Never(p, "confirm") /\ p # <<>> /\ p[1] = x
  BY LeadsFacts
<1> QED
  BY <1>1 DEF Phase, Asked, Declined, Offered, Joined, Orphaned, Gone, AnswerIsPast

LEMMA Confirmed ==
    ASSUME NEW c, NEW r \in Channels, NEW q, NEW p \in Seq(About(c, PacketTypes)), NEW v,
           NEW x, NEW e, Leads(p, x, e), x.t = "confirm", Accepted(r, q, p, v),
           NEW s, s.type = "sockdata", ~s.halfopen, s.closes = r.closes
    PROVE  /\ r.closes # {} => Joined(s, Append(q, "close"), e, v)
           /\ r.closes = {} => Joined(s, q, e, v)
<1>1. /\ q = <<>> /\ r.closes \in {{}, {SentClose}}
      /\ Once(p, "confirm") /\ Never(p, "failure")
      /\ v.state = "open" /\ ~v.gotClose /\ ~v.gotConfirmation /\ ~v.sentConfirmation
      /\ Says(p, "close", v.sentClose, FALSE) /\ Never(p, "confirmation") /\ DataEnds(p)
  BY DEF Accepted, HalfOpen
<1>2. /\ Never(e, "confirm") /\ Never(e, "failure") /\ Never(e, "confirmation")
      /\ DataEnds(e)
      /\ v.sentClose => Once(e, "close")
      /\ ~v.sentClose => Never(e, "close")
  BY <1>1, LeadsFacts DEF Says
<1>3. Established(s) /\ AnswerIsPast(e)
  BY <1>2 DEF Established, AnswerIsPast
<1>4. /\ SeenClose \notin s.closes /\ SeenConfirmation \notin s.closes
      /\ SentConfirmation \notin s.closes
      /\ SentClose \in s.closes <=> s.closes # {}
  BY <1>1, Bits
<1>5. s.closes # {} => Closing(s, <<"close">>, e, v)
  BY <1>1, <1>2, <1>4, Short DEF Closing, Says
<1>6. s.closes = {} => Closing(s, <<>>, e, v)
  BY <1>1, <1>2, <1>4, Short DEF Closing, Says
<1> QED
  BY <1>1, <1>3, <1>5, <1>6, Short DEF Joined

LEMMA Refused ==
    ASSUME NEW c, NEW r, NEW q, NEW p \in Seq(About(c, PacketTypes)), NEW v,
           NEW x, NEW e, Leads(p, x, e), x.t = "failure", Phase(r, q, p, v)
    PROVE  r.type = "dormant" /\ Gone(NoChannel, q, e, v)
<1>1. ~Never(p, "failure") /\ p # <<>> /\ p[1] = x
  BY LeadsFacts
<1>2. Declined(r, q, p, v)
  BY <1>1 DEF Phase, Asked, Accepted, Offered, Joined, Orphaned, Gone, AnswerIsPast
<1>3. r.type = "dormant" /\ q = <<>> /\ v = NoServer /\ e = <<>>
  BY <1>2, LeadsFacts DEF Declined, HalfOpen
<1> QED
  BY <1>3 DEF Gone, NoChannel

(* A CLOSE or a confirmation is for a channel that is open. *)
LEMMA ClosingWas ==
    ASSUME NEW c, NEW r, NEW q, NEW p \in Seq(About(c, PacketTypes)), NEW v,
           NEW x, NEW e, Leads(p, x, e), x.t \in {"close", "confirmation", "data"},
           Phase(r, q, p, v)
    PROVE  /\ Established(r)
           /\ Joined(r, q, p, v) \/ (Orphaned(r, q, p, v) /\ x.t # "confirmation")
<1>1. ~Never(p, x.t) /\ p # <<>> /\ p[1] = x
  BY LeadsFacts
<1>2. Joined(r, q, p, v) \/ (Orphaned(r, q, p, v) /\ x.t # "confirmation")
  BY <1>1 DEF Phase, Asked, Declined, Accepted, Offered, Orphaned, Gone
<1> QED
  BY <1>2 DEF Joined, Orphaned

(* When nothing of any kind is left on its way. *)
LEMMA NothingLeft ==
    ASSUME NEW c, NEW e \in Seq(About(c, PacketTypes)), AnswerIsPast(e),
           Never(e, "data"), Never(e, "close"), Never(e, "confirmation")
    PROVE  e = <<>>
<1>1. \A t \in PacketTypes : Never(e, t)
  BY DEF AnswerIsPast, PacketTypes
<1> QED
  BY <1>1, NoPackets

LEMMA LeadsType ==
    ASSUME NEW S, NEW p \in Seq(S), NEW x, NEW e, Leads(p, x, e)
    PROVE  e \in Seq(S)
<1>1. p # <<>> /\ Tail(p) = e
  BY DEF Leads
<1>2. Tail(p) \in Seq(S)
  BY <1>1, HeadTailProperties
<1> QED
  BY <1>1, <1>2

(* Every value closes can have. *)
LEMMA AllSeen ==
    ASSUME NEW k \in SUBSET AllOfClosing,
           SentClose \in k, SentConfirmation \in k, SeenClose \in k, SeenConfirmation \in k
    PROVE  k = AllOfClosing
BY DEF AllOfClosing

LEMMA NotAllSeen ==
    ASSUME NEW k, ~(SeenClose \in k /\ SeenConfirmation \in k)
    PROVE  k # AllOfClosing
BY DEF AllOfClosing

(* A CLOSE comes to a channel whose server has not deleted it. *)
LEMMA ClosedByServer ==
    ASSUME NEW c, NEW r \in Channels, NEW q, NEW p \in Seq(About(c, PacketTypes)), NEW v,
           NEW x, NEW e, Leads(p, x, e), x.t = "close", Joined(r, q, p, v),
           NEW k, k = r.closes \cup {SeenClose, SentClose}
    PROVE  /\ Established(r)
           /\ k # AllOfClosing =>
                \A s : s.type = "sockdata" /\ ~s.halfopen /\ s.closes = k =>
                    /\ SentClose \in r.closes => Joined(s, q, e, v)
                    /\ SentClose \notin r.closes => Joined(s, Append(q, "close"), e, v)
           /\ k = AllOfClosing => SentClose \in r.closes /\ Gone(NoChannel, q, e, v)
<1>1. /\ Established(r) /\ v.state = "open"
      /\ q \in {<<>>, <<"close">>, <<"confirmation">>}
      /\ AnswerIsPast(p) /\ Closing(r, q, p, v)
  BY DEF Joined
<1>2. ~Never(p, "close")
  BY LeadsFacts
<1>3. v.sentClose /\ SeenClose \notin r.closes /\ Once(p, "close")
  BY <1>1, <1>2 DEF Closing, Says
<1>4. Never(e, "close") /\ Never(e, "data") /\ DataEnds(e) /\ AnswerIsPast(e)
  BY <1>1, <1>3, LeadsFacts DEF Closing, AnswerIsPast
<1>5. Says(e, "confirmation", v.sentConfirmation, SeenConfirmation \in r.closes)
  <2>1. Says(p, "confirmation", v.sentConfirmation, SeenConfirmation \in r.closes)
    BY <1>1 DEF Closing
  <2> QED
    BY <2>1, LeadsFacts DEF Says
<1>6. /\ SeenClose \in k /\ SentClose \in k
      /\ SentConfirmation \in k <=> SentConfirmation \in r.closes
      /\ SeenConfirmation \in k <=> SeenConfirmation \in r.closes
  BY Bits
<1>7. /\ v.sentConfirmation => v.gotClose
      /\ SentClose \in r.closes <=> q = <<"close">> \/ v.gotClose
      /\ SentConfirmation \in r.closes <=> SeenConfirmation \in r.closes
      /\ SentConfirmation \in r.closes <=> q = <<"confirmation">> \/ v.gotConfirmation
      /\ q = <<"close">> => ~v.gotClose
      /\ q = <<"confirmation">> => ~v.gotConfirmation
      /\ ~(v.sentClose /\ v.sentConfirmation /\ v.gotClose /\ v.gotConfirmation)
      /\ SeenConfirmation \in r.closes => v.sentConfirmation
  BY <1>1 DEF Closing, Says
<1>8. ASSUME k # AllOfClosing, NEW s, s.type = "sockdata", ~s.halfopen, s.closes = k
      PROVE  /\ SentClose \in r.closes => Joined(s, q, e, v)
             /\ SentClose \notin r.closes => Joined(s, Append(q, "close"), e, v)
  <2>1. SeenConfirmation \notin r.closes
    <3>1. k \in SUBSET AllOfClosing
      BY DEF Channels, AllOfClosing
    <3> QED
      BY <1>6, <1>7, <1>8, <3>1, AllSeen
  <2>2. SentClose \in r.closes => Closing(s, q, e, v)
    BY <1>3, <1>4, <1>5, <1>6, <1>7, <1>8, <2>1 DEF Closing, Says
  <2>3. SentClose \notin r.closes => q = <<>> /\ Closing(s, <<"close">>, e, v)
    <3>1. SentClose \notin r.closes => q = <<>>
      BY <1>1, <1>7
    <3>2. SentClose \notin r.closes => Closing(s, <<"close">>, e, v)
      BY <1>3, <1>4, <1>5, <1>6, <1>7, <1>8, <2>1, Short DEF Closing, Says
    <3> QED
      BY <3>1, <3>2
  <2>4. Established(s)
    BY <1>8 DEF Established
  <2> QED
    BY <1>1, <1>4, <2>2, <2>3, <2>4, Short DEF Joined
<1>9. ASSUME k = AllOfClosing PROVE SentClose \in r.closes /\ Gone(NoChannel, q, e, v)
  <2>1. SeenConfirmation \in r.closes /\ SentConfirmation \in r.closes
    BY <1>6, <1>9 DEF AllOfClosing
  <2>2. /\ v.sentConfirmation /\ v.gotClose /\ SentClose \in r.closes
        /\ q = <<"confirmation">> /\ ~v.gotConfirmation
    BY <1>3, <1>7, <2>1
  <2>3. Never(e, "confirmation")
    BY <1>5, <2>1 DEF Says
  <2>4. e = <<>>
    BY <1>4, <2>3, LeadsType, NothingLeft
  <2> QED
    BY <1>1, <1>3, <2>2, <2>4 DEF Gone, NoChannel
<1> QED
  BY <1>1, <1>8, <1>9

(* A CLOSE comes to a channel whose server has deleted it. *)
LEMMA ClosedAfterAll ==
    ASSUME NEW c, NEW r \in Channels, NEW q, NEW p \in Seq(About(c, PacketTypes)), NEW v,
           NEW x, NEW e, Leads(p, x, e), x.t = "close", Orphaned(r, q, p, v)
    PROVE  /\ SentClose \in r.closes
           /\ r.closes \cup {SeenClose, SentClose} = AllOfClosing
           /\ Gone(NoChannel, q, e, v)
<1>1. /\ v = NoServer /\ q = <<>>
      /\ AnswerIsPast(p) /\ Never(p, "confirmation") /\ Once(p, "close") /\ DataEnds(p)
      /\ r.closes = {SentClose, SentConfirmation, SeenConfirmation}
  BY DEF Orphaned
<1>2. AnswerIsPast(e) /\ Never(e, "confirmation") /\ Never(e, "close") /\ Never(e, "data")
  BY <1>1, LeadsFacts DEF AnswerIsPast
<1>3. e = <<>>
  BY <1>2, LeadsType, NothingLeft
<1>4. r.closes \cup {SeenClose, SentClose} = AllOfClosing
  BY <1>1 DEF AllOfClosing
<1> QED
  BY <1>1, <1>3, <1>4 DEF Gone, NoChannel

(* The server has confirmed the client's CLOSE. *)
LEMMA ConfirmedClose ==
    ASSUME NEW c, NEW r \in Channels, NEW q, NEW p \in Seq(About(c, PacketTypes)), NEW v,
           NEW x, NEW e, Leads(p, x, e), x.t = "confirmation", Joined(r, q, p, v),
           NEW k, k = r.closes \cup {SeenConfirmation, SentConfirmation}
    PROVE  /\ r.closes # {} /\ SentConfirmation \notin r.closes
           /\ k # AllOfClosing =>
                \A s : s.type = "sockdata" /\ ~s.halfopen /\ s.closes = k =>
                    Joined(s, Append(q, "confirmation"), e, v)
           /\ k = AllOfClosing => Gone(NoChannel, Append(q, "confirmation"), e, v)
<1>1. /\ Established(r) /\ v.state = "open"
      /\ q \in {<<>>, <<"close">>, <<"confirmation">>}
      /\ AnswerIsPast(p) /\ Closing(r, q, p, v)
  BY DEF Joined
<1>2. ~Never(p, "confirmation")
  BY LeadsFacts
<1>3. v.sentConfirmation /\ SeenConfirmation \notin r.closes /\ Once(p, "confirmation")
  BY <1>1, <1>2 DEF Closing, Says
<1>4. Never(e, "confirmation") /\ DataEnds(e) /\ AnswerIsPast(e)
  BY <1>1, <1>3, LeadsFacts DEF Closing, AnswerIsPast
<1>5. Says(e, "close", v.sentClose, SeenClose \in r.closes)
      /\ (SeenClose \in r.closes => Never(e, "data"))
  <2>1. Says(p, "close", v.sentClose, SeenClose \in r.closes)
        /\ (SeenClose \in r.closes => Never(p, "data"))
    BY <1>1 DEF Closing
  <2> QED
    BY <2>1, LeadsFacts DEF Says
<1>6. /\ SeenConfirmation \in k /\ SentConfirmation \in k
      /\ SentClose \in k <=> SentClose \in r.closes
      /\ SeenClose \in k <=> SeenClose \in r.closes
  BY Bits
<1>7. /\ v.gotClose
      /\ SentClose \in r.closes
      /\ SentConfirmation \notin r.closes
      /\ q # <<"confirmation">> /\ ~v.gotConfirmation /\ q # <<"close">>
      /\ SeenClose \in r.closes => v.sentClose
  BY <1>1, <1>3 DEF Closing, Says
<1>8. q = <<>>
  BY <1>1, <1>7
<1>9. ASSUME k # AllOfClosing, NEW s, s.type = "sockdata", ~s.halfopen, s.closes = k
      PROVE  Joined(s, Append(q, "confirmation"), e, v)
  <2>1. SeenClose \notin r.closes
    <3>1. k \in SUBSET AllOfClosing
      BY DEF Channels, AllOfClosing
    <3> QED
      BY <1>6, <1>7, <1>9, <3>1, AllSeen
  <2>2. Closing(s, <<"confirmation">>, e, v)
    BY <1>3, <1>4, <1>5, <1>6, <1>7, <1>9, <2>1, Short DEF Closing, Says
  <2>3. Established(s)
    BY <1>9 DEF Established
  <2> QED
    BY <1>1, <1>4, <1>8, <2>2, <2>3, Short DEF Joined
<1>10. ASSUME k = AllOfClosing PROVE Gone(NoChannel, Append(q, "confirmation"), e, v)
  <2>1. SeenClose \in r.closes
    BY <1>6, <1>10 DEF AllOfClosing
  <2>2. Never(e, "close") /\ Never(e, "data")
    BY <1>5, <2>1 DEF Says
  <2>3. e = <<>>
    BY <1>4, <2>2, LeadsType, NothingLeft
  <2> QED
    BY <1>1, <1>3, <1>7, <1>8, <2>1, <2>3, Short DEF Gone, NoChannel
<1> QED
  BY <1>7, <1>9, <1>10

(* Data changes nothing but itself. *)
LEMMA GotSome ==
    ASSUME NEW c, NEW r, NEW q, NEW p \in Seq(About(c, PacketTypes)), NEW v,
           NEW x, NEW e, Leads(p, x, e), x.t = "data", Phase(r, q, p, v)
    PROVE  Phase(r, q, e, v)
<1>1. Joined(r, q, p, v) \/ Orphaned(r, q, p, v)
  BY ClosingWas
<1>2. ASSUME Joined(r, q, p, v) PROVE Joined(r, q, e, v)
  <2>1. AnswerIsPast(e) /\ (DataEnds(p) => DataEnds(e))
    BY <1>2, LeadsFacts DEF Joined, AnswerIsPast
  <2>2. \A m, said, seen : m # "data" /\ Says(p, m, said, seen) => Says(e, m, said, seen)
    BY LeadsFacts DEF Says
  <2>3. SeenClose \notin r.closes
    BY <1>2, LeadsFacts DEF Joined, Closing
  <2>4. Closing(r, q, e, v)
    BY <1>2, <2>1, <2>2, <2>3 DEF Joined, Closing
  <2> QED
    BY <1>2, <2>1, <2>4 DEF Joined
<1>3. ASSUME Orphaned(r, q, p, v) PROVE Orphaned(r, q, e, v)
  BY <1>3, LeadsFacts DEF Orphaned, AnswerIsPast
<1> QED
  BY <1>1, <1>2, <1>3 DEF Phase

(* What the phase depends on of a record. *)
LEMMA PhaseSame ==
    ASSUME NEW r, NEW s, NEW q, NEW p, NEW v, Phase(r, q, p, v),
           s.type = r.type, s.halfopen = r.halfopen, s.closes = r.closes
    PROVE  Phase(s, q, p, v)
<1>1. (HalfOpen(r) => HalfOpen(s)) /\ (Established(r) => Established(s))
  BY DEF HalfOpen, Established
<1>2. Closing(r, q, p, v) => Closing(s, q, p, v)
  BY DEF Closing
<1>3. CASE Asked(r, q, p, v) \/ Declined(r, q, p, v) \/ Accepted(r, q, p, v)
  BY <1>1, <1>3 DEF Phase, Asked, Declined, Accepted
<1>4. CASE Offered(r, q, p, v) \/ Joined(r, q, p, v)
  BY <1>1, <1>2, <1>4 DEF Phase, Offered, Joined
<1>5. CASE Orphaned(r, q, p, v) \/ Gone(r, q, p, v)
  BY <1>1, <1>5 DEF Phase, Orphaned, Gone
<1> QED
  BY <1>3, <1>4, <1>5 DEF Phase

-------------------------------------------------------------------------------
(* What the applications do.                                                *)

LEMMA AskingIs ==
    /\ Asking.state = "asking" /\ ~Asking.gotClose /\ ~Asking.gotConfirmation
    /\ ~Asking.sentClose /\ ~Asking.sentConfirmation /\ Asking.sent = 0
    /\ NoServer.state = "none" /\ NoServer.sent = 0
BY DEF Asking, NoServer

LEMMA WasUnused ==
    ASSUME NEW r, NEW q, NEW p, r.type = "none", Phase(r, q, p, NoServer)
    PROVE  p = <<>>
BY DEF Phase, Asked, Declined, Accepted, Offered, Joined, Orphaned, Gone, HalfOpen,
       Established

(* An application has asked for a channel, or the server has. *)
LEMMA Begins ==
    ASSUME NEW s, s.closes = {}
    PROVE  /\ s.type = "dormant" /\ s.halfopen => Phase(s, <<"open">>, <<>>, Asking)
           /\ s.type = "sockdata" /\ ~s.halfopen => Phase(s, <<"confirm">>, <<>>, Asking)
BY DEF Phase, Asked, Offered, HalfOpen, Established

LEMMA Ends ==
    ASSUME NEW r, NEW q, NEW p, NEW v, Phase(r, q, p, v), r.type # "none", r.closes = {},
           NEW s, s.type = r.type, s.halfopen = r.halfopen, s.closes = {SentClose}
    PROVE  /\ r.halfopen => Phase(s, q, p, v)
           /\ ~r.halfopen => Phase(s, Append(q, "close"), p, v)
<1>1. CASE Asked(r, q, p, v) \/ Declined(r, q, p, v) \/ Accepted(r, q, p, v)
  <2>1. r.halfopen /\ HalfOpen(r) /\ HalfOpen(s)
    BY <1>1 DEF Asked, Declined, Accepted, HalfOpen
  <2> QED
    BY <1>1, <2>1 DEF Phase, Asked, Declined, Accepted
<1>2. CASE Offered(r, q, p, v)
  <2>1. ~r.halfopen /\ q = <<"confirm">> /\ p = <<>> /\ v = Asking /\ Established(s)
    BY <1>2 DEF Offered, Established
  <2>2. Append(<<"confirm">>, "close") = <<"confirm", "close">>
    <3> DEFINE a == <<"confirm">>
               b == Append(a, "close")
               d == <<"confirm", "close">>
    <3>1. a \in Seq(Messages) /\ d \in Seq(Messages) /\ Len(a) = 1 /\ a[1] = "confirm"
          /\ Len(d) = 2 /\ d[1] = "confirm" /\ d[2] = "close" /\ "close" \in Messages
      BY DEF Messages
    <3> HIDE DEF a, d
    <3>2. b \in Seq(Messages) /\ Len(b) = 2 /\ b[1] = "confirm" /\ b[2] = "close"
      <4>1. /\ b \in Seq(Messages) /\ Len(b) = Len(a) + 1 /\ b[Len(a) + 1] = "close"
            /\ \A i \in 1 .. Len(a) : b[i] = a[i]
        <5>1. a \in Seq(Messages) /\ "close" \in Messages
          BY <3>1
        <5> QED
          BY <5>1, AppendProperties
      <4> HIDE DEF b
      <4> QED
        BY <3>1, <4>1
    <3> HIDE DEF b
    <3>3. \A i \in 1 .. 2 : b[i] = d[i]
      <4>1. \A i \in 1 .. 2 : i = 1 \/ i = 2
        OBVIOUS
      <4> QED
        BY <3>1, <3>2, <4>1
    <3>4. b = d
      BY <3>1, <3>2, <3>3, SeqEqual
    <3> QED
      BY <3>4 DEF a, b, d
  <2> QED
    BY <2>1, <2>2 DEF Phase, Offered
<1>3. CASE Joined(r, q, p, v)
  <2>1. /\ ~r.halfopen /\ Established(s) /\ v.state = "open" /\ AnswerIsPast(p)
        /\ Closing(r, q, p, v) /\ q \in {<<>>, <<"close">>, <<"confirmation">>}
    BY <1>3 DEF Joined, Established
  <2>2. /\ SentClose \notin r.closes /\ SeenClose \notin r.closes
        /\ SentConfirmation \notin r.closes /\ SeenConfirmation \notin r.closes
        /\ SentClose \in s.closes /\ SeenClose \notin s.closes
        /\ SentConfirmation \notin s.closes /\ SeenConfirmation \notin s.closes
    BY Bits
  <2>3. q = <<>> /\ ~v.gotClose /\ ~v.gotConfirmation /\ ~v.sentConfirmation
    BY <2>1, <2>2 DEF Closing
  <2>4. Closing(s, <<"close">>, p, v)
    BY <2>1, <2>2, <2>3, Short DEF Closing, Says
  <2> QED
    BY <2>1, <2>3, <2>4, Short DEF Phase, Joined
<1>4. ~Orphaned(r, q, p, v) /\ ~Gone(r, q, p, v)
  BY DEF Orphaned, Gone
<1> QED
  BY <1>1, <1>2, <1>3, <1>4 DEF Phase

-------------------------------------------------------------------------------
(* What the server does.                                                    *)

LEMMA LeadsShort ==
    ASSUME NEW m, NEW z
    PROVE  /\ ~Leads(<<>>, m, z)
           /\ Leads(<<"open">>, m, z) => m = "open" /\ z = <<>>
           /\ Leads(<<"confirm">>, m, z) => m = "confirm" /\ z = <<>>
           /\ Leads(<<"close">>, m, z) => m = "close" /\ z = <<>>
           /\ Leads(<<"confirmation">>, m, z) => m = "confirmation" /\ z = <<>>
           /\ Leads(<<"confirm", "close">>, m, z) => m = "confirm" /\ z = <<"close">>
BY DEF Leads

Adds(f, p, x) == f = Append(p, x)

LEMMA AddsFacts ==
    ASSUME NEW S, NEW p \in Seq(S), NEW x \in S, NEW f, Adds(f, p, x)
    PROVE  /\ \A t : Never(p, t) /\ x.t # t => Never(f, t)
           /\ \A t : Never(p, t) /\ x.t = t => Once(f, t)
           /\ \A t : Once(p, t) /\ x.t # t => Once(f, t)
           /\ DataEnds(p) /\ (x.t # "data" \/ Never(p, "close")) => DataEnds(f)
           /\ Len(f) > 0
           /\ p = <<>> => Len(f) = 1 /\ f[1] = x
           /\ Len(p) > 0 => f[1] = p[1]
<1> DEFINE g == Append(p, x)
<1>1. f = g
  BY DEF Adds
<1>2. /\ Len(p) \in Nat /\ Len(g) = Len(p) + 1 /\ g[Len(p) + 1] = x
      /\ \A i \in 1 .. Len(p) : g[i] = p[i]
  BY AppendProperties, LenProperties
<1>3. /\ \A t : Never(p, t) /\ x.t # t => Never(g, t)
      /\ \A t : Never(p, t) /\ x.t = t => Once(g, t)
      /\ \A t : Once(p, t) /\ x.t # t => Once(g, t)
      /\ DataEnds(p) /\ (x.t # "data" \/ Never(p, "close")) => DataEnds(g)
  BY AppendFacts
<1> HIDE DEF g
<1>4. p = <<>> => Len(p) = 0
  OBVIOUS
<1>5. Len(g) > 0 /\ (p = <<>> => Len(g) = 1 /\ g[1] = x)
  BY <1>2, <1>4
<1>6. Len(p) > 0 => g[1] = p[1]
  BY <1>2
<1> QED
  BY <1>1, <1>3, <1>5, <1>6

LEMMA FinishedIs ==
    ASSUME NEW v
    PROVE  /\ ~(v.sentClose /\ v.sentConfirmation /\ v.gotClose /\ v.gotConfirmation)
                => Finished(v) = v
           /\ v.sentClose /\ v.sentConfirmation /\ v.gotClose /\ v.gotConfirmation
                => Finished(v) = NoServer
BY DEF Finished

(* The server takes the client's request. *)
LEMMA TookOpen ==
    ASSUME NEW r, NEW q, NEW p, NEW v, Phase(r, q, p, v),
           NEW z, Leads(q, "open", z)
    PROVE  Asked(r, q, p, v) /\ z = <<>>
<1>1. /\ q # <<>> /\ q # <<"confirm">> /\ q # <<"confirm", "close">>
      /\ q # <<"close">> /\ q # <<"confirmation">>
  BY LeadsShort
<1>2. Asked(r, q, p, v)
  BY <1>1 DEF Phase, Declined, Accepted, Offered, Joined, Orphaned, Gone
<1> QED
  BY <1>2, LeadsShort DEF Asked

LEMMA Accepts ==
    ASSUME NEW c \in Chan, NEW r, NEW q, NEW p, NEW v, Phase(r, q, p, v),
           NEW z, Leads(q, "open", z), NEW f
    PROVE  /\ Adds(f, p, ForClient("confirm", c, 0)) =>
                Phase(r, z, f, [v EXCEPT !.state = "open"])
           /\ Adds(f, p, ForClient("failure", c, 0)) => Phase(r, z, f, NoServer)
<1>1. HalfOpen(r) /\ z = <<>> /\ p = <<>> /\ v = Asking
  BY TookOpen DEF Asked
<1> DEFINE a == ForClient("confirm", c, 0)
           b == ForClient("failure", c, 0)
           w == [v EXCEPT !.state = "open"]
<1>2. a \in Packets /\ b \in Packets /\ a.t = "confirm" /\ b.t = "failure"
  BY ForClientType DEF ForClient
<1>3. p \in Seq(Packets)
  BY <1>1, EmptySeq
<1>4. /\ w.state = "open" /\ ~w.gotClose /\ ~w.gotConfirmation /\ ~w.sentConfirmation
      /\ ~w.sentClose
  BY <1>1 DEF Asking, NoServer
<1> HIDE DEF a, b, w
<1>5. ASSUME Adds(f, p, a) PROVE Accepted(r, z, f, w)
  <2>1. /\ Len(f) > 0 /\ (p = <<>> => Len(f) = 1 /\ f[1] = a)
        /\ \A t : Never(p, t) /\ a.t # t => Never(f, t)
        /\ \A t : Never(p, t) /\ a.t = t => Once(f, t)
        /\ DataEnds(p) /\ (a.t # "data" \/ Never(p, "close")) => DataEnds(f)
    BY <1>2, <1>3, <1>5, AddsFacts
  <2>2. /\ Never(p, "confirm") /\ Never(p, "failure") /\ Never(p, "close")
        /\ Never(p, "confirmation") /\ DataEnds(p)
    BY <1>1, NothingNever
  <2> QED
    BY <1>1, <1>2, <1>4, <2>1, <2>2 DEF Accepted, Says
<1>6. ASSUME Adds(f, p, b) PROVE Declined(r, z, f, NoServer)
  <2>1. Len(f) > 0 /\ (p = <<>> => Len(f) = 1 /\ f[1] = b)
    BY <1>2, <1>3, <1>6, AddsFacts
  <2> QED
    BY <1>1, <1>2, <2>1 DEF Declined
<1> QED
  BY <1>5, <1>6 DEF Phase, a, b, w

(* The server takes the client's confirmation of a channel. *)
LEMMA TookConfirm ==
    ASSUME NEW r, NEW q, NEW p, NEW v, Phase(r, q, p, v),
           NEW z, Leads(q, "confirm", z)
    PROVE  Phase(r, z, p, [v EXCEPT !.state = "open"])
<1>1. q # <<>> /\ q # <<"open">> /\ q # <<"close">> /\ q # <<"confirmation">>
  BY LeadsShort
<1>2. Offered(r, q, p, v)
  BY <1>1 DEF Phase, Asked, Declined, Accepted, Joined, Orphaned, Gone
<1>3. /\ Established(r) /\ p = <<>> /\ v = Asking
      /\ \/ z = <<>> /\ r.closes = {}
         \/ z = <<"close">> /\ r.closes = {SentClose}
  BY <1>2, LeadsShort DEF Offered
<1> DEFINE w == [v EXCEPT !.state = "open"]
<1>4. /\ w.state = "open" /\ ~w.gotClose /\ ~w.gotConfirmation /\ ~w.sentConfirmation
      /\ ~w.sentClose
  BY <1>3 DEF Asking, NoServer
<1> HIDE DEF w
<1>5. /\ Never(p, "close") /\ Never(p, "confirmation") /\ DataEnds(p) /\ AnswerIsPast(p)
  BY <1>3, NothingNever DEF AnswerIsPast
<1>6. /\ SeenClose \notin r.closes /\ SeenConfirmation \notin r.closes
      /\ SentConfirmation \notin r.closes
      /\ SentClose \in r.closes <=> z = <<"close">>
  BY <1>3, Bits, Short
<1>7. z # <<"confirmation">>
  BY <1>3, Short
<1>8. Closing(r, z, p, w)
  BY <1>4, <1>5, <1>6, <1>7 DEF Closing, Says
<1>9. Joined(r, z, p, w)
  BY <1>3, <1>4, <1>5, <1>8 DEF Joined
<1> QED
  BY <1>9 DEF Phase, w

(* The server takes the client's CLOSE. *)
LEMMA TookClose ==
    ASSUME NEW r, NEW q, NEW p, NEW v \in Servers, Phase(r, q, p, v),
           NEW z, Leads(q, "close", z)
    PROVE  /\ Phase(r, z, p, Finished([v EXCEPT !.gotClose = TRUE]))
           /\ Finished([v EXCEPT !.gotClose = TRUE]).sent = v.sent
<1>1. q # <<>> /\ q # <<"open">> /\ q # <<"confirmation">> /\ q # <<"confirm">>
      /\ q # <<"confirm", "close">>
  BY LeadsShort
<1>2. Joined(r, q, p, v)
  BY <1>1 DEF Phase, Asked, Declined, Accepted, Offered, Orphaned, Gone
<1>3. /\ Established(r) /\ v.state = "open" /\ q = <<"close">> /\ z = <<>>
      /\ AnswerIsPast(p) /\ Closing(r, q, p, v)
  BY <1>1, <1>2, LeadsShort DEF Joined
<1> DEFINE w == [v EXCEPT !.gotClose = TRUE]
<1>4. /\ w.state = "open" /\ w.gotClose /\ w.gotConfirmation = v.gotConfirmation
      /\ w.sentConfirmation = v.sentConfirmation /\ w.sentClose = v.sentClose
      /\ w.sent = v.sent
  BY <1>3 DEF Servers
<1> HIDE DEF w
<1>5. ~v.gotClose /\ ~v.sentConfirmation /\ ~v.gotConfirmation
  BY <1>3 DEF Closing, Says
<1>6. Finished(w) = w
  BY <1>4, <1>5, FinishedIs
<1>7. Closing(r, z, p, w)
  BY <1>3, <1>4, <1>5, Short DEF Closing, Says
<1>8. Joined(r, z, p, w)
  BY <1>3, <1>4, <1>7 DEF Joined
<1> QED
  BY <1>4, <1>6, <1>8 DEF Phase, w

(* The server deletes a channel when it has sent and seen everything. *)
LEMMA ServerDeletes ==
    ASSUME NEW r \in Channels, NEW p, Established(r), AnswerIsPast(p),
           Once(p, "close"), Never(p, "confirmation"), DataEnds(p),
           SentClose \in r.closes, SentConfirmation \in r.closes,
           SeenConfirmation \in r.closes, SeenClose \notin r.closes
    PROVE  Phase(r, <<>>, p, NoServer)
<1>1. r.closes = {SentClose, SentConfirmation, SeenConfirmation}
  BY Bits DEF Channels, AllOfClosing
<1> QED
  BY <1>1 DEF Phase, Orphaned

(* The server takes the client's confirmation of its CLOSE. *)
LEMMA TookConfirmation ==
    ASSUME NEW r \in Channels, NEW q, NEW p, NEW v \in Servers, Phase(r, q, p, v),
           NEW z, Leads(q, "confirmation", z)
    PROVE  /\ Phase(r, z, p, Finished([v EXCEPT !.gotConfirmation = TRUE]))
           /\ r.type = "none" \/ r.closes # {}
<1>1. q # <<>> /\ q # <<"open">> /\ q # <<"close">> /\ q # <<"confirm">>
      /\ q # <<"confirm", "close">>
  BY LeadsShort
<1> DEFINE w == [v EXCEPT !.gotConfirmation = TRUE]
<1>2. /\ w.state = v.state /\ w.gotClose = v.gotClose /\ w.gotConfirmation
      /\ w.sentConfirmation = v.sentConfirmation /\ w.sentClose = v.sentClose
  BY DEF Servers
<1> HIDE DEF w
<1>3. Joined(r, q, p, v) \/ Gone(r, q, p, v)
  BY <1>1 DEF Phase, Asked, Declined, Accepted, Offered, Orphaned
<1>4. CASE Joined(r, q, p, v)
  <2>1. /\ Established(r) /\ v.state = "open" /\ q = <<"confirmation">> /\ z = <<>>
        /\ AnswerIsPast(p) /\ Closing(r, q, p, v)
    BY <1>1, <1>4, LeadsShort DEF Joined
  <2>2. /\ SentConfirmation \in r.closes /\ SeenConfirmation \in r.closes
        /\ v.sentConfirmation /\ v.gotClose /\ SentClose \in r.closes
        /\ SeenClose \notin r.closes /\ ~v.gotConfirmation
        /\ Never(p, "confirmation") /\ DataEnds(p)
    BY <2>1 DEF Closing, Says
  <2>3. v.sentClose => Once(p, "close")
    BY <2>1, <2>2 DEF Closing, Says
  <2>4. CASE v.sentClose
    <3>1. Finished(w) = NoServer
      BY <1>2, <2>2, <2>4, FinishedIs
    <3>2. Phase(r, <<>>, p, NoServer)
      BY <2>1, <2>2, <2>3, <2>4, ServerDeletes
    <3> QED
      BY <2>1, <2>2, <3>1, <3>2 DEF w
  <2>5. CASE ~v.sentClose
    <3>1. Finished(w) = w
      BY <1>2, <2>5, FinishedIs
    <3>2. Closing(r, z, p, w)
      BY <1>2, <2>1, <2>2, <2>5, Short DEF Closing, Says
    <3>3. Joined(r, z, p, w)
      BY <1>2, <2>1, <3>2 DEF Joined
    <3> QED
      BY <2>2, <3>1, <3>3 DEF Phase, w
  <2> QED
    BY <2>4, <2>5
<1>5. CASE Gone(r, q, p, v)
  <2>1. /\ r.type = "none" /\ p = <<>> /\ z = <<>>
        /\ v.sentClose /\ v.sentConfirmation /\ v.gotClose
    BY <1>1, <1>5, LeadsShort DEF Gone
  <2>2. Finished(w) = NoServer
    BY <1>2, <2>1, FinishedIs
  <2> QED
    BY <2>1, <2>2 DEF Phase, Gone, w
<1> QED
  BY <1>3, <1>4, <1>5

(* A server that may still send data has a channel that is open. *)
LEMMA MaySend ==
    ASSUME NEW r, NEW q, NEW p, NEW v, Phase(r, q, p, v), v.state = "open", ~v.sentClose
    PROVE  /\ Accepted(r, q, p, v) \/ Joined(r, q, p, v)
           /\ Never(p, "close")
           /\ Joined(r, q, p, v) => SeenClose \notin r.closes
<1>1. Accepted(r, q, p, v) \/ Joined(r, q, p, v)
  BY AskingIs DEF Phase, Asked, Declined, Offered, Orphaned, Gone
<1> QED
  BY <1>1 DEF Accepted, Joined, Closing, Says

LEMMA Writes ==
    ASSUME NEW S, NEW r, NEW q, NEW p \in Seq(S), NEW v \in Servers, Phase(r, q, p, v),
           v.state = "open", ~v.sentClose,
           NEW x \in S, x.t = "data", NEW f, Adds(f, p, x)
    PROVE  Phase(r, q, f, [v EXCEPT !.sent = @ + 1])
<1>1. /\ Accepted(r, q, p, v) \/ Joined(r, q, p, v)
      /\ Never(p, "close")
      /\ Joined(r, q, p, v) => SeenClose \notin r.closes
  BY MaySend
<1> DEFINE w == [v EXCEPT !.sent = @ + 1]
<1>2. /\ w.state = v.state /\ w.gotClose = v.gotClose /\ w.gotConfirmation = v.gotConfirmation
      /\ w.sentConfirmation = v.sentConfirmation /\ w.sentClose = v.sentClose
  BY DEF Servers
<1> HIDE DEF w
<1>3. /\ \A t : t # "data" /\ Never(p, t) => Never(f, t)
      /\ \A t : t # "data" /\ Once(p, t) => Once(f, t)
      /\ DataEnds(p) => DataEnds(f)
      /\ Len(f) > 0 /\ (Len(p) > 0 => f[1] = p[1])
  BY <1>1, AddsFacts
<1>4. \A m, said, seen : m # "data" /\ Says(p, m, said, seen) => Says(f, m, said, seen)
  BY <1>3 DEF Says
<1>5. CASE Accepted(r, q, p, v)
  <2>1. Accepted(r, q, f, w)
    BY <1>2, <1>3, <1>4, <1>5 DEF Accepted
  <2> QED
    BY <2>1 DEF Phase, w
<1>6. CASE Joined(r, q, p, v)
  <2>1. AnswerIsPast(p) => AnswerIsPast(f)
    BY <1>3 DEF AnswerIsPast
  <2>2. Closing(r, q, p, v)
    BY <1>6 DEF Joined
  <2>3. Closing(r, q, f, w)
    BY <1>1, <1>2, <1>3, <1>4, <1>6, <2>2 DEF Closing
  <2>4. Joined(r, q, f, w)
    BY <1>2, <1>6, <2>1, <2>3 DEF Joined
  <2> QED
    BY <2>4 DEF Phase, w
<1> QED
  BY <1>1, <1>5, <1>6

ClosedBy(v) == Finished([v EXCEPT !.sentClose = TRUE])

LEMMA Closes ==
    ASSUME NEW S, NEW r \in Channels, NEW q, NEW p \in Seq(S), NEW v \in Servers,
           Phase(r, q, p, v), v.state = "open", ~v.sentClose,
           NEW x \in S, x.t = "close", NEW f, Adds(f, p, x)
    PROVE  Phase(r, q, f, ClosedBy(v)) /\ (r.closes = {} => ClosedBy(v).sent = v.sent)
<1>1. /\ Accepted(r, q, p, v) \/ Joined(r, q, p, v)
      /\ Never(p, "close")
      /\ Joined(r, q, p, v) => SeenClose \notin r.closes
  BY MaySend
<1> DEFINE w == [v EXCEPT !.sentClose = TRUE]
<1>2. /\ w.state = v.state /\ w.gotClose = v.gotClose /\ w.gotConfirmation = v.gotConfirmation
      /\ w.sentConfirmation = v.sentConfirmation /\ w.sentClose /\ w.sent = v.sent
  BY DEF Servers
<1> HIDE DEF w
<1>3. /\ \A t : t # "close" /\ Never(p, t) => Never(f, t)
      /\ \A t : t # "close" /\ Once(p, t) => Once(f, t)
      /\ DataEnds(p) => DataEnds(f)
      /\ Len(f) > 0 /\ (Len(p) > 0 => f[1] = p[1])
      /\ Once(f, "close")
  BY <1>1, AddsFacts
<1>4. CASE Accepted(r, q, p, v)
  <2>1. Finished(w) = w
    BY <1>2, <1>4, FinishedIs DEF Accepted
  <2>2. Says(f, "close", w.sentClose, FALSE)
    BY <1>2, <1>3 DEF Says
  <2>3. Accepted(r, q, f, w)
    BY <1>2, <1>3, <1>4, <2>2 DEF Accepted
  <2> QED
    BY <1>2, <2>1, <2>3 DEF Phase, w, ClosedBy
<1>5. CASE Joined(r, q, p, v)
  <2>1. AnswerIsPast(f)
    BY <1>3, <1>5 DEF AnswerIsPast, Joined
  <2>2. Closing(r, q, p, v) /\ Established(r) /\ q \in {<<>>, <<"close">>, <<"confirmation">>}
    BY <1>5 DEF Joined
  <2>3. DataEnds(f) /\ SeenClose \notin r.closes
    BY <1>1, <1>3, <1>5, <2>2 DEF Closing
  <2>4. Says(f, "confirmation", v.sentConfirmation, SeenConfirmation \in r.closes)
    BY <1>3, <2>2 DEF Closing, Says
  <2>5. CASE v.sentConfirmation /\ v.gotClose /\ v.gotConfirmation
    <3>1. Finished(w) = NoServer
      BY <1>2, <2>5, FinishedIs
    <3>2. /\ SentConfirmation \in r.closes /\ SeenConfirmation \in r.closes
          /\ SentClose \in r.closes /\ q = <<>> /\ Never(f, "confirmation")
      BY <2>2, <2>4, <2>5 DEF Closing, Says
    <3>3. Phase(r, <<>>, f, NoServer)
      BY <1>3, <2>1, <2>2, <2>3, <3>2, ServerDeletes
    <3> QED
      BY <3>1, <3>2, <3>3 DEF w, ClosedBy
  <2>6. CASE ~(v.sentConfirmation /\ v.gotClose /\ v.gotConfirmation)
    <3>1. Finished(w) = w
      BY <1>2, <2>6, FinishedIs
    <3>2. Says(f, "close", w.sentClose, SeenClose \in r.closes)
      BY <1>2, <1>3, <2>3 DEF Says
    <3>3. Closing(r, q, f, w)
      BY <1>2, <2>2, <2>3, <2>4, <2>6, <3>2 DEF Closing
    <3>4. Joined(r, q, f, w)
      BY <1>2, <1>5, <2>1, <3>3 DEF Joined
    <3> QED
      BY <1>2, <3>1, <3>4 DEF Phase, w, ClosedBy
  <2> QED
    BY <2>5, <2>6
<1> QED
  BY <1>1, <1>4, <1>5

ConfirmedBy(v) == Finished([v EXCEPT !.sentConfirmation = TRUE])

LEMMA ClosesPhase ==
    ASSUME NEW S, NEW r \in Channels, NEW q, NEW p \in Seq(S), NEW v \in Servers,
           Phase(r, q, p, v), v.state = "open", ~v.sentClose,
           NEW x \in S, x.t = "close", NEW f, Adds(f, p, x)
    PROVE  Phase(r, q, f, ClosedBy(v))
BY Closes

LEMMA ClosesSent ==
    ASSUME NEW S, NEW r \in Channels, NEW q, NEW p \in Seq(S), NEW v \in Servers,
           Phase(r, q, p, v), v.state = "open", ~v.sentClose,
           NEW x \in S, x.t = "close", NEW f, Adds(f, p, x), r.closes = {}
    PROVE  ClosedBy(v).sent = v.sent
BY Closes

LEMMA ConfirmsClose ==
    ASSUME NEW S, NEW r \in Channels, NEW q, NEW p \in Seq(S), NEW v \in Servers,
           Phase(r, q, p, v), v.gotClose, ~v.sentConfirmation,
           NEW x \in S, x.t = "confirmation", NEW f, Adds(f, p, x)
    PROVE  Phase(r, q, f, ConfirmedBy(v)) /\ ConfirmedBy(v).sent = v.sent
<1>1. Joined(r, q, p, v)
  BY DEF Phase, Asked, Declined, Accepted, Offered, Orphaned, Gone, Asking, NoServer
<1> DEFINE w == [v EXCEPT !.sentConfirmation = TRUE]
<1>2. /\ w.state = v.state /\ w.gotClose = v.gotClose /\ w.gotConfirmation = v.gotConfirmation
      /\ w.sentConfirmation /\ w.sentClose = v.sentClose /\ w.sent = v.sent
  BY DEF Servers
<1> HIDE DEF w
<1>3. Closing(r, q, p, v) /\ Established(r)
  BY <1>1 DEF Joined
<1>4. /\ SeenConfirmation \notin r.closes /\ SentConfirmation \notin r.closes
      /\ ~v.gotConfirmation /\ Never(p, "confirmation")
  BY <1>3 DEF Closing, Says
<1>5. /\ \A t : t # "confirmation" /\ Never(p, t) => Never(f, t)
      /\ \A t : t # "confirmation" /\ Once(p, t) => Once(f, t)
      /\ DataEnds(p) => DataEnds(f)
      /\ Once(f, "confirmation")
  BY <1>4, AddsFacts
<1>6. Finished(w) = w
  BY <1>2, <1>4, FinishedIs
<1>7. Says(f, "close", v.sentClose, SeenClose \in r.closes)
      /\ (SeenClose \in r.closes => Never(f, "data"))
  BY <1>3, <1>5 DEF Closing, Says
<1>8. Says(f, "confirmation", w.sentConfirmation, SeenConfirmation \in r.closes)
  BY <1>2, <1>4, <1>5 DEF Says
<1>9. Closing(r, q, f, w)
  BY <1>2, <1>3, <1>4, <1>5, <1>7, <1>8 DEF Closing
<1>10. AnswerIsPast(f)
  BY <1>1, <1>5 DEF AnswerIsPast, Joined
<1>11. Joined(r, q, f, w)
  BY <1>1, <1>2, <1>9, <1>10 DEF Joined
<1> QED
  BY <1>2, <1>6, <1>11 DEF Phase, w, ConfirmedBy

-------------------------------------------------------------------------------
(* The data of a channel, wherever it is.                                   *)

Three(a, b, d) == Cat(Cat(a, b), d)

LEMMA WholeIs ==
    ASSUME NEW c, NEW r, NEW p, NEW v, NEW a
    PROVE  Whole(c, r, p, v, a) <=>
             (r.s => /\ r.type # "none" /\ r.closes = {}
                     /\ Three(a, r.out, DataNumbers(c, p)) = Count(v.sent))
BY DEF Whole, Three, Cat

(* A unit moves from the line to the buffer. *)
LEMMA ThreeMoves ==
    ASSUME NEW a \in Seq(Nat), NEW b \in Seq(Nat), NEW d \in Seq(Nat), NEW n \in Nat
    PROVE  Three(a, Append(b, n), d) = Three(a, b, <<n>> \o d)
<1> DEFINE one == <<n>>
           b1 == Cat(b, one)
           ab == Cat(a, b)
<1>1. one \in Seq(Nat)
  OBVIOUS
<1>2. Append(b, n) = b1
  BY AppendIsConcat, Zenon DEF Cat
<1> HIDE DEF one
<1>3. ab \in Seq(Nat) /\ Cat(a, b1) = Cat(ab, one)
  BY <1>1, CatFacts, CatAssociative
<1> HIDE DEF b1, ab
<1>4. Cat(Cat(ab, one), d) = Cat(ab, Cat(one, d))
  BY <1>1, <1>3, CatAssociative
<1> QED
  BY <1>2, <1>3, <1>4, Zenon DEF Three, Cat, ab, one

(* Units move from the buffer to the application. *)
LEMMA ThreeTakes ==
    ASSUME NEW a \in Seq(Nat), NEW b1 \in Seq(Nat), NEW b2 \in Seq(Nat), NEW d
    PROVE  Three(Cat(a, b1), b2, d) = Three(a, Cat(b1, b2), d)
<1>1. Cat(Cat(a, b1), b2) = Cat(a, Cat(b1, b2))
  BY CatAssociative
<1> QED
  BY <1>1, Zenon DEF Three

LEMMA ThreeAppend ==
    ASSUME NEW a \in Seq(Nat), NEW b \in Seq(Nat), NEW d \in Seq(Nat), NEW n \in Nat
    PROVE  Three(a, b, Append(d, n)) = Append(Three(a, b, d), n)
<1> DEFINE ab == Cat(a, b)
<1>1. ab \in Seq(Nat)
  BY CatFacts
<1> HIDE DEF ab
<1>2. Cat(ab, Append(d, n)) = Append(Cat(ab, d), n)
  BY <1>1, CatAppend
<1> QED
  BY <1>2, Zenon DEF Three, ab

LEMMA CountAppend ==
    ASSUME NEW k \in Nat
    PROVE  Append(Count(k), k + 1) = Count(k + 1)
<1> DEFINE a == Count(k)
           b == Append(a, k + 1)
           d == Count(k + 1)
<1>1. a \in Seq(Nat) /\ Len(a) = k /\ \A i \in 1 .. k : a[i] = i
  BY DEF Count
<1>2. d \in Seq(Nat) /\ Len(d) = k + 1 /\ \A i \in 1 .. k + 1 : d[i] = i
  BY DEF Count
<1> HIDE DEF a, d
<1>3. b \in Seq(Nat) /\ Len(b) = k + 1 /\ b[k + 1] = k + 1 /\ \A i \in 1 .. k : b[i] = a[i]
  <2>1. k + 1 \in Nat
    OBVIOUS
  <2>2. /\ b \in Seq(Nat) /\ Len(b) = Len(a) + 1 /\ b[Len(a) + 1] = k + 1
        /\ \A i \in 1 .. Len(a) : b[i] = a[i]
    BY <1>1, <2>1, AppendProperties
  <2> HIDE DEF b
  <2> QED
    BY <1>1, <2>2
<1> HIDE DEF b
<1>4. \A i \in 1 .. k + 1 : b[i] = d[i]
  <2>1. \A i \in 1 .. k + 1 : i \in 1 .. k \/ i = k + 1
    OBVIOUS
  <2> QED
    BY <1>1, <1>2, <1>3, <2>1
<1>5. b = d
  BY <1>2, <1>3, <1>4, SeqEqual
<1> QED
  BY <1>5 DEF a, b, d

LEMMA LeadsData ==
    ASSUME NEW c, NEW p \in Seq(About(c, PacketTypes)), NEW x, NEW e, Leads(p, x, e)
    PROVE  /\ x \in About(c, PacketTypes)
           /\ e \in Seq(About(c, PacketTypes))
           /\ DataNumbers(c, e) \in Seq(Nat)
           /\ x.t = "data" => DataNumbers(c, p) = <<x.n>> \o DataNumbers(c, e)
           /\ x.t # "data" => DataNumbers(c, p) = DataNumbers(c, e)
<1>1. p # <<>> /\ Head(p) = x /\ Tail(p) = e
  BY DEF Leads
<1>2. Head(p) \in About(c, PacketTypes) /\ Tail(p) \in Seq(About(c, PacketTypes))
  BY <1>1, HeadTailProperties
<1>3. DataNumbers(c, Tail(p)) \in Seq(Nat)
  BY <1>2, DataNumbersType
<1>4. DataNumbers(c, p)
        = IF Head(p).t = "data" THEN <<Head(p).n>> \o DataNumbers(c, Tail(p))
          ELSE DataNumbers(c, Tail(p))
  BY <1>1, DataNumbersTail
<1> QED
  BY <1>1, <1>2, <1>3, <1>4, Zenon

LEMMA AddsData ==
    ASSUME NEW c, NEW p \in Seq(About(c, PacketTypes)), NEW x \in About(c, PacketTypes),
           NEW f, Adds(f, p, x)
    PROVE  /\ x.t = "data" => DataNumbers(c, f) = Append(DataNumbers(c, p), x.n)
           /\ x.t # "data" => DataNumbers(c, f) = DataNumbers(c, p)
BY DataNumbersAppend, Zenon DEF Adds

-------------------------------------------------------------------------------
(* One channel among the others.                                            *)

LEMMA Here ==
    ASSUME HInv, NEW c \in Chan
    PROVE  /\ channel[c] \in Channels /\ toServer[c] \in Seq(Messages)
           /\ srv[c] \in Servers /\ took[c] \in Seq(Nat) /\ channel[c].out \in Seq(Nat)
           /\ Line(c) \in Seq(About(c, PacketTypes))
           /\ Phase(channel[c], toServer[c], Line(c), srv[c])
           /\ Whole(c, channel[c], Line(c), srv[c], took[c])
<1>1. TypeOK /\ ChannelIsGood(c)
  BY DEF HInv, IInv
<1>2. Line(c) \in Seq(About(c, PacketTypes))
  BY <1>1, Queues
<1>3. Phase(channel[c], toServer[c], Line(c), srv[c])
      /\ Whole(c, channel[c], Line(c), srv[c], took[c])
  BY <1>1 DEF ChannelIsGood, Good, Line
<1> QED
  BY <1>1, <1>2, <1>3, ChannelsType DEF TypeOK

OthersStand(c) ==
    \A d \in Chan : d # c =>
        /\ channel'[d] = channel[d] /\ toServer'[d] = toServer[d]
        /\ srv'[d] = srv[d] /\ took'[d] = took[d] /\ Line(d)' = Line(d)

LEMMA OneChannel ==
    ASSUME HInv, NEW c \in Chan, OthersStand(c),
           Phase(channel'[c], toServer'[c], Line(c)', srv'[c]),
           Whole(c, channel'[c], Line(c)', srv'[c], took'[c])
    PROVE  \A d \in Chan : ChannelIsGood(d)'
<1>1. ChannelIsGood(c)'
  BY DEF ChannelIsGood, Good, Line
<1>2. ASSUME NEW d \in Chan, d # c PROVE ChannelIsGood(d)'
  <2>1. ChannelIsGood(d)
    BY DEF HInv
  <2> QED
    BY <1>2, <2>1 DEF ChannelIsGood, Good, Line, OthersStand
<1> QED
  BY <1>1, <1>2

LEMMA NoChannelMoves ==
    ASSUME HInv, UNCHANGED <<channel, toServer, srv, took>>,
           \A d \in Chan : Line(d)' = Line(d)
    PROVE  \A d \in Chan : ChannelIsGood(d)'
<1>1. ASSUME NEW d \in Chan PROVE ChannelIsGood(d)'
  <2>1. ChannelIsGood(d)
    BY DEF HInv
  <2> QED
    BY <2>1 DEF ChannelIsGood, Good, Line
<1> QED
  BY <1>1

LEMMA GetsHere ==
    ASSUME HInv, NEW t, Gets(t), t # "open", UNCHANGED <<held, net>>, NEW c, c = Packet.c
    PROVE  /\ c \in Chan /\ busy
           /\ Packet.t = t /\ Packet \in About(c, PacketTypes)
           /\ Leads(Line(c), Packet, Line(c)')
           /\ \A d \in Chan : d # c => Line(d)' = Line(d)
<1>1. TypeOK
  BY DEF HInv, IInv
<1>2. /\ Packet.c \in Chan /\ Packet.t = t
      /\ Packet \in About(Packet.c, PacketTypes)
      /\ Line(Packet.c) # <<>>
      /\ Head(Line(Packet.c)) = Packet
      /\ \A d \in Chan : d = Packet.c => Line(d)' = Tail(Line(d))
      /\ \A d \in Chan : d # Packet.c => Line(d)' = Line(d)
  BY <1>1, LineGets
<1>3. c \in Chan /\ Line(c)' = Tail(Line(c)) /\ Line(c) # <<>> /\ Head(Line(c)) = Packet
  BY <1>2
<1>4. Leads(Line(c), Packet, Line(c)')
  BY <1>3, Zenon DEF Leads
<1>5. busy
  BY DEF Gets, Processing
<1> QED
  BY <1>2, <1>3, <1>4, <1>5

LEMMA WholeKeeps ==
    ASSUME NEW c, NEW r, NEW p, NEW v, NEW a, Whole(c, r, p, v, a),
           NEW s, NEW f, NEW w,
           s.s => /\ r.s /\ s.type # "none" /\ s.closes = {} /\ s.out = r.out
                  /\ w.sent = v.sent /\ DataNumbers(c, f) = DataNumbers(c, p)
    PROVE  Whole(c, s, f, w, a)
BY WholeIs

-------------------------------------------------------------------------------
(* The steps of ssh_gotdata() keep every channel's phase.                   *)

LEMMA OpenConfirmationGood ==
    ASSUME HInv, OpenConfirmation
    PROVE  ~fault' /\ busy' /\ \A d \in Chan : ChannelIsGood(d)'
<1>1. Gets("confirm") /\ UNCHANGED <<held, net, busy, srv, took, fault>>
  BY DEF OpenConfirmation
<1> DEFINE c0 == Packet.c
<1>2. PICK c : c = c0
  OBVIOUS
<1>3. /\ c \in Chan /\ busy /\ Packet.t = "confirm" /\ Packet \in About(c, PacketTypes)
      /\ Leads(Line(c), Packet, Line(c)')
      /\ \A d \in Chan : d # c => Line(d)' = Line(d)
  <2>1. "confirm" # "open"
    OBVIOUS
  <2> QED
    BY <1>1, <1>2, <2>1, GetsHere
<1>4. /\ channel[c] \in Channels /\ Line(c) \in Seq(About(c, PacketTypes))
      /\ Phase(channel[c], toServer[c], Line(c), srv[c])
      /\ Whole(c, channel[c], Line(c), srv[c], took[c])
  BY <1>3, Here
<1>5. Accepted(channel[c], toServer[c], Line(c), srv[c])
  BY <1>3, <1>4, ConfirmedWas
<1>6. channel[c].type = "dormant"
  BY <1>5 DEF Accepted, HalfOpen
<1>7. /\ channel' = [channel EXCEPT ![c].type = "sockdata", ![c].halfopen = FALSE,
                                    ![c].throttling = FALSE]
      /\ channel[c].closes # {} => Sends(c, "close")
      /\ channel[c].closes = {} => toServer' = toServer
  BY <1>2, <1>6 DEF OpenConfirmation
<1>8. channel \in [Chan -> Channels] /\ toServer \in [Chan -> Seq(Messages)]
  BY DEF HInv, IInv, TypeOK
<1>9. /\ channel'[c].type = "sockdata" /\ ~channel'[c].halfopen
      /\ channel'[c].closes = channel[c].closes /\ channel'[c].s = channel[c].s
      /\ channel'[c].out = channel[c].out
      /\ \A d \in Chan : d # c => channel'[d] = channel[d]
  BY <1>3, <1>4, <1>7, <1>8 DEF Channels
<1>10. /\ channel[c].closes # {} => toServer'[c] = Append(toServer[c], "close")
       /\ channel[c].closes = {} => toServer'[c] = toServer[c]
       /\ \A d \in Chan : d # c => toServer'[d] = toServer[d]
  BY <1>3, <1>7, <1>8 DEF Sends
<1>11. /\ channel[c].closes # {} =>
             Joined(channel'[c], Append(toServer[c], "close"), Line(c)', srv[c])
       /\ channel[c].closes = {} => Joined(channel'[c], toServer[c], Line(c)', srv[c])
  BY <1>3, <1>4, <1>5, <1>9, Confirmed
<1>12. Joined(channel'[c], toServer'[c], Line(c)', srv'[c])
  BY <1>1, <1>10, <1>11, Zenon
<1>13. Phase(channel'[c], toServer'[c], Line(c)', srv'[c])
  BY <1>12 DEF Phase
<1>14. DataNumbers(c, Line(c)') = DataNumbers(c, Line(c))
  <2>1. Packet.t # "data"
    BY <1>3
  <2> QED
    BY <1>3, <1>4, <2>1, LeadsData
<1>15. channel[c].s => channel[c].closes = {}
  BY <1>4 DEF Whole
<1>16. Whole(c, channel'[c], Line(c)', srv'[c], took'[c])
  BY <1>1, <1>4, <1>9, <1>14, <1>15, WholeKeeps
<1>17. OthersStand(c)
  BY <1>1, <1>3, <1>9, <1>10 DEF OthersStand
<1>18. \A d \in Chan : ChannelIsGood(d)'
  BY <1>3, <1>13, <1>16, <1>17, OneChannel
<1> QED
  BY <1>1, <1>3, <1>18 DEF HInv

LEMMA OpenFailureGood ==
    ASSUME HInv, OpenFailure
    PROVE  ~fault' /\ busy' /\ \A d \in Chan : ChannelIsGood(d)'
<1>1. Gets("failure") /\ UNCHANGED <<held, net, busy, toServer, srv, took, fault>>
  BY DEF OpenFailure
<1> DEFINE c0 == Packet.c
<1>2. PICK c : c = c0
  OBVIOUS
<1>3. /\ c \in Chan /\ busy /\ Packet.t = "failure"
      /\ Leads(Line(c), Packet, Line(c)')
      /\ \A d \in Chan : d # c => Line(d)' = Line(d)
  <2>1. "failure" # "open"
    OBVIOUS
  <2> QED
    BY <1>1, <1>2, <2>1, GetsHere
<1>4. /\ Line(c) \in Seq(About(c, PacketTypes))
      /\ Phase(channel[c], toServer[c], Line(c), srv[c])
  BY <1>3, Here
<1>5. channel[c].type = "dormant" /\ Gone(NoChannel, toServer[c], Line(c)', srv[c])
  BY <1>3, <1>4, Refused
<1>6. channel' = [channel EXCEPT ![c] = NoChannel]
  BY <1>2, <1>5 DEF OpenFailure
<1>7. channel \in [Chan -> Channels]
  BY DEF HInv, IInv, TypeOK
<1>8. channel'[c] = NoChannel /\ \A d \in Chan : d # c => channel'[d] = channel[d]
  BY <1>3, <1>6, <1>7
<1>9. Phase(channel'[c], toServer'[c], Line(c)', srv'[c])
  BY <1>1, <1>5, <1>8 DEF Phase
<1>10. Whole(c, channel'[c], Line(c)', srv'[c], took'[c])
  BY <1>8 DEF Whole, NoChannel
<1>11. OthersStand(c)
  BY <1>1, <1>3, <1>8 DEF OthersStand
<1>12. \A d \in Chan : ChannelIsGood(d)'
  BY <1>3, <1>9, <1>10, <1>11, OneChannel
<1> QED
  BY <1>1, <1>3, <1>12 DEF HInv

LEMMA ChannelDataGood ==
    ASSUME HInv, ChannelData
    PROVE  ~fault' /\ busy' /\ \A d \in Chan : ChannelIsGood(d)'
<1>1. Gets("data") /\ UNCHANGED <<held, net, busy, toServer, srv, took, fault>>
  BY DEF ChannelData, Throttle
<1> DEFINE c0 == Packet.c
<1>2. PICK c : c = c0
  OBVIOUS
<1>3. /\ c \in Chan /\ busy /\ Packet.t = "data"
      /\ Leads(Line(c), Packet, Line(c)')
      /\ \A d \in Chan : d # c => Line(d)' = Line(d)
  <2>1. "data" # "open"
    OBVIOUS
  <2> QED
    BY <1>1, <1>2, <2>1, GetsHere
<1>4. /\ channel[c] \in Channels /\ Line(c) \in Seq(About(c, PacketTypes))
      /\ took[c] \in Seq(Nat) /\ channel[c].out \in Seq(Nat)
      /\ Phase(channel[c], toServer[c], Line(c), srv[c])
      /\ Whole(c, channel[c], Line(c), srv[c], took[c])
  BY <1>3, Here
<1>5. Established(channel[c])
  BY <1>3, <1>4, ClosingWas
<1> DEFINE n == Packet.n
           r == channel[c]
           out == Append(r.out, n)
           backlog == IF r.type = "sockdata" /\ r.s THEN Len(out) ELSE 0
           throttles == ~r.throttling /\ backlog > SSH1_BUFFER_LIMIT
<1>6. channel' = [channel EXCEPT ![c].out = IF r.type = "sockdata" /\ r.s THEN out ELSE @,
                                 ![c].throttling = @ \/ throttles]
  BY <1>2 DEF ChannelData
<1>7. channel \in [Chan -> Channels]
  BY DEF HInv, IInv, TypeOK
<1> HIDE DEF n, backlog, throttles
<1>8. /\ channel'[c].type = r.type /\ channel'[c].halfopen = r.halfopen
      /\ channel'[c].closes = r.closes /\ channel'[c].s = r.s
      /\ r.s => channel'[c].out = out
      /\ \A d \in Chan : d # c => channel'[d] = channel[d]
  <2> HIDE DEF out
  <2> QED
    BY <1>3, <1>4, <1>5, <1>6, <1>7 DEF Channels, Established
<1>9. Phase(r, toServer[c], Line(c)', srv[c])
  BY <1>3, <1>4, GotSome
<1>10. Phase(channel'[c], toServer'[c], Line(c)', srv'[c])
  BY <1>1, <1>8, <1>9, PhaseSame
<1>11. Whole(c, channel'[c], Line(c)', srv'[c], took'[c])
  <2> DEFINE d0 == DataNumbers(c, Line(c))
             d1 == DataNumbers(c, Line(c)')
  <2>1. d1 \in Seq(Nat) /\ d0 = <<n>> \o d1 /\ Packet \in About(c, PacketTypes)
    BY <1>3, <1>4, LeadsData DEF n
  <2>2. n \in Nat
    BY <2>1 DEF n, About
  <2> HIDE DEF d0, d1
  <2>3. Three(took[c], out, d1) = Three(took[c], r.out, d0)
    BY <1>4, <2>1, <2>2, ThreeMoves
  <2>4. r.s => /\ r.type # "none" /\ r.closes = {}
               /\ Three(took[c], r.out, d0) = Count(srv[c].sent)
    BY <1>4, WholeIs DEF d0
  <2> HIDE DEF out
  <2>5. channel'[c].s => /\ channel'[c].type # "none" /\ channel'[c].closes = {}
                         /\ Three(took[c], channel'[c].out, d1) = Count(srv[c].sent)
    BY <1>8, <2>3, <2>4
  <2> QED
    BY <1>1, <2>5, WholeIs DEF d1
<1>12. OthersStand(c)
  BY <1>1, <1>3, <1>8 DEF OthersStand
<1>13. \A d \in Chan : ChannelIsGood(d)'
  BY <1>3, <1>10, <1>11, <1>12, OneChannel
<1> QED
  BY <1>1, <1>3, <1>13 DEF HInv

(* What ssh1_msg_channel_close() does to a channel that is open. *)
LEMMA ChannelCloseIs ==
    ASSUME TypeOK, NEW t, NEW sent, NEW seen, ChannelClose(t, sent, seen),
           NEW c \in Chan, c = Packet.c, Established(channel[c]),
           channel[c].s => channel[c].closes = {}, t \in Messages,
           NEW k, k = channel[c].closes \cup {seen, sent}
    PROVE  /\ fault' = fault /\ ~channel'[c].s
           /\ k = AllOfClosing => channel'[c] = NoChannel
           /\ k # AllOfClosing => channel'[c].type = "sockdata" /\ ~channel'[c].halfopen
                                  /\ channel'[c].closes = k
           /\ sent \in channel[c].closes => toServer'[c] = toServer[c]
           /\ sent \notin channel[c].closes => toServer'[c] = Append(toServer[c], t)
           /\ \A d \in Chan : d # c => channel'[d] = channel[d] /\ toServer'[d] = toServer[d]
<1> DEFINE r == IF channel[c].closes = {} /\ channel[c].type = "sockdata"
                THEN NoSocket(channel[c])
                ELSE channel[c]
           n == IF Deleted(k) THEN NoChannel ELSE [r EXCEPT !.closes = k]
<1>1. channel[c].type = "sockdata" /\ ~channel[c].halfopen /\ channel[c] \in Channels
  BY ChannelsType DEF Established
<1>2. /\ fault' = fault
      /\ channel' = [channel EXCEPT ![c] = n]
      /\ IF sent \in channel[c].closes THEN UNCHANGED toServer ELSE Sends(c, t)
  BY <1>1 DEF ChannelClose
<1>3. channel \in [Chan -> Channels] /\ toServer \in [Chan -> Seq(Messages)]
  BY DEF TypeOK
<1>4. r.type = "sockdata" /\ ~r.halfopen /\ ~r.s /\ r \in Channels
  <2>1. /\ NoSocket(channel[c]).type = "sockdata" /\ ~NoSocket(channel[c]).halfopen
        /\ ~NoSocket(channel[c]).s /\ NoSocket(channel[c]) \in Channels
    BY <1>1, ChannelsType DEF NoSocket, Channels
  <2> QED
    BY <1>1, <2>1
<1> HIDE DEF r
<1>5. /\ k = AllOfClosing => n = NoChannel
      /\ k # AllOfClosing => n.type = "sockdata" /\ ~n.halfopen /\ n.closes = k /\ ~n.s
      /\ ~NoChannel.s
  BY <1>4 DEF Deleted, NoChannel, Channels
<1> HIDE DEF n
<1>6. channel'[c] = n /\ \A d \in Chan : d # c => channel'[d] = channel[d]
  BY <1>2, <1>3
<1>7. /\ sent \in channel[c].closes => toServer'[c] = toServer[c]
      /\ sent \notin channel[c].closes => toServer'[c] = Append(toServer[c], t)
      /\ \A d \in Chan : d # c => toServer'[d] = toServer[d]
  BY <1>2, <1>3 DEF Sends
<1>8. ~n.s
  BY <1>5
<1> QED
  BY <1>2, <1>5, <1>6, <1>7, <1>8

LEMMA CloseGood ==
    ASSUME HInv, ChannelClose("close", SentClose, SeenClose)
    PROVE  ~fault' /\ busy' /\ \A d \in Chan : ChannelIsGood(d)'
<1>1. Gets("close") /\ UNCHANGED <<held, net, busy, srv, took>>
  BY DEF ChannelClose
<1> DEFINE c0 == Packet.c
<1>2. PICK c : c = c0
  OBVIOUS
<1>3. /\ c \in Chan /\ busy /\ Packet.t = "close"
      /\ Leads(Line(c), Packet, Line(c)')
      /\ \A d \in Chan : d # c => Line(d)' = Line(d)
  <2>1. "close" # "open"
    OBVIOUS
  <2> QED
    BY <1>1, <1>2, <2>1, GetsHere
<1>4. /\ Line(c) \in Seq(About(c, PacketTypes)) /\ channel[c] \in Channels
      /\ Phase(channel[c], toServer[c], Line(c), srv[c])
      /\ Whole(c, channel[c], Line(c), srv[c], took[c])
  BY <1>3, Here
<1> DEFINE k == channel[c].closes \cup {SeenClose, SentClose}
<1>5. /\ Established(channel[c])
      /\ \/ Joined(channel[c], toServer[c], Line(c), srv[c])
         \/ Orphaned(channel[c], toServer[c], Line(c), srv[c])
  BY <1>3, <1>4, ClosingWas
<1>6. /\ fault' = fault /\ ~channel'[c].s
      /\ k = AllOfClosing => channel'[c] = NoChannel
      /\ k # AllOfClosing => channel'[c].type = "sockdata" /\ ~channel'[c].halfopen
                             /\ channel'[c].closes = k
      /\ SentClose \in channel[c].closes => toServer'[c] = toServer[c]
      /\ SentClose \notin channel[c].closes => toServer'[c] = Append(toServer[c], "close")
      /\ \A d \in Chan : d # c => channel'[d] = channel[d] /\ toServer'[d] = toServer[d]
  <2>1. TypeOK /\ "close" \in Messages /\ (channel[c].s => channel[c].closes = {})
        /\ c = Packet.c
    BY <1>2, <1>4 DEF HInv, IInv, Messages, Whole
  <2> QED
    BY <1>3, <1>5, <2>1, ChannelCloseIs
<1>7. ASSUME Joined(channel[c], toServer[c], Line(c), srv[c])
      PROVE  Phase(channel'[c], toServer'[c], Line(c)', srv'[c])
  <2>1. /\ k # AllOfClosing =>
             \A s : s.type = "sockdata" /\ ~s.halfopen /\ s.closes = k =>
                 /\ SentClose \in channel[c].closes => Joined(s, toServer[c], Line(c)', srv[c])
                 /\ SentClose \notin channel[c].closes =>
                        Joined(s, Append(toServer[c], "close"), Line(c)', srv[c])
        /\ k = AllOfClosing =>
             SentClose \in channel[c].closes /\ Gone(NoChannel, toServer[c], Line(c)', srv[c])
    BY <1>3, <1>4, <1>7, ClosedByServer
  <2> HIDE DEF k
  <2>2. k # AllOfClosing => Joined(channel'[c], toServer'[c], Line(c)', srv'[c])
    BY <1>1, <1>6, <2>1, Zenon
  <2>3. k = AllOfClosing => Gone(channel'[c], toServer'[c], Line(c)', srv'[c])
    BY <1>1, <1>6, <2>1, Zenon
  <2> QED
    BY <2>2, <2>3 DEF Phase
<1>8. ASSUME Orphaned(channel[c], toServer[c], Line(c), srv[c])
      PROVE  Phase(channel'[c], toServer'[c], Line(c)', srv'[c])
  <2>1. SentClose \in channel[c].closes /\ k = AllOfClosing
        /\ Gone(NoChannel, toServer[c], Line(c)', srv[c])
    BY <1>3, <1>4, <1>8, ClosedAfterAll
  <2> HIDE DEF k
  <2>2. Gone(channel'[c], toServer'[c], Line(c)', srv'[c])
    BY <1>1, <1>6, <2>1, Zenon
  <2> QED
    BY <2>2 DEF Phase
<1>9. Phase(channel'[c], toServer'[c], Line(c)', srv'[c])
  BY <1>5, <1>7, <1>8
<1>10. Whole(c, channel'[c], Line(c)', srv'[c], took'[c])
  BY <1>6 DEF Whole
<1>11. OthersStand(c)
  BY <1>1, <1>3, <1>6 DEF OthersStand
<1>12. \A d \in Chan : ChannelIsGood(d)'
  BY <1>3, <1>9, <1>10, <1>11, OneChannel
<1> QED
  BY <1>1, <1>3, <1>6, <1>12 DEF HInv

LEMMA ConfirmationGood ==
    ASSUME HInv, ChannelClose("confirmation", SentConfirmation, SeenConfirmation)
    PROVE  ~fault' /\ busy' /\ \A d \in Chan : ChannelIsGood(d)'
<1>1. Gets("confirmation") /\ UNCHANGED <<held, net, busy, srv, took>>
  BY DEF ChannelClose
<1> DEFINE c0 == Packet.c
<1>2. PICK c : c = c0
  OBVIOUS
<1>3. /\ c \in Chan /\ busy /\ Packet.t = "confirmation"
      /\ Leads(Line(c), Packet, Line(c)')
      /\ \A d \in Chan : d # c => Line(d)' = Line(d)
  <2>1. "confirmation" # "open"
    OBVIOUS
  <2> QED
    BY <1>1, <1>2, <2>1, GetsHere
<1>4. /\ Line(c) \in Seq(About(c, PacketTypes)) /\ channel[c] \in Channels
      /\ Phase(channel[c], toServer[c], Line(c), srv[c])
      /\ Whole(c, channel[c], Line(c), srv[c], took[c])
  BY <1>3, Here
<1> DEFINE k == channel[c].closes \cup {SeenConfirmation, SentConfirmation}
<1>5. /\ Established(channel[c])
      /\ Joined(channel[c], toServer[c], Line(c), srv[c])
  BY <1>3, <1>4, ClosingWas
<1>6. /\ fault' = fault /\ ~channel'[c].s
      /\ k = AllOfClosing => channel'[c] = NoChannel
      /\ k # AllOfClosing => channel'[c].type = "sockdata" /\ ~channel'[c].halfopen
                             /\ channel'[c].closes = k
      /\ SentConfirmation \in channel[c].closes => toServer'[c] = toServer[c]
      /\ SentConfirmation \notin channel[c].closes =>
             toServer'[c] = Append(toServer[c], "confirmation")
      /\ \A d \in Chan : d # c => channel'[d] = channel[d] /\ toServer'[d] = toServer[d]
  <2>1. TypeOK /\ "confirmation" \in Messages /\ (channel[c].s => channel[c].closes = {})
        /\ c = Packet.c
    BY <1>2, <1>4 DEF HInv, IInv, Messages, Whole
  <2> QED
    BY <1>3, <1>5, <2>1, ChannelCloseIs
<1>7. /\ channel[c].closes # {} /\ SentConfirmation \notin channel[c].closes
      /\ k # AllOfClosing =>
           \A s : s.type = "sockdata" /\ ~s.halfopen /\ s.closes = k =>
               Joined(s, Append(toServer[c], "confirmation"), Line(c)', srv[c])
      /\ k = AllOfClosing =>
           Gone(NoChannel, Append(toServer[c], "confirmation"), Line(c)', srv[c])
  BY <1>3, <1>4, <1>5, ConfirmedClose
<1> HIDE DEF k
<1>8. k # AllOfClosing => Joined(channel'[c], toServer'[c], Line(c)', srv'[c])
  BY <1>1, <1>6, <1>7, Zenon
<1>9. k = AllOfClosing => Gone(channel'[c], toServer'[c], Line(c)', srv'[c])
  BY <1>1, <1>6, <1>7, Zenon
<1>10. Phase(channel'[c], toServer'[c], Line(c)', srv'[c])
  BY <1>8, <1>9 DEF Phase
<1>11. Whole(c, channel'[c], Line(c)', srv'[c], took'[c])
  BY <1>6 DEF Whole
<1>12. OthersStand(c)
  BY <1>1, <1>3, <1>6 DEF OthersStand
<1>13. \A d \in Chan : ChannelIsGood(d)'
  BY <1>3, <1>10, <1>11, <1>12, OneChannel
<1> QED
  BY <1>1, <1>3, <1>6, <1>13 DEF HInv

(* A channel that is asked for, by an application or by the server. *)
LEMMA BeginsGood ==
    ASSUME HInv, NEW c \in Chan, Unused(c), NEW m, NEW s,
           \/ s.type = "dormant" /\ s.halfopen /\ m = "open"
           \/ s.type = "sockdata" /\ ~s.halfopen /\ m = "confirm",
           s.closes = {}, s.out = <<>>,
           channel' = [channel EXCEPT ![c] = s], Sends(c, m),
           srv' = [srv EXCEPT ![c].state = "asking"],
           took' = [took EXCEPT ![c] = <<>>],
           \A d \in Chan : Line(d)' = Line(d)
    PROVE  \A d \in Chan : ChannelIsGood(d)'
<1>1. /\ channel \in [Chan -> Channels] /\ toServer \in [Chan -> Seq(Messages)]
      /\ srv \in [Chan -> Servers] /\ took \in [Chan -> Seq(Nat)]
  BY DEF HInv, IInv, TypeOK
<1>2. channel[c].type = "none" /\ toServer[c] = <<>> /\ srv[c] = NoServer
  BY DEF Unused
<1>3. /\ channel'[c] = s /\ \A d \in Chan : d # c => channel'[d] = channel[d]
      /\ srv'[c] = [NoServer EXCEPT !.state = "asking"]
      /\ \A d \in Chan : d # c => srv'[d] = srv[d]
      /\ took'[c] = <<>> /\ \A d \in Chan : d # c => took'[d] = took[d]
      /\ \A d \in Chan : d # c => toServer'[d] = toServer[d]
  BY <1>1, <1>2 DEF Sends
<1>4. toServer'[c] = <<m>>
  BY <1>1, <1>2 DEF Sends
<1>5. Line(c) = <<>>
  BY <1>2, Here, WasUnused
<1>6. Phase(channel'[c], toServer'[c], Line(c)', srv'[c])
  BY <1>3, <1>4, <1>5, Begins DEF Asking
<1>7. Whole(c, channel'[c], Line(c)', srv'[c], took'[c])
  <2>1. DataNumbers(c, <<>>) = <<>>
    BY DataNumbersEmpty
  <2>2. Three(<<>>, <<>>, <<>>) = Count(0)
    BY DEF Three, Cat, Count
  <2>3. /\ channel'[c].type # "none" /\ channel'[c].closes = {} /\ channel'[c].out = <<>>
        /\ srv'[c].sent = 0 /\ took'[c] = <<>> /\ Line(c)' = <<>>
    BY <1>3, <1>5 DEF NoServer
  <2>4. Three(took'[c], channel'[c].out, DataNumbers(c, Line(c)')) = Count(srv'[c].sent)
    BY <2>1, <2>2, <2>3, Zenon
  <2> QED
    BY <2>3, <2>4, WholeIs
<1>8. OthersStand(c)
  BY <1>3 DEF OthersStand
<1> QED
  BY <1>6, <1>7, <1>8, OneChannel

LEMMA PortOpenGood ==
    ASSUME HInv, PortOpen
    PROVE  ~fault' /\ busy' /\ \A d \in Chan : ChannelIsGood(d)'
<1>1. Gets("open") /\ UNCHANGED <<held, net, busy, fault>>
  BY DEF PortOpen
<1>2. \A d \in Chan : Line(d)' = Line(d)
  BY <1>1, LineGetsOpen DEF HInv, IInv
<1>3. ~fault' /\ busy'
  BY <1>1 DEF HInv, Gets, Processing
<1>4. CASE UNCHANGED <<channel, toServer, srv, took>>
  BY <1>2, <1>3, <1>4, NoChannelMoves
<1>5. ASSUME NEW c \in Chan, Unused(c),
             channel' = [channel EXCEPT ![c] =
                           [NoChannel EXCEPT !.type = "sockdata", !.s = TRUE]],
             Sends(c, "confirm"), srv' = [srv EXCEPT ![c].state = "asking"],
             took' = [took EXCEPT ![c] = <<>>]
      PROVE  \A d \in Chan : ChannelIsGood(d)'
  <2> DEFINE s == [NoChannel EXCEPT !.type = "sockdata", !.s = TRUE]
             m == "confirm"
  <2>1. s.type = "sockdata" /\ ~s.halfopen /\ s.closes = {} /\ s.out = <<>> /\ m = "confirm"
    BY DEF NoChannel
  <2>2. channel' = [channel EXCEPT ![c] = s] /\ Sends(c, m)
    BY <1>5
  <2> HIDE DEF s, m
  <2> QED
    BY <1>2, <1>5, <2>1, <2>2, BeginsGood
<1> QED
  BY <1>1, <1>3, <1>4, <1>5 DEF PortOpen

(* A sequence is its first k elements and the rest. *)
LEMMA CutInTwo ==
    ASSUME NEW S, NEW s \in Seq(S), NEW k \in Nat, k <= Len(s)
    PROVE  /\ SubSeq(s, 1, k) \in Seq(S) /\ SubSeq(s, k + 1, Len(s)) \in Seq(S)
           /\ SubSeq(s, 1, k) \o SubSeq(s, k + 1, Len(s)) = s
<1>1. SubSeq(s, 1, k) \in Seq(S) /\ SubSeq(s, k + 1, Len(s)) \in Seq(S)
  BY SubSeqType
<1> DEFINE l == Len(s)
<1>2. l \in Nat
  BY LenProperties
<1>3. 1 \in 1 .. l + 1 /\ k \in 1 - 1 .. l /\ l \in k .. l
  <2> HIDE DEF l
  <2>1. k <= l
    BY DEF l
  <2> QED
    BY <1>2, <2>1
<1>4. SubSeq(s, 1, k) \o SubSeq(s, k + 1, l) = SubSeq(s, 1, l)
  BY <1>3, ConcatAdjacentSubSeq
<1>5. SubSeq(s, 1, l) = s
  BY SubSeqFull
<1> QED
  BY <1>1, <1>4, <1>5

LEMMA ReceiveGood ==
    ASSUME HInv, Ssh1ChannelsAssumption, Receive
    PROVE  ~fault' /\ (~busy' => data' = <<>>) /\ \A d \in Chan : ChannelIsGood(d)'
<1>1. PICK k \in 1 .. MaxSegment :
        /\ k <= Len(net)
        /\ net' = SubSeq(net, k + 1, Len(net))
        /\ IF sk_frozen
           THEN held' = SubSeq(net, 1, k) /\ UNCHANGED <<busy, data>>
           ELSE busy' = TRUE /\ data' = SubSeq(net, 1, k) /\ UNCHANGED held
  BY DEF Receive
<1>2. /\ ~busy /\ held = <<>> /\ data = <<>> /\ ~fault'
      /\ UNCHANGED <<channel, queued, toServer, srv, took>>
  BY DEF Receive, HInv
<1>3. k \in Nat /\ net \in Seq(Packets)
  BY DEF Ssh1ChannelsAssumption, HInv, IInv, TypeOK
<1> DEFINE first == SubSeq(net, 1, k)
           rest == SubSeq(net, k + 1, Len(net))
<1>4. first \in Queue /\ rest \in Queue /\ Cat(first, rest) = net
  <2>1. first \in Seq(Packets) /\ rest \in Seq(Packets) /\ first \o rest = net
    BY <1>1, <1>3, CutInTwo
  <2> QED
    BY <2>1 DEF Queue, Cat
<1>5. IF sk_frozen THEN held' = first /\ data' = <<>> /\ ~busy'
      ELSE busy' /\ data' = first /\ held' = <<>>
  BY <1>1, <1>2
<1>6. net' = rest
  BY <1>1
<1> HIDE DEF first, rest
<1>7. queued \in Queue
  BY Queues DEF HInv, IInv
<1>8. <<>> \in Queue
  BY EmptySeq DEF Queue
<1>9. Unprocessed = Four(queued, <<>>, <<>>, Cat(first, rest))
  BY <1>2, <1>4, UnprocessedIs, Zenon
<1>10. Unprocessed' = Unprocessed
  <2>1. CASE sk_frozen
    <3>1. Four(queued, <<>>, <<>>, Cat(first, rest)) = Four(queued, <<>>, first, rest)
      BY <1>4, <1>7, <1>8, FourMoves
    <3>2. Unprocessed' = Four(queued, <<>>, first, rest)
      BY <1>2, <1>5, <1>6, <2>1, Zenon DEF Unprocessed, Four, Cat
    <3> QED
      BY <1>9, <3>1, <3>2
  <2>2. CASE ~sk_frozen
    <3>1. Four(queued, <<>>, <<>>, Cat(first, rest)) = Four(queued, first, <<>>, rest)
      BY <1>4, <1>7, FourSkips
    <3>2. Unprocessed' = Four(queued, first, <<>>, rest)
      BY <1>2, <1>5, <1>6, <2>2, Zenon DEF Unprocessed, Four, Cat
    <3> QED
      BY <1>9, <3>1, <3>2
  <2> QED
    BY <2>1, <2>2
<1>11. \A d \in Chan : ChannelIsGood(d)'
  BY <1>2, <1>10, LinesStay, NoChannelMoves
<1> QED
  BY <1>2, <1>5, <1>11

LEMMA QueueIncomingDataGood ==
    ASSUME HInv, QueueIncomingData
    PROVE  ~fault' /\ (~busy' => data' = <<>>) /\ \A d \in Chan : ChannelIsGood(d)'
<1>1. /\ queued' = Cat(queued, data) /\ data' = <<>>
      /\ UNCHANGED <<channel, held, net, toServer, srv, took, fault>>
  BY DEF QueueIncomingData, Cat
<1>2. queued \in Queue /\ data \in Queue /\ held \in Queue /\ net \in Queue
  BY Queues DEF HInv, IInv
<1>3. Four(Cat(queued, data), <<>>, held, net) = Four(queued, data, held, net)
  BY <1>2, FourMoves
<1>4. Unprocessed' = Four(Cat(queued, data), <<>>, held, net)
  BY <1>1, Zenon DEF Unprocessed, Four, Cat
<1>5. Unprocessed' = Unprocessed
  BY <1>3, <1>4, UnprocessedIs, Zenon
<1>6. \A d \in Chan : ChannelIsGood(d)'
  BY <1>1, <1>5, LinesStay, NoChannelMoves
<1> QED
  BY <1>1, <1>6 DEF HInv

LEMMA OutOfDataGood ==
    ASSUME HInv, OutOfData
    PROVE  ~fault' /\ (~busy' => data' = <<>>) /\ \A d \in Chan : ChannelIsGood(d)'
<1>1. UNCHANGED <<channel, queued, data, held, net, toServer, srv, took, fault>> /\ data = <<>>
  BY DEF OutOfData, conn
<1>2. Unprocessed' = Unprocessed
  BY <1>1 DEF Unprocessed
<1>3. \A d \in Chan : ChannelIsGood(d)'
  BY <1>1, <1>2, LinesStay, NoChannelMoves
<1> QED
  BY <1>1, <1>3 DEF HInv

-------------------------------------------------------------------------------
(* The steps of the applications keep them.                                 *)

LEMMA AcceptingGood ==
    ASSUME HInv, NEW c \in Chan, Accepting(c)
    PROVE  ~fault' /\ (~busy' => data' = <<>>) /\ \A d \in Chan : ChannelIsGood(d)'
<1> DEFINE s == [NoChannel EXCEPT !.type = "dormant", !.halfopen = TRUE, !.s = TRUE]
           m == "open"
<1>1. /\ UNCHANGED <<queued, held, busy, data, net, fault>> /\ Unused(c)
      /\ channel' = [channel EXCEPT ![c] = s] /\ Sends(c, m)
      /\ srv' = [srv EXCEPT ![c].state = "asking"]
      /\ took' = [took EXCEPT ![c] = <<>>]
  BY DEF Accepting, conn
<1>2. s.type = "dormant" /\ s.halfopen /\ s.closes = {} /\ s.out = <<>> /\ m = "open"
  BY DEF NoChannel
<1> HIDE DEF s, m
<1>3. Unprocessed' = Unprocessed
  BY <1>1 DEF Unprocessed
<1>4. \A d \in Chan : ChannelIsGood(d)'
  BY <1>1, <1>2, <1>3, LinesStay, BeginsGood
<1> QED
  BY <1>1, <1>4 DEF HInv

(* Thawing passes what the socket holds to the end of the queue. *)
LEMMA ThawKeeps ==
    ASSUME HInv, ~busy, UNCHANGED <<data, net>>,
           Unthrottle \/ UNCHANGED conn
    PROVE  \A d \in Chan : Line(d)' = Line(d)
<1>1. data = <<>>
  BY DEF HInv
<1>2. queued \in Queue /\ held \in Queue /\ net \in Queue
  BY Queues DEF HInv, IInv
<1>3. (queued' = Cat(queued, held) /\ held' = <<>>) \/ UNCHANGED <<queued, held>>
  BY DEF Unthrottle, Thaw, conn, Cat
<1>4. CASE queued' = Cat(queued, held) /\ held' = <<>>
  <2>1. Four(Cat(queued, held), <<>>, <<>>, net) = Four(queued, <<>>, held, net)
    BY <1>2, FourSkips
  <2>2. Unprocessed' = Four(Cat(queued, held), <<>>, <<>>, net)
    BY <1>1, <1>4, Zenon DEF Unprocessed, Four, Cat
  <2>3. Unprocessed' = Unprocessed
    BY <1>1, <2>1, <2>2, UnprocessedIs, Zenon
  <2> QED
    BY <2>3, LinesStay
<1>5. CASE UNCHANGED <<queued, held>>
  <2>1. Unprocessed' = Unprocessed
    BY <1>5 DEF Unprocessed
  <2> QED
    BY <2>1, LinesStay
<1> QED
  BY <1>3, <1>4, <1>5

LEMMA AppTakesGood ==
    ASSUME HInv, NEW c \in Chan, NEW n \in Nat, AppTakes(c, n)
    PROVE  ~fault' /\ (~busy' => data' = <<>>) /\ \A d \in Chan : ChannelIsGood(d)'
<1> DEFINE out == channel[c].out
           first == SubSeq(out, 1, n)
           rest == SubSeq(out, n + 1, Len(out))
           unthrottles == Unthrottles(channel[c], Len(rest))
<1>1. /\ n <= Len(out) /\ ~busy /\ channel[c].s
      /\ took' = [took EXCEPT ![c] = @ \o first]
      /\ channel' = [channel EXCEPT ![c].out = rest, ![c].throttling = @ /\ ~unthrottles]
      /\ UNCHANGED <<busy, data, net, toServer, srv, fault>>
      /\ Unthrottle \/ UNCHANGED conn
  BY DEF AppTakes, Idle
<1>2. \A d \in Chan : Line(d)' = Line(d)
  BY <1>1, ThawKeeps
<1>3. /\ channel \in [Chan -> Channels] /\ took \in [Chan -> Seq(Nat)]
      /\ channel[c] \in Channels /\ took[c] \in Seq(Nat) /\ out \in Seq(Nat)
      /\ Phase(channel[c], toServer[c], Line(c), srv[c])
      /\ Whole(c, channel[c], Line(c), srv[c], took[c])
  BY Here DEF HInv, IInv, TypeOK
<1>4. first \in Seq(Nat) /\ rest \in Seq(Nat) /\ first \o rest = out
  BY <1>1, <1>3, CutInTwo
<1> HIDE DEF first, rest, unthrottles
<1>5. /\ channel'[c].type = channel[c].type /\ channel'[c].halfopen = channel[c].halfopen
      /\ channel'[c].closes = channel[c].closes /\ channel'[c].s = channel[c].s
      /\ channel'[c].out = rest
      /\ \A d \in Chan : d # c => channel'[d] = channel[d]
  BY <1>1, <1>3 DEF Channels
<1>6. took'[c] = took[c] \o first /\ \A d \in Chan : d # c => took'[d] = took[d]
  BY <1>1, <1>3
<1>7. Line(c)' = Line(c)
  BY <1>2
<1>8. Phase(channel'[c], toServer'[c], Line(c)', srv'[c])
  <2>1. Phase(channel'[c], toServer[c], Line(c), srv[c])
    BY <1>3, <1>5, PhaseSame
  <2> QED
    BY <1>1, <1>7, <2>1
<1>9. Whole(c, channel'[c], Line(c)', srv'[c], took'[c])
  <2> DEFINE d0 == DataNumbers(c, Line(c))
  <2>1. Three(Cat(took[c], first), rest, d0) = Three(took[c], Cat(first, rest), d0)
    <3>1. took[c] \in Seq(Nat) /\ first \in Seq(Nat) /\ rest \in Seq(Nat)
      BY <1>3, <1>4
    <3> HIDE DEF d0
    <3> QED
      BY <3>1, ThreeTakes
  <2>2. channel[c].s => /\ channel[c].type # "none" /\ channel[c].closes = {}
                        /\ Three(took[c], out, d0) = Count(srv[c].sent)
    BY <1>3, WholeIs
  <2> HIDE DEF d0
  <2>3. Three(took'[c], channel'[c].out, d0) = Count(srv'[c].sent)
    BY <1>1, <1>4, <1>5, <1>6, <2>1, <2>2, Zenon DEF Cat
  <2>4. channel'[c].s => channel'[c].type # "none" /\ channel'[c].closes = {}
    BY <1>5, <2>2
  <2> QED
    BY <1>7, <2>3, <2>4, WholeIs DEF d0
<1>10. OthersStand(c)
  BY <1>1, <1>2, <1>5, <1>6 DEF OthersStand
<1>11. \A d \in Chan : ChannelIsGood(d)'
  BY <1>8, <1>9, <1>10, OneChannel
<1> QED
  BY <1>1, <1>11 DEF HInv

LEMMA AppEndsGood ==
    ASSUME HInv, NEW c \in Chan, AppEnds(c)
    PROVE  ~fault' /\ (~busy' => data' = <<>>) /\ \A d \in Chan : ChannelIsGood(d)'
<1> DEFINE r == channel[c]
           s == [NoSocket(r) EXCEPT !.closes = {SentClose}]
<1>1. /\ r.s /\ channel' = [channel EXCEPT ![c] = s]
      /\ r.halfopen => toServer' = toServer
      /\ ~r.halfopen => Sends(c, "close")
      /\ UNCHANGED <<queued, held, busy, data, net, srv, took, fault>>
  BY DEF AppEnds, conn
<1>2. /\ channel \in [Chan -> Channels] /\ toServer \in [Chan -> Seq(Messages)]
      /\ r \in Channels
      /\ Phase(r, toServer[c], Line(c), srv[c])
      /\ Whole(c, r, Line(c), srv[c], took[c])
  BY Here DEF HInv, IInv, TypeOK
<1>3. r.type # "none" /\ r.closes = {}
  BY <1>1, <1>2 DEF Whole
<1>4. s.type = r.type /\ s.halfopen = r.halfopen /\ s.closes = {SentClose} /\ ~s.s
  BY <1>2 DEF NoSocket, Channels
<1>5. /\ channel'[c] = s /\ \A d \in Chan : d # c => channel'[d] = channel[d]
      /\ r.halfopen => toServer'[c] = toServer[c]
      /\ ~r.halfopen => toServer'[c] = Append(toServer[c], "close")
      /\ \A d \in Chan : d # c => toServer'[d] = toServer[d]
  <2> HIDE DEF s
  <2>1. channel'[c] = s /\ \A d \in Chan : d # c => channel'[d] = channel[d]
    BY <1>1, <1>2
  <2>2. /\ r.halfopen => toServer'[c] = toServer[c]
        /\ ~r.halfopen => toServer'[c] = Append(toServer[c], "close")
        /\ \A d \in Chan : d # c => toServer'[d] = toServer[d]
    BY <1>1, <1>2 DEF Sends
  <2> QED
    BY <2>1, <2>2
<1> HIDE DEF s
<1>6. Unprocessed' = Unprocessed
  BY <1>1 DEF Unprocessed
<1>7. Line(c)' = Line(c) /\ \A d \in Chan : Line(d)' = Line(d)
  BY <1>6, LinesStay
<1>8. /\ r.halfopen => Phase(s, toServer[c], Line(c), srv[c])
      /\ ~r.halfopen => Phase(s, Append(toServer[c], "close"), Line(c), srv[c])
  BY <1>2, <1>3, <1>4, Ends
<1>9. Phase(channel'[c], toServer'[c], Line(c)', srv'[c])
  BY <1>1, <1>5, <1>7, <1>8, Zenon
<1>10. Whole(c, channel'[c], Line(c)', srv'[c], took'[c])
  BY <1>4, <1>5 DEF Whole
<1>11. OthersStand(c)
  BY <1>1, <1>5, <1>7 DEF OthersStand
<1>12. \A d \in Chan : ChannelIsGood(d)'
  BY <1>9, <1>10, <1>11, OneChannel
<1> QED
  BY <1>1, <1>12 DEF HInv

-------------------------------------------------------------------------------
(* The steps of the server keep them.                                       *)

(* What the server sends joins the line of its channel, and no other. *)
LEMMA SendsHere ==
    ASSUME HInv, NEW c \in Chan, NEW t \in PacketTypes, NEW n \in Nat, NEW x,
           x = ForClient(t, c, n), SrvSends(x), UNCHANGED <<queued, data, held>>
    PROVE  /\ x \in About(c, PacketTypes) /\ x.t = t /\ x.n = n
           /\ Adds(Line(c)', Line(c), x)
           /\ \A d \in Chan : d # c => Line(d)' = Line(d)
<1>1. x \in Packets /\ x.t = t /\ x.c = c /\ x.n = n
  BY DEF ForClient, Packets
<1>2. t # "open"
  BY DEF PacketTypes
<1>3. \A d \in Chan : x \in About(d, PacketTypes) <=> d = c
  BY <1>1, <1>2, AboutIs
<1>4. /\ \A d \in Chan : x \in About(d, PacketTypes) => Line(d)' = Append(Line(d), x)
      /\ \A d \in Chan : x \notin About(d, PacketTypes) => Line(d)' = Line(d)
  BY <1>1, LineSends DEF HInv, IInv
<1>5. Line(c)' = Append(Line(c), x)
  BY <1>3, <1>4
<1> QED
  BY <1>1, <1>3, <1>4, <1>5, Zenon DEF Adds

LEMMA SrvTakesGood ==
    ASSUME HInv, NEW c \in Chan, SrvTakes(c)
    PROVE  ~fault' /\ (~busy' => data' = <<>>) /\ \A d \in Chan : ChannelIsGood(d)'
<1> DEFINE q == toServer[c]
           z == Tail(q)
           m == Head(q)
           r == channel[c]
           v == srv[c]
<1>1. /\ UNCHANGED <<channel, queued, held, busy, data, took, fault>> /\ q # <<>>
      /\ toServer' = [toServer EXCEPT ![c] = z]
  BY DEF SrvTakes, conn
<1>2. /\ toServer \in [Chan -> Seq(Messages)] /\ srv \in [Chan -> Servers]
      /\ r \in Channels /\ v \in Servers /\ Line(c) \in Seq(About(c, PacketTypes))
      /\ Phase(r, q, Line(c), v) /\ Whole(c, r, Line(c), v, took[c])
  BY Here DEF HInv, IInv, TypeOK
<1>3. Leads(q, m, z)
  BY <1>1, Zenon DEF Leads
<1>4. \/ /\ m = "open"
         /\ \/ /\ SrvSends(ForClient("confirm", c, 0))
               /\ srv' = [srv EXCEPT ![c].state = "open"]
            \/ SrvSends(ForClient("failure", c, 0)) /\ srv' = [srv EXCEPT ![c] = NoServer]
      \/ m = "confirm" /\ srv' = [srv EXCEPT ![c].state = "open"] /\ UNCHANGED net
      \/ m = "close" /\ srv' = [srv EXCEPT ![c] = Finished([@ EXCEPT !.gotClose = TRUE])]
                     /\ UNCHANGED net
      \/ /\ m = "confirmation"
         /\ srv' = [srv EXCEPT ![c] = Finished([@ EXCEPT !.gotConfirmation = TRUE])]
         /\ UNCHANGED net
  BY DEF SrvTakes
<1>5. toServer'[c] = z /\ \A d \in Chan : d # c => toServer'[d] = toServer[d]
  BY <1>1, <1>2
<1>6. \A d \in Chan : d # c => srv'[d] = srv[d]
  BY <1>2, <1>4
<1> HIDE DEF m, z
<1> SUFFICES /\ Phase(r, z, Line(c)', srv'[c]) /\ Whole(c, r, Line(c)', srv'[c], took[c])
             /\ \A d \in Chan : d # c => Line(d)' = Line(d)
  <2> HIDE DEF q
  <2>1. OthersStand(c) <=> \A d \in Chan : d # c => Line(d)' = Line(d)
    BY <1>1, <1>5, <1>6 DEF OthersStand
  <2>2. channel'[c] = r /\ took'[c] = took[c]
    BY <1>1
  <2>3. Phase(r, z, Line(c)', srv'[c]) => Phase(channel'[c], toServer'[c], Line(c)', srv'[c])
    BY <1>5, <2>2
  <2>4. Whole(c, r, Line(c)', srv'[c], took[c])
          => Whole(c, channel'[c], Line(c)', srv'[c], took'[c])
    BY <2>2
  <2>5. ~fault' /\ (~busy' => data' = <<>>)
    BY <1>1 DEF HInv
  <2> HIDE DEF r
  <2> QED
    BY <2>1, <2>3, <2>4, <2>5, OneChannel
<1>7. CASE m = "open"
  <2>1. Asked(r, q, Line(c), v) /\ z = <<>>
    BY <1>2, <1>3, <1>7, TookOpen
  <2>2. v = Asking
    BY <2>1 DEF Asked
  <2>3. ASSUME SrvSends(ForClient("confirm", c, 0)), srv' = [srv EXCEPT ![c].state = "open"]
        PROVE  /\ Phase(r, z, Line(c)', srv'[c]) /\ Whole(c, r, Line(c)', srv'[c], took[c])
               /\ \A d \in Chan : d # c => Line(d)' = Line(d)
    <3> DEFINE x == ForClient("confirm", c, 0)
               t == "confirm"
    <3>1. t \in PacketTypes /\ x = ForClient(t, c, 0) /\ SrvSends(x) /\ t # "data" /\ 0 \in Nat
      BY <2>3 DEF PacketTypes
    <3> HIDE DEF x, t
    <3>2. /\ x \in About(c, PacketTypes) /\ x.t = t
          /\ Adds(Line(c)', Line(c), x)
          /\ \A d \in Chan : d # c => Line(d)' = Line(d)
      BY <1>1, <3>1, SendsHere
    <3>3. srv'[c] = [v EXCEPT !.state = "open"]
      BY <1>2, <2>3
    <3>4. Phase(r, z, Line(c)', [v EXCEPT !.state = "open"])
      BY <1>2, <1>3, <1>7, <3>2, Accepts DEF x
    <3>5. DataNumbers(c, Line(c)') = DataNumbers(c, Line(c))
      BY <1>2, <3>1, <3>2, AddsData
    <3>6. srv'[c].sent = v.sent
      BY <1>2, <3>3 DEF Servers
    <3>7. Whole(c, r, Line(c)', srv'[c], took[c])
      BY <1>2, <3>5, <3>6, WholeIs
    <3> QED
      BY <3>2, <3>3, <3>4, <3>7, Zenon
  <2>4. ASSUME SrvSends(ForClient("failure", c, 0)), srv' = [srv EXCEPT ![c] = NoServer]
        PROVE  /\ Phase(r, z, Line(c)', srv'[c]) /\ Whole(c, r, Line(c)', srv'[c], took[c])
               /\ \A d \in Chan : d # c => Line(d)' = Line(d)
    <3> DEFINE x == ForClient("failure", c, 0)
               t == "failure"
    <3>1. t \in PacketTypes /\ x = ForClient(t, c, 0) /\ SrvSends(x) /\ t # "data" /\ 0 \in Nat
      BY <2>4 DEF PacketTypes
    <3> HIDE DEF x, t
    <3>2. /\ x \in About(c, PacketTypes) /\ x.t = t
          /\ Adds(Line(c)', Line(c), x)
          /\ \A d \in Chan : d # c => Line(d)' = Line(d)
      BY <1>1, <3>1, SendsHere
    <3>3. srv'[c] = NoServer
      BY <1>2, <2>4
    <3>4. Phase(r, z, Line(c)', NoServer)
      BY <1>2, <1>3, <1>7, <3>2, Accepts DEF x
    <3>5. DataNumbers(c, Line(c)') = DataNumbers(c, Line(c))
      BY <1>2, <3>1, <3>2, AddsData
    <3>6. srv'[c].sent = v.sent
      BY <2>2, <3>3, AskingIs
    <3>7. Whole(c, r, Line(c)', srv'[c], took[c])
      BY <1>2, <3>5, <3>6, WholeIs
    <3> QED
      BY <3>2, <3>3, <3>4, <3>7, Zenon
  <2> QED
    BY <1>4, <1>7, <2>3, <2>4
<1>8. CASE m # "open"
  <2>1. UNCHANGED net
    BY <1>4, <1>8
  <2>2. Unprocessed' = Unprocessed
    BY <1>1, <2>1 DEF Unprocessed
  <2>3. Line(c)' = Line(c) /\ \A d \in Chan : Line(d)' = Line(d)
    BY <2>2, LinesStay
  <2>4. CASE m = "confirm"
    <3>1. srv'[c] = [v EXCEPT !.state = "open"]
      BY <1>2, <1>4, <2>4
    <3>2. Phase(r, z, Line(c), [v EXCEPT !.state = "open"])
      BY <1>2, <1>3, <2>4, TookConfirm
    <3>3. srv'[c].sent = v.sent
      BY <1>2, <3>1 DEF Servers
    <3>4. Whole(c, r, Line(c), srv'[c], took[c])
      BY <1>2, <3>3, WholeIs
    <3> QED
      BY <2>3, <3>1, <3>2, <3>4, Zenon
  <2>5. CASE m = "close"
    <3>1. srv'[c] = Finished([v EXCEPT !.gotClose = TRUE])
      BY <1>2, <1>4, <2>5
    <3>2. /\ Phase(r, z, Line(c), Finished([v EXCEPT !.gotClose = TRUE]))
          /\ Finished([v EXCEPT !.gotClose = TRUE]).sent = v.sent
      BY <1>2, <1>3, <2>5, TookClose
    <3>3. srv'[c].sent = v.sent
      BY <3>1, <3>2, Zenon
    <3>4. Whole(c, r, Line(c), srv'[c], took[c])
      BY <1>2, <3>3, WholeIs
    <3> QED
      BY <2>3, <3>1, <3>2, <3>4, Zenon
  <2>6. CASE m = "confirmation"
    <3>1. srv'[c] = Finished([v EXCEPT !.gotConfirmation = TRUE])
      BY <1>2, <1>4, <2>6
    <3>2. /\ Phase(r, z, Line(c), Finished([v EXCEPT !.gotConfirmation = TRUE]))
          /\ r.type = "none" \/ r.closes # {}
      BY <1>2, <1>3, <2>6, TookConfirmation
    <3>3. Whole(c, r, Line(c), srv'[c], took[c])
      BY <1>2, <3>2 DEF Whole
    <3> QED
      BY <2>3, <3>1, <3>2, <3>3, Zenon
  <2> QED
    BY <1>4, <1>8, <2>4, <2>5, <2>6
<1> QED
  BY <1>7, <1>8

(* A step in which the server only sends on a channel. *)
LEMMA SaysGood ==
    ASSUME HInv, NEW c \in Chan,
           UNCHANGED <<channel, queued, held, busy, data, took, toServer, fault>>,
           NEW w, srv' = [srv EXCEPT ![c] = w],
           Phase(channel[c], toServer[c], Line(c)', w),
           Whole(c, channel[c], Line(c)', w, took[c]),
           \A d \in Chan : d # c => Line(d)' = Line(d)
    PROVE  ~fault' /\ (~busy' => data' = <<>>) /\ \A d \in Chan : ChannelIsGood(d)'
<1>1. srv \in [Chan -> Servers]
  BY DEF HInv, IInv, TypeOK
<1>2. srv'[c] = w /\ \A d \in Chan : d # c => srv'[d] = srv[d]
  BY <1>1
<1>3. OthersStand(c)
  BY <1>2 DEF OthersStand
<1>4. Phase(channel'[c], toServer'[c], Line(c)', srv'[c])
      /\ Whole(c, channel'[c], Line(c)', srv'[c], took'[c])
  BY <1>2
<1>5. \A d \in Chan : ChannelIsGood(d)'
  BY <1>3, <1>4, OneChannel
<1> QED
  BY <1>5 DEF HInv

LEMMA SrvWritesGood ==
    ASSUME HInv, NEW c \in Chan, SrvWrites(c)
    PROVE  ~fault' /\ (~busy' => data' = <<>>) /\ \A d \in Chan : ChannelIsGood(d)'
<1> DEFINE v == srv[c]
           n == v.sent + 1
           w == [v EXCEPT !.sent = @ + 1]
           x == ForClient("data", c, n)
           t == "data"
<1>1. /\ UNCHANGED <<channel, queued, held, busy, data, took, toServer, fault>>
      /\ v.state = "open" /\ ~v.sentClose /\ SrvSends(x)
  BY DEF SrvWrites, SrvMaySend, conn
<1>2. srv' = [srv EXCEPT ![c] = w]
  BY DEF SrvWrites
<1>3. /\ v \in Servers /\ Line(c) \in Seq(About(c, PacketTypes)) /\ took[c] \in Seq(Nat)
      /\ channel[c].out \in Seq(Nat)
      /\ Phase(channel[c], toServer[c], Line(c), v)
      /\ Whole(c, channel[c], Line(c), v, took[c])
  BY Here
<1>4. v.sent \in Nat /\ n \in Nat
  BY <1>3 DEF Servers
<1>5. t \in PacketTypes /\ x = ForClient(t, c, n)
  BY DEF PacketTypes
<1>6. w.sent = n
  BY <1>3 DEF Servers
<1> HIDE DEF x, n
<1>7. /\ x \in About(c, PacketTypes) /\ x.t = "data" /\ x.n = n
      /\ Adds(Line(c)', Line(c), x)
      /\ \A d \in Chan : d # c => Line(d)' = Line(d)
  <2> HIDE DEF t
  <2>1. /\ x \in About(c, PacketTypes) /\ x.t = t /\ x.n = n
        /\ Adds(Line(c)', Line(c), x)
        /\ \A d \in Chan : d # c => Line(d)' = Line(d)
    BY <1>1, <1>4, <1>5, SendsHere
  <2> QED
    BY <2>1 DEF t
<1>8. Phase(channel[c], toServer[c], Line(c)', w)
  BY <1>1, <1>3, <1>7, Writes
<1>9. Whole(c, channel[c], Line(c)', w, took[c])
  <2> DEFINE d0 == DataNumbers(c, Line(c))
             d1 == DataNumbers(c, Line(c)')
             a == took[c]
             b == channel[c].out
  <2>1. d0 \in Seq(Nat) /\ d1 = Append(d0, n)
    <3>1. d0 \in Seq(Nat)
      BY <1>3, DataNumbersType
    <3>2. d1 = Append(d0, n)
      BY <1>3, <1>7, AddsData
    <3> QED
      BY <3>1, <3>2
  <2> HIDE DEF d0, d1
  <2>2. Three(a, b, Append(d0, n)) = Append(Three(a, b, d0), n)
    BY <1>3, <1>4, <2>1, ThreeAppend
  <2>3. channel[c].s => /\ channel[c].type # "none" /\ channel[c].closes = {}
                        /\ Three(a, b, d0) = Count(v.sent)
    BY <1>3, WholeIs DEF d0
  <2>4. Append(Count(v.sent), n) = Count(n)
    BY <1>4, CountAppend DEF n
  <2>5. channel[c].s => Three(a, b, d1) = Count(w.sent)
    BY <1>6, <2>1, <2>2, <2>3, <2>4, Zenon
  <2> HIDE DEF w
  <2> QED
    BY <2>3, <2>5, WholeIs DEF d1
<1> HIDE DEF w
<1> QED
  BY <1>1, <1>2, <1>7, <1>8, <1>9, SaysGood

LEMMA SrvClosesGood ==
    ASSUME HInv, NEW c \in Chan, SrvCloses(c)
    PROVE  ~fault' /\ (~busy' => data' = <<>>) /\ \A d \in Chan : ChannelIsGood(d)'
<1> DEFINE v == srv[c]
           r == channel[c]
           w == ClosedBy(v)
           x == ForClient("close", c, 0)
           t == "close"
<1>1. /\ UNCHANGED <<channel, queued, held, busy, data, took, toServer, fault>>
      /\ v.state = "open" /\ ~v.sentClose /\ SrvSends(x)
  BY DEF SrvCloses, SrvMaySend, conn
<1>2. srv' = [srv EXCEPT ![c] = w]
  BY DEF SrvCloses, ClosedBy
<1>3. /\ v \in Servers /\ Line(c) \in Seq(About(c, PacketTypes)) /\ r \in Channels
      /\ Phase(r, toServer[c], Line(c), v)
      /\ Whole(c, r, Line(c), v, took[c])
  BY Here
<1>4. t \in PacketTypes /\ x = ForClient(t, c, 0) /\ 0 \in Nat
  BY DEF PacketTypes
<1> HIDE DEF x
<1>5. /\ x \in About(c, PacketTypes) /\ x.t = "close"
      /\ Adds(Line(c)', Line(c), x)
      /\ \A d \in Chan : d # c => Line(d)' = Line(d)
  <2> HIDE DEF t
  <2>1. /\ x \in About(c, PacketTypes) /\ x.t = t
        /\ Adds(Line(c)', Line(c), x)
        /\ \A d \in Chan : d # c => Line(d)' = Line(d)
    BY <1>1, <1>4, SendsHere
  <2> QED
    BY <2>1 DEF t
<1>6. Phase(r, toServer[c], Line(c)', w) /\ (r.closes = {} => w.sent = v.sent)
  <2> DEFINE p == Line(c)
             f == Line(c)'
             q == toServer[c]
  <2>1. /\ r \in Channels /\ p \in Seq(About(c, PacketTypes)) /\ v \in Servers
        /\ Phase(r, q, p, v) /\ v.state = "open" /\ ~v.sentClose
        /\ x \in About(c, PacketTypes) /\ x.t = "close" /\ Adds(f, p, x)
    BY <1>1, <1>3, <1>5
  <2> HIDE DEF r, v, p, f, q
  <2>2. Phase(r, q, f, ClosedBy(v)) /\ (r.closes = {} => ClosedBy(v).sent = v.sent)
    BY <2>1, ClosesPhase, ClosesSent
  <2> QED
    BY <2>2 DEF q, f
<1> HIDE DEF w
<1>7. Whole(c, r, Line(c)', w, took[c])
  <2>1. x.t # "data"
    BY <1>5
  <2>2. DataNumbers(c, Line(c)') = DataNumbers(c, Line(c))
    BY <1>3, <1>5, <2>1, AddsData
  <2> QED
    BY <1>3, <1>6, <2>2, WholeIs
<1> QED
  BY <1>1, <1>2, <1>5, <1>6, <1>7, SaysGood

LEMMA SrvConfirmsCloseGood ==
    ASSUME HInv, NEW c \in Chan, SrvConfirmsClose(c)
    PROVE  ~fault' /\ (~busy' => data' = <<>>) /\ \A d \in Chan : ChannelIsGood(d)'
<1> DEFINE v == srv[c]
           r == channel[c]
           w == ConfirmedBy(v)
           x == ForClient("confirmation", c, 0)
           t == "confirmation"
<1>1. /\ UNCHANGED <<channel, queued, held, busy, data, took, toServer, fault>>
      /\ v.gotClose /\ ~v.sentConfirmation /\ SrvSends(x)
  BY DEF SrvConfirmsClose, SrvMaySend, conn
<1>2. srv' = [srv EXCEPT ![c] = w]
  BY DEF SrvConfirmsClose, ConfirmedBy
<1>3. /\ v \in Servers /\ Line(c) \in Seq(About(c, PacketTypes)) /\ r \in Channels
      /\ Phase(r, toServer[c], Line(c), v)
      /\ Whole(c, r, Line(c), v, took[c])
  BY Here
<1>4. t \in PacketTypes /\ x = ForClient(t, c, 0) /\ 0 \in Nat
  BY DEF PacketTypes
<1> HIDE DEF x
<1>5. /\ x \in About(c, PacketTypes) /\ x.t = "confirmation"
      /\ Adds(Line(c)', Line(c), x)
      /\ \A d \in Chan : d # c => Line(d)' = Line(d)
  <2> HIDE DEF t
  <2>1. /\ x \in About(c, PacketTypes) /\ x.t = t
        /\ Adds(Line(c)', Line(c), x)
        /\ \A d \in Chan : d # c => Line(d)' = Line(d)
    BY <1>1, <1>4, SendsHere
  <2> QED
    BY <2>1 DEF t
<1>6. Phase(r, toServer[c], Line(c)', w) /\ w.sent = v.sent
  BY <1>1, <1>3, <1>5, ConfirmsClose
<1> HIDE DEF w
<1>7. Whole(c, r, Line(c)', w, took[c])
  <2>1. x.t # "data"
    BY <1>5
  <2>2. DataNumbers(c, Line(c)') = DataNumbers(c, Line(c))
    BY <1>3, <1>5, <2>1, AddsData
  <2> QED
    BY <1>3, <1>6, <2>2, WholeIs
<1> QED
  BY <1>1, <1>2, <1>5, <1>6, <1>7, SaysGood

LEMMA SrvOpensGood ==
    ASSUME HInv, SrvOpens
    PROVE  ~fault' /\ (~busy' => data' = <<>>) /\ \A d \in Chan : ChannelIsGood(d)'
<1> DEFINE x == [t |-> "open"]
<1>1. /\ UNCHANGED <<channel, queued, held, busy, data, took, toServer, srv, fault>>
      /\ SrvSends(x)
  BY DEF SrvOpens, SrvMaySend, conn
<1>2. x \in Packets /\ x.t = "open"
  BY DEF Packets
<1> HIDE DEF x
<1>3. \A d \in Chan : x \notin About(d, PacketTypes)
  BY <1>2, AboutIs
<1>4. \A d \in Chan : x \notin About(d, PacketTypes) => Line(d)' = Line(d)
  BY <1>1, <1>2, LineSends DEF HInv, IInv
<1>5. \A d \in Chan : Line(d)' = Line(d)
  BY <1>3, <1>4
<1>6. \A d \in Chan : ChannelIsGood(d)'
  BY <1>1, <1>5, NoChannelMoves
<1> QED
  BY <1>1, <1>6 DEF HInv

-------------------------------------------------------------------------------
(* The invariant, and what it says.                                         *)

LEMMA HInitHolds ==
    ASSUME Ssh1ChannelsAssumption, Init
    PROVE  HInv
<1>1. IInv
  BY InitHolds
<1>2. ~fault /\ data = <<>>
  BY DEF Init
<1>3. ASSUME NEW c \in Chan PROVE ChannelIsGood(c)
  <2>1. /\ channel[c] = NoChannel /\ toServer[c] = <<>> /\ srv[c] = NoServer
        /\ queued = <<>> /\ data = <<>> /\ held = <<>> /\ net = <<>>
    BY DEF Init
  <2>2. Unprocessed = <<>>
    <3>1. <<>> \in Queue
      BY EmptySeq DEF Queue
    <3>2. Cat(<<>>, <<>>) = <<>>
      BY <3>1, QueueCat
    <3> QED
      BY <2>1, <3>2, UnprocessedIs, Zenon DEF Four
  <2>3. OfChannel(c, Unprocessed) = <<>>
    BY <2>2, SelectedEmpty DEF OfChannel
  <2>4. Gone(NoChannel, <<>>, <<>>, NoServer)
    BY DEF Gone, NoChannel
  <2>5. Phase(channel[c], toServer[c], OfChannel(c, Unprocessed), srv[c])
    BY <2>1, <2>3, <2>4 DEF Phase
  <2>6. Whole(c, channel[c], OfChannel(c, Unprocessed), srv[c], took[c])
    BY <2>1 DEF Whole, NoChannel
  <2> QED
    BY <2>5, <2>6 DEF ChannelIsGood, Good
<1> QED
  BY <1>1, <1>2, <1>3 DEF HInv

LEMMA HNextKeeps ==
    ASSUME HInv, Ssh1ChannelsAssumption, [Next]_vars
    PROVE  HInv'
<1>1. IInv'
  BY NextKeeps DEF HInv
<1> SUFFICES ~fault' /\ (~busy' => data' = <<>>) /\ \A d \in Chan : ChannelIsGood(d)'
  BY <1>1 DEF HInv
<1>2. CASE Receive
  BY <1>2, ReceiveGood
<1>3. CASE GotData
  BY <1>3, OpenConfirmationGood, OpenFailureGood, CloseGood, ConfirmationGood,
     ChannelDataGood, PortOpenGood, QueueIncomingDataGood, OutOfDataGood DEF GotData
<1>4. ASSUME NEW c \in Chan, Application(c)
      PROVE  ~fault' /\ (~busy' => data' = <<>>) /\ \A d \in Chan : ChannelIsGood(d)'
  <2>1. \A n \in 1 .. MaxData : n \in Nat
    BY DEF Ssh1ChannelsAssumption
  <2>2. CASE \E n \in 1 .. MaxData : AppTakes(c, n)
    BY <2>1, <2>2, AppTakesGood
  <2> QED
    BY <1>4, <2>2, AcceptingGood, AppEndsGood DEF Application
<1>5. ASSUME NEW c \in Chan, Server(c)
      PROVE  ~fault' /\ (~busy' => data' = <<>>) /\ \A d \in Chan : ChannelIsGood(d)'
  BY <1>5, SrvTakesGood, SrvWritesGood, SrvClosesGood, SrvConfirmsCloseGood DEF Server
<1>6. CASE SrvOpens
  BY <1>6, SrvOpensGood
<1>7. CASE UNCHANGED vars
  <2>1. UNCHANGED <<channel, queued, data, busy, held, net, toServer, srv, took, fault>>
    BY <1>7 DEF vars, conn
  <2>2. Unprocessed' = Unprocessed
    BY <2>1 DEF Unprocessed
  <2>3. \A d \in Chan : ChannelIsGood(d)'
    BY <2>1, <2>2, LinesStay, NoChannelMoves
  <2> QED
    BY <2>1, <2>3 DEF HInv
<1> QED
  BY <1>2, <1>3, <1>4, <1>5, <1>6, <1>7 DEF Next

LEMMA HInvariant == Spec => []HInv
<1>1. Init => HInv
  BY HInitHolds, Ssh1ChannelsAssumption
<1>2. HInv /\ [Next]_vars => HInv'
  BY HNextKeeps, Ssh1ChannelsAssumption
<1> QED
  BY <1>1, <1>2, PTL DEF Spec

(* What the server has sent on a channel is, in order and complete, with    *)
(* the application, in its socket's buffer, in the queue of the frozen      *)
(* connection, in the segment that is processed, with the frozen socket or  *)
(* on its way: ssh1_throttle(), ssh_queue_incoming_data() and               *)
(* ssh_process_queued_incoming_data() lose and overtake nothing.            *)
THEOREM DataCorrect == Spec => []DataInOrder
<1>1. HInv => DataInOrder
  <2> SUFFICES ASSUME HInv, NEW c \in Chan, channel[c].s
               PROVE  took[c] \o channel[c].out
                        \o Numbers(Selected(OfChannel(c, Unprocessed), About(c, {"data"})))
                      = [i \in 1 .. srv[c].sent |-> i]
    BY DEF DataInOrder
  <2>1. Whole(c, channel[c], OfChannel(c, Unprocessed), srv[c], took[c])
    BY DEF HInv, ChannelIsGood, Good
  <2> QED
    BY <2>1, Zenon DEF Whole, DataNumbers, Count
<1> QED
  BY <1>1, HInvariant, PTL

(* Where a message is in a queue to the server. *)
Places(q, m) == {i \in 1 .. Len(q) : q[i] = m}

LEMMA PlacesAre ==
    ASSUME NEW m \in {"close", "confirmation"}
    PROVE  /\ Places(<<>>, m) = {}
           /\ Places(<<"open">>, m) = {} /\ Places(<<"confirm">>, m) = {}
           /\ Places(<<"close">>, m) = (IF m = "close" THEN {1} ELSE {})
           /\ Places(<<"confirmation">>, m) = (IF m = "confirmation" THEN {1} ELSE {})
           /\ Places(<<"confirm", "close">>, m) = (IF m = "close" THEN {2} ELSE {})
<1>1. 1 .. 0 = {} /\ 1 .. 1 = {1} /\ 1 .. 2 = {1, 2}
  OBVIOUS
<1>2. /\ Len(<<>>) = 0 /\ Len(<<"open">>) = 1 /\ Len(<<"confirm">>) = 1 /\ Len(<<"close">>) = 1
      /\ Len(<<"confirmation">>) = 1 /\ Len(<<"confirm", "close">>) = 2
  OBVIOUS
<1> QED
  BY <1>1, <1>2 DEF Places

LEMMA CountIs ==
    ASSUME NEW S, NEW n, S = {} \/ S = {n}
    PROVE  Cardinality(S) <= 1 /\ (S = {} => Cardinality(S) <= 0)
<1>1. Cardinality({}) = 0 /\ Cardinality({n}) = 1
  BY FS_EmptySet, FS_Singleton
<1> QED
  BY <1>1

(* No packet of a server that keeps to the protocol is refused, a channel   *)
(* is deleted when nothing more comes for it, and CLOSE and                 *)
(* CLOSE_CONFIRMATION go out once each: for ssh1_msg_channel_close(),       *)
(* sshfwd_close() and the open requests in any order.                       *)
THEOREM CloseCorrect == Spec => []CloseHandshake
<1>1. HInv => CloseHandshake
  <2> SUFFICES ASSUME HInv, NEW c \in Chan
               PROVE  /\ channel[c].type = "none" => OfChannel(c, Unprocessed) = <<>>
                      /\ AtMostOnce(c, "close", srv[c].gotClose)
                      /\ AtMostOnce(c, "confirmation", srv[c].gotConfirmation)
    BY DEF CloseHandshake, HInv
  <2> DEFINE r == channel[c]
             q == toServer[c]
             p == OfChannel(c, Unprocessed)
             v == srv[c]
  <2>1. Phase(r, q, p, v)
    BY DEF HInv, ChannelIsGood, Good
  <2> SUFFICES /\ r.type = "none" => p = <<>>
               /\ Cardinality(Places(q, "close")) <= IF v.gotClose THEN 0 ELSE 1
               /\ Cardinality(Places(q, "confirmation")) <= IF v.gotConfirmation THEN 0 ELSE 1
    BY DEF AtMostOnce, Places
  <2> HIDE DEF r, q, p, v
  <2>2. r.type = "none" => p = <<>>
    BY <2>1 DEF Phase, Asked, Declined, Accepted, Offered, Joined, Orphaned, HalfOpen,
                Established, Gone
  <2>3. /\ q \in {<<>>, <<"open">>, <<"confirm">>, <<"close">>, <<"confirmation">>,
                  <<"confirm", "close">>}
        /\ q \in {<<"close">>, <<"confirm", "close">>} => ~v.gotClose
        /\ q = <<"confirmation">> => ~v.gotConfirmation
    <3>1. <<"confirm", "close">> # <<"confirmation">> /\ <<"confirm", "close">> # <<"close">>
      OBVIOUS
    <3>2. CASE Asked(r, q, p, v)
      BY <3>2 DEF Asked, Asking, NoServer
    <3>3. CASE Declined(r, q, p, v) \/ Accepted(r, q, p, v) \/ Orphaned(r, q, p, v)
      <4>1. q = <<>> /\ <<"confirm", "close">> # <<>>
        BY <3>3 DEF Declined, Accepted, Orphaned
      <4> QED
        BY <4>1, Short
    <3>4. CASE Offered(r, q, p, v)
      BY <3>1, <3>4 DEF Offered, Asking, NoServer
    <3>5. CASE Joined(r, q, p, v)
      BY <3>1, <3>5, SMTT(40) DEF Joined, Closing
    <3>6. CASE Gone(r, q, p, v)
      BY <3>6, SMTT(40) DEF Gone
    <3> QED
      BY <2>1, <3>2, <3>3, <3>4, <3>5, <3>6 DEF Phase
  <2>4. \E n : Places(q, "close") = {} \/ (Places(q, "close") = {n} /\ ~v.gotClose)
    BY <2>3, PlacesAre
  <2>5. \E n : Places(q, "confirmation") = {}
               \/ (Places(q, "confirmation") = {n} /\ ~v.gotConfirmation)
    BY <2>3, PlacesAre
  <2> QED
    BY <2>2, <2>4, <2>5, CountIs
<1> QED
  BY <1>1, HInvariant, PTL
===============================================================================
