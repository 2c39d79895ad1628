-------------------------------- MODULE EpocNet -------------------------------
(***************************************************************************)
(* The Symbian socket layer, src/engine/puttysymbian/epocnet.cpp: what      *)
(* happens to one connected TCP socket between sk_new() / sk_register() and *)
(* the sfree() at the end of sk_tcp_close().                                *)
(*                                                                         *)
(* Each socket owns two active objects, CRecver and CSender.  The active    *)
(* scheduler is not preemptive, so an event (a completed Send or Recv) is   *)
(* dispatched only when no other one is being handled.  But handling an     *)
(* event calls the plug, the plug calls back into the socket layer - for    *)
(* this socket and for others - and unfreezing a socket re-enters           *)
(* CRecver::RunL() from inside the call.  The variable "stack" holds the    *)
(* plug callbacks that have been entered and not yet returned; the code     *)
(* after each callback is the action that pops its frame.                   *)
(*                                                                         *)
(* Bytes written to a socket are numbered 1, 2, 3, ... in the order of the  *)
(* calls to sk_write(), and so are the bytes its peer sends.                *)
(***************************************************************************)
EXTENDS Naturals, Sequences

CONSTANTS
    Sock,           \* the Socket_tag structures
    OobSock,        \* sockets whose plug also uses sk_write_oob()
    FwdSock,        \* sockets whose plug returns 1 from receive() even when
                    \*   it has closed the socket there (pfd_receive); the
                    \*   others then return 0 (ssh_receive)
    BUFFER_GRANULE, \* bytes in one granule of a bufchain
    MaxWrite,       \* bound: bytes a plug writes to one socket
    MaxRead         \* bound: bytes the peer sends to one socket

ASSUME EpocNetAssumption ==
    /\ OobSock \subseteq Sock
    /\ FwdSock \subseteq Sock
    /\ BUFFER_GRANULE \in Nat \ {0}
    /\ MaxWrite \in Nat
    /\ MaxRead \in Nat

VARIABLES
    sk,        \* the fields of struct Socket_tag
    writebuf,  \* CSender: the descriptor of the Send() in progress
    recver,    \* CRecver: whether a Recv() is pending, and its buffer
    held,      \* held[s]: the plug has not called sk_close(s)
    stack,     \* plug callbacks in progress, the innermost first
    fault,     \* what the code did that it must not do
    written,   \* history: number of bytes the plug wrote
    peer,      \* history: the bytes the peer received
    got        \* history: the bytes the plug received

vars == <<sk, writebuf, recver, held, stack, fault, written, peer, got>>

-------------------------------------------------------------------------------

Frames == [fn : {"receive", "thaw", "sent", "closing"}, s : Sock]

Faults == {"freed", "deadplug", "active", "consume"}

Phases == {"unused", "open", "closed"}

SocketTag ==
    [phase : Phases, output_data : Seq(Nat), writable : BOOLEAN,
     sending_oob : BOOLEAN, frozen : BOOLEAN, frozen_readable : BOOLEAN,
     pending_error : BOOLEAN, killing : BOOLEAN]

Requests == [kind : {"none", "data", "oob"}, data : Seq(Nat)]

Receivers == [active : BOOLEAN, readbuf : Seq(Nat), arrived : Nat]

TypeOK ==
    /\ sk \in [Sock -> SocketTag]
    /\ writebuf \in [Sock -> Requests]
    /\ recver \in [Sock -> Receivers]
    /\ held \in [Sock -> BOOLEAN]
    /\ stack \in Seq(Frames)
    /\ fault \in SUBSET Faults
    /\ written \in [Sock -> Nat]
    /\ peer \in [Sock -> Seq(Nat)]
    /\ got \in [Sock -> Seq(Nat)]

NoSend == [kind |-> "none", data |-> <<>>]

Init ==
    /\ sk = [s \in Sock |->
                [phase |-> "unused", output_data |-> <<>>, writable |-> FALSE,
                 sending_oob |-> FALSE, frozen |-> FALSE,
                 frozen_readable |-> FALSE, pending_error |-> FALSE,
                 killing |-> FALSE]]
    /\ writebuf = [s \in Sock |-> NoSend]
    /\ recver = [s \in Sock |-> [active |-> FALSE, readbuf |-> <<>>, arrived |-> 0]]
    /\ held = [s \in Sock |-> FALSE]
    /\ stack = <<>>
    /\ fault = {}
    /\ written = [s \in Sock |-> 0]
    /\ peer = [s \in Sock |-> <<>>]
    /\ got = [s \in Sock |-> <<>>]

-------------------------------------------------------------------------------

(* The bytes m+1 .. m+n. *)
Run(m, n) == [i \in 1 .. n |-> m + i]

(* The plug may call the socket layer for s: it holds s and nothing has     *)
(* gone wrong yet (what happens after a fault is undefined).                *)
MayCall(s) == held[s] /\ fault = {}

(* The active scheduler dispatches an event of s. *)
MayRun(s) == stack = <<>> /\ sk[s].phase = "open" /\ fault = {}

InFrame(fn, s) == \E i \in 1 .. Len(stack) : stack[i] = [fn |-> fn, s |-> s]

(* CSender::Sendit() on the socket s, whose fields are now r.  The urgent   *)
(* byte goes first; otherwise the first granule of the chain, which is some *)
(* non-empty prefix of the data of at most BUFFER_GRANULE bytes.            *)
Sendit(s, r) ==
    \/ /\ r.sending_oob
       /\ writebuf' = [writebuf EXCEPT ![s] = [kind |-> "oob", data |-> <<0>>]]
       /\ sk' = [sk EXCEPT ![s] = [r EXCEPT !.writable = FALSE]]
    \/ /\ ~r.sending_oob
       /\ r.output_data # <<>>
       /\ \E k \in 1 .. BUFFER_GRANULE :
             /\ k <= Len(r.output_data)
             /\ writebuf' = [writebuf EXCEPT ![s] =
                               [kind |-> "data",
                                data |-> SubSeq(r.output_data, 1, k)]]
       /\ sk' = [sk EXCEPT ![s] = [r EXCEPT !.writable = FALSE]]
    \/ /\ ~r.sending_oob
       /\ r.output_data = <<>>
       /\ sk' = [sk EXCEPT ![s] = r]
       /\ UNCHANGED writebuf

SenditIfWritable(s, r) ==
    IF r.writable
    THEN Sendit(s, r)
    ELSE sk' = [sk EXCEPT ![s] = r] /\ UNCHANGED writebuf

(* Each definition whose name has "Faulty" in it is the one that follows it *)
(* with a plausible mistake made in it: the mistakes that the properties at *)
(* the end of the module are there to find.                                 *)
(* The end of sk_tcp_close(): the active objects are deleted, which cancels *)
(* their requests, and the structure is freed.                              *)
Free(s, r) ==
    /\ sk' = [sk EXCEPT ![s] = [r EXCEPT !.phase = "closed"]]
    /\ writebuf' = [writebuf EXCEPT ![s] = NoSend]
    /\ recver' = [recver EXCEPT ![s].active = FALSE]

-------------------------------------------------------------------------------
(* Calls made by plugs, inside or outside of a callback.                    *)

(* sk_new() that connects, or sk_register() of an accepted socket: the      *)
(* latter starts frozen.  Both start to receive.                            *)
Open(s, isFrozen) ==
    /\ sk[s].phase = "unused"
    /\ fault = {}
    /\ sk' = [sk EXCEPT ![s].phase = "open", ![s].writable = TRUE,
                        ![s].frozen = isFrozen]
    /\ recver' = [recver EXCEPT ![s].active = TRUE]
    /\ held' = [held EXCEPT ![s] = TRUE]
    /\ UNCHANGED <<writebuf, stack, fault, written, peer, got>>

(* sk_tcp_write(): n may be 0 (pfd_confirm). *)
Write(s, n) ==
    /\ MayCall(s)
    /\ written[s] + n <= MaxWrite
    /\ written' = [written EXCEPT ![s] = @ + n]
    /\ SenditIfWritable(s, [sk[s] EXCEPT !.output_data = @ \o Run(written[s], n)])
    /\ UNCHANGED <<recver, held, stack, fault, peer, got>>

WriteOobFaultyKeepsQueue(s) ==
    /\ MayCall(s)
    /\ s \in OobSock
    /\ SenditIfWritable(s, [sk[s] EXCEPT !.sending_oob = TRUE])
    /\ UNCHANGED <<recver, held, stack, fault, written, peer, got>>

WriteOobFaultyNoFlag(s) ==
    /\ MayCall(s)
    /\ s \in OobSock
    /\ SenditIfWritable(s, [sk[s] EXCEPT !.output_data = <<>>])
    /\ UNCHANGED <<recver, held, stack, fault, written, peer, got>>

(* sk_tcp_write_oob() of one byte: replaces the buffer list. *)
WriteOob(s) ==
    /\ MayCall(s)
    /\ s \in OobSock
    /\ SenditIfWritable(s, [sk[s] EXCEPT !.output_data = <<>>, !.sending_oob = TRUE])
    /\ UNCHANGED <<recver, held, stack, fault, written, peer, got>>

CloseFaultyAtOnce(s) ==
    /\ MayCall(s)
    /\ InFrame("sent", s) => sk[s].output_data # <<>>
    /\ held' = [held EXCEPT ![s] = FALSE]
    /\ Free(s, sk[s])
    /\ UNCHANGED <<stack, fault, written, peer, got>>

(* sk_tcp_close() called by the plug.  No plug closes the socket whose own  *)
(* sent() callback is running with nothing left to send: sent() reaches a   *)
(* close only through sshfwd_unthrottle(), which acts while most of         *)
(* SSH1_BUFFER_LIMIT bytes are still queued.                                *)
Close(s) ==
    /\ MayCall(s)
    /\ InFrame("sent", s) => sk[s].output_data # <<>>
    /\ held' = [held EXCEPT ![s] = FALSE]
    /\ IF sk[s].output_data # <<>> /\ ~sk[s].killing
       THEN /\ sk' = [sk EXCEPT ![s].killing = TRUE]
            /\ UNCHANGED <<writebuf, recver>>
       ELSE Free(s, sk[s])
    /\ UNCHANGED <<stack, fault, written, peer, got>>

FreezeFaultyKeepsReadable(s) ==
    /\ MayCall(s)
    /\ ~sk[s].frozen
    /\ sk' = [sk EXCEPT ![s].frozen = TRUE]
    /\ UNCHANGED <<writebuf, recver, held, stack, fault, written, peer, got>>

(* sk_tcp_set_frozen(s, 1). *)
Freeze(s) ==
    /\ MayCall(s)
    /\ ~sk[s].frozen
    /\ sk' = [sk EXCEPT ![s].frozen = TRUE, ![s].frozen_readable = FALSE]
    /\ UNCHANGED <<writebuf, recver, held, stack, fault, written, peer, got>>

(* sk_tcp_set_frozen(s, 0): with a readable notification missed while the   *)
(* socket was frozen, Reissue() runs CRecver::DoRunL() again, here and now, *)
(* on the data already in readbuf.                                          *)
Unfreeze(s) ==
    /\ MayCall(s)
    /\ sk[s].frozen
    /\ sk' = [sk EXCEPT ![s].frozen = FALSE]
    /\ IF sk[s].frozen_readable
       THEN /\ stack' = <<[fn |-> "thaw", s |-> s]>> \o stack
            /\ got' = [got EXCEPT ![s] = @ \o recver[s].readbuf]
       ELSE UNCHANGED <<stack, got>>
    /\ UNCHANGED <<writebuf, recver, held, fault, written, peer>>

-------------------------------------------------------------------------------
(* CRecver                                                                  *)

(* RecvOneOrMore() completes with n bytes: DoRunL() drops them if the       *)
(* socket is being killed, keeps them in readbuf if it is frozen, and       *)
(* otherwise calls plug_receive().                                          *)
RecvData(s, n) ==
    /\ MayRun(s)
    /\ recver[s].active
    /\ recver[s].arrived + n <= MaxRead
    /\ LET buf == Run(recver[s].arrived, n) IN
       /\ recver' = [recver EXCEPT ![s] = [active |-> FALSE, readbuf |-> buf,
                                           arrived |-> @.arrived + n]]
       /\ \/ sk[s].killing /\ UNCHANGED <<sk, stack, got>>
          \/ /\ ~sk[s].killing
             /\ sk[s].frozen
             /\ sk' = [sk EXCEPT ![s].frozen_readable = TRUE]
             /\ UNCHANGED <<stack, got>>
          \/ /\ ~sk[s].killing
             /\ ~sk[s].frozen
             /\ stack' = <<[fn |-> "receive", s |-> s]>>
             /\ got' = [got EXCEPT ![s] = @ \o buf]
             /\ UNCHANGED sk
    /\ UNCHANGED <<writebuf, held, fault, written, peer>>

(* It completes with KErrEof, no data or an error: plug_closing(), before   *)
(* "killing" is looked at.                                                  *)
RecvEnd(s) ==
    /\ MayRun(s)
    /\ recver[s].active
    /\ recver' = [recver EXCEPT ![s].active = FALSE]
    /\ stack' = <<[fn |-> "closing", s |-> s]>>
    /\ fault' = IF held[s] THEN fault ELSE {"deadplug"}
    /\ UNCHANGED <<sk, writebuf, held, written, peer, got>>

(* plug_receive() returns and DoRunL() starts to receive again, unless the  *)
(* plug returned 0; then, if this was a Reissue(), sk_tcp_set_frozen() goes *)
(* on to clear frozen_readable.                                             *)
ReturnReceive(fn) ==
    /\ stack # <<>> /\ Head(stack).fn = fn /\ fault = {}
    /\ stack' = Tail(stack)
    /\ LET s == Head(stack).s
           restart == held[s] \/ s \in FwdSock
           freed == sk[s].phase = "closed"
       IN
       /\ fault' = IF freed /\ (restart \/ fn = "thaw") THEN {"freed"}
                   ELSE IF restart /\ recver[s].active THEN {"active"}
                   ELSE {}
       /\ recver' = IF restart /\ ~freed
                    THEN [recver EXCEPT ![s].active = TRUE] ELSE recver
       /\ sk' = IF fn = "thaw" /\ ~freed
                THEN [sk EXCEPT ![s].frozen_readable = FALSE] ELSE sk
    /\ UNCHANGED <<writebuf, held, written, peer, got>>

ReturnFromRunL == ReturnReceive("receive")
ReturnFromReissue == ReturnReceive("thaw")

(* plug_closing() returns: every plug has closed its socket in it. *)
ReturnClosing ==
    /\ stack # <<>> /\ Head(stack).fn = "closing" /\ fault = {}
    /\ ~held[Head(stack).s]
    /\ stack' = Tail(stack)
    /\ UNCHANGED <<sk, writebuf, recver, held, fault, written, peer, got>>

-------------------------------------------------------------------------------
(* CSender                                                                  *)

ConsumedFaultyWholeGranule(s) ==
    [sk[s] EXCEPT !.output_data = SubSeq(@, BUFFER_GRANULE + 1, Len(@))]

(* The fields of s once a completed Send() has been accounted for. *)
Consumed(s) ==
    IF sk[s].sending_oob
    THEN [sk[s] EXCEPT !.sending_oob = FALSE]
    ELSE [sk[s] EXCEPT !.output_data =
             SubSeq(@, Len(writebuf[s].data) + 1, Len(@))]

SendMoreFaultyNoResend(s, r) ==
    IF r.killing /\ r.output_data = <<>>
    THEN Free(s, [r EXCEPT !.writable = TRUE])
    ELSE /\ sk' = [sk EXCEPT ![s] = [r EXCEPT !.writable = TRUE]]
         /\ writebuf' = [writebuf EXCEPT ![s] = NoSend]
         /\ UNCHANGED recver

SendMoreFaultyNoClose(s, r) ==
    IF r.sending_oob \/ r.output_data # <<>>
    THEN Sendit(s, [r EXCEPT !.writable = TRUE]) /\ UNCHANGED recver
    ELSE /\ sk' = [sk EXCEPT ![s] = [r EXCEPT !.writable = TRUE]]
         /\ writebuf' = [writebuf EXCEPT ![s] = NoSend]
         /\ UNCHANGED recver

(* CSender::DoRunL() after plug_sent(): send what remains, or finish the    *)
(* close that was waiting for it.                                           *)
SendMore(s, r) ==
    IF r.sending_oob \/ r.output_data # <<>>
    THEN Sendit(s, [r EXCEPT !.writable = TRUE]) /\ UNCHANGED recver
    ELSE IF r.killing
    THEN Free(s, [r EXCEPT !.writable = TRUE])
    ELSE /\ sk' = [sk EXCEPT ![s] = [r EXCEPT !.writable = TRUE]]
         /\ writebuf' = [writebuf EXCEPT ![s] = NoSend]
         /\ UNCHANGED recver

(* A Send() completes.  The plug of a live socket is told before the socket *)
(* is made writable again; nobody is told of a socket being killed.         *)
SendDone(s) ==
    /\ MayRun(s)
    /\ writebuf[s].kind # "none"
    /\ peer' = IF writebuf[s].kind = "data"
               THEN [peer EXCEPT ![s] = @ \o writebuf[s].data] ELSE peer
    /\ fault' = IF ~sk[s].sending_oob
                     /\ Len(writebuf[s].data) > Len(sk[s].output_data)
                THEN {"consume"} ELSE {}
    /\ IF sk[s].killing
       THEN SendMore(s, Consumed(s)) /\ UNCHANGED stack
       ELSE /\ sk' = [sk EXCEPT ![s] = Consumed(s)]
            /\ writebuf' = [writebuf EXCEPT ![s] = NoSend]
            /\ stack' = <<[fn |-> "sent", s |-> s]>>
            /\ UNCHANGED recver
    /\ UNCHANGED <<held, written, got>>

(* plug_sent() returns. *)
ReturnSent ==
    /\ stack # <<>> /\ Head(stack).fn = "sent" /\ fault = {}
    /\ stack' = Tail(stack)
    /\ LET s == Head(stack).s IN
       IF sk[s].phase = "closed"
       THEN fault' = {"freed"} /\ UNCHANGED <<sk, writebuf, recver>>
       ELSE SendMore(s, sk[s]) /\ UNCHANGED fault
    /\ UNCHANGED <<held, written, peer, got>>

(* A Send() completes with KErrBadHandle, KErrDisconnected or KErrEof: the  *)
(* error is noted and the socket never becomes writable again.              *)
SendFail(s) ==
    /\ MayRun(s)
    /\ writebuf[s].kind # "none"
    /\ sk' = [sk EXCEPT ![s].pending_error = TRUE]
    /\ writebuf' = [writebuf EXCEPT ![s] = NoSend]
    /\ UNCHANGED <<recver, held, stack, fault, written, peer, got>>

-------------------------------------------------------------------------------

PlugCall(s) ==
    \/ \E b \in BOOLEAN : Open(s, b)
    \/ \E n \in 0 .. MaxWrite : Write(s, n)
    \/ WriteOob(s)
    \/ Close(s)
    \/ Freeze(s)
    \/ Unfreeze(s)

Event(s) ==
    \/ \E n \in 1 .. MaxRead : RecvData(s, n)
    \/ RecvEnd(s)
    \/ SendDone(s)
    \/ SendFail(s)

Return == ReturnFromRunL \/ ReturnFromReissue \/ ReturnClosing \/ ReturnSent

Next ==
    \/ \E s \in Sock : PlugCall(s)
    \/ \E s \in Sock : Event(s)
    \/ Return

(* Callbacks return, a plug told of the end of its connection closes its    *)
(* socket, and the network completes every Send(), with success or failure; *)
(* the handlers are short, so the scheduler gets round to every completion  *)
(* however often other sockets have one too (the completion of one socket   *)
(* is not enabled while the callback of another runs: hence SF).            *)
Fairness ==
    /\ WF_vars(Return)
    /\ \A s \in Sock : WF_vars(InFrame("closing", s) /\ Close(s))
    /\ \A s \in Sock : SF_vars(SendDone(s) \/ SendFail(s))

Spec == Init /\ [][Next]_vars

FairSpec == Spec /\ Fairness

-------------------------------------------------------------------------------
(* Properties                                                               *)

(* No byte written to a socket is lost, repeated or reordered: at any       *)
(* moment what the peer has followed by what output_data holds is what was  *)
(* written.  (sk_tcp_write_oob() throws away what is queued, so this is     *)
(* about the sockets that do not use it.)                                   *)
StreamIntact ==
    \A s \in Sock \ OobSock :
        peer[s] \o sk[s].output_data = Run(0, written[s])

(* A Send() in progress is sending what is still at the head of             *)
(* output_data: it is consumed only when the Send() has completed.          *)
SendIsPrefix ==
    \A s \in Sock \ OobSock :
        LET buf == writebuf[s].data IN
        /\ Len(buf) <= Len(sk[s].output_data)
        /\ buf = SubSeq(sk[s].output_data, 1, Len(buf))

(* Even on a socket with urgent data, the peer never gets a byte twice or   *)
(* after a later one.                                                       *)
PeerInOrder ==
    \A s \in Sock : \A i, j \in 1 .. Len(peer[s]) :
        i < j => peer[s][i] < peer[s][j]

(* Everything that has arrived has been given to the plug, once and in      *)
(* order, or is the chunk in readbuf that the socket missed while frozen;   *)
(* whatever the plug freezes and unfreezes, also from inside receive().     *)
ReceivedOnce ==
    \A s \in Sock :
        held[s] =>
            got[s] \o (IF sk[s].frozen_readable /\ ~InFrame("thaw", s)
                       THEN recver[s].readbuf ELSE <<>>)
                = Run(0, recver[s].arrived)

(* A socket whose plug is not being called is listening to the network,     *)
(* unless it is frozen and remembers that it has a chunk waiting: no        *)
(* sequence of freezing and unfreezing leaves it deaf.                      *)
NeverDeaf ==
    \A s \in Sock :
        held[s] /\ ~(\E fn \in {"receive", "thaw", "closing"} : InFrame(fn, s))
            => recver[s].active \/ (sk[s].frozen /\ sk[s].frozen_readable)

(* Freezing and thawing a socket, in any order and from inside of each      *)
(* other's callbacks, loses nothing that arrives, and does not make it deaf.*)
FreezingLosesNothing == ReceivedOnce /\ NeverDeaf

(* A socket that has been freed has delivered everything: sk_tcp_close()    *)
(* and CSender::DoRunL() between them wait for the data ("In case we have   *)
(* data to send...").                                                       *)
ClosedIsDrained ==
    \A s \in Sock \ OobSock :
        sk[s].phase = "closed" => peer[s] = Run(0, written[s])

(* Nothing makes the layer panic.  bufchain_consume()'s assertion that      *)
(* there is that much to consume never fails; CRecver is never started      *)
(* twice; and CSender is given a new request only when it has none: a       *)
(* Send() is never in progress on a writable socket, nor while plug_sent()  *)
(* is running (SetActive() on an active object is a panic).                 *)
NoPanic ==
    /\ fault \cap {"consume", "active"} = {}
    /\ \A s \in Sock :
          sk[s].writable \/ InFrame("sent", s) => writebuf[s] = NoSend

(* A socket closed with data outstanding goes in the end, unless sending    *)
(* fails.                                                                   *)
KilledSocketsGo ==
    \A s \in Sock :
        []<>(sk[s].killing =>
                sk[s].phase = "closed" \/ sk[s].pending_error \/ fault # {})

(* However the plug goes on writing, the peer catches up with it again and  *)
(* again, unless sending fails.                                             *)
WrittenIsReceived ==
    \A s \in Sock \ OobSock :
        []<>(Len(peer[s]) = written[s] \/ sk[s].pending_error \/ fault # {})

(* Without urgent data the layer implements the byte stream a plug expects. *)
Plain == Sock \ OobSock
Stream == INSTANCE ByteStream WITH
    Sock <- Plain,
    written <- [s \in Plain |-> written[s]],
    received <- [s \in Plain |-> Len(peer[s])],
    closing <- [s \in Plain |-> ~held[s] /\ sk[s].phase # "unused"],
    gone <- [s \in Plain |-> sk[s].phase = "closed"]

ImplementsByteStream == Stream!Spec
===============================================================================
