---------------------------- MODULE PacketTransport ----------------------------
(***************************************************************************)
(* What a transport layer that exchanges keys promises to the layers above  *)
(* it, with none of the exchange's packets: what they send is received in   *)
(* order, once and with nothing missing; a connection that is given up      *)
(* loses only an end of it; and the keys are those of one exchange after    *)
(* another, which no side begins before the other can follow.               *)
(*                                                                         *)
(* The detailed transport (Ssh2Transport) is shown to implement this.       *)
(***************************************************************************)
EXTENDS Integers

VARIABLES up,        \* the client has not given the connection up
          sent,      \* how many packets the layers above have sent
          waiting,   \* those that will arrive
          received,  \* the last that the server has got
          client,    \* the keys each end sends with and reads with,
          server     \* by the number of the exchange that made them

vars == <<up, sent, waiting, received, client, server>>

Keys(out, in) == [out |-> out, in |-> in]

TypeOK ==
    /\ up \in BOOLEAN
    /\ sent \in Nat /\ received \in 0 .. sent
    /\ waiting \subseteq received + 1 .. sent
    /\ {client, server} \subseteq [out : Nat, in : Nat]

(* No end reads with keys that the other does not send with yet, or is more *)
(* than an exchange behind it, and the client is not the first to change.   *)
KeysInStep ==
    /\ server.in <= client.out /\ client.out <= server.out
    /\ client.in <= server.out
    /\ server.out <= client.in + 1 /\ server.out <= server.in + 1

Init ==
    /\ up = TRUE /\ sent = 0 /\ waiting = {} /\ received = 0
    /\ client = Keys(0, 0) /\ server = Keys(0, 0)

Send ==
    /\ up
    /\ sent' = sent + 1 /\ waiting' = waiting \cup {sent + 1}

(* Nothing is read with the old keys once the server has got new ones. *)
Deliver ==
    /\ server.in = server.out
    /\ \E n \in waiting :
           /\ \A m \in waiting : n <= m
           /\ received' = n /\ waiting' = waiting \ {n}
    /\ UNCHANGED <<up, sent, client, server>>

(* What is lost is after all that arrives.  There are no keys any more. *)
GiveUp ==
    /\ up /\ ~up'
    /\ waiting' \subseteq waiting
    /\ \A n \in waiting', m \in waiting : m < n => m \in waiting'
    /\ client' = Keys(0, 0) /\ server' = Keys(0, 0)
    /\ UNCHANGED <<sent, received>>

(* An exchange.  The server is the first to send with the new keys, when    *)
(* both have come to the same ones each way; each then reads with them when *)
(* the other's have arrived.  The layers above may start with the end of it.*)
ServerChanges ==
    /\ up
    /\ client = server /\ client.out = client.in
    /\ server' = [server EXCEPT !.out = @ + 1]
    /\ UNCHANGED <<up, sent, waiting, received, client>>

ClientChanges ==
    /\ up
    /\ client.out = client.in /\ server = Keys(client.out + 1, client.in)
    /\ client' = [client EXCEPT !.out = @ + 1]
    /\ UNCHANGED <<up, sent, waiting, received, server>>

ClientFollows ==
    /\ up
    /\ client = Keys(server.out, server.out - 1)
    /\ client' = [client EXCEPT !.in = @ + 1]
    /\ Send \/ UNCHANGED <<sent, waiting>>
    /\ UNCHANGED <<up, received, server>>

ServerFollows ==
    /\ up
    /\ server = Keys(client.out, client.out - 1)
    /\ server' = [server EXCEPT !.in = @ + 1]
    /\ UNCHANGED <<up, sent, waiting, received, client>>

Next ==
    \/ Send /\ UNCHANGED <<up, received, client, server>>
    \/ Deliver \/ GiveUp
    \/ ServerChanges \/ ClientChanges \/ ClientFollows \/ ServerFollows

Spec == Init /\ [][Next]_vars
===============================================================================
