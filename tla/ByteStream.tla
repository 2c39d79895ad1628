------------------------------ MODULE ByteStream ------------------------------
(***************************************************************************)
(* What a TCP socket promises to the plug that writes to it, with none of   *)
(* the buffering: bytes are numbered in the order the plug writes them, the *)
(* peer receives them in that order with none missing and none repeated,   *)
(* and closing a socket is complete only when everything written before     *)
(* has been received, unless the connection failed.                         *)
(*                                                                         *)
(* The detailed socket layer (EpocNet) is shown to implement this.         *)
(***************************************************************************)
EXTENDS Naturals

CONSTANTS Sock,      \* the sockets
          MaxWrite   \* bound: bytes written to one socket

VARIABLES written,   \* written[s]: how many bytes the plug has written
          received,  \* received[s]: how many of them the peer has
          closing,   \* closing[s]: the plug has closed the socket
          gone       \* gone[s]: the socket no longer exists

vars == <<written, received, closing, gone>>

TypeOK ==
    /\ written \in [Sock -> Nat]
    /\ received \in [Sock -> Nat]
    /\ closing \in [Sock -> BOOLEAN]
    /\ gone \in [Sock -> BOOLEAN]

Init ==
    /\ written = [s \in Sock |-> 0]
    /\ received = [s \in Sock |-> 0]
    /\ closing = [s \in Sock |-> FALSE]
    /\ gone = [s \in Sock |-> FALSE]

(* The plug appends any number of bytes to the stream. *)
Write(s) ==
    /\ ~closing[s]
    /\ \E n \in written[s] .. MaxWrite : written' = [written EXCEPT ![s] = n]
    /\ UNCHANGED <<received, closing, gone>>

(* The network carries some more of the stream to the peer; a socket whose  *)
(* plug has closed it goes with its last byte.                              *)
Carry(s) ==
    /\ ~gone[s]
    /\ \E n \in (received[s] + 1) .. written[s] :
          received' = [received EXCEPT ![s] = n]
    /\ \/ UNCHANGED gone
       \/ /\ closing[s]
          /\ received'[s] = written[s]
          /\ gone' = [gone EXCEPT ![s] = TRUE]
    /\ UNCHANGED <<written, closing>>

(* The plug closes the socket; it goes at once if nothing is outstanding.   *)
Close(s) ==
    /\ ~closing[s]
    /\ closing' = [closing EXCEPT ![s] = TRUE]
    /\ gone' = [gone EXCEPT ![s] = (received[s] = written[s])]
    /\ UNCHANGED <<written, received>>

Next == \E s \in Sock : Write(s) \/ Carry(s) \/ Close(s)

Spec == Init /\ [][Next]_vars
===============================================================================
