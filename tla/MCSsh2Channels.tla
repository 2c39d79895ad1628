---------------------------- MODULE MCSsh2Channels ----------------------------
(* An instance of Ssh2Channels with one channel. *)
EXTENDS Ssh2Channels

OneChan == {1}
===============================================================================
