---------------------------- MODULE MCSsh1Channels ----------------------------
(* Instances of Ssh1Channels with two channels, and with one. *)
EXTENDS Ssh1Channels

OneChan == {1}
TwoChans == {1, 2}
===============================================================================
