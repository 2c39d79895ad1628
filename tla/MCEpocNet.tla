------------------------------- MODULE MCEpocNet ------------------------------
(* Small instances of EpocNet: the SSH connection's socket and one or two    *)
(* sockets of forwarded connections.                                        *)
EXTENDS EpocNet

CONSTANTS ssh, fwd

Both == {ssh, fwd}
OnlyFwd == {fwd}
===============================================================================
