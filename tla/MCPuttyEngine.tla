----------------------------- MODULE MCPuttyEngine ----------------------------
(* An instance of PuttyEngine with four sockets, each of which may become    *)
(* the SSH connection, a forwarded connection or a listener.                *)
EXTENDS PuttyEngine

CONSTANTS a, b, c, d

Sock4 == {a, b, c, d}
===============================================================================
