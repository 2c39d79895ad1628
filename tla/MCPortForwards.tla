---------------------------- MODULE MCPortForwards ----------------------------
(* An instance of PortForwards: a local and three remote forwardings, of    *)
(* which some have the same port on the server, or the same destination.    *)
EXTENDS PortForwards

Four ==
    <<[type |-> "L", sport |-> 1, dest |-> 1], [type |-> "R", sport |-> 1, dest |-> 1],
      [type |-> "R", sport |-> 1, dest |-> 2], [type |-> "R", sport |-> 2, dest |-> 2]>>

TwoOfThem == {1, 3}

BothVersions == {1, 2}
===============================================================================
