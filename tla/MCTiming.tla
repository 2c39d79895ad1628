------------------------------- MODULE MCTiming -------------------------------
(* An instance of Timing with two contexts and a tick count modulo 34, which *)
(* may start anywhere: it wraps round in the course of each run.            *)
EXTENDS Timing

CONSTANTS term, ssh

BothCtx == {term, ssh}
ShortDelays == {0, 2}
===============================================================================
