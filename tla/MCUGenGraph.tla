---------------------------- MODULE MCUGenGraph ----------------------------
(***************************************************************************)
(* Instances of UGenGraph for TLC: the blackhole, units of one channel and *)
(* a unit of two.                                                          *)
(***************************************************************************)
EXTENDS UGenGraph, TLC

CONSTANTS hole, a, b, m

TwoChannels == [u \in Units |-> IF u \in Multi THEN 2 ELSE 1]
=============================================================================
