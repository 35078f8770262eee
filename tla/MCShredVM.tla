----------------------------- MODULE MCShredVM -----------------------------
(***************************************************************************)
(* Instances of ShredVM for TLC: three shreds, so that a parent, a child   *)
(* and a third party interact, and a period of the position short enough   *)
(* to wrap while shreds sleep.                                             *)
(***************************************************************************)
EXTENDS ShredVM, TLC

CONSTANTS s1, s2, s3, e1, e2

(* A negative, a null, a fractional and a long delay. *)
MCDelays == {-1, 0, 1, 5}
FewDelays == {-1, 5}

(* The shreds a program may spork are alike. *)
Alike == Permutations({s2, s3})

(* What the programs of each run do. *)
EventInstrs  == {"timeadv", "spork", "exit", "event", "broadcast", "dtor", "yield"}
FamilyInstrs == {"timeadv", "spork", "exit", "handle", "try", "perform", "yield"}
PairInstrs   == {"timeadv", "perform", "try", "spork", "exit", "yield", "cancel",
                 "handle", "event", "broadcast", "dtor", "add", "remove"}
=============================================================================
