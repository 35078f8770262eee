------------------------------- MODULE MCHMap -------------------------------
(***************************************************************************)
(* Instances of HMap for TLC.                                              *)
(***************************************************************************)
EXTENDS HMapProofs

(* Any hash of three keys into a table of four, or one past it. *)
Anywhere == [{0, 1, 2} -> {0, 7}]
(* Hashes that growth to eight keeps away from the end. *)
Low == {h \in [1 .. 4 -> {0, 2, 9}] : h[1] = 0 /\ h[2] = 2 /\ h[3] # 2}
       \cup {[k \in 1 .. 4 |-> k]}
(* Two keys that are sought in different buckets: apart, or neighbours, also *)
(* around the end.                                                          *)
Apart == {[k \in {1, 2} |-> d * (k - 1)] : d \in 1 .. 3}
(* Keys that all meet in the last bucket. *)
Ends == [1 .. 5 -> {3, 7}]

All ==
  [hash : Anywhere, keys : {<<>>, <<1>>, <<2, 1>>}]
  \cup [hash : Low, keys : {<<1, 2, 3>>}]
  \cup [hash : Apart, keys : {<<>>, <<1, 2>>}]
AtTheEnd == [hash : Ends, keys : {<<1, 2, 3>>}]

(* The programs that the theorems are about are these, and not those whose *)
(* keys meet at the end.                                                   *)
ASSUME Covered == Spread <=> Starts = All
=============================================================================
