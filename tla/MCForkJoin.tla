----------------------------- MODULE MCForkJoin -----------------------------
(***************************************************************************)
(* Instances of ForkJoin for TLC.                                          *)
(***************************************************************************)
EXTENDS ForkJoin, TLC

CONSTANTS root, first, second, other

Alone  == first :> root
Nested == first :> root @@ second :> first
Family == Nested @@ other :> root
=============================================================================
