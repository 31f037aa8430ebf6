-------------------------- MODULE MCInputConsumer ---------------------------
(***************************************************************************)
(* Instances of InputConsumer for TLC: a refused message ahead of a good   *)
(* one in the same group, and a good one in a group of its own.            *)
(***************************************************************************)
EXTENDS InputConsumer, TLC

CONSTANTS g1, g2

Groups == 1 :> g1 @@ 2 :> g1 @@ 3 :> g2
=============================================================================
