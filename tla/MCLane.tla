------------------------------- MODULE MCLane -------------------------------
(***************************************************************************)
(* Instances of Lane for TLC are given by the cfg files alone.             *)
(***************************************************************************)
EXTENDS Lane
=============================================================================
