----------------------- MODULE MCBatchEventsOutputer -----------------------
(***************************************************************************)
(* Instances of BatchEventsOutputer for TLC are given by the cfg files.    *)
(***************************************************************************)
EXTENDS BatchEventsOutputer
=============================================================================
