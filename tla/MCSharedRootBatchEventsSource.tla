------------------- MODULE MCSharedRootBatchEventsSource -------------------
(***************************************************************************)
(* Instances of SharedRootBatchEventsSource for TLC are given by the cfg   *)
(* files.                                                                  *)
(***************************************************************************)
EXTENDS SharedRootBatchEventsSource
=============================================================================
