--------------------- MODULE MCSerialTaskQueueLifetime ---------------------
(***************************************************************************)
(* Instances of SerialTaskQueueLifetime for TLC.                           *)
(***************************************************************************)
EXTENDS SerialTaskQueueLifetime

CONSTANTS a, b, c, g, h, own

MCGroupOf == [t \in Tasks |-> CASE t = Noop -> own
                                [] t = c -> h
                                [] OTHER -> g]
=============================================================================
