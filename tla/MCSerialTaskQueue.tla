------------------------- MODULE MCSerialTaskQueue -------------------------
(***************************************************************************)
(* Instances of SerialTaskQueue for TLC: tasks a and b were pushed with    *)
(* one group, as two tasks of one lane are, and c with another.            *)
(***************************************************************************)
EXTENDS SerialTaskQueue

CONSTANTS a, b, c, g, h

MCGroupOf == [t \in Tasks |-> IF t = c THEN h ELSE g]
=============================================================================
