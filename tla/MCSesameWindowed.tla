-------------------------- MODULE MCSesameWindowed --------------------------
(* SesameWindowed between two ends with buffers of different sizes.         *)
EXTENDS SesameWindowed

CONSTANTS a, b

Ends == {a, b}

\* The window of the unit tests, and one that is larger by an odd number.
Buffers == [p \in Peers |-> IF p = a THEN 16 ELSE 19]

=============================================================================
