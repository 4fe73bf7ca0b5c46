------------------------------ MODULE MCBridge ------------------------------
\* Instances of Bridge for TLC: the first asks are of one conversation, the
\* last one is of another.
EXTENDS Bridge

CONSTANTS a1, a2, a3, c1, c2

AllButLast == [a \in Asks |-> IF a = a3 THEN c2 ELSE c1]
=============================================================================
