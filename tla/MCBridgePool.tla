---------------------------- MODULE MCBridgePool ----------------------------
\* Instances of BridgePool for TLC: t1 and t2 are model values.  There is no
\* symmetry: slots are ordered by the counter, and the run checks liveness.
EXTENDS BridgePool

CONSTANTS t1, t2

MCTasks == {t1, t2}
=============================================================================
