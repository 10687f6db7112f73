----------------------------- MODULE MCMetering -----------------------------
\* Metering on small instances.
EXTENDS Metering, TLC

CONSTANTS u1, u2, u3, w1, c1

OwnerOfAll == [c \in Conns |-> w1]
=============================================================================
