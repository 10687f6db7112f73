---------------------------- MODULE MCLifecycle ----------------------------
\* Lifecycle on small instances: which operations and failures each run allows.
EXTENDS Lifecycle, TLC

CONSTANTS w1, c1, c2

\* One operation of each shape: with reset, start and keepOff the
\* two-client instance only grows.
MixedOps == {"register", "wake", "stop", "restore", "backup", "keepOn", "setImage",
              "delete"}
NoDelete == AllOps \ {"delete"}

EveryFault == {"crash", "die", "fail"}
NoFault    == {}

ClientSymmetry == Permutations(Clients)
===========================================================================
