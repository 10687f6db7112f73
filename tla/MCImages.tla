------------------------------ MODULE MCImages ------------------------------
\* Images on small instances.
EXTENDS Images

CONSTANTS w1, c1, c2

World(O, F, n) == [ops |-> O, faults |-> F, builds |-> n]

ImageWorlds == {
    \* Builds, and workloads created from their versions and moved between them.
    World({"create", "setImage", "drop"}, {"ps"}, 4),
    \* orchd dies.
    World({"create"}, {"crash", "bundle"}, 4),
    \* The lockfile changes; dependencies and containers cannot be built; orchd dies.
    World({"create", "edit"}, {"deps", "docker", "crash"}, 3),
    \* Operators delete, push and import.
    World({"create", "delete"}, {}, 3),
    World({"create", "push"}, {}, 4),
    World({"setImage", "create", "import"}, {}, 3)}

\* The lockfile changes while an image is built.
LiveEdits == {World({"editLive"}, {}, 3)}
=============================================================================
