----------------------------- MODULE MCBackups -----------------------------
\* Backups on small instances.  w1 has data; w2's project, of a type that is not
\* backed up, is there so that an LRU ceiling of one is exceeded.
EXTENDS Backups

CONSTANTS w1, w2, c1

Kind(k) == [w \in Workloads |-> IF w = w1 THEN k ELSE "none"]
World(k, c, f) == [kind |-> Kind(k), calls |-> c, faults |-> f]

\* Databases, with each API operation and each failure in one world at least.
DumpWorlds == {
    World("dump", {"backup"}, {}),
    World("dump", {"stop"}, {"put", "crash"}),
    World("dump", {"reset"}, {"note"}),
    World("dump", {"drain"}, {"cancel", "seal"}),
    World("dump", {"restore", "deleteBackup"}, {"boot"}),
    World("dump", {"delete", "stop"}, {"export", "suspend", "list", "io"})}
\* Data dirs.
TarWorlds == {
    World("tar", {"reset"}, {"put", "suspend", "boot"}),
    World("tar", {"restore", "deleteBackup"}, {"put"}),
    World("tar", {"delete", "keepWarm"}, {"export"}),
    World("tar", {"drain"}, {"crash"})}
EveryWorld == DumpWorlds \cup TarWorlds

KeepAll == -1
=============================================================================
