----------------------------- MODULE MCVolumes -----------------------------
\* Volumes on small instances: two workloads of one image and one family.
EXTENDS Volumes

CONSTANTS v1, v2, i1, i2, f1

HomeImage == [v \in {v1, v2} |-> i1]
HomeFamily == [v \in {v1, v2} |-> f1]

World(ready, prepared, V, allow, O, F) ==
    [ready |-> ready, prepared |-> prepared, vms |-> V, allow |-> allow, ops |-> O, faults |-> F]

VolumesWorlds == {
    \* Two VMs of one image at once, the counter is lost, the pool refuses ids.
    World({i1}, {}, {v1, v2}, {v1, v2}, {"lose"}, {"full"}),
    \* Commands fail; VMs are suspended and woken; the host reboots.
    World({i1}, {}, {v1}, {v1}, {"wake", "lose"}, {"fail", "reboot"}),
    \* orchd dies in the middle; a workload comes onto the allowlist.
    World({i1}, {}, {v1, v2}, {v1}, {"wake", "allow"}, {"crash"}),
    \* Two images are prepared at once.
    World({}, {i1, i2}, {}, {}, {}, {"crash"}),
    World({}, {i1, i2}, {}, {}, {"lose"}, {}),
    \* An image is prepared, fails, and is prepared again.
    World({}, {i1}, {}, {}, {"redo", "lose"}, {"fail"}),
    World({}, {i1}, {}, {}, {"redo"}, {"crash"}),
    World({}, {i1}, {v1}, {v1}, {"redo", "wake"}, {"reboot"})}
=============================================================================
