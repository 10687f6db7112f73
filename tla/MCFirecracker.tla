--------------------------- MODULE MCFirecracker ---------------------------
\* Firecracker on small instances.
EXTENDS Firecracker

CONSTANTS v1, v2

Machines   == {v1, v2}
Everything == {"fail", "die", "reuse", "crash", "reboot"}
Restarts   == {"crash", "die"}
===========================================================================
