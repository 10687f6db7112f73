SPECIFICATION Spec
CONSTANTS
    v1 = v1
    v2 = v2
    Vms = {v1}
    Ephemeral = {}
    MaxLive = 1
    BootSlots = 1
    Faults <- Restarts
PROPERTY NeverRestoresStale
