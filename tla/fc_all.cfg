SPECIFICATION FairSpec
CONSTANTS
    v1 = v1
    v2 = v2
    Vms <- Machines
    Ephemeral = {v2}
    MaxLive = 1
    BootSlots = 1
    Faults <- Everything
INVARIANT TypeOK
INVARIANT ReservationsExact
PROPERTY RefusedOnlyWhenFull
PROPERTY RestoresLatest
PROPERTY CallsEnd
