SPECIFICATION Spec
CONSTANTS
    v1 = v1
    v2 = v2
    i1 = i1
    i2 = i2
    f1 = f1
    Vms = {v1, v2}
    Images = {i1, i2}
    Families = {f1}
    Nobody = Nobody
    ImageOf <- HomeImage
    FamilyOf <- HomeFamily
    MaxId = 6
    Addresses = 5
    Worlds <- VolumesWorlds
INVARIANT TypeOK
INVARIANT OneOwner
INVARIANT RecordedIsWhole
INVARIANT RunsOnce
CHECK_DEADLOCK FALSE
