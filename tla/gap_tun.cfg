\* Every host; a device node may have no driver behind it.
SPECIFICATION Spec
INVARIANTS
    TunWarnedForTheUserAlone
