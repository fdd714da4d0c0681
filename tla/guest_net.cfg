\* Every -guest-net of a six-bit address space, up to 5 VMs.
CONSTANTS
    Space = 64
    Prefixes <- MCPrefixes
    BlockSize <- MCBlockSize
    Counts <- MCCounts
SPECIFICATION Spec
INVARIANTS
    TypeOK
    PlanSound
    RefusedOnlyIfTooSmall
