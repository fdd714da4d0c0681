\* Every invocation and every answer of the host, two VMs.
CONSTANTS
    N = 2
SPECIFICATION Spec
INVARIANTS
    TypeOK
    ExitTellsResults
    BootOnlyOnProvenKVM
    ExitZeroMeansProven
