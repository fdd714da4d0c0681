\* The direct call for a single VM, every call failing when it likes.
CONSTANTS
    N = 1
    Reports <- GoodOrBad
    NoReport = NoReport
    Garbled = Garbled
    NoOutcome = NoOutcome
    Faults <- AllFaults
SPECIFICATION Spec
INVARIANTS
    RunningVMHasItsDevices
    FailureHasCause
PROPERTIES
    StageEnds
    PromiseKept
