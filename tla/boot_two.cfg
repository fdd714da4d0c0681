\* Two VMs under fair scheduling, guests of every kind, every call but ip's may fail.
CONSTANTS
    N = 2
    Reports <- GoodOrBad
    NoReport = NoReport
    Garbled = Garbled
    NoOutcome = NoOutcome
    Faults <- SomeFaults
SPECIFICATION Spec
INVARIANTS
    TypeOK
    FailureHasCause
    ReportNotLost
    ChecksMatchGuests
    RunningVMHasItsDevices
    TapLeftOnlyByFailedSetup
    OutcomesFaithful
    StageNeverStuck
PROPERTIES
    ReportSticks
    Onward
    StageEnds
    PromiseKept
