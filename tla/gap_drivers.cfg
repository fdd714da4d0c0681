\* A second guest comes up without its drive.
CONSTANTS
    N = 2
    Reports <- GoodOrBad
    NoReport = NoReport
    Garbled = Garbled
    NoOutcome = NoOutcome
    Faults <- NoFaults
SPECIFICATION Spec
INVARIANTS EveryGuestBoundItsDrivers
