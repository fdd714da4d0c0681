\* The signal arrives while setupTap is between two ip commands.
CONSTANTS
    N = 1
    Reports <- GoodOnly
    NoReport = NoReport
    Garbled = Garbled
    NoOutcome = NoOutcome
    Faults <- NoFaults
SPECIFICATION Spec
PROPERTIES BootOneRemovesItsTap
