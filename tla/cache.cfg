\* One invocation after another, each of which may be killed at any point.
CONSTANTS
    Proc = {p1}
    Chunks = 2
    Runs = 3
SPECIFICATION Spec
INVARIANTS
    TypeOK
    UsedIsVerified
PROPERTY
    ArrivesWhole
