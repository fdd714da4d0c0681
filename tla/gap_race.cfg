\* README: "verified before anything executes them"; two invocations share a cache.
CONSTANTS
    Proc = {p1, p2}
    Chunks = 2
    Runs = 2
SPECIFICATION Spec
INVARIANT
    UsedIsVerified
