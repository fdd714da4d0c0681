\* resolveArtifact: downloads it "if it is not already there".
CONSTANTS
    Proc = {p1}
    Chunks = 2
    Runs = 2
SPECIFICATION Spec
PROPERTY
    FetchesOnlyWhatIsMissing
