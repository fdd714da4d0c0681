\* Every host there is, as far as the checks can tell hosts apart.
SPECIFICATION Spec
INVARIANTS
    TypeOK
    FailureNamesALack
    LackIsFailed
