SPECIFICATION Spec
CONSTANTS
    Notes = {n1}
    MaxEdits = 2
INVARIANTS OriginalsAreSafe LeftIsLeft CodexIsValid
PROPERTY UserContentSurvives
CHECK_DEADLOCK FALSE
