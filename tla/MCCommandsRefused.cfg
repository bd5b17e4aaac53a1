SPECIFICATION CommandsSpec
CONSTANTS
    Askers = {a1, a2}
    NoOne = NoOne
PROPERTIES RefusedOnlyInProgress
CHECK_DEADLOCK FALSE
