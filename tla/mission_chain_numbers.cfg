SPECIFICATION Spec
CONSTANTS
    Bodies <- MCNumbers
    Text <- MCText
    First = "first"
    NoParent = "none"
    Requests <- MCExact
    Tasks <- NoTasks
    Changes <- MCChanges
    MaxAmendments = 3
    MaxAltered = 1
    MaxBound = 0
INVARIANT ChangesAreDeclared
CHECK_DEADLOCK FALSE
