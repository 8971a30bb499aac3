SPECIFICATION Spec
CONSTANTS
    Bodies <- MCBodies
    Text <- MCText
    First = "first"
    NoParent = "none"
    Requests <- MCRequests
    Tasks <- MCTasks
    Changes <- MCChanges
    MaxAmendments = 3
    MaxAltered = 1
    MaxBound = 2
INVARIANTS
    LineageIsWhole
    OnlyEqualsSlip
    TasksStayBound
CHECK_DEADLOCK FALSE
