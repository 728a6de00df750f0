CONSTANTS
    Connections = {k1}
    Goals = {g1, g2}
    NoGoal = none
    NumSlots = 2
    SequenceModulus = 2
    SendOutcomes = {TRUE, FALSE}
    GoalTimeouts = {"finite"}
    MaxQueued = 2
SYMMETRY GoalSymmetry
SPECIFICATION Spec
INVARIANT ClientTablesAgree
INVARIANT GoalRequestFindsSlotFree
INVARIANT NothingIgnored
INVARIANT CancelDroppedOnlyAfterResult
INVARIANT GoalNeverLost
INVARIANT ServerGoalKnownToClient
PROPERTY ImplementsLifecycle
CHECK_DEADLOCK FALSE
