CONSTANTS
    Connections = {1, 2}
    Capacity = 1
    Goals = {g1, g2}
    NoGoal = none
    NumSlots = 2
    SequenceModulus = 1
    SendOutcomes = {TRUE, FALSE}
    MaxQueued = 1
SYMMETRY GoalSymmetry
SPECIFICATION MuxSpec
INVARIANT ServerTablesAgree
INVARIANT OwnersAgree
INVARIANT RetiredSlotsEmpty
INVARIANT StaleRuntimeCancelHarmless
PROPERTY CommittedResultStays
PROPERTY AcceptedGoalsSurviveDisconnect
