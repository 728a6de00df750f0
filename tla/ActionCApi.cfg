CONSTANTS
    Connections = {k1}
    Goals = {g1, g2}
    NoGoal = none
    NumSlots = 1
    SequenceModulus = 1
    SendOutcomes = {TRUE}
    GoalTimeouts = {"finite"}
    MaxQueued = 1
    BufferFits = {TRUE, FALSE}
    Restarting = {"client", "server"}
SPECIFICATION CFairSpec
INVARIANT CallersInformed
INVARIANT StopForgets
INVARIANT NewGoalsNeverLost
PROPERTY TimedOutGoalQuarantined
PROPERTY EveryGoalEnds
CHECK_DEADLOCK FALSE
