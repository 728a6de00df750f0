CONSTANTS
    Connections = {1, 2}
    Capacity = 2
    Goals = {g1}
    NoGoal = none
    NumSlots = 1
    SequenceModulus = 1
    SendOutcomes = {TRUE, FALSE}
    MaxQueued = 1
SPECIFICATION CMuxFairSpec
CONSTANT BufferFits = {TRUE, FALSE}
INVARIANT MuxCallerCanDecide
PROPERTY LossReported
