SPECIFICATION Spec
CONSTANTS
    Stages <- StagesInOrder
    Times = {0, 1, 2}
    Verdicts = {tp, fp}
    DedupWindow = 1
    KillWindow = 1
    TacticThreshold = 2
    Requests = {r1, r2}
    MaxEvents = 2
    MaxRestarts = 1
SYMMETRY Symmetry
INVARIANTS
    TypeOK
    
    NotifiedOrCut
PROPERTY
    KillChainEarned
CHECK_DEADLOCK FALSE
