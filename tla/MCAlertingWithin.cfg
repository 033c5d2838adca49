SPECIFICATION Spec
CONSTANTS
    Stages <- StagesInOrder
    Times = {0, 1, 2}
    Verdicts = {tp, fp}
    DedupWindow = 1
    KillWindow = 1
    TacticThreshold = 2
    Requests = {r1}
    MaxEvents = 2
    MaxRestarts = 0
SYMMETRY Symmetry
PROPERTY
    KillChainWithin
CHECK_DEADLOCK FALSE
