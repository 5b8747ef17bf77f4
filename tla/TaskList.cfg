SPECIFICATION Spec
CONSTANTS
    w1 = w1
    w2 = w2
    w3 = w3
    l1 = l1
    l2 = l2
    d1 = d1
    Workers = {w1, w2}
    Leads = {l1}
    Display = {d1}
    AgentId <- OwnNames
    MaxId = 2
    None = None
CHECK_DEADLOCK FALSE
SYMMETRY Symmetry
INVARIANT ClaimedOnce
INVARIANT IdsNotReused
