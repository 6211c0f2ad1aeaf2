CONSTANTS
    o1 = o1
    o2 = o2
    t1 = t1
    t2 = t2
    t3 = t3
    Op <- MCOp
    Task <- MCTask
    MaxTasks = 2
    MaxSockets = 2
SPECIFICATION McpSpec
INVARIANTS McpInv
PROPERTIES OutcomeStays CallsEnd
CHECK_DEADLOCK FALSE
