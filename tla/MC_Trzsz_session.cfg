CONSTANT
    MaxRuns = 2
SPECIFICATION TrzszSpec
INVARIANTS TrzszInv SendsOwn
PROPERTIES CompletionResolved
CHECK_DEADLOCK FALSE
