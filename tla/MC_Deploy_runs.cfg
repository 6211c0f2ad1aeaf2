CONSTANTS
    r1 = r1
    r2 = r2
    r3 = r3
    Release <- MCRelease
    Bad <- MCBad
    MaxRuns = 3
SPECIFICATION Spec
INVARIANTS DeployInv
PROPERTIES Succeeds RollbackReturns
