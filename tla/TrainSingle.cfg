\* One uninterrupted launch, no --checkpoint.
CONSTANTS
    EpochBudgets <- MCEpochBudgets
    Patience = 2
    Acc <- MCAcc
    DataSizes <- MCDataSizes
    ValSplitPct = 10
    MaxLaunches = 1
    CanKill = FALSE
    CanResume = FALSE
    NoFile = NoFile
    Torn = Torn
    Unbound = Unbound
SPECIFICATION Spec
INVARIANT ConfigMatchesBest
PROPERTY ImplementsSelection
\* The campaign ends when its last launch has returned.
CHECK_DEADLOCK FALSE
