\* A finished launch followed by a launch resuming from best_model.pt.
CONSTANTS
    EpochBudgets <- MCEpochBudgets
    Patience = 2
    Acc <- MCAcc
    DataSizes <- MCDataSizes
    ValSplitPct = 10
    MaxLaunches = 2
    CanKill = FALSE
    CanResume = TRUE
    NoFile = NoFile
    Torn = Torn
    Unbound = Unbound
SPECIFICATION Spec
INVARIANT BestRetainsMax
\* The campaign ends when its last launch has returned.
CHECK_DEADLOCK FALSE
