\* Launches that may be killed while torch.save writes best_model.pt.
CONSTANTS
    EpochBudgets <- MCEpochBudgets
    Patience = 2
    Acc <- MCAcc
    DataSizes <- MCDataSizes
    ValSplitPct = 10
    MaxLaunches = 1
    CanKill = TRUE
    CanResume = FALSE
    NoFile = NoFile
    Torn = Torn
    Unbound = Unbound
SPECIFICATION Spec
INVARIANT BestFileIntact
\* The campaign ends when its last launch has returned.
CHECK_DEADLOCK FALSE
