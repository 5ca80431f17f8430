\* Launches that may be killed at any step and resumed with --checkpoint.
CONSTANTS
    EpochBudgets <- MCEpochBudgets
    Patience = 2
    Acc <- MCAcc
    DataSizes <- MCAnyData
    ValSplitPct = 10
    MaxLaunches = 2
    CanKill = TRUE
    CanResume = TRUE
    NoFile = NoFile
    Torn = Torn
    Unbound = Unbound
SPECIFICATION Spec
INVARIANT TypeOK
INVARIANT BestIsLaunchMax
INVARIANT StopsWhenPatienceExhausted
\* The campaign ends when its last launch has returned.
CHECK_DEADLOCK FALSE
