\* One validation pass over every split of up to three samples, batch
\* sizes 1 and 2, and every combination of right and wrong predictions.
CONSTANTS
    NumSlots = 2
    ValPrograms <- MCValPrograms
    MaxVal = 3
    BatchSizes = {1, 2}
    Outcomes <- MCOutcomes
    NoResult = NoResult
SPECIFICATION Spec
INVARIANTS TypeOK ReportedLossesMasked AccuracyOverSplit
\* evaluate() returns after its last batch.
CHECK_DEADLOCK FALSE
