\* gen_sqlite_transaction_pattern when EXT_SQLITE_STEP reports an error.
SPECIFICATION Spec
CONSTANTS
  Generators = {"sqlite_transaction_pattern"}
  Computed = {}
  Params <- MCParams
  Inputs <- MCInputs
  Requests <- MCRequests
  Images <- MCImages
  StoreAddrField = "rd"
  BranchBase = 0
  MaxValue = 1073741823
  MaxDepth = 16
  Window = 4
  Bytes = {}
  ExtValues = {0, 1}
  ArrayLens = {0, 2}
INVARIANT CommitOnlyAfterSuccess
\* A halted or returned program is a final state of the machine.
CHECK_DEADLOCK FALSE
