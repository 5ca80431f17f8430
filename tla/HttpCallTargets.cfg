\* gen_build_response_headers, which calls its strcpy stub with one offset
\* from four call sites.
SPECIFICATION SpecIO
CONSTANTS
  Generators = {"build_response_headers"}
  Computed = {}
  Params <- MCParams
  Inputs <- MCInputs
  Requests <- MCRequests
  Images <- MCImages
  StoreAddrField = "rd"
  BranchBase = 0
  MaxValue = 1073741823
  MaxDepth = 16
  Window = 4
  Bytes = {}
  ExtValues = {0, 1}
  ArrayLens = {0, 2}
INVARIANT StaysInProgram
\* A halted or returned program is a final state of the machine.
CHECK_DEADLOCK FALSE
