\* gen_if_else when the allocator hands out r0.
SPECIFICATION Spec
CONSTANTS
  Generators = {"if_else"}
  Computed = {"if_else"}
  Params <- MCParams
  Inputs <- MCInputs
  Requests <- MCRequests
  Images <- MCImages
  StoreAddrField = "rd"
  BranchBase = 0
  MaxValue = 1073741823
  MaxDepth = 16
  Window = 4
  Bytes = {}
  ExtValues = {0, 1}
  ArrayLens = {0, 2}
INVARIANT ComputesPrompt
\* A halted or returned program is a final state of the machine.
CHECK_DEADLOCK FALSE
