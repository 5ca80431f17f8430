\* Every synthetic and diverse template that stays on its instructions, every extension
\* template and the HTTP templates whose calls land inside their list.
SPECIFICATION Spec
CONSTANTS
  Generators <- MCPrograms
  Computed <- MCComputed
  Params <- MCParams
  Inputs <- MCInputs
  Requests <- MCRequests
  Images <- MCImages
  StoreAddrField = "rs1"
  BranchBase = 0
  MaxValue = 1073741823
  MaxDepth = 16
  Window = 4
  Bytes = {}
  ExtValues = {0, 1}
  ArrayLens = {0, 2}
INVARIANTS TypeOK StaysInProgram ComputesPrompt StoresPrompt UsesOpenHandle HandlesReleased
PROPERTY Terminates
\* A halted or returned program is a final state of the machine.
CHECK_DEADLOCK FALSE
