\* Reading back the immediate of a one-line file.
CONSTANTS
    NumSlots = 2
    MaxSeqLen = 3
    MaxLines = 1
    MaxSamplesOpts = {0, 2}
    Lines <- MCLines
    BadJson = BadJson
    NonObject = NonObject
    NoItem = NoItem
SPECIFICATION Spec
INVARIANT ImmRoundTrip
\* A load that ends (or crashes) leaves nothing to do: the constructor
\* has returned or raised.
CHECK_DEADLOCK FALSE
