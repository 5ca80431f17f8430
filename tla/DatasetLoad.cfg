\* Loading files of up to three lines and indexing every loaded sample.
CONSTANTS
    NumSlots = 2
    MaxSeqLen = 3
    MaxLines = 3
    MaxSamplesOpts = {0, 2}
    Lines <- MCLines
    BadJson = BadJson
    NonObject = NonObject
    NoItem = NoItem
SPECIFICATION Spec
INVARIANTS TypeOK LoadFaithful ItemWellFormed
\* A load that ends (or crashes) leaves nothing to do: the constructor
\* has returned or raised.
CHECK_DEADLOCK FALSE
