\* The whole generator under no category filter, an empty one, and
\* prefixes of a diverse and a synthetic category, at difficulties 0 and 3.
CONSTANTS
    Slots = 2
    LibDirs <- MCLibDirs
    ExampleDirs <- MCExampleDirs
    SyntheticPrograms <- MCShort
    ExtensionPrograms <- MCShort
    HttpPrograms <- MCShort
    DiversePrograms <- MCShortAndLong
    MinDifficulties = {0, 3}
    CategoryFilters = {NoFilter, "", "loop", "alg"}
    NoFilter = NoFilter
    NoDifficulty = NoDifficulty
    AsmFail = AsmFail
SPECIFICATION Spec
INVARIANTS TypeOK SlotsFixed ProgramAsAssembled
\* main() returns (or raises) after verifying the output file.
CHECK_DEADLOCK FALSE
