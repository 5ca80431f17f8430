------------------------ MODULE GenerateTrainingData ------------------------
(***************************************************************************)
(* main() of src/train/generate_training_data.py: the six sources of      *)
(* training samples (lib/ files, examples/ files, synthetic, extension,  *)
(* HTTP and diverse pattern generators), the --difficulty and --category *)
(* filters, padding to a fixed number of slots, shuffling, writing the   *)
(* JSONL file and reading its first line back.                           *)
(*                                                                         *)
(* A .nl file is abstracted to what parse_example_file and               *)
(* assemble_example return for it: its header fields, whether it is a    *)
(* server example, whether it has prompts, the instruction list its     *)
(* source stands for (prog), and the bytes of the .nlb file the          *)
(* assembler wrote (asm), or AsmFail; decode_binary is modelled byte by  *)
(* byte.  A name is a record of the name as written and its   *)
(* case-folded form, so that .lower() is modelled by what it does.        *)
(* Prompt text is left out.  Each generator is asked for one sample.     *)
(***************************************************************************)
EXTENDS Integers, Sequences, FiniteSets, SequencesExt, FiniteSetsExt, TLC

CONSTANTS
    Slots,            \* the slots argument of pad_instructions (64)
    LibDirs,          \* possible sorted listings of lib/**/*.nl
    ExampleDirs,      \* possible sorted listings of examples/**/*.nl
    SyntheticPrograms,  \* instruction lists SyntheticGenerator may emit
    ExtensionPrograms,  \* ... ExtensionPatternGenerator
    HttpPrograms,       \* ... HTTPPatternGenerator
    DiversePrograms,    \* ... DiversePatternGenerator
    MinDifficulties,  \* values of --difficulty
    CategoryFilters,  \* values of --category
    NoFilter,         \* model value: --category not given (None)
    NoDifficulty,     \* model value: a sample without a difficulty field
    AsmFail           \* model value: the assembler failed or timed out

VARIABLES
    minDifficulty, categoryFilter,  \* the command line
    libDir, exampleDir,             \* the files found, or <<>> if absent
    step,      \* the step of main() being run
    k,         \* files of the current directory already processed
    seen,      \* seen_functions: lower-cased lib names
    allData,   \* all_data
    output,    \* the lines written to the output file
    skipped    \* history: example names skipped as already in lib/

vars == <<minDifficulty, categoryFilter, libDir, exampleDir, step, k, seen,
          allData, output, skipped>>

Steps == {"lib", "examples", "synthetic", "extension", "http", "diverse",
          "write", "verify", "done", "crashed"}

\* Variant: the name is used as written, without .lower().
LowerIdentity(n) == n.written

\* str.lower(): the case-folded name.
Lower(n) == n.lower

\* Instruction.to_dict (lines 79-89).
ToDict(ins) ==
    [valid |-> 1, opcode |-> ins.opcode, has_imm |-> ins.has_imm,
     imm_bin |-> IF ins.has_imm = 1 THEN ins.imm ELSE 0]

PadSlot == [valid |-> 0, opcode |-> 0, has_imm |-> 0, imm_bin |-> 0]

\* Variant: the result is not cut back to `slots`.
PadNoTruncate(instrs) ==
    [i \in 1..Len(instrs) |-> ToDict(instrs[i])]
        \o [i \in 1..(Slots - Len(instrs)) |-> PadSlot]

\* pad_instructions (lines 602-610): to_dict, pad to `slots`, truncate.
PadInstructions(instrs) ==
    LET r == [i \in 1..Len(instrs) |-> ToDict(instrs[i])]
            \o [i \in 1..(Slots - Len(instrs)) |-> PadSlot]
    IN  SubSeq(r, 1, Slots)

\* parse_example_file (lines 96-153) returns None for a server example;
\* otherwise the header fields, which the model keeps as the file's fields.
Parsed(f) == ~f.server

\* Variant: ExtCall (0x20) missing from the set.
ExtendedOpcodesNoExtCall == {1, 3, 4, 6, 7, 9, 20, 21, 22, 23, 24, 28}

\* EXTENDED_OPCODES (lines 52-66): the opcodes followed by a 32-bit immediate.
ExtendedOpcodes == {1, 3, 4, 6, 7, 9, 20, 21, 22, 23, 24, 28, 32}

\* b'NRLG'
Magic == <<78, 82, 76, 71>>

\* struct.unpack('<I') of four bytes (code_len stays far below 2^31).
U32(b) == b[1] + 256 * b[2] + 65536 * b[3] + 16777216 * b[4]

\* struct.unpack('<i'): little-endian two's complement.
I32(b) == b[1] + 256 * b[2] + 65536 * b[3] + 16777216 * (IF b[4] < 128 THEN b[4] ELSE b[4] - 256)

\* The fields of an instruction word, read from its little-endian bytes b:
\* (word1 >> 26) & 0x3F, (word1 >> 21) & 0x1F, (word1 >> 16) & 0x1F,
\* (word1 >> 11) & 0x1F and (word1 >> 8) & 0x7.
WordFields(b) ==
    [opcode |-> b[4] \div 4, rd |-> b[3] \div 32 + 8 * (b[4] % 4),
     rs1 |-> b[3] % 32, rs2 |-> b[2] \div 8, mode |-> b[2] % 8]

\* The loop of decode_binary from byte `offset` (0-based) of code: a word
\* that does not fit ends it; an extended opcode takes the next four bytes
\* as its immediate when they are there, and has none otherwise.
RECURSIVE DecodeFrom(_, _)
DecodeFrom(code, offset) ==
    IF offset + 4 > Len(code) THEN <<>>
    ELSE LET w   == WordFields(SubSeq(code, offset + 1, offset + 4))
             ext == w.opcode \in ExtendedOpcodes /\ offset + 8 <= Len(code)
             ins == [opcode |-> w.opcode, mode |-> w.mode, rd |-> w.rd, rs1 |-> w.rs1,
                     rs2 |-> w.rs2, has_imm |-> IF ext THEN 1 ELSE 0,
                     imm |-> IF ext THEN I32(SubSeq(code, offset + 5, offset + 8)) ELSE 0]
         IN  <<ins>> \o DecodeFrom(code, offset + (IF ext THEN 8 ELSE 4))

\* decode_binary (lines 176-206): no instructions for a short file or a
\* wrong magic; the code is data[16:16+code_len], cut at the file's end.
DecodeBinary(data) ==
    IF Len(data) < 16 \/ SubSeq(data, 1, 4) # Magic THEN <<>>
    ELSE LET codeLen == U32(SubSeq(data, 9, 12))
         IN  DecodeFrom(SubSeq(data, 17, Min({16 + codeLen, Len(data)})), 0)

\* assemble_example (lines 156-173) followed by `if not instructions`:
\* the assembler succeeded and decode_binary found instructions.
Assembled(f) == f.asm # AsmFail /\ DecodeBinary(f.asm) # <<>>

StartsWith(s, p) == Len(p) <= Len(s) /\ SubSeq(s, 1, Len(p)) = p

\* The file-level filters of generate_lib_data / generate_examples_data.
PassesFilters(f) ==
    /\ f.difficulty >= minDifficulty
    /\ categoryFilter \in {NoFilter, ""} \/ StartsWith(f.category, categoryFilter)

Sample(source, name, category, difficulty, instrs) ==
    [source |-> source, name |-> name, category |-> category,
     difficulty |-> difficulty, program |-> instrs,
     instructions |-> PadInstructions(instrs)]

\* Variant: the category test of filter_samples is missing.
FilterSamplesNoCategory(samples) ==
    IF minDifficulty = 0 /\ categoryFilter = NoFilter THEN samples
    ELSE SelectSeq(samples, LAMBDA s :
            (IF s.difficulty = NoDifficulty THEN 1 ELSE s.difficulty) >= minDifficulty)

\* filter_samples (lines 613-630): a missing difficulty counts as 1.
FilterSamples(samples) ==
    IF minDifficulty = 0 /\ categoryFilter = NoFilter THEN samples
    ELSE SelectSeq(samples, LAMBDA s :
            /\ (IF s.difficulty = NoDifficulty THEN 1 ELSE s.difficulty) >= minDifficulty
            /\ categoryFilter \in {NoFilter, ""} \/ StartsWith(s.category, categoryFilter))

\* generate_synthetic_data, line 577: the whole source is skipped for
\* strict filters.
SyntheticSkipped ==
    \/ minDifficulty > 2
    \/ categoryFilter \notin {NoFilter, ""} /\ categoryFilter \notin {"algorithm", "math"}

\* The (category, difficulty) metadata of the DiversePatternGenerator
\* patterns (generators/diverse_patterns.py).
DiverseMeta ==
    {<<"algorithm", 2>>, <<"algorithm", 3>>, <<"algorithm", 4>>,
     <<"arithmetic", 1>>, <<"arithmetic", 2>>, <<"bitwise", 1>>, <<"bitwise", 2>>,
     <<"bitwise", 3>>, <<"bitwise", 4>>, <<"comparison", 1>>, <<"comparison", 2>>,
     <<"conditional", 2>>, <<"conditional", 3>>, <<"constant", 1>>, <<"constant", 2>>,
     <<"extension", 2>>, <<"extension", 3>>, <<"function", 2>>, <<"function", 3>>,
     <<"function", 4>>, <<"loop", 2>>, <<"loop", 3>>, <<"memory", 2>>,
     <<"memory", 3>>, <<"string", 2>>, <<"string", 3>>}

-----------------------------------------------------------------------------

Init ==
    /\ minDifficulty \in MinDifficulties
    /\ categoryFilter \in CategoryFilters
    /\ libDir \in LibDirs
    /\ exampleDir \in ExampleDirs
    /\ step = "lib"
    /\ k = 0
    /\ seen = {}
    /\ allData = <<>>
    /\ output = <<>>
    /\ skipped = {}

\* One iteration of the loop of generate_lib_data (lines 247-283): the name
\* of every parsed non-server file is recorded before the filters; a file
\* that passes them, has prompts and assembles to a non-empty list gives
\* a sample.
LibFile ==
    /\ step = "lib"
    /\ k < Len(libDir)
    /\ LET f == libDir[k + 1] IN
       /\ seen' = IF Parsed(f) THEN seen \cup {Lower(f.name)} ELSE seen
       /\ allData' =
            IF Parsed(f) /\ PassesFilters(f) /\ f.prompts /\ Assembled(f)
            THEN Append(allData, Sample("lib", f.name, f.category, f.difficulty, DecodeBinary(f.asm)))
            ELSE allData
    /\ k' = k + 1
    /\ UNCHANGED <<minDifficulty, categoryFilter, libDir, exampleDir, step,
                   output, skipped>>

\* The lib/ loop ends (or lib/ or the nl binary is absent).
LibDone ==
    /\ step = "lib"
    /\ k = Len(libDir)
    /\ step' = "examples"
    /\ k' = 0
    /\ UNCHANGED <<minDifficulty, categoryFilter, libDir, exampleDir, seen,
                   allData, output, skipped>>

\* One iteration of the loop of generate_examples_data (lines 300-333):
\* a file whose lower-cased name is in seen_functions is skipped.
ExampleFile ==
    /\ step = "examples"
    /\ k < Len(exampleDir)
    /\ LET f == exampleDir[k + 1]
           usable == Parsed(f) /\ f.prompts
           shadowed == usable /\ Lower(f.name) \in seen
       IN
       /\ skipped' = IF shadowed THEN skipped \cup {Lower(f.name)} ELSE skipped
       /\ allData' =
            IF usable /\ ~shadowed /\ PassesFilters(f) /\ Assembled(f)
            THEN Append(allData, Sample("examples", f.name, f.category, f.difficulty, DecodeBinary(f.asm)))
            ELSE allData
    /\ k' = k + 1
    /\ UNCHANGED <<minDifficulty, categoryFilter, libDir, exampleDir, step, seen, output>>

ExamplesDone ==
    /\ step = "examples"
    /\ k = Len(exampleDir)
    /\ step' = "synthetic"
    /\ UNCHANGED <<minDifficulty, categoryFilter, libDir, exampleDir, k, seen,
                   allData, output, skipped>>

\* generate_synthetic_data (lines 570-595): category "algorithm",
\* difficulty 2, and no filter_samples call.
Synthetic ==
    /\ step = "synthetic"
    /\ IF SyntheticSkipped
         THEN allData' = allData
         ELSE \E p \in SyntheticPrograms :
                allData' = Append(allData, Sample("synthetic", "", "algorithm", 2, p))
    /\ step' = "extension"
    /\ UNCHANGED <<minDifficulty, categoryFilter, libDir, exampleDir, k, seen,
                   output, skipped>>

\* Steps 4-6 of main (lines 720-741): generate, then filter_samples.
Generated(programs, src, category, difficulty, next) ==
    /\ \E p \in programs :
         allData' = allData \o FilterSamples(<<Sample(src, "", category, difficulty, p)>>)
    /\ step' = next
    /\ UNCHANGED <<minDifficulty, categoryFilter, libDir, exampleDir, k, seen,
                   output, skipped>>

Extension ==
    /\ step = "extension"
    /\ Generated(ExtensionPrograms, "synthetic-extension", "extension-patterns", NoDifficulty, "http")

Http ==
    /\ step = "http"
    /\ Generated(HttpPrograms, "synthetic-http", "http-protocol", NoDifficulty, "diverse")

Diverse ==
    /\ step = "diverse"
    /\ \E m \in DiverseMeta : Generated(DiversePrograms, "diverse-synthetic", m[1], m[2], "write")

\* random.shuffle(all_data), then one JSON line per sample (lines 743-751).
Write ==
    /\ step = "write"
    /\ \E p \in Permutations(DOMAIN allData) :
         output' = [i \in DOMAIN allData |-> allData[p[i]]]
    /\ step' = "verify"
    /\ UNCHANGED <<minDifficulty, categoryFilter, libDir, exampleDir, k, seen,
                   allData, skipped>>

\* Lines 790-797: json.loads of the first line of the written file.
VerifyOk ==
    /\ step = "verify"
    /\ output # <<>>
    /\ step' = "done"
    /\ UNCHANGED <<minDifficulty, categoryFilter, libDir, exampleDir, k, seen,
                   allData, output, skipped>>

\* An empty file: json.loads('') raises JSONDecodeError.
VerifyEmpty ==
    /\ step = "verify"
    /\ output = <<>>
    /\ step' = "crashed"
    /\ UNCHANGED <<minDifficulty, categoryFilter, libDir, exampleDir, k, seen,
                   allData, output, skipped>>

Next ==
    \/ LibFile \/ LibDone \/ ExampleFile \/ ExamplesDone \/ Synthetic
    \/ Extension \/ Http \/ Diverse \/ Write \/ VerifyOk \/ VerifyEmpty

Spec == Init /\ [][Next]_vars

-----------------------------------------------------------------------------
(* Properties *)

TypeOK ==
    /\ step \in Steps
    /\ k \in 0..Max({Len(libDir), Len(exampleDir)})
    /\ seen \subseteq {libDir[i].name.lower : i \in DOMAIN libDir}
    /\ skipped \subseteq seen
    /\ Len(output) \in {0, Len(allData)}

\* Every sample holds exactly `slots` instruction records: the program's
\* instructions first, as to_dict writes them, then padding records with
\* valid = 0 (spec, "Sample"), whatever the source and the program length.
SlotsFixed ==
    \A i \in DOMAIN allData :
        LET s == allData[i] IN
        /\ Len(s.instructions) = Slots
        /\ \A j \in 1..Slots :
             s.instructions[j] = IF j <= Len(s.program) THEN ToDict(s.program[j])
                                                        ELSE PadSlot

\* Every sample written meets the command-line filters (--difficulty N:
\* "include only samples with difficulty >= N"; --category CAT: "only
\* samples matching category prefix"), whichever source produced it; a
\* sample without a difficulty counts as difficulty 1, as filter_samples
\* reads it.
FilterRespected ==
    \A i \in DOMAIN output :
        LET s == output[i] IN
        /\ (IF s.difficulty = NoDifficulty THEN 1 ELSE s.difficulty) >= minDifficulty
        /\ categoryFilter \in {NoFilter, ""} \/ StartsWith(s.category, categoryFilter)

\* How a decoded program d may differ from the program p that was
\* assembled: not at all, or, for a binary cut short, by ending early,
\* its last instruction at most losing its immediate.
DecodedFrom(d, p) ==
    \/ d = p
    \/ /\ Len(d) <= Len(p) /\ d # <<>>
       /\ SubSeq(d, 1, Len(d) - 1) = SubSeq(p, 1, Len(d) - 1)
       /\ d[Len(d)] \in {p[Len(d)], [p[Len(d)] EXCEPT !.has_imm = 0, !.imm = 0]}

\* Every lib/ and examples/ sample carries the instructions its file was
\* assembled to, each field decoded from the right bits of the right word
\* and each immediate from the word after its opcode (decode_binary,
\* lines 176-206); a binary cut short never yields a misread instruction,
\* only a shorter program whose last instruction may lack its immediate.
ProgramAsAssembled ==
    \A i \in DOMAIN allData :
        LET s == allData[i]
            files == IF s.source = "lib" THEN Range(libDir) ELSE Range(exampleDir)
        IN  s.source \in {"lib", "examples"} =>
              \E f \in files : f.name = s.name /\ DecodedFrom(s.program, f.prog)

\* An example is skipped as "already covered by lib/" (line 305) only
\* when lib/ really produced samples for that function.
SkippedOnlyIfCovered ==
    \A n \in skipped :
        \E i \in DOMAIN allData : allData[i].source = "lib" /\ Lower(allData[i].name) = n

=============================================================================
