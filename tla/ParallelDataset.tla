-------------------------- MODULE ParallelDataset --------------------------
(***************************************************************************)
(* ParallelDataset (src/train/parallel/train.py, lines 36-136): loading a *)
(* JSONL training file line by line under the --max-samples cap, and      *)
(* __getitem__, which turns one sample into byte tokens and per-slot      *)
(* targets for the eight prediction heads.  The immediate decoding of     *)
(* test_inference.py (decode_instruction) is included so that the       *)
(* training encoding can be compared with the way predictions are read.   *)
(*                                                                         *)
(* A file line is BadJson (json.loads raises JSONDecodeError), NonObject  *)
(* (valid JSON that is not an object, so item.get raises AttributeError)  *)
(* or a record whose text fields are sequences of Unicode code points.   *)
(* A missing key is the same as the default .get supplies (0 or empty).   *)
(***************************************************************************)
EXTENDS Integers, Sequences, FiniteSets, SequencesExt, FiniteSetsExt

CONSTANTS
    NumSlots,        \* NUM_SLOTS (64 in model.py)
    MaxSeqLen,       \* --max-seq-len
    Lines,           \* the lines a training file may contain
    MaxLines,        \* bound on the length of a training file
    MaxSamplesOpts,  \* values of --max-samples; 0 stands for None
    BadJson,         \* model value: an unparseable line
    NonObject,       \* model value: a JSON array, string, number or null
    NoItem           \* model value: no __getitem__ call made yet

ASSUME NumSlots \in Nat \ {0} /\ MaxSeqLen \in Nat \ {0} /\ MaxLines \in Nat
ASSUME MaxSamplesOpts \subseteq Nat

VARIABLES
    file,        \* the lines of the JSONL file
    i,           \* enumerate index of the next line to read
    maxSamples,  \* the --max-samples argument
    samples,     \* self.samples
    phase,       \* "load", "ready" (constructor returned) or "crashed"
    idx,         \* index argument of the last __getitem__ call
    item         \* the dict that call returned

vars == <<file, i, maxSamples, samples, phase, idx, item>>

PadToken == 256

Fields == {"valid", "opcode", "mode", "rd", "rs1", "rs2", "has_imm", "imm_bin"}

\* Upper clamps of __getitem__ (lines 116-120).
Clamp == [opcode |-> 32, mode |-> 7, rd |-> 31, rs1 |-> 31, rs2 |-> 31]

\* Class counts of the heads (model.py lines 51-55, 182-189).
ClassCount == [valid |-> 2, opcode |-> 33, mode |-> 8, rd |-> 32, rs1 |-> 32,
               rs2 |-> 32, has_imm |-> 2, imm_bin |-> 256]

IsRecord(l) == l \notin {BadJson, NonObject}

\* UTF-8 encoding of one code point, as str.encode('utf-8') produces it.
Utf8(c) ==
    CASE c < 128     -> <<c>>
      [] c < 2048    -> <<192 + c \div 64, 128 + (c % 64)>>
      [] c < 65536   -> <<224 + c \div 4096, 128 + ((c \div 64) % 64), 128 + (c % 64)>>
      [] OTHER       -> <<240 + c \div 262144, 128 + ((c \div 4096) % 64),
                          128 + ((c \div 64) % 64), 128 + (c % 64)>>

Encode(text) == FlattenSeq([k \in DOMAIN text |-> Utf8(text[k])])

\* item.get('context') or item.get('prompt', ''): an empty context falls
\* back to the prompt.
TextOf(l) == IF l.context # <<>> THEN l.context ELSE l.prompt

\* Variant: the `not text` test is missing.
UsableNoTextCheck(l) == l.instructions # <<>>

\* The constructor keeps a record only when text and instructions are
\* both non-empty (line 63).
Usable(l) == TextOf(l) # <<>> /\ l.instructions # <<>>

AsSample(l) == [text |-> TextOf(l), instructions |-> l.instructions]

\* Variant: the cap is tested with `>`, one line late.
CapReachedOffByOne(n, k) == n # 0 /\ k > n

\* if max_samples and i >= max_samples: break
CapReached(n, k) == n # 0 /\ k >= n

\* Variant: tokens padded with 0, the id of the NUL byte.
TokensPadZero(text) ==
    LET b == Encode(text)
        t == SubSeq(b, 1, Min({Len(b), MaxSeqLen}))
    IN  t \o [k \in 1..(MaxSeqLen - Len(t)) |-> 0]

\* __getitem__, lines 84-104: byte tokens truncated to max_seq_len and
\* padded with 256.
Tokens(text) ==
    LET b == Encode(text)
        t == SubSeq(b, 1, Min({Len(b), MaxSeqLen}))
    IN  t \o [k \in 1..(MaxSeqLen - Len(t)) |-> PadToken]

\* The label of one field of one instruction (lines 113-123): five fields
\* clamped from above only, valid and has_imm copied, imm_bin taken % 256.
Label(f, ins) ==
    CASE f \in DOMAIN Clamp -> Min({ins[f], Clamp[f]})
      [] f = "imm_bin"      -> ins[f] % 256
      [] OTHER              -> ins[f]

\* Targets start as zeros of length num_slots and the first num_slots
\* instructions overwrite their slots (lines 94-123).
Targets(instrs) ==
    [f \in Fields |-> [s \in 1..NumSlots |->
        IF s <= Len(instrs) THEN Label(f, instrs[s]) ELSE 0]]

GetItem(sample) ==
    [tokens |-> Tokens(sample.text), targets |-> Targets(sample.instructions)]

\* test_inference.py decode_instruction, line 55: imm = imm_bin - 128.
DecodeImm(bin) == bin - 128

-----------------------------------------------------------------------------

Init ==
    /\ file \in BoundedSeq(Lines, MaxLines)
    /\ maxSamples \in MaxSamplesOpts
    /\ i = 0
    /\ samples = <<>>
    /\ phase = "load"
    /\ idx = 0
    /\ item = NoItem

\* The next line exists and the cap has not been reached.
CanRead == phase = "load" /\ i < Len(file) /\ ~CapReached(maxSamples, i)

\* A parsed record: kept if usable, skipped by `continue` otherwise.
ReadRecord ==
    /\ CanRead
    /\ IsRecord(file[i + 1])
    /\ samples' = IF Usable(file[i + 1])
                    THEN Append(samples, AsSample(file[i + 1]))
                    ELSE samples
    /\ i' = i + 1
    /\ UNCHANGED <<file, maxSamples, phase, idx, item>>

\* json.JSONDecodeError is caught and the line skipped.
SkipBadJson ==
    /\ CanRead
    /\ file[i + 1] = BadJson
    /\ i' = i + 1
    /\ UNCHANGED <<file, maxSamples, samples, phase, idx, item>>

\* A non-object line: item.get raises AttributeError, which the except
\* clause (JSONDecodeError, KeyError) does not catch.
LoadCrash ==
    /\ CanRead
    /\ file[i + 1] = NonObject
    /\ phase' = "crashed"
    /\ UNCHANGED <<file, i, maxSamples, samples, idx, item>>

\* The loop breaks at the cap, or the file is exhausted.
LoadDone ==
    /\ phase = "load"
    /\ i = Len(file) \/ CapReached(maxSamples, i)
    /\ phase' = "ready"
    /\ UNCHANGED <<file, i, maxSamples, samples, idx, item>>

\* A DataLoader worker calls __getitem__(k).
Get ==
    /\ phase = "ready"
    /\ \E k \in 1..Len(samples) :
         /\ idx' = k
         /\ item' = GetItem(samples[k])
    /\ UNCHANGED <<file, i, maxSamples, samples, phase>>

Next == ReadRecord \/ SkipBadJson \/ LoadCrash \/ LoadDone \/ Get

Spec == Init /\ [][Next]_vars

-----------------------------------------------------------------------------
(* Properties *)

Instr == [Fields -> Int]

TypeOK ==
    /\ i \in 0..Len(file)
    /\ phase \in {"load", "ready", "crashed"}
    /\ samples \in Seq([text : Seq(Nat) \ {<<>>}, instructions : Seq(Instr) \ {<<>>}])
    /\ Len(samples) <= i
    /\ idx \in 0..Len(samples)
    /\ item = NoItem \/ DOMAIN item = {"tokens", "targets"}

\* The lines the constructor's loop may look at before it breaks.
Scanned == IF maxSamples = 0 THEN Len(file) ELSE Min({maxSamples, Len(file)})

\* Loading is a filter: once the constructor returns, self.samples holds,
\* in file order, exactly the records among the lines before the cap that
\* carry text and instructions (lines 51-72), with the prompt used where
\* the context is empty.
LoadFaithful ==
    phase = "ready" =>
        LET kept == SelectSeq(SubSeq(file, 1, Scanned),
                              LAMBDA l : IsRecord(l) /\ Usable(l))
        IN  samples = [k \in DOMAIN kept |-> AsSample(kept[k])]

\* Every item __getitem__ returns is shaped as the model expects (spec,
\* "Training data format"): max_seq_len tokens, the encoded text first and
\* the padding id 256 after it and nowhere else, and num_slots targets per
\* head, slots past the sample's instructions all 0.
ItemWellFormed ==
    item # NoItem =>
        LET b == Encode(samples[idx].text)
            n == Len(samples[idx].instructions)
        IN  /\ Len(item.tokens) = MaxSeqLen
            /\ \A k \in 1..MaxSeqLen :
                 IF k <= Len(b) THEN item.tokens[k] = b[k]
                                ELSE item.tokens[k] = PadToken
            /\ \A f \in Fields :
                 /\ Len(item.targets[f]) = NumSlots
                 /\ \A s \in (n + 1)..NumSlots : item.targets[f][s] = 0

\* Every label is a class of its head (model.py lines 182-189), as the
\* spec requires of the loader: out-of-range register, opcode and mode
\* values are clamped to the valid class range when loaded.
LabelsInRange ==
    item # NoItem =>
        \A f \in Fields, s \in 1..NumSlots :
            item.targets[f][s] \in 0..(ClassCount[f] - 1)

\* An immediate that fits one signed byte is read back by
\* decode_instruction (test_inference.py line 55) as the value the
\* loader trained on (line 123).
ImmRoundTrip ==
    item # NoItem =>
        \A s \in 1..Min({NumSlots, Len(samples[idx].instructions)}) :
            LET imm == samples[idx].instructions[s].imm_bin IN
            (item.targets["has_imm"][s] = 1 /\ imm \in -128..127)
                => DecodeImm(item.targets["imm_bin"][s]) = imm

=============================================================================
