# Model-checking the neurlang parallel instruction trainer

This directory holds TLA+ models of the training side of neurlang
(`src/train`), the TLC configurations that check them, and `PROJECT.json`,
which maps every modelled definition to the source lines it translates and
lists the runs, mutants, findings and hazards.

## The system

`src/train` turns natural-language prompts into neurlang machine code by
training a non-autoregressive model. It has four parts, and they interact
only through files:

| Part | Source | State and operations |
|---|---|---|
| Data generation | `generate_training_data.py`, `generators/*.py` | Parses example files and runs the assembler. `decode_binary` turns code into instruction slots, `pad_instructions` pads or truncates to 64 slots, and the pattern generators (synthetic, diverse, extension, HTTP) and `RegisterAllocator` synthesise more programs. It writes a JSONL file. |
| Dataset | `parallel/train.py` `ParallelDataset`, `collate_fn` | Reads the JSONL and caps it by `max_samples`. Tokenizes as bytes with padding 256, builds per-slot targets, clamps fields from above, and quantises the immediate with `imm % 256`. |
| Model and loss | `parallel/model.py` | The encoder, cross-attention slot decoder and 8 heads, and `ParallelInstructionLoss`, a masked per-head cross-entropy. |
| Training orchestration | `parallel/train.py` `main`, `train_epoch`, `evaluate` | Splits train and val data, optionally resumes from `--checkpoint`, and runs the epoch loop: train, evaluate, select on `opcode_acc`, save `best_model.pt`, patience and early stop, `scheduler.step()`. Then it saves the final `.pt` and writes `.config.json`. |
| Export and inference | `parallel/export_onnx.py`, `parallel/test_inference.py` | Loads a checkpoint, exports ONNX and then verifies it, or decodes predictions back to assembly. |

Orchestration is the part with real control state. Across launches of the
training process it has:

- a set of files: `best_model.pt`, the final model and the config;
- process memory that a kill loses: `best_opcode_acc`, `patience_counter`, the epoch and the scheduler.

The hard behaviours are:

- a kill while `torch.save` is writing a file in place;
- a later launch resuming from whichever checkpoint is on disk;
- the interplay of strict selection, patience and the epoch budget;
- the degenerate dataset sizes at which a split is empty.

## Modules

### `TrainLoop.tla` — training orchestration (`train.py` 150-426)

**State.** The variables fall into three groups:

- **Files on disk**, which survive a kill: `bestFile`, `finalFile` and `configFile`.
  - Each is `NoFile`, `Torn` (a write interrupted mid-way) or a record of what was written.
  - `bestFile` records the epoch, the accuracy and the launch that wrote it.
- **Process memory**, which a kill loses:
  - `pc`: the statement `main` is at;
  - `budget`: `--epochs`;
  - `startEpoch` and `epoch`;
  - `bestAcc`: `best_opcode_acc`;
  - `patience`: `patience_counter`;
  - `schedSteps`: the number of `scheduler.step()` calls;
  - `valAcc`;
  - `nSamples`: the dataset size.
- **History** for the properties: the number of launches, the exit reason of the last one, and the sequence of evaluated epochs of the current launch (`evals`) and of all launches (`allEvals`).

**Actions.** Each action is one step of `main`:

| Action | Code |
|---|---|
| `Launch` | A process starts with a dataset size, an `--epochs` value and a `--checkpoint` choice: none, `best_model.pt` or the final `.pt`. It sets `start_epoch` from `checkpoint['epoch']` (line 348), or 0 for a bare state dict. It resets `best_opcode_acc` and `patience_counter` (367-369) and enters the loop or skips it. |
| `LaunchFails` | `DataLoader(shuffle=True)` gets an empty train split, or `torch.load` gets a torn file. |
| `TrainEpoch` | `train_epoch`. |
| `Evaluate` | `evaluate` returns some `opcode_acc`. |
| `EvaluateEmpty` | The val split is empty, so line 382 raises `KeyError`. |
| `SelectImprove` | The `>` branch (387-398). It also begins `torch.save` of `best_model.pt`. |
| `SaveBestDone` | That `torch.save` completes. |
| `SelectNoImprove` | The patience branch with `break` (401-405). |
| `EndOfEpoch` | `scheduler.step()` and the `for` header. |
| `SaveFinalBegin` | The final `torch.save` (411) begins. |
| `SaveFinalDone` | That save completes. |
| `WriteConfig` | The config is written with `epoch + 1`. |
| `WriteConfigUnbound` | The loop never ran, so `epoch` is unbound and line 421 raises `NameError`. |
| `Kill` | The environment ends the process at any statement. |

**Abstraction.** Accuracies come from a small set of values (`Acc`). Per-batch training numerics are one step. Dataset sizes come from `DataSizes`, and the split uses `(n * ValSplitPct) \div 100`, which is the code's `int(n * 0.1)`.

**Helper operators.** Over the sequence of evaluated epochs, with names as in the module:

- `MaxAcc`: the highest accuracy;
- `FirstMax`: the first epoch that reaches it;
- `Streak`: the length of the run of non-improving epochs, recursive.

`MCTrainLoop.tla` gives the constants small values for TLC.

### `ModelSelection.tla` — what one launch promises, and its refinement

`ModelSelection` is the abstract specification of model selection in one
launch, with no epochs, scheduler or files:

- `seen` is the sequence of accuracies seen;
- `kept` is `[at, acc]`, the position and accuracy of the kept model (0 for none);
- `phase` is `idle`, `running` or `stopped`.

Its actions are `Begin`, `Fail` (stop before beginning), `Observe(a)` and `Stop`.
`Observe(a)` keeps `a` only if it is strictly above the kept accuracy.
The fairness `WF(Stop)` says that a launch that has begun eventually stops.

`TrainLoop` defines `Selection == INSTANCE ModelSelection WITH ...`, with this mapping:

- `seen` is the accuracies of `evals`;
- `kept` is `best_model.pt`'s epoch, counted from the launch's first, and its accuracy. While `torch.save` of it runs (`pc = "save_best"`), it is the model being saved.
- `phase` is `idle` before the first launch, `running` while a process runs, and `stopped` afterwards.

`ImplementsSelection == Selection!Spec` is checked in `train_single`. It says the following:

- every selection step is one `Observe`;
- the save completes the same model the selection chose;
- every other step stutters;
- the launch ends.

It is not claimed with kills or resume. A kill during the save leaves the file torn, and resume restarts the kept accuracy at 0.0; runs `train_kill_during_save` and `train_resume_best` show both.

### `ParallelDataset.tla` — loading and `__getitem__` (`train.py` 36-136)

**State.** The module holds:

- the file (a sequence of lines);
- the `enumerate` index `i`;
- `--max-samples` (0 stands for None);
- `self.samples`;
- the constructor's phase: loading, returned or crashed;
- the index and result of the last `__getitem__` call.

A line is one of:

- `BadJson`, which `json.loads` rejects;
- `NonObject`: valid JSON that is not an object;
- a record with `context`, `prompt` (sequences of Unicode code points) and `instructions`.

**Actions.** Each action is one iteration of the constructor's loop, or one `__getitem__` call:

| Action | Code |
|---|---|
| `ReadRecord` | Keeps a record only if it has text and instructions. |
| `SkipBadJson` | Skips a line `json.loads` rejects. |
| `LoadCrash` | `item.get` on a non-object raises `AttributeError`, which is not caught. |
| `LoadDone` | The cap `break` or the end of the file. |
| `Get` | One `__getitem__` call. |

**Operators.** `__getitem__` is built from operators that translate lines 84-123:

- `Tokens`: UTF-8 encoding, truncation to `max_seq_len` and padding with 256;
- `Targets`: zero-initialised slots and the first `num_slots` instructions;
- `Label`: the upper clamps, and `imm % 256`.

`DecodeImm` is the immediate decode of `test_inference.py`.

`MCParallelDataset.tla` defines the small inputs:

- three instruction shapes: an ADD, a backward branch with immediate -24, and one with out-of-range fields;
- texts of 1-, 2- and 3-byte code points.

### `EvalMetrics.tla` — one validation pass (`train.py` 139-147, 212-269; `model.py` 264-340)

This module models `evaluate`'s batch loop, with `ParallelInstructionLoss` scoring each batch.

**Inputs.** The batches come from `collate_fn`. It stacks the targets that `ParallelDataset`'s `__getitem__` builds, which the module takes by `INSTANCE ParallelDataset`. The loader has `shuffle=False`, so the batches come in split order, and the last one may be short.

**Abstraction.** The network is not modelled. For each slot, a prediction is the set of heads it gets wrong, drawn from `Outcomes`. Cross-entropy is replaced by a 0-1 loss per slot and head. This keeps every mask, sum, divisor and average of the code. Losses are exact fractions in lowest terms. The `1e-8` on the divisor matters only when the divisor is 0, and then the masked sum is 0 too.

**State.**
- The split and the batch size.
- The next batch and the history of predictions (`wrong`).
- `total_losses`, `correct_valid`, `correct_opcode`, `total_valid` and `total_slots`.
- The returned dict (`result`).

**Actions.**
- `EvalBatch` is one loop iteration. The criterion's losses (`BatchLosses`, `HeadLoss`, `Weight`) are added to the totals. Then the argmax predictions are counted: opcodes only on slots whose valid target is 1 (`OpcodeHits`), and slots as `size(0) * size(1)` (`BatchSlots`).
- `Finish` averages over `len(loader)` batches and divides the counts, each divisor at least 1.

`MCEvalMetrics.tla` has splits of up to three samples with two slots each. The samples are one real instruction followed by padding, two real instructions, and padding only. This gives batches with no real instruction at all.

### `GenerateTrainingData.tla` — the data generator's `main` (`generate_training_data.py` 633-797)

**State.**

- The command line (`--difficulty`, `--category`).
- The `lib/` and `examples/` listings.
- The step of `main`, and the file index of the current loop.
- `seen_functions` and `all_data`.
- The written file, as a sequence of samples.
- A history of the example names skipped as "already covered by lib/".

**Actions.** There is one action per step of `main`; the two directory loops take one action per file:

| Action | Code |
|---|---|
| `LibFile` | One iteration of `generate_lib_data`: parse, then record the name in `seen_functions`, then the filters, prompts and assembly. |
| `LibDone` | The `lib/` loop ends, or `lib/` or the `nl` binary is absent. |
| `ExampleFile` | One iteration of `generate_examples_data`: the name test, filters and assembly. |
| `ExamplesDone` | The `examples/` loop ends. |
| `Synthetic` | `generate_synthetic_data`, including its early return for strict filters. |
| `Extension`, `Http`, `Diverse` | Generate, then `filter_samples`. |
| `Write` | `random.shuffle`, as a choice among all permutations, then the JSONL write. |
| `VerifyOk`, `VerifyEmpty` | The read-back of the first line. |

**Abstraction.**

- A `.nl` file is what `parse_example_file`/`assemble_example` make of it: its header fields, whether it is a server example, whether it has prompts, the program its source stands for (`prog`), and the bytes of the `.nlb` file the assembler wrote (`asm`), or `AsmFail`.
- `decode_binary` (176-206) is translated byte by byte (`DecodeBinary`, `DecodeFrom`). It covers the magic and length check, `code_len` read little-endian, and the code cut at `16 + code_len` or at the file's end. Each word's fields are taken from the bits of its bytes, so TLC never builds a 32-bit word past its integer range. An immediate follows only an opcode in `EXTENDED_OPCODES`, and only when its four bytes are there. It is read as two's complement.
- The assembler is not in this repository. `MCGenerateTrainingData` writes binaries in the format `decode_binary` reads (`Encode`), with its own set of opcodes that carry an immediate, so the decoder's `EXTENDED_OPCODES` is checked against it rather than against itself.
- A name is a record of its written and lower-cased forms.
- Each generator is represented by the metadata it attaches and a small set of programs it may emit. `DiverseMeta` is the set of (category, difficulty) pairs found in `diverse_patterns.py`.
- `pad_instructions` and `Instruction.to_dict` are translated directly. The slot count is the constant `Slots` (64 in the code; 2 in the runs).

### `NeurlangVM.tla` — the machine the generated programs run on

The four program generators (synthetic, diverse, extension, HTTP) write instruction
lists, and these lists are the training targets. A template whose program
does not do what its prompt says teaches the model a wrong program, so the
project runs every generated program.

**The VM semantics are an assumption.** The neurlang VM is not in this
repository. Its semantics are read from the generators' opcode tables
(`diverse_patterns.py` 19-58, `ExtensionPatternGenerator` and
`HTTPPatternGenerator` class attributes), their comments, and the one
convention `diverse_patterns.py` agrees on:

- r31 reads as zero, and writes to it are lost (line 91).
- `OP_ALU` is register-register, and `OP_ALUI` takes the immediate.
- A taken branch, a jump or a call goes to `pc + BranchBase + imm`.
- `OP_CALL` pushes the next pc, and `OP_RET` pops it. A `RET` with nothing to pop returns from the routine: the HTTP templates are routines that end in `RET`.
- `EXT_CALL id, rd, rs1, rs2` calls host function `id` with its arguments in those registers, and leaves its result in r0 ("parse -> r0 = handle", `extension_patterns.py` line 436).
- `LOAD` reads a cell of `mem` if `mem` has that address. Otherwise it reads a byte of one of the buffers at 0x1000·k, or of the array at 0x100 that `SyntheticGenerator` loads from. The buffer at 0x1000 holds the request followed by zeros; the others hold any byte of `Bytes`.
- `STORE` writes `mem` and changes no register. `mem` starts as the cells a diverse memory or string template is given: an array at 0x10000, two strings, a destination. A cell holds the whole value an access of any width moves, because no template accesses one address at two widths.

`StoreAddrField` is a constant because the generators disagree on which
`STORE` operand holds the address. `ExtensionPatternGenerator._store`
("store rs, [rd + offset]") and `HTTPPatternGenerator._store_byte` put
it in `rd`. The diverse templates put the value in `rd` and the address
in `rs1`. The `programs` run uses `"rs1"`, because only diverse templates
reach a store in it. The other runs use `"rd"`.

`BranchBase` is a constant because the files are not consistent about it:

- With 0 (offsets count from the branch), every diverse loop template and `json_array_iterate` are right.
- With 1 (offsets count from the next instruction), `gen_min_max` is right and the loops are not.

**State.** The machine has these variables:

- the program `prog`, the register file `rf`, `pc`, the call `stack` and `status` ("running", "halted" or "returned");
- the `request` bytes, and the memory cells `mem`;
- the host `handles`, numbered from `HandleBase`, each with its kind (json, http, db, stmt, tls) and whether it is still open;
- the SQLite transaction `txn`, and whether the last `EXT_SQLITE_STEP` failed.

**Actions.** There is one action per opcode: `ExecMov`, `ExecAlu`,
`ExecAluImm`, `ExecMulDiv`, `ExecLoad`, `ExecStore`, `ExecBranch`,
`ExecJump`, `ExecCall`, `ExecRet`, `ExecRetTop`, `ExecNet` and `ExecHalt`.
Host calls have two actions:

- `ExecExtOpen` is a call that returns a fresh handle.
- `ExecExtCall` is any other call. Its result comes from `ExtValues`, or from `ArrayLens` for `EXT_JSON_ARRAY_LEN`. It marks a freed handle released, and it moves the transaction on BEGIN, COMMIT and ROLLBACK.

A fault is a state in which no action is enabled. The faults are:

- a pc outside the program;
- division by zero;
- a stack past `MaxDepth`;
- a value beyond `MaxValue`;
- a load or store outside the buffers and the cells of `mem`;
- a branch mode no generator defines (`gen_gcd_variant`'s mode 7).

Every definition of this module is marked `spec_modelled` in the map,
except the opcodes, modes and host-function ids, which map to the lines
that define them.

### `DiversePatterns.tla` — the diverse templates (`generators/diverse_patterns.py` 19-1808)

Each `gen_<name>(r, p)` is the instruction list of the method of that
name, with the allocation `r` and the random draws `p`.

**The allocation is canonical.** `RegisterAllocator` shuffles
`range(32)` minus r31 and hands the registers out in order. A template
tells only three kinds of register apart: r0 (the input), r30 (which
some templates use as scratch) and any other register. `Allocations(k)`
therefore gives every injective assignment of the k names to r0, r30
or "another register", numbered 1, 2, … in order of first use. A
program over any concrete allocation behaves like its canonical one.
`copy_memory`, `string_copy` and `string_compare` also read r1, so for
them `AllocationsR1(k)` tells r1 apart too and numbers the others from 2.

**Prompts.** `Want(g, p, x)` is what the prompt asks for: a sum, n!, gcd,
a popcount, a comparison, and so on. It is built from reference
definitions (`Factorial`, `Fib`, `Popcount` and `ReverseBits` are
`RECURSIVE`; `GCD` is a `CHOOSE`).

**Memory, string and extension-call templates** (lines 685-876 and
1604-1808). These run on the cells `mem` is given. `MemWant` is what the
prompts that name a value ask for: an element, a sum, the index of a
search or -1, a string length, or the first difference of two strings.
`StrLen` and `FirstDiff` are `CHOOSE` definitions. `WantCells` is the
whole memory that swap, `memcpy` and `strcpy` must leave: the named
cells moved, and every other cell as it was.

TLC shows four of these templates wrong:

- `array_search` skips its "found" MOV with `JUMP +1`. Under the loops'
  `BranchBase` 0 that jump skips nothing, so a search that misses
  returns the count, not -1.
- `copy_memory` and `string_copy` copy r0 into their first named
  register before they read r1. When that register is r1, the source is
  copied onto itself.
- `string_compare` returns 0 for every pair of strings, under either
  base. Its not-equal branch lands on the `JUMP`, and the `JUMP` lands
  on the "equal" `MOV r0, 0`.

The three extension-call templates write the host-function id into the
mode field, with `has_imm` 0. The VM reads the id from the immediate,
so these programs call function 0. They run in the `programs` run, and
their prompts name no value.

### `ExtensionPatterns.tla` — the host-function templates (`generators/extension_patterns.py` 62-825)

Each `ext_<name>(p)` is the instruction list of `gen_<name>`. `p.id` is
the host function the method's random choice selects: which hash, which
HMAC, sign or verify, encrypt or decrypt, which JSON getter, encode or
decode. The other choices only change the prompt. The base64 and URL
templates have the same shape and share `ext_codec_pattern`.

### `HttpPatterns.tla` — the HTTP templates (`generators/http_patterns.py` 194-958)

Each `http_<name>` is the instruction list of `gen_<name>`. Their random
choices only change the prompt, so each method has one program. The
"stubs" a template calls are RET-ending tails of the same list.

### `SyntheticPatterns.tla` — `SyntheticGenerator`'s templates (`generate_training_data.py` 342-567)

`SynthProgram(g, p)` is the instruction list of `gen_<g>` with the random
draws `p`, field for field as the method writes its `Instruction(...)`
calls. `SynthWant` is what the prompts that name a number ask for.

Unlike the diverse templates, which compare with the zero register r31,
every branch of these templates names r0 as both `rs1` and `rs2`. So
`BR_GT` is never taken and `BR_EQ`, `BR_GE` and `BR_LE` always are.
Under that convention only `simple_arithmetic` computes its prompt. The
others halt with a wrong answer, and `gcd_variant` stops at its mode-7
branch. The `programs` run checks the eight that halt for
`StaysInProgram` and `Terminates`, and `simple_arithmetic` for
`ComputesPrompt`. The rest is a hazard (line 423).

### `PatternPrograms.tla` — drawing and running a program

`Init` draws a generator method `gen`, its choices `par`, the allocation
`alloc` (diverse only), the input `input` in r0, the request bytes, and
the `image`: r1 and the memory cells.
It then loads the method's program into `NeurlangVM`. After that only
the machine moves.

- `Next` has one disjunct per instruction kind.
- `NextIO` adds `ExecNet`. No program of the `programs` run reaches a NET. Only the HTTP response templates reach one, and they leave their program right after it. Every STORE of the HTTP templates sits behind a branch that is always taken, so the only stores in the `programs` run are the diverse ones.

`MCPatternPrograms.tla` gives the constants: the draws per method, the
inputs, the requests, and the sets `MCSound`, `MCControl`,
`MCHttpControl`, `MCSynthControl` and `MCSynthSound` that the runs use.

## Runs

| Run (cfg) | Expect | Checks | What it shows |
|---|---|---|---|
| `train_single` (`TrainSingle.cfg`) | pass | `ConfigMatchesBest`, `ImplementsSelection` | In one uninterrupted launch, for every accuracy sequence (`Acc = {0,1,2}`, budgets 2 and 4, patience 2), `config.json` agrees with the epoch `best_model.pt` holds, and the launch refines `ModelSelection`: `best_model.pt` always holds the first epoch of highest accuracy seen so far. The loop invariants `BestIsLaunchMax` and `StopsWhenPatienceExhausted` are checked in `train_kill_resume`, whose behaviours include these. |
| `train_kill_resume` (`TrainKillResume.cfg`) | pass | `TypeOK`, `BestIsLaunchMax`, `StopsWhenPatienceExhausted` | The same selection and early-stop properties hold per launch under kills at any step, resume from either file, and dataset sizes 0, 5 and 20. This run fires every action, including both failure paths of a launch and `EvaluateEmpty`. |
| `train_resume_best` | violation | `BestRetainsMax` | A resumed launch replaces `best_model.pt` with a worse model, because `best_opcode_acc` restarts at 0.0 (line 368). |
| `train_kill_during_save` | violation | `BestFileIntact` | A kill during `torch.save` at line 399 leaves `best_model.pt` torn. In the trace it is the first save; a later one would destroy the previous best the same way. |

| `dataset_load` (`DatasetLoad.cfg`) | pass | `TypeOK`, `LoadFaithful`, `ItemWellFormed` | This covers every file of up to three lines, with no cap and with cap 2. The loaded samples are exactly the usable records before the cap, in order; this is checked against a `SelectSeq` reference definition. Every item has `max_seq_len` tokens, with 256 only after the encoded text, and zero-padded targets. |
| `dataset_imm` | violation | `ImmRoundTrip` | The immediate -24 is trained as bin 232 and decoded as 104. |
| `eval_pass` (`EvalPass.cfg`) | pass | `TypeOK`, `ReportedLossesMasked`, `AccuracyOverSplit` | It covers every split of up to three samples at batch sizes 1 and 2, under every combination of predictions. Each reported loss is the mean over batches of the spec's masked average, and an all-padding batch adds 0 without a division by zero. `total` is the weighted sum of the reported heads. `opcode_acc` and `valid_acc` are ratios over the whole split, whatever the batch boundaries. The run reaches 86,532 states. |

| `gen_pipeline` (`GenPipeline.cfg`) | pass | `TypeOK`, `SlotsFixed`, `ProgramAsAssembled` | This covers no category filter, `""`, `loop` and `alg`, at difficulty 0 and 3, over every listing and every generated program and pattern. Every sample has exactly `Slots` records, the program's own instructions first. Every `lib/` and `examples/` sample carries the program its file was assembled to, with registers split across bytes, a negative immediate and opcode 0x20. A binary whose last immediate is cut in half decodes to the same program, except that the last instruction loses its immediate. A binary shorter than its header gives no sample. |

| `programs` (`Programs.cfg`) | pass | `TypeOK`, `StaysInProgram`, `ComputesPrompt`, `StoresPrompt`, `UsesOpenHandle`, `HandlesReleased`, `Terminates` | This covers 39 diverse templates under every canonical allocation, all 18 extension templates under every host function they choose and every host result, and the 6 HTTP templates that stay in their list. Each program executes only its own instructions and ends. Every host call that takes a handle gets an open handle of its kind. Every JSON, HTTP and TLS handle is released when the program ends. The 22 diverse templates in `MCSound` compute their prompt's answer. These include `array_access`, `array_sum` and `string_length`, which read memory. `StoresPrompt` shows that `swap_memory` leaves exactly the swapped cells. Eight of the nine `SyntheticGenerator` templates (all but `gcd_variant`) stay on their instructions and halt, and `simple_arithmetic` computes its prompt. |
| `diverse_reserved_reg` | violation | `ComputesPrompt` | `RegisterAllocator` can hand out r0. `gen_if_else` then loads its threshold over the input, so the answer ignores the input. |
| `ext_commit_on_error` | violation | `CommitOnlyAfterSuccess` | `gen_sqlite_transaction_pattern`'s "if error, rollback" is `BR_NE r0, r0` (line 663), which is never taken. The program commits after a failed step. |
| `http_call_targets` | violation | `StaysInProgram` | `gen_build_response_headers` calls its strcpy stub with `_call(8)` from four call sites (line 827). A call's offset is relative to the call, so the second call lands at pc 12 of the 11-instruction list, two past its last instruction. Six other HTTP templates do the same. |

Some behaviours are stated as properties in the modules but have no run here:

- `Termination`, which fails for a resume whose budget is spent (`NameError`, line 421) and for datasets too small to split; within the bounds where no launch fails the bounded loop ends by construction, so it is not checked there;
- `LrFollowsEpoch`, the schedule restarting on resume;
- `LabelsInRange`, where labels are clamped only from above;
- `SkippedOnlyIfCovered`, a failed `lib/` file shadowing its example;
- `FilterRespected`, which fails under `--category math`: the synthetic source (line 577) passes every sample for `math` and labels it `algorithm`.

The disagreements they exhibit are recorded as hazards in `PROJECT.json`.

The templates left out of `programs` fail in TLC as well, and `PROJECT.json` lists them as hazards:

- `if_chain` jumps past its end.
- `recursive_fibonacci` and `gcd_subtraction` do not halt. The exit branch of `gcd_subtraction` (line 1155) lands on its own back jump.
- `power_binary` and `bit_count` loop when r30 is allocated.
- Of the HTTP templates, seven reuse one call offset from several call sites. `parse_request_path` and `parse_query_string` loop forever on the byte they look for. `parse_content_type`, `parse_content_length` and `parse_request_body` scan past the request.
- `parse_http_method` and `check_status_code` stay in their list but return the wrong value. A scratch invariant shows this, but no run states it.

The passing runs also reach four more failure paths that no property states. `PROJECT.json` lists them as hazards:

- **`EvaluateEmpty`.** Fewer than 10 samples give an empty validation split, so the first epoch dies with `KeyError`.
- **`LoadCrash`.** A JSON line that is not an object aborts loading with `AttributeError`. The spec says malformed records are skipped.
- **The `--max-samples` cap.** It counts file lines, not samples. `LoadFaithful` pins down this reading.
- **`VerifyEmpty`.** When every sample is filtered out, the generator writes an empty file and then fails to read its first line.

`PROJECT.json` lists each finding with its source line.

Every property of a passing run has a mutant in `PROJECT.json` that TLC rejects. Each mutant is a plausible bug in the mapped code:

| Mutant | Property it breaks |
|---|---|
| `>=` instead of `>` | `BestIsLaunchMax` |
| patience not reset on improvement | `StopsWhenPatienceExhausted` |
| missing `break` | `TypeOK`, because patience exceeds its bound |
| `epochs_trained` off by one | `ConfigMatchesBest` |
| checkpoint saved with `'epoch': epoch + 1` | `ImplementsSelection`, because the file names a model after the one kept |
| `not text` test dropped | `TypeOK`, because a sample has empty text |
| cap tested with `>` | `LoadFaithful` |
| tokens padded with 0 | `ItemWellFormed` |
| `.lower()` forgotten | `TypeOK` |
| `pad_instructions` without the `[:slots]` cut | `SlotsFixed` |
| `EXTENDED_OPCODES` without ExtCall (0x20) | `ProgramAsAssembled`, because the call's immediate is decoded as an instruction |
| `count_loop`'s back branch one instruction too far | `ComputesPrompt` |
| allocator without the `r != 31` filter | `TypeOK` |
| `compare_chain`'s jump one past its target | `StaysInProgram` |
| `gcd_euclidean`'s back jump onto the load of b | `Terminates` |
| `json_parse_extract` frees the document before reading the field | `UsesOpenHandle` |
| `http_get` without the free of its response | `HandlesReleased` |
| `swap_memory` stores t1 back to p1 instead of p2 | `StoresPrompt` |
| opcode count without `& valid_mask` | `TypeOK`, because `correct_opcode` exceeds `total_valid` |
| loss not masked by the valid target | `ReportedLossesMasked` |
| `total_slots` counting samples, not slots | `AccuracyOverSplit` |

## Bounds

- **Accuracies `{0,1,2}`.** This gives ties, improvements and non-improvements, and an epoch with 0 accuracy, which never improves on the initial 0.0.
- **Budgets `{2,4}` with patience 2.** Early stopping can happen before the budget is spent, so it is told apart from running out, and an improvement can reset patience mid-run.
- **Two launches.** This is enough for kill-then-resume and for resume with a smaller budget.
- **Dataset sizes 0, 5 and 20.** These hit an empty train split, an empty val split and a normal split.
- **Dataset: files of up to 3 lines, 2 slots, `max_seq_len` 3, cap 2.** A file can then:
  - contain a skipped line before the cap and a record after it;
  - contain a record with more instructions than slots, and one with fewer;
  - contain a text longer than `max_seq_len` that is cut inside a multi-byte character, and one shorter that is padded.

- **Generator runs.**
  - Two `lib/` and `examples/` trees give a function in both trees under names that differ in case, a `lib/` file that fails to assemble, and a server example.
  - Programs of 2 and 3 instructions against 2 slots exercise both padding and truncation.
  - The assembled binaries hold a register (r12) whose field spans two bytes, a negative immediate (-2), an opcode with the word's top bit set (0x20) and an immediate of two bytes (300). One binary is cut 2 bytes into its last immediate, and one is shorter than its header.
  - Each generator is asked for one sample: the filters act per sample, so more samples repeat the same cases.

- **Validation pass: up to 3 samples, 2 slots, batch sizes 1 and 2.** These give a short last batch, and one batch or several over the same split. A padding-only sample gives an all-padding batch. The three outcomes (all right; the opcode wrong; the validity, a register and the immediate wrong) involve heads of every weight: 1, 2 and 1/2.

- **Diverse templates.**
  - Each `randint` is drawn at both ends, with an inner value where two draws are compared (`min_max`, `gcd`, `compare_chain`).
  - Each `random.choice` is drawn over all of its options.
  - Inputs are -1, 0, 10, 11, 60, 100 and 101. These are each threshold, one on either side of it, and a negative value.
  - `MaxValue` is 2^30 - 1, and `MaxDepth` is 16, above the 9 levels `recursive_factorial` reaches.
  - Two ranges are cut below TLC's 32-bit integers and are named in `MCPatternPrograms`: `0xDEADBEEF` in `load_large_constant` and the squaring of 5 in `power_binary`. `abs_value` is drawn only with its first method, because its second applies `OP_ALU` to an immediate.

- **Memory and string templates.**
  - The arrays hold one element more than the largest count drawn (n = 5 and 20 for sum and search), so a loop that runs once too often reads a value instead of stopping.
  - The search target 100 sits at index 4 (the last element of a 5-element search), at 19, or at 20, outside both counts. This gives a hit at the end and a miss.
  - `array_access` gets both bases, both end indices and every element size, over distinct cell values, so a wrong address reads a wrong value or gets stuck.
  - The `memcpy` source is followed by a byte that must not be copied. The destinations start as 9s, so a cell that was never written is told apart.
  - The strings are "", "abc", "ab" and "a", against "ab", "ac", "a" and "", so a compare sees equal strings, a difference, one string a prefix of the other, and two empty strings.

- **Synthetic templates.** Each `randint` is drawn at both ends. `gcd_variant` gets an inner value, and `conditional_pattern` gets the diverse inputs, including -1. The array at 0x100 has `Window` bytes, which is enough because `array_operation`'s loop never repeats (see above).

- **Extension and HTTP templates.**
  - Host results are 0 and 1 (`ExtValues`). A step then succeeds or fails, and a verify accepts or rejects.
  - Array lengths are 0 and 2 (`ArrayLens`). The loop of `json_array_iterate` is then skipped or taken twice.
  - Buffers have 4 bytes (`Window`). `parse_http_method` reads two.
  - The requests start with "GE", "PO", "PU", "DE" and "HE", plus an empty request. These tell every method apart.
  - `check_status_code` gets 199, 200, 299 and 300: each end of the 2xx range, and one past each.

## Fairness

`main` is single-threaded and never waits on another actor. The DataLoader workers only read. So once the process is running, some step of it is always enabled, and `WF_vars(ProcessStep)` is justified.

`EvalMetrics` also assumes `WF_vars(Next)`, because `evaluate` is a loop over a finite loader with no waiting.

The VM runs one program sequentially, so `PatternPrograms` assumes `WF_vars(Next)`. `CHECK_DEADLOCK FALSE` is set there because a halted or returned program is a final state. A fault is a final state too, and `Terminates` reports it.

Launches and kills come from the user and get no fairness. `CHECK_DEADLOCK FALSE` is set because the campaign really stops after its last launch.

## Not modelled, and why

- **The network and the cross-entropy values** (`model.py` 58-262, 342-end). These are floating-point tensor arithmetic with no discrete control state. `ParallelInstructionLoss`'s masking, weighting and averaging are modelled in `EvalMetrics`, over a 0-1 loss.
- **`gen_min_max`'s branch offset as a run.** With `BranchBase` 0 and `Generators = {"min_max"}`, `ComputesPrompt` fails. The VM's branch base is an assumption of the model and not code of this repository, so this is kept only as a hazard.
- **Argument parsing, printing and the ONNX runtime.** These are pure I/O.
- **`export_onnx.py`.** Its one question is an ordering: `torch.onnx.export` writes the file (line 88) before `onnx.checker.check_model` runs (line 115), so a failed check leaves the file on disk, against spec section 7. A model would hold only that violation, and the project already keeps its limit of twelve runs for questions with more states. It is kept as a hazard.
- **The generators' prompt wording.** It is text, and no property depends on it.

## Plan for later work

1. **Done: `ParallelDataset`.**
2. **Done: `EvalMetrics`.** Still open: `train_epoch`'s accumulation over shuffled batches.
3. **Done: `decode_binary`**, in `GenerateTrainingData`, against an encoder of the format it reads. Still open: whether the assembler writes an immediate word for a register-to-register `MOV`. `decode_binary` always reads one for opcode 0x1C, while the generators label such a `MOV` with `has_imm` 0.
4. **Done: every template on `NeurlangVM`.** This covers all diverse, extension, HTTP and synthetic templates, with memory and stores for the diverse memory and string templates. The synthetic branches (hazard at line 423) and the four memory and string defects were shown with scratch configurations of `MCPatternPrograms`. A violation run of their own would need a run slot.
5. **Done: `ModelSelection`**, refined by one uninterrupted launch. Still open: a campaign-level abstract spec across launches. The code does not satisfy it today; see `train_resume_best`.
6. **`ExportOnnx`.** Model write-then-check, and the artifact a failed check leaves on disk.
7. **Cover the remaining hazard.** Add a property for resume re-training the checkpoint's own epoch (line 348).
