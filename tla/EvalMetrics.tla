---------------------------- MODULE EvalMetrics ----------------------------
(***************************************************************************)
(* One validation pass: evaluate() (src/train/parallel/train.py, lines     *)
(* 212-269) over the batches collate_fn stacks from ParallelDataset items, *)
(* each scored by ParallelInstructionLoss (src/train/parallel/model.py,    *)
(* lines 264-340).                                                         *)
(*                                                                         *)
(* The network is not modelled: for every slot of every sample the model  *)
(* predicts some classes, and the only thing about a prediction the loss  *)
(* and the metrics tell apart is which heads it gets wrong.  The          *)
(* per-slot cross-entropy is replaced by its 0-1 counterpart (1 for a     *)
(* wrong head, 0 otherwise), which keeps every mask, sum, divisor and    *)
(* average of the code.  Losses are exact fractions; the 1e-8 added to    *)
(* the divisor only matters when it would be 0, where the masked sum is  *)
(* 0 as well.                                                              *)
(***************************************************************************)
EXTENDS Integers, Sequences, FiniteSets, FiniteSetsExt

CONSTANTS
    NumSlots,      \* NUM_SLOTS
    ValPrograms,   \* instruction lists a validation sample may carry
    MaxVal,        \* bound on the size of the validation split
    BatchSizes,    \* values of --batch-size
    Outcomes,      \* the sets of heads one slot's prediction may get wrong
    NoResult       \* model value: evaluate() has not returned

\* __getitem__'s targets (train.py lines 94-123), from ParallelDataset.
Item == INSTANCE ParallelDataset
        WITH MaxSeqLen <- 1, Lines <- {}, MaxLines <- 0, MaxSamplesOpts <- {0},
             BadJson <- "bad", NonObject <- "non_object", NoItem <- "none",
             file <- <<>>, i <- 0, maxSamples <- 0, samples <- <<>>,
             phase <- "ready", idx <- 0, item <- "none"

Fields == Item!Fields
Heads  == Fields \cup {"total"}

ASSUME MaxVal \in Nat \ {0} /\ BatchSizes \subseteq Nat \ {0}
ASSUME \A o \in Outcomes : o \subseteq Fields

VARIABLES
    split,          \* the validation split: one instruction list per sample
    bs,             \* args.batch_size
    next,           \* index of the first sample of the next batch
    wrong,          \* wrong[j][k]: the heads the model got wrong at slot k of sample j
    totalLosses,    \* total_losses: per-head sums of the batch losses
    correctValid,   \* correct_valid
    correctOpcode,  \* correct_opcode
    totalValid,     \* total_valid
    totalSlots,     \* total_slots
    result          \* the dict evaluate() returns

vars == <<split, bs, next, wrong, totalLosses, correctValid, correctOpcode,
          totalValid, totalSlots, result>>

-----------------------------------------------------------------------------
(* Exact fractions, kept in lowest terms *)

RECURSIVE GCD(_, _)
GCD(a, b) == IF b = 0 THEN a ELSE GCD(b, a % b)

Frac(n, d) == LET g == GCD(n, d) IN [n |-> n \div g, d |-> d \div g]
FAdd(a, b) == Frac(a.n * b.d + b.n * a.d, a.d * b.d)
FMul(a, b) == Frac(a.n * b.n, a.d * b.d)
Zero == Frac(0, 1)

-----------------------------------------------------------------------------
(* ParallelInstructionLoss *)

\* The per-head weights of __init__ (model.py lines 273-294), defaults.
Weight == [valid |-> Frac(1, 1), opcode |-> Frac(2, 1), mode |-> Frac(1, 1),
           rd |-> Frac(1, 1), rs1 |-> Frac(1, 1), rs2 |-> Frac(1, 1),
           has_imm |-> Frac(1, 2), imm_bin |-> Frac(1, 2)]

\* collate_fn (train.py lines 139-147): the targets of samples lo..hi,
\* stacked along the batch dimension.
Collate(lo, hi) == [j \in lo..hi |-> Item!Targets(split[j])]

\* The slot positions of a batch of samples lo..hi.
Slots(lo, hi) == (lo..hi) \X (1..NumSlots)

\* The 0-1 loss of head h at slot p, given the batch's predictions w.
CE(h, w, p) == IF h \in w[p[1]][p[2]] THEN 1 ELSE 0

\* Variant: the valid mask is never applied, every head averages all slots.
HeadLossNoMask(h, T, w, lo, hi) ==
    Frac(MapThenSumSet(LAMBDA p : CE(h, w, p), Slots(lo, hi)),
         Cardinality(Slots(lo, hi)))

\* forward, lines 318-333: the valid head averages all slots; every other
\* head is multiplied by the float of the valid target and divided by the
\* mask's sum (plus 1e-8).
HeadLoss(h, T, w, lo, hi) ==
    LET P    == Slots(lo, hi)
        mask == MapThenSumSet(LAMBDA p : T[p[1]].valid[p[2]], P)
    IN  IF h = "valid"
          THEN Frac(MapThenSumSet(LAMBDA p : CE(h, w, p), P), Cardinality(P))
        ELSE IF mask = 0 THEN Zero
        ELSE Frac(MapThenSumSet(LAMBDA p : CE(h, w, p) * T[p[1]].valid[p[2]], P), mask)

\* forward, lines 296-340: the unweighted per-head losses and their
\* weighted sum as 'total'.
BatchLosses(T, w, lo, hi) ==
    LET l == [h \in Fields |-> HeadLoss(h, T, w, lo, hi)]
    IN  [h \in Heads |->
           IF h = "total"
             THEN FoldSet(LAMBDA g, acc : FAdd(FMul(Weight[g], l[g]), acc), Zero, Fields)
             ELSE l[h]]

-----------------------------------------------------------------------------
(* evaluate() *)

Init ==
    /\ split \in UNION {[1..n -> ValPrograms] : n \in 1..MaxVal}
    /\ bs \in BatchSizes
    /\ next = 1
    /\ wrong = <<>>
    /\ totalLosses = [h \in Heads |-> Zero]
    /\ correctValid = 0 /\ correctOpcode = 0 /\ totalValid = 0 /\ totalSlots = 0
    /\ result = NoResult

\* Variant: the opcode count forgets `& valid_mask`.
OpcodeHitsUnmasked(P, V, w) ==
    IF V # {} THEN Cardinality({p \in P : "opcode" \notin w[p[1]][p[2]]}) ELSE 0

\* Lines 259-262: right opcodes on slots whose valid target is 1, counted
\* only in a batch that has such a slot.
OpcodeHits(P, V, w) ==
    IF V # {} THEN Cardinality({p \in V : "opcode" \notin w[p[1]][p[2]]}) ELSE 0

\* Variant: total_slots counts samples, not slots.
BatchSlotsSamplesOnly(lo, hi) == hi - lo + 1

\* Line 256: tokens.size(0) * valid_pred.size(1), the slots of the batch.
BatchSlots(lo, hi) == (hi - lo + 1) * NumSlots

\* One batch of the validation loader (shuffle=False, so in split order):
\* the criterion's losses are added to total_losses, then the argmax
\* predictions are counted (lines 229-263).  A valid prediction is right
\* when the valid head is.
EvalBatch ==
    /\ next <= Len(split)
    /\ LET hi == Min({next + bs - 1, Len(split)})
           T  == Collate(next, hi)
           P  == Slots(next, hi)
           V  == {p \in P : T[p[1]].valid[p[2]] = 1}
       IN  \E w \in [next..hi -> [1..NumSlots -> Outcomes]] :
             /\ totalLosses' = [h \in Heads |->
                                  FAdd(totalLosses[h], BatchLosses(T, w, next, hi)[h])]
             /\ correctValid' = correctValid + Cardinality({p \in P : "valid" \notin w[p[1]][p[2]]})
             /\ totalSlots' = totalSlots + BatchSlots(next, hi)
             /\ correctOpcode' = correctOpcode + OpcodeHits(P, V, w)
             /\ totalValid' = totalValid + Cardinality(V)
             /\ wrong' = wrong \o [k \in 1..(hi - next + 1) |-> w[next + k - 1]]
             /\ next' = hi + 1
    /\ UNCHANGED <<split, bs, result>>

\* len(loader): the number of batches, the last one possibly short.
NumBatches == (Len(split) + bs - 1) \div bs

\* Lines 265-269: every loss averaged over the batches, the accuracies
\* over the slots counted, each divisor at least 1.
Finish ==
    /\ next > Len(split)
    /\ result = NoResult
    /\ result' = [avg       |-> [h \in Heads |-> FMul(totalLosses[h], Frac(1, NumBatches))],
                  validAcc  |-> Frac(correctValid, Max({1, totalSlots})),
                  opcodeAcc |-> Frac(correctOpcode, Max({1, totalValid}))]
    /\ UNCHANGED <<split, bs, next, wrong, totalLosses, correctValid, correctOpcode,
                   totalValid, totalSlots>>

Next == EvalBatch \/ Finish

\* The pass is a loop over a finite loader with no waiting: it finishes.
Spec == Init /\ [][Next]_vars /\ WF_vars(Next)

-----------------------------------------------------------------------------
(* Properties *)

TypeOK ==
    /\ next \in 1..(Len(split) + 1)
    /\ Len(wrong) = next - 1
    /\ totalLosses \in [Heads -> [n : Nat, d : Nat \ {0}]]
    /\ correctValid <= totalSlots /\ correctOpcode <= totalValid
    /\ result = NoResult \/ DOMAIN result = {"avg", "validAcc", "opcodeAcc"}

\* The valid target of slot p of the split, as __getitem__ builds it.
ValidLabel(p) == Item!Targets(split[p[1]]).valid[p[2]]

\* Whether the model got head h right at slot p.
Right(h, p) == h \notin wrong[p[1]][p[2]]

\* The k-th batch of the loader, as a range of samples.
BatchLo(k) == (k - 1) * bs + 1
BatchHi(k) == Min({k * bs, Len(split)})

\* Spec 4.4, the loss of one head on samples lo..hi: the validity head
\* averages every slot; every other head averages the slots that carry a
\* real instruction, and is 0 (not a division by zero) when none does.
SpecHeadLoss(h, lo, hi) ==
    LET P == Slots(lo, hi)
        V == {p \in P : ValidLabel(p) = 1}
    IN  IF h = "valid" THEN Frac(Cardinality({p \in P : ~Right(h, p)}), Cardinality(P))
        ELSE IF V = {} THEN Zero
        ELSE Frac(Cardinality({p \in V : ~Right(h, p)}), Cardinality(V))

\* The mean over the loader's batches of a per-batch value.
BatchMean(f(_)) ==
    FMul(FoldSet(LAMBDA k, acc : FAdd(f(k), acc), Zero, 1..NumBatches), Frac(1, NumBatches))

\* The losses evaluate() reports are the spec's masked losses: each head's
\* is the mean over the batches of its average over the batch's real
\* instruction slots (padding slots never count, all-padding batches add
\* 0), and 'total' is the weighted sum of the per-head values reported
\* (spec section 7, "round-trip consistency").  Checked against the
\* predictions the pass actually made, batch by batch.
ReportedLossesMasked ==
    result # NoResult =>
        /\ \A h \in Fields :
             result.avg[h] = BatchMean(LAMBDA k : SpecHeadLoss(h, BatchLo(k), BatchHi(k)))
        /\ result.avg["total"] =
             FoldSet(LAMBDA g, acc : FAdd(FMul(Weight[g], result.avg[g]), acc), Zero, Fields)

\* The accuracies evaluate() reports are over the whole split, whatever
\* the batch size: opcode_acc is the share of slots with a real
\* instruction whose opcode was predicted right, and valid_acc the share
\* of all slots whose validity was (spec 4.5).
AccuracyOverSplit ==
    result # NoResult =>
        LET P == Slots(1, Len(split))
            V == {p \in P : ValidLabel(p) = 1}
        IN  /\ result.opcodeAcc = Frac(Cardinality({p \in V : Right("opcode", p)}),
                                       Max({1, Cardinality(V)}))
            /\ result.validAcc = Frac(Cardinality({p \in P : Right("valid", p)}), Cardinality(P))

====
