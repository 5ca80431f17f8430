----------------------------- MODULE TrainLoop -----------------------------
(***************************************************************************)
(* The training orchestration of src/train/parallel/train.py, main().     *)
(*                                                                         *)
(* One behaviour is a campaign of at most MaxLaunches launches of the     *)
(* training script against the same save directory.  A launch loads an    *)
(* optional --checkpoint, runs the epoch loop (train_epoch, evaluate,     *)
(* best-model selection with torch.save, early stopping, scheduler step), *)
(* then saves the final model and writes the config file.  A running      *)
(* process may be killed at any step.  Files on disk (best_model.pt, the  *)
(* final model, the config) survive a kill; everything else is process    *)
(* memory and is rebuilt by the next launch.                              *)
(*                                                                         *)
(* Data is abstracted: a validation opcode accuracy is an element of Acc  *)
(* (0 stands for 0.0); the model weights are not represented.  torch.save *)
(* writes its target path in place, so between the open and the end of    *)
(* the write the file is Torn.                                             *)
(***************************************************************************)
EXTENDS Naturals, Sequences, FiniteSets, SequencesExt, FiniteSetsExt

CONSTANTS
    EpochBudgets,   \* values a launch may pass as --epochs
    Patience,       \* --patience
    Acc,            \* validation opcode accuracies evaluate() can report
    DataSizes,      \* len(dataset) a launch may load (--data, --max-samples)
    ValSplitPct,    \* --val-split, in percent
    MaxLaunches,    \* bound on launches of the script in one campaign
    CanKill,        \* whether a running process may be killed
    CanResume,      \* whether a launch may pass --checkpoint
    NoFile,         \* model value: file does not exist
    Torn,           \* model value: file truncated by an unfinished torch.save
    Unbound         \* model value: the Python name `epoch` was never bound

ASSUME /\ EpochBudgets \subseteq Nat /\ EpochBudgets # {}
       /\ Patience \in Nat \ {0}
       /\ Acc \subseteq Nat /\ 0 \in Acc
       /\ DataSizes \subseteq Nat /\ DataSizes # {} /\ ValSplitPct \in 0..100
       /\ MaxLaunches \in Nat \ {0}
       /\ CanKill \in BOOLEAN /\ CanResume \in BOOLEAN

VARIABLES
    \* ---- files on disk (survive a kill) ----
    bestFile,     \* save_dir/best_model.pt
    finalFile,    \* <output>.pt
    configFile,   \* <output>.config.json
    \* ---- the running process ----
    pc,           \* where main() is; "none" when no process runs
    budget,       \* args.epochs
    startEpoch,   \* start_epoch
    epoch,        \* the loop variable `epoch`
    bestAcc,      \* best_opcode_acc
    patience,     \* patience_counter
    schedSteps,   \* steps taken by the CosineAnnealingLR scheduler
    valAcc,       \* val_losses['opcode_acc'] of the current epoch
    nSamples,     \* len(dataset) of the current launch
    \* ---- history ----
    launches,     \* launches so far
    exitReason,   \* how the last process ended
    evals,        \* <<[epoch, acc]>> the current launch has selected on
    allEvals      \* the same, over every launch of the campaign

fileVars    == <<bestFile, finalFile, configFile>>
processVars == <<pc, budget, startEpoch, epoch, bestAcc, patience, schedSteps, valAcc,
                nSamples>>
historyVars == <<launches, exitReason, evals, allEvals>>
vars        == <<fileVars, processVars, historyVars>>

Phases == {"none", "train", "eval", "select", "save_best", "sched",
           "finalize", "save_final", "config"}
Exits  == {"none", "ok", "killed", "launch_error", "key_error", "name_error"}
Epochs == 0..(Max(EpochBudgets) - 1)
Launch_ == 1..MaxLaunches

BestRecord   == [epoch : Epochs, acc : Acc, launch : Launch_]
FinalRecord  == [launch : Launch_]
ConfigRecord == [launch : Launch_, bestAcc : Acc, epochsTrained : 1..Max(EpochBudgets)]
Eval         == [epoch : Epochs, acc : Acc]

\* Variant: the split computed as len // 100 * pct, truncating first.
ValSizeTruncFirst(n) == (n \div 100) * ValSplitPct

\* random_split sizes: val_size = int(len(dataset) * args.val_split).
ValSize(n)   == (n * ValSplitPct) \div 100
TrainSize(n) == n - ValSize(n)

\* The best accuracy among a sequence of evaluations, 0.0 if none improves on it.
MaxAcc(s) == Max({0} \cup {s[i].acc : i \in DOMAIN s})

\* The first evaluation reaching the maximum: ties never replace the best.
FirstMax(s) == s[SelectInSeq(s, LAMBDA e : e.acc = MaxAcc(s))]

\* Evaluation i of s improves on every earlier one (and on 0.0).
Improves(s, i) == s[i].acc > MaxAcc(SubSeq(s, 1, i - 1))

\* Number of consecutive non-improving evaluations ending at i.
RECURSIVE Streak(_, _)
Streak(s, i) == IF i = 0 \/ Improves(s, i) THEN 0 ELSE Streak(s, i - 1) + 1

TypeOK ==
    /\ bestFile \in BestRecord \cup {NoFile, Torn}
    /\ finalFile \in FinalRecord \cup {NoFile, Torn}
    /\ configFile \in ConfigRecord \cup {NoFile}
    /\ pc \in Phases
    /\ budget \in EpochBudgets
    /\ startEpoch \in Epochs
    /\ epoch \in Epochs \cup {Unbound}
    /\ bestAcc \in Acc
    /\ patience \in 0..Patience
    /\ schedSteps \in 0..Max(EpochBudgets)
    /\ valAcc \in Acc
    /\ nSamples \in DataSizes
    /\ launches \in 0..MaxLaunches
    /\ exitReason \in Exits
    /\ evals \in Seq(Eval)
    /\ allEvals \in Seq(Eval)

Init ==
    /\ bestFile = NoFile /\ finalFile = NoFile /\ configFile = NoFile
    /\ pc = "none"
    /\ budget = Min(EpochBudgets)
    /\ startEpoch = 0 /\ epoch = Unbound
    /\ bestAcc = 0 /\ patience = 0 /\ schedSteps = 0 /\ valAcc = 0
    /\ nSamples = Max(DataSizes)
    /\ launches = 0 /\ exitReason = "none"
    /\ evals = <<>> /\ allEvals = <<>>

(***************************************************************************)
(* Launch: main() up to the epoch loop.  The dataset is split, the        *)
(* loaders are built, an optional --checkpoint is loaded, and the         *)
(* selection state starts afresh: best_opcode_acc = 0.0, patience 0, a    *)
(* new scheduler at step 0.  A checkpoint holding 'model_state_dict'      *)
(* resumes at its 'epoch'; a bare state dict (the final model) at 0.      *)
(***************************************************************************)
CheckpointSources == IF CanResume THEN {"none", "best", "final"} ELSE {"none"}

FileOf(src) == CASE src = "best"  -> bestFile
                 [] src = "final" -> finalFile
                 [] OTHER         -> NoFile

\* --checkpoint names a file that exists (a missing path is not modelled).
Available(src) == src = "none" \/ FileOf(src) # NoFile

StartEpochOf(src) == IF src = "best" THEN bestFile.epoch ELSE 0

Launch ==
    /\ pc = "none"
    /\ launches < MaxLaunches
    /\ \E n \in DataSizes, b \in EpochBudgets, src \in CheckpointSources :
         /\ TrainSize(n) > 0
         /\ nSamples' = n
         /\ Available(src)
         /\ FileOf(src) # Torn
         /\ budget' = b
         /\ startEpoch' = StartEpochOf(src)
         /\ IF StartEpochOf(src) < b
              THEN pc' = "train" /\ epoch' = StartEpochOf(src)
              ELSE pc' = "finalize" /\ epoch' = Unbound
    /\ bestAcc' = 0 /\ patience' = 0 /\ schedSteps' = 0
    /\ launches' = launches + 1 /\ exitReason' = "none" /\ evals' = <<>>
    /\ UNCHANGED <<fileVars, valAcc, allEvals>>

\* The launch dies before training: DataLoader(shuffle=True) rejects an
\* empty training split, or torch.load fails on a torn checkpoint.
LaunchFails ==
    /\ pc = "none"
    /\ launches < MaxLaunches
    /\ \/ \E n \in DataSizes : TrainSize(n) = 0
       \/ \E src \in CheckpointSources : Available(src) /\ FileOf(src) = Torn
    /\ launches' = launches + 1 /\ exitReason' = "launch_error" /\ evals' = <<>>
    /\ UNCHANGED <<fileVars, processVars, allEvals>>

(***************************************************************************)
(* The epoch loop.                                                         *)
(***************************************************************************)
\* train_epoch: one pass over the training batches (weights not modelled).
TrainEpoch ==
    /\ pc = "train"
    /\ pc' = "eval"
    /\ UNCHANGED <<fileVars, budget, nSamples, startEpoch, epoch, bestAcc, patience,
                   schedSteps, valAcc, historyVars>>

\* evaluate: one pass over the validation split reporting opcode_acc.
Evaluate ==
    /\ pc = "eval"
    /\ ValSize(nSamples) > 0
    /\ valAcc' \in Acc
    /\ pc' = "select"
    /\ UNCHANGED <<fileVars, budget, nSamples, startEpoch, epoch, bestAcc, patience,
                   schedSteps, historyVars>>

\* An empty validation loader leaves total_losses empty: val_losses['total']
\* raises KeyError and the process dies.
EvaluateEmpty ==
    /\ pc = "eval"
    /\ ValSize(nSamples) = 0
    /\ pc' = "none" /\ exitReason' = "key_error"
    /\ UNCHANGED <<fileVars, budget, nSamples, startEpoch, epoch, bestAcc, patience,
                   schedSteps, valAcc, launches, evals, allEvals>>

\* History: the epoch's accuracy has been through model selection.
Selected(a) ==
    LET e == [epoch |-> epoch, acc |-> a] IN
    /\ evals' = Append(evals, e)
    /\ allEvals' = Append(allEvals, e)

\* Variant: `>=` in the improvement test, so ties replace the best.
SelectImproveOnTie ==
    /\ pc = "select"
    /\ valAcc >= bestAcc
    /\ bestAcc' = valAcc
    /\ patience' = 0
    /\ bestFile' = Torn
    /\ pc' = "save_best"
    /\ Selected(valAcc)
    /\ UNCHANGED <<finalFile, configFile, budget, nSamples, startEpoch, epoch,
                   schedSteps, valAcc, launches, exitReason>>

\* Variant: patience_counter is not reset by an improvement.
SelectImproveKeepsPatience ==
    /\ pc = "select"
    /\ valAcc > bestAcc
    /\ bestAcc' = valAcc
    /\ bestFile' = Torn
    /\ pc' = "save_best"
    /\ Selected(valAcc)
    /\ UNCHANGED <<finalFile, configFile, budget, nSamples, startEpoch, epoch,
                   schedSteps, valAcc, launches, exitReason, patience>>

\* opcode_acc > best_opcode_acc: remember it and open best_model.pt for
\* writing (torch.save truncates the file first).
SelectImprove ==
    /\ pc = "select"
    /\ valAcc > bestAcc
    /\ bestAcc' = valAcc
    /\ patience' = 0
    /\ bestFile' = Torn
    /\ pc' = "save_best"
    /\ Selected(valAcc)
    /\ UNCHANGED <<finalFile, configFile, budget, nSamples, startEpoch, epoch,
                   schedSteps, valAcc, launches, exitReason>>

\* Variant: the checkpoint records 'epoch': epoch + 1 (the epoch to resume at).
SaveBestDoneNextEpoch ==
    /\ pc = "save_best"
    /\ bestFile' = [epoch |-> epoch + 1, acc |-> bestAcc, launch |-> launches]
    /\ pc' = "sched"
    /\ UNCHANGED <<finalFile, configFile, budget, nSamples, startEpoch, epoch, bestAcc,
                   patience, schedSteps, valAcc, historyVars>>

\* torch.save of the checkpoint dict completes.
SaveBestDone ==
    /\ pc = "save_best"
    /\ bestFile' = [epoch |-> epoch, acc |-> bestAcc, launch |-> launches]
    /\ pc' = "sched"
    /\ UNCHANGED <<finalFile, configFile, budget, nSamples, startEpoch, epoch, bestAcc,
                   patience, schedSteps, valAcc, historyVars>>

\* Variant: the early-stopping `break` is missing.
SelectNoImproveNoBreak ==
    /\ pc = "select"
    /\ valAcc <= bestAcc
    /\ patience' = patience + 1
    /\ pc' = "sched"
    /\ Selected(valAcc)
    /\ UNCHANGED <<fileVars, budget, nSamples, startEpoch, epoch, bestAcc, schedSteps,
                   valAcc, launches, exitReason>>

\* No improvement: count it, and break out of the loop once patience is spent.
SelectNoImprove ==
    /\ pc = "select"
    /\ valAcc <= bestAcc
    /\ patience' = patience + 1
    /\ pc' = IF patience + 1 >= Patience THEN "finalize" ELSE "sched"
    /\ Selected(valAcc)
    /\ UNCHANGED <<fileVars, budget, nSamples, startEpoch, epoch, bestAcc, schedSteps,
                   valAcc, launches, exitReason>>

\* scheduler.step(), then the for loop moves to the next epoch or ends.
EndOfEpoch ==
    /\ pc = "sched"
    /\ schedSteps' = schedSteps + 1
    /\ IF epoch + 1 < budget
         THEN pc' = "train" /\ epoch' = epoch + 1
         ELSE pc' = "finalize" /\ epoch' = epoch
    /\ UNCHANGED <<fileVars, budget, nSamples, startEpoch, bestAcc, patience, valAcc,
                   historyVars>>

(***************************************************************************)
(* After the loop: save the final model, then write the config.           *)
(***************************************************************************)
SaveFinalBegin ==
    /\ pc = "finalize"
    /\ finalFile' = Torn
    /\ pc' = "save_final"
    /\ UNCHANGED <<bestFile, configFile, budget, nSamples, startEpoch, epoch, bestAcc,
                   patience, schedSteps, valAcc, historyVars>>

SaveFinalDone ==
    /\ pc = "save_final"
    /\ finalFile' = [launch |-> launches]
    /\ pc' = "config"
    /\ UNCHANGED <<bestFile, configFile, budget, nSamples, startEpoch, epoch, bestAcc,
                   patience, schedSteps, valAcc, historyVars>>

\* Variant: epochs_trained written as `epoch` (off by one).
WriteConfigOffByOne ==
    /\ pc = "config"
    /\ epoch # Unbound
    /\ configFile' = [launch |-> launches, bestAcc |-> bestAcc,
                      epochsTrained |-> epoch]
    /\ pc' = "none" /\ exitReason' = "ok"
    /\ UNCHANGED <<bestFile, finalFile, budget, nSamples, startEpoch, epoch, bestAcc,
                   patience, schedSteps, valAcc, launches, evals, allEvals>>

\* The config dict reads `epoch + 1`; json.dump writes it and main() returns.
WriteConfig ==
    /\ pc = "config"
    /\ epoch # Unbound
    /\ configFile' = [launch |-> launches, bestAcc |-> bestAcc,
                      epochsTrained |-> epoch + 1]
    /\ pc' = "none" /\ exitReason' = "ok"
    /\ UNCHANGED <<bestFile, finalFile, budget, nSamples, startEpoch, epoch, bestAcc,
                   patience, schedSteps, valAcc, launches, evals, allEvals>>

\* The loop body never ran, so `epoch` is unbound: NameError before the
\* config file is opened.
WriteConfigUnbound ==
    /\ pc = "config"
    /\ epoch = Unbound
    /\ pc' = "none" /\ exitReason' = "name_error"
    /\ UNCHANGED <<fileVars, budget, nSamples, startEpoch, epoch, bestAcc, patience,
                   schedSteps, valAcc, launches, evals, allEvals>>

\* The process is killed (signal, OOM, power loss) at any step.
Kill ==
    /\ CanKill
    /\ pc # "none"
    /\ pc' = "none" /\ exitReason' = "killed"
    /\ UNCHANGED <<fileVars, budget, nSamples, startEpoch, epoch, bestAcc, patience,
                   schedSteps, valAcc, launches, evals, allEvals>>

ProcessStep ==
    \/ TrainEpoch \/ Evaluate \/ EvaluateEmpty
    \/ SelectImprove \/ SaveBestDone \/ SelectNoImprove \/ EndOfEpoch
    \/ SaveFinalBegin \/ SaveFinalDone \/ WriteConfig \/ WriteConfigUnbound

Next == Launch \/ LaunchFails \/ ProcessStep \/ Kill

\* main() is single-threaded and never blocks between its steps, so a
\* running process keeps taking them unless it is killed.
Spec == Init /\ [][Next]_vars /\ WF_vars(ProcessStep)

(***************************************************************************)
(* Properties                                                              *)
(***************************************************************************)
\* Selection of the current epoch is finished (best_model.pt not being written).
SelectionSettled == pc # "save_best"

\* Model selection within one launch (main, lines 386-400): once an epoch's
\* selection is settled and best_model.pt is intact, a launch that has seen
\* an accuracy above 0.0 has written best_model.pt itself, and the file holds
\* the first epoch reaching the launch's highest accuracy (ties and lower
\* accuracies never replace it).
BestIsLaunchMax ==
    SelectionSettled /\ bestFile # Torn /\ MaxAcc(evals) > 0 =>
        /\ bestFile \in BestRecord
        /\ bestFile.launch = launches
        /\ [epoch |-> bestFile.epoch, acc |-> bestFile.acc] = FirstMax(evals)

\* Early stopping (main, lines 401-405): when the epoch loop has ended, it
\* ended at the first epoch that completed Patience consecutive epochs
\* without improvement, or after running every epoch of the budget.
LoopEnded ==
    \/ pc \in {"finalize", "save_final", "config"}
    \/ pc = "none" /\ exitReason \in {"ok", "name_error"}

PlannedEpochs == IF startEpoch < budget THEN budget - startEpoch ELSE 0

StopsWhenPatienceExhausted ==
    LoopEnded =>
        LET n == Len(evals) IN
        /\ \A i \in 1..(n - 1) : Streak(evals, i) < Patience
        /\ n = PlannedEpochs \/ Streak(evals, n) >= Patience

\* The config written at the end of a launch (lines 415-425) agrees with
\* the run: best_opcode_acc is the highest accuracy the launch saw, and is
\* the accuracy stored in best_model.pt; epochs_trained counts every epoch
\* from 0 to the one the loop ended at.
ConfigMatchesBest ==
    configFile # NoFile =>
        /\ configFile.bestAcc = MaxAcc(evals)
        /\ configFile.epochsTrained = startEpoch + Len(evals)
        /\ configFile.bestAcc > 0 =>
               bestFile \in BestRecord /\ bestFile.acc = configFile.bestAcc

\* Every launch of the script eventually returns from main() normally.
Termination == (pc # "none") ~> (pc = "none" /\ exitReason = "ok")

\* Spec 4.5: the retained best checkpoint is the one with the highest
\* validation opcode accuracy ever reached, across resumed launches too.
BestRetainsMax ==
    SelectionSettled /\ bestFile \in BestRecord =>
        bestFile.acc = MaxAcc(allEvals)

\* Spec 5: best_model.pt is only replaced once a save has completed, so it
\* is never left torn outside an unfinished write.
BestFileIntact == bestFile = Torn => pc = "save_best"

\* Spec 4.5: the learning rate follows the cosine schedule over the epoch
\* budget, so when epoch e starts the scheduler has stepped e times.
LrFollowsEpoch == pc = "train" => schedSteps = epoch


(***************************************************************************)
(* Refinement: one launch of main() implements ModelSelection.  The seen  *)
(* accuracies are the epochs selected on; the kept model is best_model.pt *)
(* (its epoch counted from the launch's first), or the one being saved    *)
(* while torch.save runs; the launch runs from Launch until no process   *)
(* runs, and a LaunchFails stops it before it began.                      *)
(***************************************************************************)
KeptModel ==
    CASE pc = "save_best"   -> [at |-> Len(evals), acc |-> bestAcc]
      [] bestFile = NoFile  -> [at |-> 0, acc |-> 0]
      [] OTHER              -> [at |-> bestFile.epoch - startEpoch + 1, acc |-> bestFile.acc]

Selection == INSTANCE ModelSelection
    WITH seen <- [i \in DOMAIN evals |-> evals[i].acc],
         kept <- KeptModel,
         phase <- IF launches = 0 THEN "idle"
                  ELSE IF pc = "none" THEN "stopped" ELSE "running"

\* An uninterrupted launch is a model selection: every selection step
\* sees one accuracy and replaces the kept model exactly when it is
\* strictly better than the kept one, best_model.pt always holds the
\* model kept, and the launch ends.
ImplementsSelection == Selection!Spec

=============================================================================
