--------------------------- MODULE ModelSelection ---------------------------
(***************************************************************************)
(* What model selection in one training launch promises, without epochs, *)
(* schedulers or files: the launch sees a sequence of validation          *)
(* accuracies, keeps the first one that is higher than every earlier one  *)
(* (and than 0.0) together with its position, and once started it        *)
(* eventually stops.                                                       *)
(* TrainLoop implements it: see TrainLoop!Selection.                       *)
(***************************************************************************)
EXTENDS Naturals, Sequences

CONSTANT Acc   \* the accuracies that may be seen

VARIABLES
    seen,   \* the accuracies seen so far, in order
    kept,   \* [at |-> i, acc |-> a]: the kept model is the i-th seen (0: none)
    phase   \* "idle" before the launch, then "running", then "stopped"

vars == <<seen, kept, phase>>

None == [at |-> 0, acc |-> 0]

Init == seen = <<>> /\ kept = None /\ phase = "idle"

Begin == phase = "idle" /\ phase' = "running" /\ UNCHANGED <<seen, kept>>

\* The launch fails before it sees anything.
Fail == phase = "idle" /\ phase' = "stopped" /\ UNCHANGED <<seen, kept>>

\* A new accuracy is seen; it is kept only if strictly better.
Observe(a) ==
    /\ phase = "running"
    /\ seen' = Append(seen, a)
    /\ kept' = IF a > kept.acc THEN [at |-> Len(seen) + 1, acc |-> a] ELSE kept
    /\ UNCHANGED phase

Stop == phase = "running" /\ phase' = "stopped" /\ UNCHANGED <<seen, kept>>

Next == Begin \/ Fail \/ (\E a \in Acc : Observe(a)) \/ Stop

\* Nothing forces a launch to begin; a launch that has begun stops.
Spec == Init /\ [][Next]_vars /\ WF_vars(Stop)

====
