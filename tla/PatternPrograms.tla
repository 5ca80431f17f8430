--------------------------- MODULE PatternPrograms ---------------------------
(***************************************************************************)
(* A training sample's instruction list, drawn from one of the four        *)
(* program generators, run on NeurlangVM.  SyntheticGenerator.generate,   *)
(* generate_diverse_samples, ExtensionPatternGenerator.generate and       *)
(* HTTPPatternGenerator.generate each pick a method by weight; the        *)
(* method draws its random choices and                                     *)
(* returns the list.  The draw is the initial state; the steps are the    *)
(* machine's.  gen, par, alloc, input and image never change after Init.  *)
(***************************************************************************)
EXTENDS SyntheticPatterns, ExtensionPatterns, HttpPatterns

CONSTANTS
    Generators,   \* the methods that may be drawn
    Computed,     \* the diverse methods whose result ComputesPrompt compares
    Params,       \* Params[g]: the random choices method g may draw
    Inputs,       \* Inputs[g]: r0 on entry
    Requests,     \* Requests[g]: the request bytes at ReqBase
    Images        \* Images[g]: r1 and the memory cells on entry

VARIABLES gen, par, alloc, input, image

drv == <<gen, par, alloc, input, image>>
vars == <<drv, vmvars>>

\* Diverse templates draw registers from RegisterAllocator; the others
\* name their registers themselves.
AllocFor(g) ==
    CASE g \in ReadsR1         -> AllocationsR1(NamesUsed[g])
      [] g \in DOMAIN NamesUsed -> Allocations(NamesUsed[g])
      [] OTHER                  -> {<<>>}

ProgramOf(g, a, p) ==
    CASE g \in DOMAIN NamesUsed -> DiverseProgram(g, a, p)
      [] g \in DOMAIN ExtIds    -> ExtProgram(g, p)
      [] g \in HttpNames        -> HttpProgram(g)
      [] g \in SynthNames       -> SynthProgram(g, p)

\* What the sample's prompt asks the result register to hold.
WantOf(g, p, x, i) ==
    CASE g \in SynthNames  -> SynthWant(g, p, x)
      [] g \in MemoryNames -> MemWant(g, p, x, i.r1, i.cells)
      [] OTHER             -> Want(g, p, x)

Init ==
    \E g \in Generators : \E p \in Params[g] : \E a \in AllocFor(g) :
    \E x \in Inputs[g] : \E q \in Requests[g] : \E i \in Images[g] :
        /\ gen = g /\ par = p /\ alloc = a /\ input = x /\ image = i
        /\ VMInitMem(ProgramOf(g, a, p), x, i.r1, q, i.cells)

\* A machine step that leaves the draw alone.
Keep(A) == A /\ UNCHANGED drv

\* One disjunct per instruction kind of NeurlangVM.
Next ==
    \/ Keep(ExecMov) \/ Keep(ExecAlu) \/ Keep(ExecAluImm) \/ Keep(ExecMulDiv)
    \/ Keep(ExecLoad) \/ Keep(ExecStore) \/ Keep(ExecBranch) \/ Keep(ExecJump) \/ Keep(ExecCall)
    \/ Keep(ExecRet) \/ Keep(ExecRetTop) \/ Keep(ExecExtOpen) \/ Keep(ExecExtCall)
    \/ Keep(ExecHalt)

\* The machine runs one instruction after another: it is sequential, so
\* an enabled step is eventually taken.
Spec == Init /\ [][Next]_vars /\ WF_vars(Next)

\* The same machine with NET, which the HTTP response templates use.
NextIO == Next \/ Keep(ExecNet)
SpecIO == Init /\ [][NextIO]_vars /\ WF_vars(NextIO)

-----------------------------------------------------------------------------
(* Properties *)

\* Every value is of its kind, and RegisterAllocator only hands out
\* r0..r30 (never the zero register r31).
TypeOK ==
    /\ gen \in Generators
    /\ gen \in DOMAIN NamesUsed => alloc \in [1..NamesUsed[gen] -> 0..30]
    /\ rf \in [0..31 -> -MaxValue..MaxValue]
    /\ mem \in [DOMAIN mem -> -MaxValue..MaxValue]
    /\ pc \in Int /\ stack \in Seq(Nat)
    /\ status \in {"running", "halted", "returned"}
    /\ handles \in Seq([kind : {"json", "http", "db", "stmt", "tls"}, open : BOOLEAN])
    /\ txn \in {"none", "open", "committed", "rolledback"}

\* A generated program only executes its own instructions: no taken
\* branch, jump, call, return or fall-through leaves the list (the
\* templates' hand-counted offsets).
StaysInProgram == status = "running" => InProgram

\* When a diverse or synthetic program halts, the register its sample names as the
\* result holds what the prompt asks for, whatever registers the
\* RegisterAllocator handed out and whatever the random constants were.
ComputesPrompt ==
    (gen \in Computed \ StoreNames /\ status = "halted")
        => Read(ResultReg(gen, alloc, par)) = WantOf(gen, par, input, image)

\* When a diverse template that moves memory (gen_swap_memory,
\* gen_copy_memory, gen_string_copy) halts, the cells its prompt names
\* hold the values it asks for and no other cell was written: the loads
\* must all come before the stores that overwrite them, every store must
\* go to the address, not the value, and the copy loops must stop at the
\* count or terminator.
StoresPrompt ==
    (gen \in Computed \cap StoreNames /\ status = "halted")
        => mem = WantCells(gen, par, input, image.r1, image.cells)

\* Every host call that takes a handle is given an open handle of its
\* kind: the extension templates keep the handle a call returned in the
\* register they later pass, and use nothing after freeing it.
UsesOpenHandle ==
    (status = "running" /\ InProgram /\ Cur.opcode = OP_EXT_CALL /\ Cur.imm \in DOMAIN Uses)
        => IsOpen(Read(Cur.rd), Uses[Cur.imm])

\* When a program ends, every JSON document, HTTP response and TLS
\* connection it opened has been freed or closed.  (SQLite handles have
\* no close function in the extension table.)
HandlesReleased ==
    Finished => \A k \in DOMAIN handles :
                  handles[k].kind \in {"json", "http", "tls"} => ~handles[k].open

\* gen_sqlite_transaction_pattern's "rollback on error": a transaction is
\* committed only when its EXT_SQLITE_STEP succeeded.
CommitOnlyAfterSuccess == txn = "committed" => ~stepFailed

\* Every generated program ends: it halts or returns.
Terminates == <>Finished

====
