------------------------- MODULE SyntheticPatterns --------------------------
(***************************************************************************)
(* SyntheticGenerator (src/train/generate_training_data.py, lines         *)
(* 342-567): the nine gen_* methods, each an operator from its random     *)
(* choices p to the instruction list it returns.  The class's mode        *)
(* constants (ALU_ADD ... MOD, lines 345-360) have the values of          *)
(* NeurlangVM's.  Every branch of these templates names r0 as both rs1    *)
(* and rs2, and gen_gcd_variant's back branch uses mode 7, which no       *)
(* generator defines: NeurlangVM has no step for it.                      *)
(***************************************************************************)
EXTENDS DiversePatterns

\* The methods of self.generators (lines 362-373); random.choices draws
\* each with a positive weight.
SynthNames == {"simple_arithmetic", "loop_pattern", "conditional_pattern",
    "memory_pattern", "function_pattern", "fibonacci_variant",
    "factorial_variant", "gcd_variant", "array_operation"}

\* The ALU modes of gen_simple_arithmetic's ops list (lines 383-389).
SynthAluMode == [add |-> ALU_ADD, subtract |-> ALU_SUB, and |-> ALU_AND,
                 or |-> ALU_OR, xor |-> ALU_XOR]

\* The address both memory templates load from.
SynthMem == 256

SynthProgram(g, p) ==
    CASE g = "simple_arithmetic" ->     \* lines 382-407
            << MovImm(0, p.a), MovImm(1, p.b),
               Instruction(OP_ALU, SynthAluMode[p.op], 0, 0, 1, 0, 0), Halt >>
      [] g = "loop_pattern" ->          \* lines 409-428
            << MovImm(0, p.n), MovImm(1, 0),
               Instruction(OP_ALU, ALU_ADD, 1, 1, 0, 0, 0), SubI(0, 0, 1),
               Branch(BR_GT, 0, 0, -2), MovReg(0, 1), Halt >>
      [] g = "conditional_pattern" ->   \* lines 430-444
            << Branch(BR_GE, 0, 0, 2), SubI(0, 0, 0), Halt >>
      [] g = "memory_pattern" ->        \* lines 446-460
            << MovImm(1, SynthMem), Instruction(OP_LOAD, 3, 0, 1, 0, 1, 0),
               Instruction(OP_ALU, ALU_ADD, 0, 0, 0, 0, 0), Halt >>
      [] g = "function_pattern" ->      \* lines 462-476
            << Call(3), Halt, MovImm(0, 42), Ret >>
      [] g = "fibonacci_variant" ->     \* lines 478-501
            << MovImm(0, p.n), MovImm(1, 0), MovImm(2, 1), Branch(BR_LE, 0, 0, 5),
               Instruction(OP_ALU, ALU_ADD, 3, 1, 2, 0, 0), MovReg(1, 2), MovReg(2, 3),
               SubI(0, 0, 1), Branch(BR_GT, 0, 0, -4), MovReg(0, 1), Halt >>
      [] g = "factorial_variant" ->     \* lines 503-523
            << MovImm(0, p.n), MovImm(1, 1), Branch(BR_EQ, 0, 0, 4),
               Instruction(OP_MULDIV, MD_MUL, 1, 1, 0, 0, 0), SubI(0, 0, 1),
               Branch(BR_GT, 0, 0, -2), MovReg(0, 1), Halt >>
      [] g = "gcd_variant" ->           \* lines 525-545
            << MovImm(0, p.a), MovImm(1, p.b), Instruction(OP_BRANCH, BR_EQ, 1, 0, 0, 1, 4),
               Instruction(OP_MULDIV, MD_MOD, 2, 0, 1, 0, 0), MovReg(0, 1), MovReg(1, 2),
               Instruction(OP_BRANCH, 7, 0, 0, 0, 1, -4), Halt >>
      [] g = "array_operation" ->       \* lines 547-567
            << MovImm(0, 0), MovImm(1, SynthMem), MovImm(2, p.size),
               Instruction(OP_LOAD, 2, 3, 1, 0, 1, 0),
               Instruction(OP_ALU, ALU_ADD, 0, 0, 3, 0, 0), AddI(1, 1, 4), SubI(2, 2, 1),
               Instruction(OP_BRANCH, BR_GT, 2, 0, 0, 1, -4), Halt >>

\* What the prompts of the templates that name a number ask r0 to hold,
\* for input x in r0.
SynthWant(g, p, x) ==
    CASE g = "simple_arithmetic" ->
            (CASE p.op = "add" -> p.a + p.b [] p.op = "subtract" -> p.a - p.b
               [] p.op \in {"and", "or", "xor"} -> BitOp(p.op, p.a, p.b))
      [] g = "loop_pattern" -> (p.n * (p.n + 1)) \div 2
      [] g = "conditional_pattern" -> IF x < 0 THEN -x ELSE x
      [] g = "fibonacci_variant" -> Fib(p.n)
      [] g = "factorial_variant" -> Factorial(p.n)
      [] g = "gcd_variant" -> GCD(p.a, p.b)

====
