-------------------------- MODULE DiversePatterns ---------------------------
(***************************************************************************)
(* DiversePatternGenerator (src/train/generators/diverse_patterns.py): the *)
(* gen_* methods that write a program from a template and the             *)
(* RegisterAllocator that picks its registers.  PatternPrograms runs each *)
(* program on NeurlangVM so that what it computes can be compared with     *)
(* what its prompt asks for: each training sample pairs a prompt with     *)
(* these instructions, so a program that does not compute its prompt is a  *)
(* wrong label.                                                            *)
(*                                                                         *)
(* Random choices are inputs: a generator's parameters (the randint and    *)
(* random.choice results) are a record drawn from Params[g], and the       *)
(* registers RegisterAllocator hands out are a tuple drawn from            *)
(* Allocations(k).  Prompt wording is left out; what a prompt asks for is  *)
(* Want(g, p, x).                                                          *)
(***************************************************************************)
EXTENDS NeurlangVM, FiniteSetsExt

ScratchReg == 30   \* written directly by several templates

(***************************************************************************)
(* RegisterAllocator, lines 86-110: available is range(32) without r31,    *)
(* shuffled, and alloc hands out its entries in order, one per new name.   *)
(* A template only tells registers apart by whether they are r0 (the       *)
(* input and result), r30 (its scratch register) or neither, so one        *)
(* allocation per class is drawn: the other registers, in order of first   *)
(* use, are 1, 2, 3, ...  No template allocates more than 30 names, so the *)
(* wrap-around of line 101 is never taken.                                 *)
(***************************************************************************)
\* Variant: the available list keeps r31 (the `r != 31` filter is missing).
AllocationsWithZeroReg(k) ==
    { a \in [1..k -> {0, ScratchReg, ZeroReg} \cup 1..k] :
        /\ \A u, v \in 1..k : u # v => a[u] # a[v]
        /\ \A u \in 1..k : a[u] \in 1..k =>
              a[u] = Cardinality({v \in 1..u : a[v] \notin {0, ScratchReg, ZeroReg}}) }

Allocations(k) ==
    { a \in [1..k -> {0, ScratchReg} \cup 1..k] :
        /\ \A u, v \in 1..k : u # v => a[u] # a[v]
        /\ \A u \in 1..k : a[u] \in 1..k =>
              a[u] = Cardinality({v \in 1..u : a[v] \notin {0, ScratchReg}}) }

\* The templates that read a second input in r1 (copy_memory, string_copy,
\* string_compare) tell r1 apart as well: the other registers, in order of
\* first use, are 2, 3, ...
AllocationsR1(k) ==
    { a \in [1..k -> {0, 1, ScratchReg} \cup 2..(k + 1)] :
        /\ \A u, v \in 1..k : u # v => a[u] # a[v]
        /\ \A u \in 1..k : a[u] \in 2..(k + 1) =>
              a[u] = 1 + Cardinality({v \in 1..u : a[v] \notin {0, 1, ScratchReg}}) }


-----------------------------------------------------------------------------
(* Templates.  r is the allocation, names in the order the method calls    *)
(* alloc; p holds the random choices.  Each returns the instruction list.  *)

AluModeOf == [add |-> ALU_ADD, subtract |-> ALU_SUB, and |-> ALU_AND,
              or |-> ALU_OR, xor |-> ALU_XOR,
              multiply |-> MD_MUL, divide |-> MD_DIV, modulo |-> MD_MOD]

\* gen_arithmetic_diverse, lines 204-260: a, b, result; p.move is the
\* 50% choice of copying the result to r0.
gen_arithmetic_diverse(r, p) ==
    LET ra == r[1]  rb == r[2]  rd == r[3]
        opc == IF p.op \in {"multiply", "divide", "modulo"} THEN OP_MULDIV ELSE OP_ALU
    IN  << MovImm(ra, p.a), MovImm(rb, p.b),
           Instruction(opc, AluModeOf[p.op], rd, ra, rb, 0, 0) >>
        \o (IF rd # 0 /\ p.move THEN <<MovReg(0, rd)>> ELSE <<>>)
        \o <<Halt>>

\* The result register of gen_arithmetic_diverse: rd unless it was copied.
ResultReg(g, r, p) ==
    IF g = "arithmetic_diverse" /\ ~p.move THEN r[3] ELSE 0

OpInstr(sym, rd, rs1, rs2) ==
    IF sym = "*" THEN Instruction(OP_MULDIV, MD_MUL, rd, rs1, rs2, 0, 0)
    ELSE Instruction(OP_ALU, IF sym = "+" THEN ALU_ADD ELSE ALU_SUB, rd, rs1, rs2, 0, 0)

\* gen_multi_op_arithmetic, lines 262-312: (a ops[1] b) ops[2] c.
gen_multi_op_arithmetic(r, p) ==
    LET ra == r[1]  rb == r[2]  rc == r[3]  rt == r[4]
    IN  << MovImm(ra, p.a), MovImm(rb, p.b), MovImm(rc, p.c),
           OpInstr(p.ops[1], rt, ra, rb), OpInstr(p.ops[2], 0, rt, rc), Halt >>

\* gen_compound_arithmetic, lines 314-351: negate loads 0 into r30.
gen_compound_arithmetic(r, p) ==
    LET rd == r[1]
        body == CASE p.pat = "increment" -> <<AddI(rd, rd, 1)>>
                  [] p.pat = "decrement" -> <<SubI(rd, rd, 1)>>
                  [] p.pat = "double" -> <<Instruction(OP_ALU, ALU_ADD, rd, rd, rd, 0, 0)>>
                  [] p.pat = "square" -> <<Instruction(OP_MULDIV, MD_MUL, rd, rd, rd, 0, 0)>>
                  [] p.pat = "negate" -> << MovImm(ScratchReg, 0),
                                Instruction(OP_ALU, ALU_SUB, rd, ScratchReg, rd, 0, 0) >>
    IN  <<MovImm(rd, p.val)>> \o body
        \o (IF rd # 0 THEN <<MovReg(0, rd)>> ELSE <<>>) \o <<Halt>>

\* Variant: the loop branch goes back one instruction too far.
gen_count_loop_BackTooFar(r, p) ==
    LET ri == r[1]  rn == r[2]  rsum == r[3]
    IN  << MovImm(rn, p.n), MovReg(ri, rn), MovImm(rsum, 0),
           Instruction(OP_ALU, ALU_ADD, rsum, rsum, ri, 0, 0),
           SubI(ri, ri, 1), Branch(BR_GT, ri, ZeroReg, -3),
           MovReg(0, rsum), Halt >>

\* gen_count_loop, lines 357-391: i, n, sum.
gen_count_loop(r, p) ==
    LET ri == r[1]  rn == r[2]  rsum == r[3]
    IN  << MovImm(rn, p.n), MovReg(ri, rn), MovImm(rsum, 0),
           Instruction(OP_ALU, ALU_ADD, rsum, rsum, ri, 0, 0),
           SubI(ri, ri, 1), Branch(BR_GT, ri, ZeroReg, -2),
           MovReg(0, rsum), Halt >>

\* gen_while_loop, lines 393-427: n, count, ten; counts digits of n*111.
gen_while_loop(r, p) ==
    LET rn == r[1]  rcount == r[2]  rten == r[3]
    IN  << MovImm(rn, p.n * 111), MovImm(rcount, 0), MovImm(rten, 10),
           Branch(BR_LE, rn, ZeroReg, 4), AddI(rcount, rcount, 1),
           Instruction(OP_MULDIV, MD_DIV, rn, rn, rten, 0, 0), Jump(-4),
           MovReg(0, rcount), Halt >>

\* gen_do_while_loop, lines 429-460: n, result.
gen_do_while_loop(r, p) ==
    LET rn == r[1]  rresult == r[2]
    IN  << MovImm(rn, p.n), MovImm(rresult, 1),
           Instruction(OP_MULDIV, MD_MUL, rresult, rresult, rn, 0, 0),
           SubI(rn, rn, 1), Branch(BR_GT, rn, ZeroReg, -2),
           MovReg(0, rresult), Halt >>

\* gen_nested_loop, lines 462-498: i, j, sum.
gen_nested_loop(r, p) ==
    LET ri == r[1]  rj == r[2]  rsum == r[3]
    IN  << MovImm(ri, p.n), MovImm(rsum, 0), MovImm(rj, p.m),
           AddI(rsum, rsum, 1), SubI(rj, rj, 1), Branch(BR_GT, rj, ZeroReg, -2),
           SubI(ri, ri, 1), Branch(BR_GT, ri, ZeroReg, -5),
           MovReg(0, rsum), Halt >>

\* gen_if_else, lines 504-533: threshold; the input is r0.
gen_if_else(r, p) ==
    LET rt == r[1]
    IN  << MovImm(rt, p.t), Branch(BR_LE, 0, rt, 3), MovImm(0, 1), Jump(2),
           MovImm(0, 0), Halt >>

\* gen_if_chain, lines 535-571: t1, t2.
gen_if_chain(r, p) ==
    LET rt1 == r[1]  rt2 == r[2]
    IN  << MovImm(rt1, p.t1), MovImm(rt2, p.t2),
           Branch(BR_GE, 0, rt1, 3), MovImm(0, 0), Jump(6),
           Branch(BR_GE, 0, rt2, 3), MovImm(0, 1), Jump(2),
           MovImm(0, 2), Halt >>

\* gen_min_max, lines 573-608: a, b; BR_LE for min, BR_GE for max.
gen_min_max(r, p) ==
    LET ra == r[1]  rb == r[2]
    IN  << MovImm(ra, p.a), MovImm(rb, p.b),
           Branch(IF p.isMin THEN BR_LE ELSE BR_GE, ra, rb, 2),
           MovReg(0, rb), Jump(1), MovReg(0, ra), Halt >>

\* gen_clamp, lines 610-642: lo, hi.
gen_clamp(r, p) ==
    LET rlo == r[1]  rhi == r[2]
    IN  << MovImm(rlo, p.lo), MovImm(rhi, p.hi),
           Branch(BR_GE, 0, rlo, 2), MovReg(0, rlo),
           Branch(BR_LE, 0, rhi, 2), MovReg(0, rhi), Halt >>

\* gen_abs_value, lines 644-679: temp; p.method is the 50% choice.  The
\* second method applies OP_ALU (register-register) with an immediate.
gen_abs_value(r, p) ==
    LET rt == r[1]
    IN  IF p.method = 1
        THEN << Branch(BR_GE, 0, ZeroReg, 2),
                Instruction(OP_ALU, ALU_SUB, 0, ZeroReg, 0, 0, 0), Halt >>
        ELSE << MovReg(rt, 0), Instruction(OP_ALU, ALU_SAR, rt, rt, 0, 1, 63),
                Instruction(OP_ALU, ALU_XOR, 0, 0, rt, 0, 0),
                Instruction(OP_ALU, ALU_SUB, 0, 0, rt, 0, 0), Halt >>

\* gen_function_call, lines 878-898: no allocator.
gen_function_call(r, p) ==
    << Instruction(OP_CALL, 0, 0, 0, 0, 1, 3), Halt, MovImm(0, 42),
       Instruction(OP_RET, 0, 0, 0, 0, 0, 0) >>

\* gen_recursive_factorial, lines 900-931: r1 holds the saved n.
gen_recursive_factorial(r, p) ==
    << MovImm(0, p.n), Instruction(OP_CALL, 0, 0, 0, 0, 1, 2), Halt,
       Branch(BR_LE, 0, ZeroReg, 4), MovReg(1, 0), SubI(0, 0, 1),
       Instruction(OP_CALL, 0, 0, 0, 0, 1, -3),
       Instruction(OP_MULDIV, MD_MUL, 0, 0, 1, 0, 0),
       Instruction(OP_RET, 0, 0, 0, 0, 0, 0), MovImm(0, 1),
       Instruction(OP_RET, 0, 0, 0, 0, 0, 0) >>

\* gen_recursive_fibonacci, lines 933-963: fixed registers r0-r3.
gen_recursive_fibonacci(r, p) ==
    << MovImm(0, p.n), MovImm(1, 0), MovImm(2, 1),
       Branch(BR_LE, 0, ZeroReg, 5), Instruction(OP_ALU, ALU_ADD, 3, 1, 2, 0, 0),
       MovReg(1, 2), MovReg(2, 3), SubI(0, 0, 1), Jump(-5),
       MovReg(0, 1), Halt >>

\* gen_tail_recursive, lines 965-992: r0 counts down, r1 accumulates.
gen_tail_recursive(r, p) ==
    << MovImm(0, p.n), MovImm(1, 0), Branch(BR_LE, 0, ZeroReg, 4),
       Instruction(OP_ALU, ALU_ADD, 1, 1, 0, 0, 0), SubI(0, 0, 1), Jump(-3),
       MovReg(0, 1), Halt >>

\* gen_factorial_iterative_up, lines 998-1030: i, n, result.
gen_factorial_iterative_up(r, p) ==
    LET ri == r[1]  rn == r[2]  rresult == r[3]
    IN  << MovImm(rn, p.n), MovImm(ri, 1), MovImm(rresult, 1),
           Branch(BR_GT, ri, rn, 4),
           Instruction(OP_MULDIV, MD_MUL, rresult, rresult, ri, 0, 0),
           AddI(ri, ri, 1), Jump(-3), MovReg(0, rresult), Halt >>

\* gen_factorial_iterative_down, lines 1032-1062: i, result.
gen_factorial_iterative_down(r, p) ==
    LET ri == r[1]  rresult == r[2]
    IN  << MovImm(ri, p.n), MovImm(rresult, 1), Branch(BR_LE, ri, ZeroReg, 4),
           Instruction(OP_MULDIV, MD_MUL, rresult, rresult, ri, 0, 0),
           SubI(ri, ri, 1), Jump(-3), MovReg(0, rresult), Halt >>

\* gen_fibonacci_iterative, lines 1064-1099: n, a, b, temp.
gen_fibonacci_iterative(r, p) ==
    LET rn == r[1]  ra == r[2]  rb == r[3]  rt == r[4]
    IN  << MovImm(rn, p.n), MovImm(ra, 0), MovImm(rb, 1),
           Branch(BR_LE, rn, ZeroReg, 6), Instruction(OP_ALU, ALU_ADD, rt, ra, rb, 0, 0),
           MovReg(ra, rb), MovReg(rb, rt), SubI(rn, rn, 1), Jump(-5),
           MovReg(0, ra), Halt >>

\* Variant: the back jump lands on the load of b.
gen_gcd_euclidean_JumpTooFar(r, p) ==
    LET ra == r[1]  rb == r[2]  rt == r[3]
    IN  << MovImm(ra, p.a), MovImm(rb, p.b), Branch(BR_EQ, rb, ZeroReg, 5),
           Instruction(OP_MULDIV, MD_MOD, rt, ra, rb, 0, 0),
           MovReg(ra, rb), MovReg(rb, rt), Jump(-5), MovReg(0, ra), Halt >>

\* gen_gcd_euclidean, lines 1101-1134: a, b, temp.
gen_gcd_euclidean(r, p) ==
    LET ra == r[1]  rb == r[2]  rt == r[3]
    IN  << MovImm(ra, p.a), MovImm(rb, p.b), Branch(BR_EQ, rb, ZeroReg, 5),
           Instruction(OP_MULDIV, MD_MOD, rt, ra, rb, 0, 0),
           MovReg(ra, rb), MovReg(rb, rt), Jump(-4), MovReg(0, ra), Halt >>

\* gen_gcd_subtraction, lines 1136-1169: a, b.
gen_gcd_subtraction(r, p) ==
    LET ra == r[1]  rb == r[2]
    IN  << MovImm(ra, p.a), MovImm(rb, p.b),
           Branch(BR_EQ, ra, rb, 5), Branch(BR_LT, ra, rb, 2),
           Instruction(OP_ALU, ALU_SUB, ra, ra, rb, 0, 0), Jump(1),
           Instruction(OP_ALU, ALU_SUB, rb, rb, ra, 0, 0), Jump(-5),
           MovReg(0, ra), Halt >>

\* gen_power_iterative, lines 1171-1204: base, exp, result.
gen_power_iterative(r, p) ==
    LET rbase == r[1]  rexp == r[2]  rresult == r[3]
    IN  << MovImm(rbase, p.base), MovImm(rexp, p.exp), MovImm(rresult, 1),
           Branch(BR_LE, rexp, ZeroReg, 4),
           Instruction(OP_MULDIV, MD_MUL, rresult, rresult, rbase, 0, 0),
           SubI(rexp, rexp, 1), Jump(-3), MovReg(0, rresult), Halt >>

\* gen_power_binary, lines 1206-1245: base, exp, result, one; r30 holds
\* exp & 1.
gen_power_binary(r, p) ==
    LET rbase == r[1]  rexp == r[2]  rresult == r[3]  rone == r[4]
    IN  << MovImm(rbase, p.base), MovImm(rexp, p.exp), MovImm(rresult, 1),
           MovImm(rone, 1), Branch(BR_LE, rexp, ZeroReg, 7),
           Instruction(OP_ALU, ALU_AND, ScratchReg, rexp, rone, 0, 0),
           Branch(BR_EQ, ScratchReg, ZeroReg, 1),
           Instruction(OP_MULDIV, MD_MUL, rresult, rresult, rbase, 0, 0),
           Instruction(OP_MULDIV, MD_MUL, rbase, rbase, rbase, 0, 0),
           Instruction(OP_ALU, ALU_SHR, rexp, rexp, rone, 0, 0), Jump(-6),
           MovReg(0, rresult), Halt >>

BitOpMode == [and |-> ALU_AND, or |-> ALU_OR, xor |-> ALU_XOR,
              shl |-> ALU_SHL, shr |-> ALU_SHR]

\* gen_bitwise_ops, lines 1251-1287: a, b.
gen_bitwise_ops(r, p) ==
    LET ra == r[1]  rb == r[2]
    IN  << MovImm(ra, p.a), MovImm(rb, p.b),
           Instruction(OP_ALU, BitOpMode[p.op], 0, ra, rb, 0, 0), Halt >>

\* gen_bit_count, lines 1289-1323: n, count, one; r30 holds n & 1.
gen_bit_count(r, p) ==
    LET rn == r[1]  rcount == r[2]  rone == r[3]
    IN  << MovImm(rn, p.val), MovImm(rcount, 0), MovImm(rone, 1),
           Branch(BR_EQ, rn, ZeroReg, 5),
           Instruction(OP_ALU, ALU_AND, ScratchReg, rn, rone, 0, 0),
           Instruction(OP_ALU, ALU_ADD, rcount, rcount, ScratchReg, 0, 0),
           Instruction(OP_ALU, ALU_SHR, rn, rn, rone, 0, 0), Jump(-4),
           MovReg(0, rcount), Halt >>

\* gen_bit_shift_multiply, lines 1325-1352: val, shift.
gen_bit_shift_multiply(r, p) ==
    LET rv == r[1]  rs == r[2]
    IN  << MovImm(rv, p.val), MovImm(rs, p.shift),
           Instruction(OP_ALU, ALU_SHL, 0, rv, rs, 0, 0), Halt >>

\* gen_bit_mask, lines 1354-1380: mask, shift.
gen_bit_mask(r, p) ==
    LET rm == r[1]  rs == r[2]
    IN  << MovImm(rm, 1), MovImm(rs, p.bits),
           Instruction(OP_ALU, ALU_SHL, rm, rm, rs, 0, 0), SubI(0, rm, 1), Halt >>

\* gen_bit_reverse, lines 1382-1419: n, result, count, one; r30 holds
\* n & 1.
gen_bit_reverse(r, p) ==
    LET rn == r[1]  rresult == r[2]  rcount == r[3]  rone == r[4]
    IN  << MovImm(rn, p.val), MovImm(rresult, 0), MovImm(rcount, 8),
           MovImm(rone, 1), Branch(BR_LE, rcount, ZeroReg, 7),
           Instruction(OP_ALU, ALU_SHL, rresult, rresult, rone, 0, 0),
           Instruction(OP_ALU, ALU_AND, ScratchReg, rn, rone, 0, 0),
           Instruction(OP_ALU, ALU_OR, rresult, rresult, ScratchReg, 0, 0),
           Instruction(OP_ALU, ALU_SHR, rn, rn, rone, 0, 0),
           SubI(rcount, rcount, 1), Jump(-6), MovReg(0, rresult), Halt >>

\* Variant: the jump over the false branch skips the HALT as well.
gen_compare_chain_JumpPastEnd(r, p) ==
    LET ra == r[1]  rb == r[2]  rc == r[3]
    IN  << MovImm(ra, p.a), MovImm(rb, p.b), MovImm(rc, p.c),
           Branch(BR_GT, ra, rb, 4), Branch(BR_GT, rb, rc, 3),
           MovImm(0, 1), Jump(3), MovImm(0, 0), Halt >>

\* gen_compare_chain, lines 1425-1456: a <= b <= c after sorted().
gen_compare_chain(r, p) ==
    LET ra == r[1]  rb == r[2]  rc == r[3]
    IN  << MovImm(ra, p.a), MovImm(rb, p.b), MovImm(rc, p.c),
           Branch(BR_GT, ra, rb, 4), Branch(BR_GT, rb, rc, 3),
           MovImm(0, 1), Jump(2), MovImm(0, 0), Halt >>

\* gen_bounds_check, lines 1458-1484: size; the index is r0.
gen_bounds_check(r, p) ==
    LET rsize == r[1]
    IN  << MovImm(rsize, p.size), Branch(BR_GE, 0, rsize, 2),
           MovImm(0, 1), Jump(1), MovImm(0, 0), Halt >>

\* gen_range_check, lines 1486-1516: lo, hi; the value is r0.
gen_range_check(r, p) ==
    LET rlo == r[1]  rhi == r[2]
    IN  << MovImm(rlo, p.lo), MovImm(rhi, p.hi),
           Branch(BR_LT, 0, rlo, 4), Branch(BR_GE, 0, rhi, 3),
           MovImm(0, 1), Jump(1), MovImm(0, 0), Halt >>

\* gen_load_constant, lines 1522-1564: dest; 0 by xor with itself, -1 by
\* 0 - 1, anything else by one MOV.
gen_load_constant(r, p) ==
    LET rd == r[1]
        load == CASE p.val = 0  -> <<Instruction(OP_ALU, ALU_XOR, rd, rd, rd, 0, 0)>>
                  [] p.val = -1 -> <<MovImm(rd, 0), SubI(rd, rd, 1)>>
                  [] OTHER      -> <<MovImm(rd, p.val)>>
    IN  load \o (IF rd # 0 THEN <<MovReg(0, rd)>> ELSE <<>>) \o <<Halt>>

\* gen_load_large_constant, lines 1566-1598: dest.  The value is masked to
\* 32 bits, which changes none of the values drawn (all below 2^32).
gen_load_large_constant(r, p) ==
    LET rd == r[1]
    IN  <<MovImm(rd, p.val)>>
        \o (IF rd # 0 THEN <<MovReg(0, rd)>> ELSE <<>>) \o <<Halt>>

\* Memory access widths, lines 57-60, and the array the memory templates
\* address (0x10000).
MEM_BYTE == 0
MEM_DWORD == 2
MEM_QWORD == 3
ArrayBase == 65536
LoadMode == (1 :> MEM_BYTE) @@ (4 :> MEM_DWORD) @@ (8 :> MEM_QWORD)

Load(mode, rd, rs) == Instruction(OP_LOAD, mode, rd, rs, 0, 1, 0)
\* The diverse templates' STORE: the value register in rd, the address in rs1.
StoreTo(mode, rv, ra) == Instruction(OP_STORE, mode, rv, ra, 0, 1, 0)

\* gen_array_access, lines 685-718: base, idx, offset.
gen_array_access(r, p) ==
    LET rbase == r[1]  ridx == r[2]  roff == r[3]
    IN  << MovImm(rbase, p.base), MovImm(ridx, p.idx), MovImm(roff, p.size),
           Instruction(OP_MULDIV, MD_MUL, roff, ridx, roff, 0, 0),
           Instruction(OP_ALU, ALU_ADD, rbase, rbase, roff, 0, 0),
           Load(LoadMode[p.size], 0, rbase), Halt >>

\* gen_array_sum, lines 720-756: ptr, count, sum, val.
gen_array_sum(r, p) ==
    LET rptr == r[1]  rcount == r[2]  rsum == r[3]  rval == r[4]
    IN  << MovImm(rptr, ArrayBase), MovImm(rcount, p.n), MovImm(rsum, 0),
           Load(MEM_QWORD, rval, rptr), Instruction(OP_ALU, ALU_ADD, rsum, rsum, rval, 0, 0),
           AddI(rptr, rptr, 8), SubI(rcount, rcount, 1),
           Branch(BR_GT, rcount, ZeroReg, -4), MovReg(0, rsum), Halt >>

\* gen_array_search, lines 758-801: ptr, count, idx, val, target.
gen_array_search(r, p) ==
    LET rptr == r[1]  rcount == r[2]  ridx == r[3]  rval == r[4]  rtarget == r[5]
    IN  << MovImm(rptr, ArrayBase), MovImm(rcount, p.n), MovImm(ridx, 0),
           MovImm(rtarget, p.target), Load(MEM_QWORD, rval, rptr),
           Branch(BR_EQ, rval, rtarget, 6), AddI(rptr, rptr, 8), AddI(ridx, ridx, 1),
           SubI(rcount, rcount, 1), Branch(BR_GT, rcount, ZeroReg, -5),
           MovImm(0, -1), Jump(1), MovReg(0, ridx), Halt >>

\* Variant: the second store writes t1 back to where it came from.
gen_swap_memory_NoSwap(r, p) ==
    LET rp1 == r[1]  rp2 == r[2]  rt1 == r[3]  rt2 == r[4]
    IN  << MovImm(rp1, ArrayBase), MovImm(rp2, ArrayBase + 8),
           Load(MEM_QWORD, rt1, rp1), Load(MEM_QWORD, rt2, rp2),
           StoreTo(MEM_QWORD, rt2, rp1), StoreTo(MEM_QWORD, rt1, rp1), Halt >>

\* gen_swap_memory, lines 803-835: p1, p2, t1, t2.
gen_swap_memory(r, p) ==
    LET rp1 == r[1]  rp2 == r[2]  rt1 == r[3]  rt2 == r[4]
    IN  << MovImm(rp1, ArrayBase), MovImm(rp2, ArrayBase + 8),
           Load(MEM_QWORD, rt1, rp1), Load(MEM_QWORD, rt2, rp2),
           StoreTo(MEM_QWORD, rt2, rp1), StoreTo(MEM_QWORD, rt1, rp2), Halt >>

\* gen_copy_memory, lines 837-872: src, dst, count, val; src is r0 and dst r1.
gen_copy_memory(r, p) ==
    LET rsrc == r[1]  rdst == r[2]  rcount == r[3]  rval == r[4]
    IN  << MovReg(rsrc, 0), MovReg(rdst, 1), MovImm(rcount, p.n),
           Load(MEM_BYTE, rval, rsrc), StoreTo(MEM_BYTE, rval, rdst),
           AddI(rsrc, rsrc, 1), AddI(rdst, rdst, 1), SubI(rcount, rcount, 1),
           Branch(BR_GT, rcount, ZeroReg, -5), Halt >>

\* gen_single_ext_call, lines 1604-1632: arg.  The host function id is
\* written to the mode field and the immediate is 0.
gen_single_ext_call(r, p) ==
    << MovImm(r[1], ArrayBase), Instruction(OP_EXT_CALL, p.id, 0, r[1], 0, 0, 0), Halt >>

\* gen_ext_call_chain, lines 1634-1666: arg, result; every call after the
\* first takes the previous result.
gen_ext_call_chain(r, p) ==
    LET rarg == r[1]  rresult == r[2]
    IN  <<MovImm(rarg, ArrayBase)>>
        \o [k \in 1..Len(p.ids) |->
              Instruction(OP_EXT_CALL, p.ids[k], rresult, IF k = 1 THEN rarg ELSE rresult, 0, 0, 0)]
        \o << MovReg(0, rresult), Halt >>

\* gen_ext_call_with_check, lines 1668-1697: arg, result.
gen_ext_call_with_check(r, p) ==
    LET rarg == r[1]  rresult == r[2]
    IN  << MovImm(rarg, ArrayBase), Instruction(OP_EXT_CALL, p.id, rresult, rarg, 0, 0, 0),
           Branch(BR_LT, rresult, ZeroReg, 2), MovReg(0, rresult), Jump(1),
           MovImm(0, -1), Halt >>

\* gen_string_length, lines 1703-1735: ptr, len, val; the string is at r0.
gen_string_length(r, p) ==
    LET rptr == r[1]  rlen == r[2]  rval == r[3]
    IN  << MovReg(rptr, 0), MovImm(rlen, 0), Load(MEM_BYTE, rval, rptr),
           Branch(BR_EQ, rval, ZeroReg, 4), AddI(rlen, rlen, 1), AddI(rptr, rptr, 1),
           Jump(-4), MovReg(0, rlen), Halt >>

\* gen_string_copy, lines 1737-1768: src, dst, val; src is r0 and dst r1.
gen_string_copy(r, p) ==
    LET rsrc == r[1]  rdst == r[2]  rval == r[3]
    IN  << MovReg(rsrc, 0), MovReg(rdst, 1), Load(MEM_BYTE, rval, rsrc),
           StoreTo(MEM_BYTE, rval, rdst), Branch(BR_EQ, rval, ZeroReg, 4),
           AddI(rsrc, rsrc, 1), AddI(rdst, rdst, 1), Jump(-5), Halt >>

\* gen_string_compare, lines 1770-1808: s1, s2, c1, c2; the strings are at
\* r0 and r1.
gen_string_compare(r, p) ==
    LET rs1 == r[1]  rs2 == r[2]  rc1 == r[3]  rc2 == r[4]
    IN  << MovReg(rs1, 0), MovReg(rs2, 1), Load(MEM_BYTE, rc1, rs1), Load(MEM_BYTE, rc2, rs2),
           Branch(BR_NE, rc1, rc2, 6), Branch(BR_EQ, rc1, ZeroReg, 5),
           AddI(rs1, rs1, 1), AddI(rs2, rs2, 1), Jump(-6),
           Instruction(OP_ALU, ALU_SUB, 0, rc1, rc2, 0, 0), Jump(1), MovImm(0, 0), Halt >>

\* How many names each method passes to alloc.
NamesUsed == [arithmetic_diverse |-> 3, multi_op_arithmetic |-> 4,
    compound_arithmetic |-> 1, count_loop |-> 3, while_loop |-> 3,
    do_while_loop |-> 2, nested_loop |-> 3, if_else |-> 1, if_chain |-> 2,
    min_max |-> 2, clamp |-> 2, abs_value |-> 1, function_call |-> 0,
    recursive_factorial |-> 0, recursive_fibonacci |-> 0, tail_recursive |-> 0,
    factorial_iterative_up |-> 3, factorial_iterative_down |-> 2,
    fibonacci_iterative |-> 4, gcd_euclidean |-> 3, gcd_subtraction |-> 2,
    power_iterative |-> 3, power_binary |-> 4, bitwise_ops |-> 2,
    bit_count |-> 3, bit_shift_multiply |-> 2, bit_mask |-> 2,
    bit_reverse |-> 4, compare_chain |-> 3, bounds_check |-> 1,
    range_check |-> 2, load_constant |-> 1, load_large_constant |-> 1,
    array_access |-> 3, array_sum |-> 4, array_search |-> 5, swap_memory |-> 4,
    copy_memory |-> 4, single_ext_call |-> 1, ext_call_chain |-> 2,
    ext_call_with_check |-> 2, string_length |-> 3, string_copy |-> 3,
    string_compare |-> 4]

\* The methods that read r1.
ReadsR1 == {"copy_memory", "string_copy", "string_compare"}

\* The method generate() called (lines 190-198).
DiverseProgram(g, r, p) ==
    CASE g = "arithmetic_diverse" -> gen_arithmetic_diverse(r, p)
      [] g = "multi_op_arithmetic" -> gen_multi_op_arithmetic(r, p)
      [] g = "compound_arithmetic" -> gen_compound_arithmetic(r, p)
      [] g = "count_loop" -> gen_count_loop(r, p)
      [] g = "while_loop" -> gen_while_loop(r, p)
      [] g = "do_while_loop" -> gen_do_while_loop(r, p)
      [] g = "nested_loop" -> gen_nested_loop(r, p)
      [] g = "if_else" -> gen_if_else(r, p)
      [] g = "if_chain" -> gen_if_chain(r, p)
      [] g = "min_max" -> gen_min_max(r, p)
      [] g = "clamp" -> gen_clamp(r, p)
      [] g = "abs_value" -> gen_abs_value(r, p)
      [] g = "function_call" -> gen_function_call(r, p)
      [] g = "recursive_factorial" -> gen_recursive_factorial(r, p)
      [] g = "recursive_fibonacci" -> gen_recursive_fibonacci(r, p)
      [] g = "tail_recursive" -> gen_tail_recursive(r, p)
      [] g = "factorial_iterative_up" -> gen_factorial_iterative_up(r, p)
      [] g = "factorial_iterative_down" -> gen_factorial_iterative_down(r, p)
      [] g = "fibonacci_iterative" -> gen_fibonacci_iterative(r, p)
      [] g = "gcd_euclidean" -> gen_gcd_euclidean(r, p)
      [] g = "gcd_subtraction" -> gen_gcd_subtraction(r, p)
      [] g = "power_iterative" -> gen_power_iterative(r, p)
      [] g = "power_binary" -> gen_power_binary(r, p)
      [] g = "bitwise_ops" -> gen_bitwise_ops(r, p)
      [] g = "bit_count" -> gen_bit_count(r, p)
      [] g = "bit_shift_multiply" -> gen_bit_shift_multiply(r, p)
      [] g = "bit_mask" -> gen_bit_mask(r, p)
      [] g = "bit_reverse" -> gen_bit_reverse(r, p)
      [] g = "compare_chain" -> gen_compare_chain(r, p)
      [] g = "bounds_check" -> gen_bounds_check(r, p)
      [] g = "range_check" -> gen_range_check(r, p)
      [] g = "load_constant" -> gen_load_constant(r, p)
      [] g = "load_large_constant" -> gen_load_large_constant(r, p)
      [] g = "array_access" -> gen_array_access(r, p)
      [] g = "array_sum" -> gen_array_sum(r, p)
      [] g = "array_search" -> gen_array_search(r, p)
      [] g = "swap_memory" -> gen_swap_memory(r, p)
      [] g = "copy_memory" -> gen_copy_memory(r, p)
      [] g = "single_ext_call" -> gen_single_ext_call(r, p)
      [] g = "ext_call_chain" -> gen_ext_call_chain(r, p)
      [] g = "ext_call_with_check" -> gen_ext_call_with_check(r, p)
      [] g = "string_length" -> gen_string_length(r, p)
      [] g = "string_copy" -> gen_string_copy(r, p)
      [] g = "string_compare" -> gen_string_compare(r, p)

-----------------------------------------------------------------------------
(* What each prompt asks for, as a reference definition: the value the     *)
(* result register must hold when the program halts, for input x in r0.   *)

RECURSIVE Factorial(_)
Factorial(n) == IF n <= 1 THEN 1 ELSE n * Factorial(n - 1)

RECURSIVE Fib(_)
Fib(n) == IF n <= 1 THEN n ELSE Fib(n - 1) + Fib(n - 2)

GCD(a, b) == CHOOSE d \in 1..a : /\ a % d = 0 /\ b % d = 0
                                 /\ \A e \in 1..a : (a % e = 0 /\ b % e = 0) => e <= d

RECURSIVE Popcount(_)
Popcount(v) == IF v = 0 THEN 0 ELSE (v % 2) + Popcount(v \div 2)

RECURSIVE DecimalDigits(_)
DecimalDigits(v) == IF v < 10 THEN 1 ELSE 1 + DecimalDigits(v \div 10)

\* The low k bits of v in reverse order.
RECURSIVE ReverseBits(_, _)
ReverseBits(v, k) == IF k = 0 THEN 0 ELSE (v % 2) * 2^(k - 1) + ReverseBits(v \div 2, k - 1)

Apply(sym, u, v) == CASE sym = "+" -> u + v [] sym = "-" -> u - v [] sym = "*" -> u * v

BitOp(op, u, v) ==
    CASE op = "and" -> u & v [] op = "or" -> u | v [] op = "xor" -> u ^^ v
      [] op = "shl" -> u * 2^v [] op = "shr" -> u \div 2^v

\* Read from the prompts of each method.
Want(g, p, x) ==
    CASE g = "arithmetic_diverse" ->
              (CASE p.op = "add" -> p.a + p.b [] p.op = "subtract" -> p.a - p.b
                 [] p.op = "multiply" -> p.a * p.b [] p.op = "divide" -> p.a \div p.b
                 [] p.op = "modulo" -> p.a % p.b
                 [] p.op \in {"and", "or", "xor"} -> BitOp(p.op, p.a, p.b))
      [] g = "multi_op_arithmetic" -> Apply(p.ops[2], Apply(p.ops[1], p.a, p.b), p.c)
      [] g = "compound_arithmetic" ->
              (CASE p.pat = "increment" -> p.val + 1 [] p.pat = "decrement" -> p.val - 1
                 [] p.pat = "double" -> 2 * p.val [] p.pat = "square" -> p.val * p.val
                 [] p.pat = "negate" -> -p.val)
      [] g \in {"count_loop", "tail_recursive"} -> (p.n * (p.n + 1)) \div 2
      [] g = "while_loop" -> DecimalDigits(p.n * 111)
      [] g \in {"do_while_loop", "recursive_factorial", "factorial_iterative_up",
                "factorial_iterative_down"} -> Factorial(p.n)
      [] g = "nested_loop" -> p.n * p.m
      [] g = "if_else" -> IF x > p.t THEN 1 ELSE 0
      [] g = "if_chain" -> IF x < p.t1 THEN 0 ELSE IF x < p.t2 THEN 1 ELSE 2
      [] g = "min_max" -> IF p.isMin = (p.a <= p.b) THEN p.a ELSE p.b
      [] g = "clamp" -> IF x < p.lo THEN p.lo ELSE IF x > p.hi THEN p.hi ELSE x
      [] g = "abs_value" -> IF x < 0 THEN -x ELSE x
      [] g = "function_call" -> 42
      [] g \in {"recursive_fibonacci", "fibonacci_iterative"} -> Fib(p.n)
      [] g \in {"gcd_euclidean", "gcd_subtraction"} -> GCD(p.a, p.b)
      [] g \in {"power_iterative", "power_binary"} -> p.base ^ p.exp
      [] g = "bitwise_ops" -> BitOp(p.op, p.a, p.b)
      [] g = "bit_count" -> Popcount(p.val)
      [] g = "bit_shift_multiply" -> p.val * 2^p.shift
      [] g = "bit_mask" -> 2^p.bits - 1
      [] g = "bit_reverse" -> ReverseBits(p.val, 8)
      [] g = "compare_chain" -> IF p.a <= p.b /\ p.b <= p.c THEN 1 ELSE 0
      [] g = "bounds_check" -> IF x < p.size THEN 1 ELSE 0
      [] g = "range_check" -> IF p.lo <= x /\ x < p.hi THEN 1 ELSE 0
      [] g \in {"load_constant", "load_large_constant"} -> p.val

(* The memory and string templates' prompts, over the cells m they are     *)
(* given, the input x in r0 and y in r1.                                   *)

\* The length of the zero-terminated string at a.
StrLen(m, a) ==
    CHOOSE k \in 0..Cardinality(DOMAIN m) :
        /\ \A j \in 0..k : a + j \in DOMAIN m
        /\ m[a + k] = 0 /\ \A j \in 0..(k - 1) : m[a + j] # 0

\* The first position where the strings at a and b differ or end.
FirstDiff(m, a, b) ==
    CHOOSE k \in 0..Cardinality(DOMAIN m) :
        /\ \A j \in 0..k : a + j \in DOMAIN m /\ b + j \in DOMAIN m
        /\ m[a + k] # m[b + k] \/ m[a + k] = 0
        /\ \A j \in 0..(k - 1) : m[a + j] = m[b + j] /\ m[a + j] # 0

\* The templates whose prompt names a value for r0, and the value.
MemoryNames == {"array_access", "array_sum", "array_search", "string_length",
                "string_compare"}
Element(m, k) == m[ArrayBase + 8 * k]
MemWant(g, p, x, y, m) ==
    CASE g = "array_access" -> m[p.base + p.idx * p.size]
      [] g = "array_sum" -> MapThenSumSet(LAMBDA k : Element(m, k), 0..(p.n - 1))
      [] g = "array_search" ->
            LET hits == {k \in 0..(p.n - 1) : Element(m, k) = p.target}
            IN  IF hits = {} THEN -1 ELSE Min(hits)
      [] g = "string_length" -> StrLen(m, x)
      [] g = "string_compare" -> m[x + FirstDiff(m, x, y)] - m[y + FirstDiff(m, x, y)]

\* The templates whose prompt asks for a change of memory, and the memory
\* it asks for: the named cells moved and every other cell as it was.
StoreNames == {"swap_memory", "copy_memory", "string_copy"}
Copied(m, x, y, n) == [a \in {y + k : k \in 0..(n - 1)} |-> m[a - y + x]]
WantCells(g, p, x, y, m) ==
    (CASE g = "swap_memory" ->
            (ArrayBase :> m[ArrayBase + 8]) @@ (ArrayBase + 8 :> m[ArrayBase])
       [] g = "copy_memory" -> Copied(m, x, y, p.n)
       [] g = "string_copy" -> Copied(m, x, y, StrLen(m, x) + 1))
    @@ m

====
