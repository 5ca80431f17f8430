--------------------- MODULE MCGenerateTrainingData ---------------------
(* Small lib/ and examples/ trees and instruction lists for            *)
(* GenerateTrainingData: one function present in both trees under     *)
(* names that differ only in case, a lib file that fails to assemble, *)
(* a server example, and programs shorter and longer than the slots.  *)
EXTENDS GenerateTrainingData

Ins(opcode, mode, rd, rs1, rs2, hasImm, imm) ==
    [opcode |-> opcode, mode |-> mode, rd |-> rd, rs1 |-> rs1, rs2 |-> rs2,
     has_imm |-> hasImm, imm |-> imm]

\* mov r0, 5 (extended opcode 0x1C with an immediate)
IMov == Ins(28, 0, 0, 0, 0, 1, 5)
\* halt
IHalt == Ins(29, 0, 0, 0, 0, 0, 0)
\* add r12, r12, r5 (rd spans two bytes of the word)
IAdd == Ins(0, 0, 12, 12, 5, 0, 0)
\* bgt r9, r31, -2 (a negative immediate)
IBranch == Ins(6, 5, 0, 9, 31, 1, -2)
\* ext.call r10, 300 (opcode 0x20 sets the word's top bit)
IExtCall == Ins(32, 0, 10, 0, 0, 1, 300)

MCShort == {<<IMov, IHalt>>}

\* one pattern longer than the slots
MCShortAndLong == {<<IMov, IHalt>>, <<IMov, IMov, IHalt>>}

(* The assembler (nl asm, not in this repository), as decode_binary reads *)
(* its output: a 16-byte header (magic, version, code_len, reserved), then *)
(* per instruction a little-endian word with opcode, rd, rs1, rs2 and mode *)
(* at bits 26, 21, 16, 11 and 8, followed by a 32-bit immediate for an    *)
(* extended opcode.                                                        *)
\* The opcodes the assembler writes an immediate for.
AsmImmOpcodes == {1, 3, 4, 6, 7, 9, 20, 21, 22, 23, 24, 28, 32}

LE32(u) == <<u % 256, (u \div 256) % 256, (u \div 65536) % 256, u \div 16777216>>

ImmBytes(v) ==
    IF v >= 0 THEN LE32(v)
    ELSE LET b == LE32((v + 2147483647) + 1) IN [b EXCEPT ![4] = @ + 128]

WordBytes(ins) ==
    <<0, ins.rs2 * 8 + ins.mode, (ins.rd % 8) * 32 + ins.rs1, ins.opcode * 4 + ins.rd \div 8>>
        \o (IF ins.opcode \in AsmImmOpcodes THEN ImmBytes(ins.imm) ELSE <<>>)

Encode(prog) ==
    LET code == FoldLeft(LAMBDA acc, ins : acc \o WordBytes(ins), <<>>, prog)
    IN  Magic \o <<1, 0, 0, 0>> \o LE32(Len(code)) \o <<0, 0, 0, 0>> \o code

\* A file cut short by n bytes.
Cut(bin, n) == SubSeq(bin, 1, Len(bin) - n)

\* "Gcd" in lib/, "GCD" in examples/
NameGcd == [written |-> "Gcd", lower |-> "gcd"]
NameGcdUpper == [written |-> "GCD", lower |-> "gcd"]
NameFib == [written |-> "fib", lower |-> "fib"]

NlFile(name, category, difficulty, server, prog, asm) ==
    [name |-> name, category |-> category, difficulty |-> difficulty,
     prompts |-> TRUE, server |-> server, prog |-> prog, asm |-> asm]

Assembles(name, category, difficulty, server, prog) ==
    NlFile(name, category, difficulty, server, prog, Encode(prog))

LibGcd(ok) == NlFile(NameGcd, "math/number", 3, FALSE, <<IMov, IHalt>>,
                     IF ok THEN Encode(<<IMov, IHalt>>) ELSE AsmFail)
ExGcd == Assembles(NameGcdUpper, "math/number", 3, FALSE, <<IMov, IHalt>>)
ExFibServer == Assembles(NameFib, "network/server", 5, TRUE, <<IMov, IHalt>>)
ExFib == Assembles(NameFib, "algorithm/fib", 2, FALSE, <<IAdd, IBranch, IExtCall>>)
\* the same binary with its last immediate cut in half
ExFibCut == NlFile(NameFib, "algorithm/fib", 2, FALSE, <<IAdd, IBranch, IExtCall>>,
                   Cut(Encode(<<IAdd, IBranch, IExtCall>>), 2))
\* a binary shorter than its header
ExFibStub == NlFile(NameFib, "algorithm/fib", 2, FALSE, <<IAdd>>, Cut(Encode(<<IAdd>>), 5))

\* lib/ absent, or holding gcd that assembles, or gcd that does not.
MCLibDirs == {<<>>, <<LibGcd(TRUE)>>, <<LibGcd(FALSE)>>}

MCExampleDirs == {<<ExGcd, ExFib>>, <<ExFibServer, ExFibCut>>, <<ExFibStub>>}

MCFailingLib == {<<LibGcd(FALSE)>>}

MCNoLib == {<<>>}
=============================================================================
