----------------------------- MODULE NeurlangVM -----------------------------
(***************************************************************************)
(* The machine the generated training programs are written for.  The     *)
(* virtual machine is not part of this repository: its semantics is taken  *)
(* from the opcode and mode names the generators define                    *)
(* (diverse_patterns.py lines 19-58, the class attributes of               *)
(* ExtensionPatternGenerator and HTTPPatternGenerator) and from the        *)
(* comments of their templates:                                            *)
(*   - r31 reads as zero (diverse_patterns.py line 91);                    *)
(*   - MOV loads its immediate or copies rs1; ALU is register-register and *)
(*     ALUI takes the immediate;                                           *)
(*   - a taken branch, a jump or a call goes to pc + BranchBase + imm;     *)
(*   - CALL pushes the next pc and RET pops it; a RET with nothing to pop  *)
(*     returns from the routine the program is (the HTTP templates are     *)
(*     routines that end in RET);                                          *)
(*   - LOAD rd, [rs1 + imm] reads memory, STORE writes it;                 *)
(*   - EXT_CALL id, rd, rs1, rs2 calls host function id with its           *)
(*     arguments in rd, rs1 and rs2 and leaves its result in r0 ("parse ->  *)
(*     r0 = handle", extension_patterns.py line 436).                       *)
(*                                                                         *)
(* Memory is a set of buffers of Window bytes at the addresses the         *)
(* templates load (0x100, 0x1000, 0x2000, ...) and the cells of mem.  The  *)
(* buffer at ReqBase holds the request, a byte string followed by zeros;  *)
(* the others hold any bytes.  mem starts as the data a diverse memory or  *)
(* string template is given (an array, two strings, a destination) and    *)
(* records every store; a load reads mem where it has the address.  A     *)
(* cell holds the whole value an access of any width moves: no template   *)
(* accesses one address with two widths.  Which register of a STORE holds  *)
(* the address is StoreAddrField: ExtensionPatternGenerator._store's       *)
(* "store rs, [rd + offset]" and HTTPPatternGenerator._store_byte put it   *)
(* in rd, the diverse templates put the value in rd and the address in   *)
(* rs1.  Host handles (JSON documents,      *)
(* HTTP responses, TLS connections, SQLite databases and statements) are   *)
(* numbered from HandleBase, above every address the templates use.        *)
(*                                                                         *)
(* A step that would divide by zero, leave the instruction list, call past *)
(* MaxDepth, touch memory outside the buffers or produce a value beyond   *)
(* MaxValue is not enabled: the machine is stuck there, which the          *)
(* properties tell apart from halting.                                     *)
(***************************************************************************)
EXTENDS Integers, Sequences, FiniteSets, Bitwise, TLC

CONSTANTS
    BranchBase,   \* 0: target = pc + imm; 1: target = pc + 1 + imm
    MaxValue,     \* register values followed: -MaxValue..MaxValue
    MaxDepth,     \* bound on the call stack
    Window,       \* bytes of each buffer
    Bytes,        \* the byte values a buffer other than the request may hold
    ExtValues,    \* the results a host function that returns no handle may give
    ArrayLens,    \* the lengths EXT_JSON_ARRAY_LEN may report
    StoreAddrField \* "rd" or "rs1": the STORE operand that holds the address

ASSUME /\ BranchBase \in {0, 1} /\ MaxValue \in 1..1073741823 /\ MaxDepth \in Nat
       /\ Window \in Nat \ {0} /\ StoreAddrField \in {"rd", "rs1"}

\* Opcodes and modes, diverse_patterns.py lines 19-58; OP_NET and its
\* modes, http_patterns.py lines 109 and 126-127.
OP_ALU == 0
OP_ALUI == 1
OP_MULDIV == 2
OP_LOAD == 3
OP_STORE == 4
OP_BRANCH == 6
OP_CALL == 7
OP_RET == 8
OP_JUMP == 9
OP_NET == 21
OP_MOV == 28
OP_HALT == 29
OP_EXT_CALL == 32
ALU_ADD == 0
ALU_SUB == 1
ALU_AND == 2
ALU_OR == 3
ALU_XOR == 4
ALU_SHL == 5
ALU_SHR == 6
ALU_SAR == 7
BR_EQ == 0
BR_NE == 1
BR_LT == 2
BR_GE == 3
BR_LE == 4
BR_GT == 5
MD_MUL == 0
MD_DIV == 1
MD_MOD == 2
NET_RECV == 4
NET_SEND == 5

ZeroReg == 31

\* The Instruction dataclass (diverse_patterns.py lines 64-71, and the
\* same class in the other two generators).
Instruction(op, mode, rd, rs1, rs2, hasImm, imm) ==
    [opcode |-> op, mode |-> mode, rd |-> rd, rs1 |-> rs1, rs2 |-> rs2,
     has_imm |-> hasImm, imm |-> imm]

MovImm(rd, v) == Instruction(OP_MOV, 0, rd, 0, 0, 1, v)
MovReg(rd, rs) == Instruction(OP_MOV, 0, rd, rs, 0, 0, 0)
Halt == Instruction(OP_HALT, 0, 0, 0, 0, 0, 0)
Ret == Instruction(OP_RET, 0, 0, 0, 0, 0, 0)
Call(off) == Instruction(OP_CALL, 0, 0, 0, 0, 1, off)
Branch(mode, rs1, rs2, off) == Instruction(OP_BRANCH, mode, 0, rs1, rs2, 1, off)
Jump(off) == Instruction(OP_JUMP, 0, 0, 0, 0, 1, off)
AddI(rd, rs, v) == Instruction(OP_ALUI, ALU_ADD, rd, rs, 0, 1, v)
SubI(rd, rs, v) == Instruction(OP_ALUI, ALU_SUB, rd, rs, 0, 1, v)

-----------------------------------------------------------------------------
(* Host functions: extension IDs of extension_patterns.py lines 62-121.   *)

\* The functions that open a handle, by the kind of handle they return.
Opens == [id \in {170, 180, 190, 191, 192, 193, 245, 247, 500} |->
            CASE id \in {170, 180}           -> "json"
              [] id \in {190, 191, 192, 193} -> "http"
              [] id = 245                    -> "db"
              [] id = 247                    -> "stmt"
              [] id = 500                    -> "tls"]

\* The functions whose first argument (rd) is a handle, by its kind.
\* EXT_HTTP_SET_HEADER (198) is given the URL, not a response, and is
\* left out.
Uses == [id \in {171, 172, 173, 174, 175, 176, 177, 179, 181, 194, 195, 196,
                 197, 247, 248, 249, 250, 251, 252, 501, 502, 503} |->
            CASE id \in {171, 172, 173, 174, 175, 176, 177, 179, 181} -> "json"
              [] id \in {194, 195, 196, 197}                       -> "http"
              [] id \in {247, 250, 251, 252}                       -> "db"
              [] id \in {248, 249}                                 -> "stmt"
              [] id \in {501, 502, 503}                            -> "tls"]

\* The functions that release the handle they are given.
Closes == {179, 197, 503}

EXT_JSON_ARRAY_LEN == 175
EXT_SQLITE_STEP == 249
EXT_SQLITE_BEGIN == 250
EXT_SQLITE_COMMIT == 251
EXT_SQLITE_ROLLBACK == 252

HandleBase == 1048576
ReqBase == 4096
\* 0x100 is SyntheticGenerator's array; the others the pattern generators'.
Buffers == {256} \cup {4096 * k : k \in 1..6}

-----------------------------------------------------------------------------

VARIABLES
    prog,        \* the instruction list
    rf,          \* register file r0..r31
    pc,          \* index of the next instruction, from 0
    stack,       \* return addresses pushed by CALL
    status,      \* "running", "halted" (HALT) or "returned" (top-level RET)
    request,     \* the bytes of the request buffer
    mem,         \* mem[a]: the value of cell a, given or stored
    handles,     \* handles[k]: kind and state of handle HandleBase + k
    txn,         \* SQLite transaction: "none", "open", "committed", "rolledback"
    stepFailed   \* the last EXT_SQLITE_STEP reported an error

vmvars == <<prog, rf, pc, stack, status, request, mem, handles, txn, stepFailed>>

\* The machine about to run program p with x in r0, y in r1, request bytes
\* q and memory cells m.
VMInitMem(p, x, y, q, m) ==
    /\ prog = p /\ request = q /\ mem = m
    /\ rf = [k \in 0..31 |-> CASE k = 0 -> x [] k = 1 -> y [] OTHER -> 0]
    /\ pc = 0 /\ stack = <<>> /\ status = "running"
    /\ handles = <<>> /\ txn = "none" /\ stepFailed = FALSE

NoCells == [a \in {} |-> 0]

\* The machine about to run program p with x in r0 and request bytes q.
VMInit(p, x, q) == VMInitMem(p, x, 0, q, NoCells)

Read(k) == IF k = ZeroReg THEN 0 ELSE rf[k]
Write(k, v) == IF k = ZeroReg THEN rf ELSE [rf EXCEPT ![k] = v]

Cur == prog[pc + 1]
Target == pc + BranchBase + Cur.imm

\* Two's-complement bitwise operations on integers of any sign, from the
\* Bitwise operators on naturals and ~u = -u - 1.
BNot(u) == -u - 1
SAnd(u, v) ==
    CASE u >= 0 /\ v >= 0 -> u & v
      [] u < 0 /\ v < 0   -> BNot(BNot(u) | BNot(v))
      [] u < 0            -> v - (v & BNot(u))
      [] OTHER            -> u - (u & BNot(v))
SOr(u, v) == BNot(SAnd(BNot(u), BNot(v)))
SXor(u, v) ==
    CASE u >= 0 /\ v >= 0 -> u ^^ v
      [] u < 0 /\ v < 0   -> BNot(u) ^^ BNot(v)
      [] u < 0            -> BNot(BNot(u) ^^ v)
      [] OTHER            -> BNot(u ^^ BNot(v))

\* A value past MaxValue, computed without leaving TLC's integers.
TooBig == MaxValue + 1
Magnitude(u) == IF u < 0 THEN -u ELSE u
Mul(u, v) == IF v # 0 /\ Magnitude(u) > MaxValue \div Magnitude(v) THEN TooBig ELSE u * v
Shl(u, v) == IF v > 30 THEN (IF u = 0 THEN 0 ELSE TooBig) ELSE Mul(u, 2^v)

AluOp(mode, u, v) ==
    CASE mode = ALU_ADD -> u + v [] mode = ALU_SUB -> u - v
      [] mode = ALU_AND -> SAnd(u, v) [] mode = ALU_OR -> SOr(u, v)
      [] mode = ALU_XOR -> SXor(u, v) [] mode = ALU_SHL -> Shl(u, v)
      [] mode = ALU_SHR -> IF u >= 0 THEN shiftR(u, v) ELSE TooBig
      [] mode = ALU_SAR -> u \div 2^v

MulDivOp(mode, u, v) ==
    CASE mode = MD_MUL -> Mul(u, v) [] mode = MD_DIV -> u \div v [] mode = MD_MOD -> u % v

Taken(mode, u, v) ==
    CASE mode = BR_EQ -> u = v [] mode = BR_NE -> u # v [] mode = BR_LT -> u < v
      [] mode = BR_GE -> u >= v [] mode = BR_LE -> u <= v [] mode = BR_GT -> u > v

\* An address inside one of the buffers or a cell of mem, and the values
\* it may hold.
Mapped(a) == a \in DOMAIN mem \/ \E b \in Buffers : a - b \in 0..(Window - 1)
Contents(a) ==
    CASE a \in DOMAIN mem -> {mem[a]}
      [] a - ReqBase \in 0..(Window - 1) ->
            {IF a - ReqBase < Len(request) THEN request[a - ReqBase + 1] ELSE 0}
      [] OTHER -> Bytes \cup {0}

\* The handle a register names, if it names one.
HandleIndex(v) == v - HandleBase
IsOpen(v, kind) ==
    /\ HandleIndex(v) \in DOMAIN handles
    /\ handles[HandleIndex(v)].open
    /\ handles[HandleIndex(v)].kind = kind

InProgram == pc \in 0..(Len(prog) - 1)

\* The machine is running and the next instruction has opcode op.
Fetch(op) == status = "running" /\ InProgram /\ Cur.opcode = op

\* Write v to rd and go on with the next instruction.
WriteNext(rd, v) ==
    /\ v \in -MaxValue..MaxValue
    /\ rf' = Write(rd, v) /\ pc' = pc + 1
    /\ UNCHANGED <<prog, stack, status, request, mem, handles, txn, stepFailed>>

Goto(pc2) ==
    /\ pc' = pc2
    /\ UNCHANGED <<prog, rf, stack, status, request, mem, handles, txn, stepFailed>>

ExecMov ==
    /\ Fetch(OP_MOV)
    /\ WriteNext(Cur.rd, IF Cur.has_imm = 1 THEN Cur.imm ELSE Read(Cur.rs1))

ExecAlu ==
    /\ Fetch(OP_ALU)
    /\ Cur.mode \in {ALU_SHL, ALU_SAR, ALU_SHR} => Read(Cur.rs2) >= 0
    /\ WriteNext(Cur.rd, AluOp(Cur.mode, Read(Cur.rs1), Read(Cur.rs2)))

ExecAluImm ==
    /\ Fetch(OP_ALUI)
    /\ WriteNext(Cur.rd, AluOp(Cur.mode, Read(Cur.rs1), Cur.imm))

ExecMulDiv ==
    /\ Fetch(OP_MULDIV)
    /\ Cur.mode = MD_MUL \/ Read(Cur.rs2) # 0
    /\ WriteNext(Cur.rd, MulDivOp(Cur.mode, Read(Cur.rs1), Read(Cur.rs2)))

ExecLoad ==
    /\ Fetch(OP_LOAD)
    /\ Mapped(Read(Cur.rs1) + Cur.imm)
    /\ \E v \in Contents(Read(Cur.rs1) + Cur.imm) : WriteNext(Cur.rd, v)

\* The address and the value register of the STORE about to run.
StoreAddrReg == IF StoreAddrField = "rd" THEN Cur.rd ELSE Cur.rs1
StoreValReg == IF StoreAddrField = "rd" THEN Cur.rs1 ELSE Cur.rd

ExecStore ==
    /\ Fetch(OP_STORE)
    /\ Mapped(Read(StoreAddrReg) + Cur.imm)
    /\ mem' = (Read(StoreAddrReg) + Cur.imm :> Read(StoreValReg)) @@ mem
    /\ pc' = pc + 1
    /\ UNCHANGED <<prog, rf, stack, status, request, handles, txn, stepFailed>>

\* A branch mode no generator defines (gen_gcd_variant's 7) has no step.
ExecBranch ==
    /\ Fetch(OP_BRANCH)
    /\ Cur.mode \in {BR_EQ, BR_NE, BR_LT, BR_GE, BR_LE, BR_GT}
    /\ Goto(IF Taken(Cur.mode, Read(Cur.rs1), Read(Cur.rs2)) THEN Target ELSE pc + 1)

ExecJump ==
    /\ Fetch(OP_JUMP)
    /\ Goto(Target)

ExecCall ==
    /\ Fetch(OP_CALL)
    /\ Len(stack) < MaxDepth
    /\ stack' = Append(stack, pc + 1) /\ pc' = Target
    /\ UNCHANGED <<prog, rf, status, request, mem, handles, txn, stepFailed>>

ExecRet ==
    /\ Fetch(OP_RET)
    /\ stack # <<>>
    /\ pc' = stack[Len(stack)] /\ stack' = SubSeq(stack, 1, Len(stack) - 1)
    /\ UNCHANGED <<prog, rf, status, request, mem, handles, txn, stepFailed>>

\* RET with no return address: the routine returns to its host.
ExecRetTop ==
    /\ Fetch(OP_RET)
    /\ stack = <<>>
    /\ status' = "returned"
    /\ UNCHANGED <<prog, rf, pc, stack, request, mem, handles, txn, stepFailed>>

\* NET send or receive on a socket: the count the host reports goes to rd.
ExecNet ==
    /\ Fetch(OP_NET)
    /\ \E v \in ExtValues : WriteNext(Cur.rd, v)

\* An EXT_CALL that opens a handle: a fresh handle number goes to r0.
ExecExtOpen ==
    /\ Fetch(OP_EXT_CALL)
    /\ Cur.imm \in DOMAIN Opens
    /\ handles' = Append(handles, [kind |-> Opens[Cur.imm], open |-> TRUE])
    /\ rf' = Write(0, HandleBase + Len(handles) + 1) /\ pc' = pc + 1
    /\ UNCHANGED <<prog, stack, status, request, mem, txn, stepFailed>>

\* Any other EXT_CALL: its result goes to r0; a close marks its handle
\* released, and the SQLite calls move the transaction.
ExecExtCall ==
    /\ Fetch(OP_EXT_CALL)
    /\ Cur.imm \notin DOMAIN Opens
    /\ \E v \in (IF Cur.imm = EXT_JSON_ARRAY_LEN THEN ArrayLens ELSE ExtValues) :
         /\ rf' = Write(0, v) /\ pc' = pc + 1
         /\ handles' =
              IF Cur.imm \in Closes /\ HandleIndex(Read(Cur.rd)) \in DOMAIN handles
              THEN [handles EXCEPT ![HandleIndex(Read(Cur.rd))].open = FALSE]
              ELSE handles
         /\ txn' = CASE Cur.imm = EXT_SQLITE_BEGIN    -> "open"
                     [] Cur.imm = EXT_SQLITE_COMMIT   -> "committed"
                     [] Cur.imm = EXT_SQLITE_ROLLBACK -> "rolledback"
                     [] OTHER                         -> txn
         /\ stepFailed' = IF Cur.imm = EXT_SQLITE_STEP THEN v # 0 ELSE stepFailed
    /\ UNCHANGED <<prog, stack, status, request, mem>>

ExecHalt ==
    /\ Fetch(OP_HALT)
    /\ status' = "halted"
    /\ UNCHANGED <<prog, rf, pc, stack, request, mem, handles, txn, stepFailed>>


Finished == status \in {"halted", "returned"}

====
