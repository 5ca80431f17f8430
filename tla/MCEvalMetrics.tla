-------------------------- MODULE MCEvalMetrics --------------------------
(* Validation splits of up to three samples with two slots each: a real   *)
(* instruction followed by a padding record, two real instructions, and  *)
(* a sample of padding records only (an all-padding batch).               *)
EXTENDS EvalMetrics

\* add r1, r2, r3
IAdd == [valid |-> 1, opcode |-> 3, mode |-> 0, rd |-> 1, rs1 |-> 2, rs2 |-> 3,
         has_imm |-> 0, imm_bin |-> 0]

\* a padding record as pad_instructions writes it: valid 0, all fields 0
IPad == [valid |-> 0, opcode |-> 0, mode |-> 0, rd |-> 0, rs1 |-> 0, rs2 |-> 0,
         has_imm |-> 0, imm_bin |-> 0]

MCValPrograms == {<<IAdd, IPad>>, <<IAdd, IAdd>>, <<IPad, IPad>>}

\* right; the opcode wrong; the validity wrong with a register and the
\* immediate (heads of weights 1, 2 and 1/2 all take part)
MCOutcomes == {{}, {"opcode"}, {"valid", "rd", "imm_bin"}}
=============================================================================
