------------------------ MODULE MCParallelDataset ------------------------
(* Small training files for ParallelDataset: three instruction shapes,  *)
(* texts of one, two and three UTF-8 bytes per code point, and lines   *)
(* that are unparseable or not JSON objects.                           *)
EXTENDS ParallelDataset

\* add r1, r2, r3
IAdd == [valid |-> 1, opcode |-> 3, mode |-> 0, rd |-> 1, rs1 |-> 2, rs2 |-> 3,
         has_imm |-> 0, imm_bin |-> 0]

\* a backward branch: negative immediate
IBranch == [valid |-> 1, opcode |-> 20, mode |-> 1, rd |-> 0, rs1 |-> 1, rs2 |-> 0,
            has_imm |-> 1, imm_bin |-> -24]

\* fields outside the heads' class ranges, above and below
IWide == [valid |-> 1, opcode |-> 40, mode |-> 9, rd |-> 33, rs1 |-> -1, rs2 |-> 0,
          has_imm |-> 2, imm_bin |-> 300]

\* "h", and "é€" (2 + 3 UTF-8 bytes)
Texts == {<<>>, <<104>>, <<233, 8364>>}

RecordLines(instrSeqs) ==
    [context : Texts, prompt : {<<>>, <<104>>}, instructions : instrSeqs]

MCLines == {BadJson, NonObject} \cup
           RecordLines({<<>>, <<IAdd>>, <<IAdd, IBranch, IAdd>>})

MCWideLines == RecordLines({<<IWide>>})

MCObjectLines == {BadJson} \cup RecordLines({<<>>, <<IAdd>>})
=============================================================================
