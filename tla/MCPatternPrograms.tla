------------------------- MODULE MCPatternPrograms ---------------------------
(***************************************************************************)
(* Model values for PatternPrograms.  For the diverse templates each      *)
(* random.randint is represented by the two ends of its range (and an     *)
(* inner value where the program's behaviour depends on how two draws     *)
(* compare), each random.choice by all of its options.  gen_abs_value's   *)
(* second method applies the register-register OP_ALU with an immediate   *)
(* shift of 63, which has no meaning under the opcode table, so only its  *)
(* first method is drawn.  Where the source range passes TLC's 32-bit     *)
(* integers (0xDEADBEEF, 5^16 in gen_power_binary's squaring) the range   *)
(* is cut and the README says so.  The extension templates draw every    *)
(* host function their methods choose between; the HTTP templates have   *)
(* one program each.                                                       *)
(***************************************************************************)
EXTENDS PatternPrograms

Ops2 == {<<u, v>> : u, v \in {"+", "-", "*"}} \ {<<"+", "+">>, <<"-", "-">>, <<"*", "*">>}

MCParams == [g \in DOMAIN NamesUsed \cup DOMAIN ExtIds \cup HttpNames \cup SynthNames |->
    CASE g \in DOMAIN ExtIds -> [id : ExtIds[g]]
      [] g = "simple_arithmetic" -> [op : DOMAIN SynthAluMode, a : {1, 100}, b : {1, 100}]
      [] g = "loop_pattern" -> [n : {5, 20}]
      [] g = "fibonacci_variant" -> [n : {5, 15}]
      [] g = "factorial_variant" -> [n : {3, 10}]
      [] g = "gcd_variant" -> [a : {10, 36, 100}, b : {10, 36, 100}]
      [] g = "array_operation" -> [size : {3, 10}]
      [] g \in SynthNames -> {[n |-> 0]}
      [] g \in HttpNames -> {[n |-> 0]}
      [] g = "arithmetic_diverse" ->
            [op : DOMAIN AluModeOf, a : {1, 1000}, b : {1, 100}, move : BOOLEAN]
      [] g = "multi_op_arithmetic" -> [ops : Ops2, a : {1, 100}, b : {1, 100}, c : {1, 20}]
      [] g = "compound_arithmetic" ->
            [pat : {"increment", "decrement", "double", "square", "negate"}, val : {1, 100}]
      [] g = "count_loop" -> [n : {5, 50}]
      [] g = "while_loop" -> [n : {3, 20}]
      [] g = "do_while_loop" -> [n : {2, 10}]
      [] g = "nested_loop" -> [n : {3, 8}, m : {3, 8}]
      [] g = "if_else" -> [t : {10, 100}]
      [] g = "if_chain" -> [t1 : {10, 30}, t2 : {50, 80}]
      [] g = "min_max" -> [isMin : BOOLEAN, a : {1, 50, 100}, b : {1, 50, 100}]
      [] g = "clamp" -> [lo : {0, 20}, hi : {80, 100}]
      [] g = "abs_value" -> [method : {1}]
      [] g \in {"function_call"} -> {[n |-> 0]}
      [] g = "recursive_factorial" -> [n : {3, 8}]
      [] g = "recursive_fibonacci" -> [n : {5, 12}]
      [] g = "tail_recursive" -> [n : {5, 20}]
      [] g \in {"factorial_iterative_up", "factorial_iterative_down"} -> [n : {3, 12}]
      [] g = "fibonacci_iterative" -> [n : {5, 20}]
      [] g = "gcd_euclidean" -> [a : {10, 36, 100}, b : {10, 36, 100}]
      [] g = "gcd_subtraction" -> [a : {10, 36, 50}, b : {10, 36, 50}]
      [] g = "power_iterative" -> [base : {2, 5}, exp : {2, 8}]
      [] g = "power_binary" -> [base : {2}, exp : {2, 10}] \cup [base : {5}, exp : {2, 3}]
      [] g = "bitwise_ops" ->
            [op : {"and", "or", "xor"}, a : {1, 255}, b : {1, 255}]
            \cup [op : {"shl", "shr"}, a : {1, 255}, b : {1, 8}]
      [] g = "bit_count" -> [val : {1, 1000}]
      [] g = "bit_shift_multiply" -> [val : {1, 100}, shift : {1, 5}]
      [] g = "bit_mask" -> [bits : {1, 16}]
      [] g = "bit_reverse" -> [val : {1, 255}]
      [] g = "compare_chain" ->
            {q \in [a : {1, 50, 100}, b : {1, 50, 100}, c : {1, 50, 100}] :
                q.a <= q.b /\ q.b <= q.c}
      [] g = "bounds_check" -> [size : {10, 100}]
      [] g = "range_check" -> [lo : {0, 50}, hi : {51, 100}]
      [] g = "load_constant" -> [val : {0, 1, -1, 2, 127, 128, 65535}]
      [] g = "load_large_constant" -> [val : {65536, 1048576, 16777215}]
      [] g = "array_access" -> [base : {ArrayBase, ArrayBase + 4096}, idx : {0, 10}, size : {1, 4, 8}]
      [] g = "array_sum" -> [n : {5, 20}]
      [] g = "array_search" -> [n : {5, 20}, target : {1, 100}]
      [] g = "copy_memory" -> [n : {4, 16}]
      [] g = "single_ext_call" -> [id : {1, 170, 190, 260, 330, 440}]
      [] g = "ext_call_chain" -> [ids : {<<190, 195>>, <<170, 171>>, <<260, 264, 268>>, <<1, 420>>}]
      [] g = "ext_call_with_check" -> [id : {190, 260, 500}]
      [] g \in {"swap_memory", "string_length", "string_copy", "string_compare"} -> {[n |-> 0]}]

\* The data the memory and string templates are given.  Arrays hold one
\* more element than the largest count drawn, so that a loop that runs once
\* too often reads a value instead of stopping; the source of a copy is
\* followed by bytes that must not be copied, and the destination starts
\* as 9s.  Src (r0) and Dst (r1) are the two string addresses.
Src == ArrayBase
Dst == ArrayBase + 64
Seg(a, s) == [k \in {a + j : j \in 0..(Len(s) - 1)} |-> s[k - a + 1]]
Filled(a, n, v) == [k \in {a + j : j \in 0..(n - 1)} |-> v]
NoImage == [r1 |-> 0, cells |-> NoCells]
Array(n, f(_)) == [k \in {ArrayBase + 8 * j : j \in 0..(n - 1)} |-> f((k - ArrayBase) \div 8)]
AccessCells == {b + i * w : b \in {ArrayBase, ArrayBase + 4096}, i \in {0, 10}, w \in {1, 4, 8}}
StrImages == [string_length |-> {<<0>>, <<97, 98, 99, 0, 5>>},
              string_copy |-> {<<0, 5>>, <<97, 98, 0, 5>>},
              string_compare |-> {<<97, 98, 0>>, <<0>>}]
StrOther == {<<97, 98, 0>>, <<97, 99, 0>>, <<97, 0>>, <<0>>}

MCImages == [g \in DOMAIN MCParams |->
    CASE g = "array_access" -> {[r1 |-> 0, cells |-> [a \in AccessCells |-> a - ArrayBase + 1]]}
      [] g = "array_sum" -> {[r1 |-> 0, cells |-> Array(21, LAMBDA j : j + 1)]}
      [] g = "array_search" ->
            {[r1 |-> 0, cells |-> Array(21, LAMBDA j : IF j = h THEN 100 ELSE j + 1)] : h \in {4, 19, 20}}
      [] g = "swap_memory" -> {[r1 |-> 0, cells |-> Array(3, LAMBDA j : 7 + 2 * j)]}
      [] g = "copy_memory" ->
            {[r1 |-> Dst, cells |-> Seg(Src, [j \in 1..17 |-> j]) @@ Filled(Dst, 17, 9)]}
      [] g = "string_length" -> {[r1 |-> 0, cells |-> Seg(Src, s)] : s \in StrImages[g]}
      [] g = "string_copy" ->
            {[r1 |-> Dst, cells |-> Seg(Src, s) @@ Filled(Dst, 4, 9)] : s \in StrImages[g]}
      [] g = "string_compare" ->
            {[r1 |-> Dst, cells |-> Seg(Src, s) @@ Seg(Dst, t)] : s \in StrImages[g], t \in StrOther}
      [] OTHER -> {NoImage}]

\* The inputs that matter to the diverse templates that read r0: each
\* threshold, one below and one above it.  gen_check_status_code reads the
\* status in r0: the ends of the 2xx range and one past each.
MCInputs == [g \in DOMAIN MCParams |->
    CASE g \in {"copy_memory"} \cup DOMAIN StrImages -> {Src}
      [] g \in {"array_access", "array_sum", "array_search", "swap_memory",
                "single_ext_call", "ext_call_chain", "ext_call_with_check"} -> {0}
      [] g \in DOMAIN NamesUsed \cup {"conditional_pattern"} -> {-1, 0, 10, 11, 60, 100, 101}
      [] g = "check_status_code"    -> {199, 200, 299, 300}
      [] OTHER                      -> {0}]

\* Request lines whose first two letters tell the methods apart, and an
\* empty request; only the HTTP templates read the request buffer.
MCRequests == [g \in DOMAIN MCParams |->
    IF g \in HttpNames
    THEN {<<71, 69>>, <<80, 79>>, <<80, 85>>, <<68, 69>>, <<72, 69>>, <<>>}
    ELSE {<<>>}]

\* The diverse templates whose programs compute their prompt with
\* BranchBase 0 whatever registers and constants are drawn.  Of the memory
\* and string templates, array_search returns the count instead of -1 when
\* the target is absent (its JUMP +1 skips nothing), copy_memory and
\* string_copy copy the source onto itself when the source is allocated
\* r1, and string_compare always ends on its "equal" MOV r0, 0.  The
\* extension-call templates' prompts name no value.
MCSound == {"arithmetic_diverse", "multi_op_arithmetic", "count_loop",
    "while_loop", "do_while_loop", "nested_loop", "tail_recursive",
    "factorial_iterative_up", "factorial_iterative_down",
    "fibonacci_iterative", "gcd_euclidean", "power_iterative", "bitwise_ops",
    "bit_shift_multiply", "bit_mask", "compare_chain", "load_constant",
    "load_large_constant", "array_access", "array_sum", "swap_memory",
    "string_length"}

\* The diverse templates whose programs stay on their instructions and
\* halt with BranchBase 0: all but if_chain (jumps past its end),
\* gcd_subtraction and recursive_fibonacci (loop forever for some draws),
\* and power_binary and bit_count (loop forever when "one" is allocated
\* r30, which the template overwrites with a bit of the counter).
MCControl == DOMAIN NamesUsed \ {"if_chain", "gcd_subtraction", "recursive_fibonacci",
                                 "power_binary", "bit_count"}

\* The HTTP templates that stay on their instructions and return: the
\* others call with one offset from several call sites and leave the list,
\* or scan the request without a bound and run past the buffer.
MCHttpControl == {"parse_authorization", "parse_accept_header",
    "parse_cookie_header", "parse_if_match", "check_status_code", "parse_http_method"}

\* The synthetic templates that stay on their instructions and halt: all
\* but gcd_variant, whose back branch has the undefined mode 7.
MCSynthControl == SynthNames \ {"gcd_variant"}

\* The synthetic templates whose programs compute their prompt: only
\* simple_arithmetic has no branch comparing r0 with itself.
MCSynthSound == {"simple_arithmetic"}

MCPrograms == MCControl \cup DOMAIN ExtIds \cup MCHttpControl \cup MCSynthControl

MCComputed == MCSound \cup MCSynthSound

====
