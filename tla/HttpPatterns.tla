---------------------------- MODULE HttpPatterns ----------------------------
(***************************************************************************)
(* HTTPPatternGenerator (src/train/generators/http_patterns.py): the       *)
(* gen_* methods, each the instruction list of one routine over the        *)
(* request buffer at 0x1000.  Their random choices (content type, cookie  *)
(* name, status code, header) only change the prompt, so each method has  *)
(* one program.  The "stubs" the templates call are the RET-ending tails   *)
(* of the same list.                                                       *)
(***************************************************************************)
EXTENDS NeurlangVM

\* The instruction helpers, lines 194-234.
LoadByte(rd, rs, off) == Instruction(OP_LOAD, 0, rd, rs, 0, 1, off)
StoreByte(rs, rd, off) == Instruction(OP_STORE, 0, rd, rs, 0, 1, off)
Alu(mode, rd, rs1, rs2) == Instruction(OP_ALU, mode, rd, rs1, rs2, 0, 0)
AluI(mode, rd, rs, v) == Instruction(OP_ALUI, mode, rd, rs, 0, 1, v)
NetSend(rd, fd, buf) == Instruction(OP_NET, NET_SEND, rd, fd, buf, 1, 0)

\* "find_header" scanning for a NUL and "strcmp", lines 240-290.
http_parse_content_type ==
    << MovImm(0, 4096), MovImm(1, 8192), Call(10), Branch(BR_EQ, 0, 0, 7),
       MovImm(1, 12288), Call(15), MovReg(5, 0), Ret,
       LoadByte(2, 0, 0), Branch(BR_EQ, 2, 0, 3), AluI(ALU_ADD, 0, 0, 1),
       Branch(BR_EQ, 0, 0, -3), MovImm(0, 0), Ret,
       LoadByte(2, 0, 0), LoadByte(3, 1, 0), Branch(BR_NE, 2, 3, 4),
       Branch(BR_EQ, 2, 0, 3), AluI(ALU_ADD, 0, 0, 1), AluI(ALU_ADD, 1, 1, 1),
       Branch(BR_EQ, 0, 0, -6), MovImm(0, 1), Ret, MovImm(0, 0), Ret >>

\* Token after the scheme, copied up to a space, lines 291-335.
http_parse_authorization ==
    << MovImm(0, 4096), MovImm(1, 8192), Call(8), Branch(BR_EQ, 0, 0, 5),
       AluI(ALU_ADD, 0, 0, 7), MovImm(1, 12288), Call(12), Ret,
       MovImm(0, 0), Ret, MovImm(0, 4352), Ret,
       LoadByte(2, 0, 0), MovImm(3, 32), Branch(BR_EQ, 2, 3, 4),
       Branch(BR_EQ, 2, 0, 3), StoreByte(2, 1, 0), AluI(ALU_ADD, 0, 0, 1),
       AluI(ALU_ADD, 1, 1, 1), Branch(BR_EQ, 0, 0, -6), StoreByte(0, 1, 0), Ret >>

\* Decimal digits after "Content-Length:", lines 336-379.
http_parse_content_length ==
    << MovImm(0, 4096), MovImm(1, 8192), Call(8), Branch(BR_EQ, 0, 0, 5),
       Call(12), Ret, MovImm(0, 0), Ret, MovImm(0, 4352), Ret,
       MovImm(1, 0), LoadByte(2, 0, 0), MovImm(3, 48), Alu(ALU_SUB, 4, 2, 3),
       MovImm(5, 10), Branch(BR_GE, 4, 5, 4), Branch(BR_LT, 4, 0, 3),
       MovImm(5, 10), AluI(ALU_ADD, 1, 1, 0), AluI(ALU_ADD, 0, 0, 1),
       Branch(BR_EQ, 0, 0, -9), MovReg(0, 1), Ret >>

\* Accept header, lines 380-410.
http_parse_accept_header ==
    << MovImm(0, 4096), MovImm(1, 8192), Call(6), Branch(BR_EQ, 0, 0, 3),
       MovImm(1, 12288), Call(10), Ret, MovImm(0, 1), Ret,
       MovImm(0, 4352), Ret, MovImm(0, 1), Ret >>

\* Cookie header, lines 411-445.
http_parse_cookie_header ==
    << MovImm(0, 4096), MovImm(1, 8192), Call(8), Branch(BR_EQ, 0, 0, 5),
       MovImm(1, 12288), Call(12), Ret, MovImm(0, 0), Ret,
       MovImm(0, 4352), Ret, MovImm(0, 16384), Ret >>

\* If-Match / If-None-Match, lines 446-488 (the header only changes the
\* prompt).
http_parse_if_match ==
    << MovImm(0, 4096), MovImm(1, 8192), Call(6), Branch(BR_EQ, 0, 0, 3),
       Call(10), Ret, MovImm(0, 0), Ret, MovImm(0, 4352), Ret,
       MovImm(0, 12288), Ret >>

\* Status line, headers, length and send, lines 489-530.
http_send_success_response ==
    << MovImm(0, 4096), MovImm(1, 8192), Call(10), MovImm(1, 12288), Call(10),
       MovImm(1, 16384), Call(10), MovImm(1, 0), Call(14), MovImm(1, 20480),
       Call(10), MovImm(1, 11), MovReg(2, 0), NetSend(0, 1, 2), Ret, Ret, Ret >>

\* Error status line, headers, body and send, lines 531-572.
http_send_error_response ==
    << MovImm(0, 4096), MovImm(1, 8192), Call(12), MovImm(1, 12288), Call(12),
       MovImm(1, 16384), Call(12), MovImm(1, 11), MovReg(2, 0), MovImm(3, 256),
       NetSend(0, 1, 2), Ret, Ret >>

\* 2xx test on the status in r0, lines 573-601.
http_check_status_code ==
    << MovImm(1, 200), Branch(BR_LT, 0, 1, 6), MovImm(1, 300),
       Branch(BR_GE, 0, 1, 4), MovImm(0, 1), Ret, MovImm(0, 0), Ret >>

\* Method from its first one or two letters, lines 602-650.
http_parse_http_method ==
    << MovImm(0, 4096), LoadByte(1, 0, 0),
       MovImm(2, 71), Branch(BR_EQ, 1, 2, 8), MovImm(2, 80), Branch(BR_EQ, 1, 2, 8),
       MovImm(2, 68), Branch(BR_EQ, 1, 2, 8), MovImm(2, 72), Branch(BR_EQ, 1, 2, 8),
       MovImm(0, 0), Ret, MovImm(0, 1), Ret,
       LoadByte(1, 0, 1), MovImm(2, 79), Branch(BR_EQ, 1, 2, 3),
       MovImm(0, 3), Ret, MovImm(0, 2), Ret,
       MovImm(0, 4), Ret, MovImm(0, 5), Ret >>

\* Path between the first space and the next space or '?', lines 651-688.
http_parse_request_path ==
    << MovImm(0, 4096), MovImm(1, 8192),
       LoadByte(2, 0, 0), MovImm(3, 32), Branch(BR_EQ, 2, 3, 2),
       AluI(ALU_ADD, 0, 0, 1), Branch(BR_EQ, 0, 0, -4), AluI(ALU_ADD, 0, 0, 1),
       LoadByte(2, 0, 0), MovImm(3, 32), Branch(BR_EQ, 2, 3, 6),
       MovImm(3, 63), Branch(BR_EQ, 2, 3, 4), StoreByte(2, 1, 0),
       AluI(ALU_ADD, 0, 0, 1), AluI(ALU_ADD, 1, 1, 1), Branch(BR_EQ, 0, 0, -8),
       StoreByte(0, 1, 0), Ret >>

\* Skip to the '?' and look the parameter up, lines 689-726.
http_parse_query_string ==
    << MovImm(0, 4096), MovImm(1, 8192),
       LoadByte(2, 0, 0), MovImm(3, 63), Branch(BR_EQ, 2, 3, 3),
       Branch(BR_EQ, 2, 0, 5), AluI(ALU_ADD, 0, 0, 1), Branch(BR_EQ, 0, 0, -5),
       AluI(ALU_ADD, 0, 0, 1), Call(8), Ret, MovImm(0, 0), Ret,
       MovImm(0, 12288), Ret >>

\* Scan for CR LF CR LF, lines 727-764.
http_parse_request_body ==
    << MovImm(0, 4096),
       LoadByte(1, 0, 0), MovImm(2, 13), Branch(BR_NE, 1, 2, 3),
       LoadByte(1, 0, 1), MovImm(2, 10), Branch(BR_NE, 1, 2, 6),
       LoadByte(1, 0, 2), MovImm(2, 13), Branch(BR_NE, 1, 2, 4),
       LoadByte(1, 0, 3), MovImm(2, 10), Branch(BR_EQ, 1, 2, 3),
       AluI(ALU_ADD, 0, 0, 1), Branch(BR_EQ, 0, 0, -13),
       AluI(ALU_ADD, 0, 0, 4), Ret >>

\* Status line, headers, computed length, body, lines 765-806.
http_build_json_response ==
    << MovImm(0, 4096), MovImm(1, 8192), Call(16), MovReg(5, 0),
       MovImm(1, 12288), Call(16), MovImm(1, 16384), Call(16),
       MovImm(0, 20480), Call(20), MovReg(6, 0), MovReg(0, 5), MovReg(1, 6),
       Call(24), MovImm(1, 24576), Call(16), MovImm(1, 20480), Call(16), Ret,
       Ret, MovImm(0, 64), Ret, Ret >>

\* One header line, lines 807-840.
http_build_response_headers ==
    << MovImm(0, 4096), MovImm(1, 8192), Call(8), MovImm(1, 12288), Call(8),
       MovImm(1, 16384), Call(8), MovImm(1, 20480), Call(8), Ret, Ret >>

\* 3xx with Location, then send, lines 841-879.
http_send_redirect ==
    << MovImm(0, 4096), MovImm(1, 8192), Call(10), MovImm(1, 12288), Call(10),
       MovImm(1, 16384), Call(10), MovImm(1, 20480), Call(10),
       MovImm(1, 11), MovImm(2, 4096), MovImm(3, 128), NetSend(0, 1, 2), Ret, Ret >>

\* Dispatch on the method's first letter, lines 880-923.
http_method_router ==
    << MovImm(0, 4096), LoadByte(1, 0, 0),
       MovImm(2, 71), Branch(BR_EQ, 1, 2, 10), MovImm(2, 80), Branch(BR_EQ, 1, 2, 10),
       MovImm(2, 68), Branch(BR_EQ, 1, 2, 10), MovImm(0, 405), Call(20), Ret,
       Call(22), Ret, Call(24), Ret, Call(26), Ret, Ret, Ret, Ret, Ret >>

\* 204 with the Access-Control headers, then send, lines 924-958.
http_cors_preflight ==
    << MovImm(0, 4096), MovImm(1, 8192), Call(14), MovImm(1, 12288), Call(14),
       MovImm(1, 16384), Call(14), MovImm(1, 20480), Call(14), MovImm(1, 24576),
       Call(14), MovImm(1, 11), MovImm(2, 4096), MovImm(3, 256), NetSend(0, 1, 2),
       Ret, Ret >>

\* generate(), lines 164-167: the method drawn by weight.
HttpProgram(g) ==
    CASE g = "parse_content_type" -> http_parse_content_type
      [] g = "parse_authorization" -> http_parse_authorization
      [] g = "parse_content_length" -> http_parse_content_length
      [] g = "parse_accept_header" -> http_parse_accept_header
      [] g = "parse_cookie_header" -> http_parse_cookie_header
      [] g = "parse_if_match" -> http_parse_if_match
      [] g = "send_success_response" -> http_send_success_response
      [] g = "send_error_response" -> http_send_error_response
      [] g = "check_status_code" -> http_check_status_code
      [] g = "parse_http_method" -> http_parse_http_method
      [] g = "parse_request_path" -> http_parse_request_path
      [] g = "parse_query_string" -> http_parse_query_string
      [] g = "parse_request_body" -> http_parse_request_body
      [] g = "build_json_response" -> http_build_json_response
      [] g = "build_response_headers" -> http_build_response_headers
      [] g = "send_redirect" -> http_send_redirect
      [] g = "method_router" -> http_method_router
      [] g = "cors_preflight" -> http_cors_preflight

HttpNames == {"parse_content_type", "parse_authorization", "parse_content_length",
    "parse_accept_header", "parse_cookie_header", "parse_if_match",
    "send_success_response", "send_error_response", "check_status_code",
    "parse_http_method", "parse_request_path", "parse_query_string",
    "parse_request_body", "build_json_response", "build_response_headers",
    "send_redirect", "method_router", "cors_preflight"}

====
