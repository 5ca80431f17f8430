------------------------- MODULE ExtensionPatterns --------------------------
(***************************************************************************)
(* ExtensionPatternGenerator (src/train/generators/extension_patterns.py): *)
(* the gen_*_pattern methods, each the instruction list of one composition *)
(* of host functions.  The random choices that change the instructions    *)
(* (which hash, HMAC, cipher direction, JSON getter, codec) are the        *)
(* parameter p.id; the others only change the prompt and are left out.     *)
(* Registers are fixed by the templates: there is no allocator here.      *)
(***************************************************************************)
EXTENDS NeurlangVM

\* _ext_call, lines 226-228: ext.call ext_id, r0, r1, r2.
ExtCall(id, a, b, c) == Instruction(OP_EXT_CALL, 0, a, b, c, 1, id)

\* Pointer and length setup shared by the one-call templates: mov rk, v_k.
Setup(vals) == [k \in DOMAIN vals |-> MovImm(k - 1, vals[k])]

\* gen_hash_pattern, lines 266-295.
ext_hash_pattern(p) ==
    Setup(<<4096, 256, 8192>>) \o <<ExtCall(p.id, 0, 1, 2), Halt>>

\* gen_hmac_pattern, lines 296-324.
ext_hmac_pattern(p) ==
    Setup(<<4096, 128, 8192, 32, 12288>>) \o <<ExtCall(p.id, 0, 1, 2), Halt>>

\* gen_sign_verify_pattern, lines 325-362: sign (8) or verify (9).
ext_sign_verify_pattern(p) ==
    Setup(<<4096, 64, 8192, 12288>>) \o <<ExtCall(p.id, 0, 1, 2), Halt>>

\* gen_encrypt_decrypt_pattern, lines 363-395.
ext_encrypt_decrypt_pattern(p) ==
    Setup(<<4096, 256, 8192, 12288, 16384>>) \o <<ExtCall(p.id, 0, 1, 2), Halt>>

\* gen_password_hash_pattern, lines 396-420: Argon2id.
ext_password_hash_pattern(p) ==
    Setup(<<4096, 16, 8192, 12288>>) \o <<ExtCall(35, 0, 1, 2), Halt>>

\* Variant: the document is freed before the field is read from it.
ext_json_parse_extract_pattern_FreeFirst(p) ==
    << MovImm(0, 4096), MovImm(1, 256), ExtCall(170, 0, 1, 0), MovReg(5, 0),
       MovReg(0, 5), ExtCall(179, 0, 0, 0),
       MovImm(1, 8192), MovImm(2, 12288), ExtCall(p.id, 5, 1, 2), MovReg(6, 0),
       MovReg(0, 6), Halt >>

\* gen_json_parse_extract_pattern, lines 421-455: parse, get one field,
\* free the document, return the field.
ext_json_parse_extract_pattern(p) ==
    << MovImm(0, 4096), MovImm(1, 256), ExtCall(170, 0, 1, 0), MovReg(5, 0),
       MovImm(1, 8192), MovImm(2, 12288), ExtCall(p.id, 5, 1, 2), MovReg(6, 0),
       MovReg(0, 5), ExtCall(179, 0, 0, 0), MovReg(0, 6), Halt >>

\* gen_json_build_pattern, lines 456-485.
ext_json_build_pattern(p) ==
    << ExtCall(180, 0, 0, 0), MovReg(5, 0),
       MovImm(1, 4096), MovImm(2, 123), ExtCall(181, 5, 1, 2),
       MovImm(1, 4352), MovImm(2, 8192), ExtCall(181, 5, 1, 2),
       MovReg(0, 5), MovImm(1, 12288), MovImm(2, 4096), ExtCall(171, 0, 1, 2),
       MovReg(0, 5), ExtCall(179, 0, 0, 0), Halt >>

\* gen_json_array_iterate_pattern, lines 486-523.
ext_json_array_iterate_pattern(p) ==
    << MovImm(0, 4096), MovImm(1, 256), ExtCall(170, 0, 1, 0), MovReg(5, 0),
       MovImm(1, 8192), ExtCall(175, 5, 1, 0), MovReg(6, 0), MovImm(7, 0),
       Branch(BR_GE, 7, 6, 6),
       MovImm(1, 8192), MovReg(2, 7), ExtCall(176, 5, 1, 2), AddI(7, 7, 1),
       Branch(BR_LT, 7, 6, -5),
       MovReg(0, 5), ExtCall(179, 0, 0, 0), Halt >>

\* Variant: the response is never freed.
ext_http_get_pattern_NoFree(p) ==
    << MovImm(0, 4096), ExtCall(190, 0, 0, 0), MovReg(5, 0),
       ExtCall(194, 5, 0, 0), MovReg(6, 0),
       MovImm(1, 8192), MovImm(2, 4096), ExtCall(196, 5, 1, 2),
       MovReg(0, 6), Halt >>

\* gen_http_get_pattern, lines 524-553.
ext_http_get_pattern(p) ==
    << MovImm(0, 4096), ExtCall(190, 0, 0, 0), MovReg(5, 0),
       ExtCall(194, 5, 0, 0), MovReg(6, 0),
       MovImm(1, 8192), MovImm(2, 4096), ExtCall(196, 5, 1, 2),
       MovReg(0, 5), ExtCall(197, 0, 0, 0), MovReg(0, 6), Halt >>

\* gen_http_post_pattern, lines 554-582.
ext_http_post_pattern(p) ==
    << MovImm(0, 4096), MovImm(1, 8192), MovImm(2, 256), ExtCall(191, 0, 1, 2),
       MovReg(5, 0), ExtCall(194, 5, 0, 0), MovReg(6, 0),
       MovReg(0, 5), ExtCall(197, 0, 0, 0), MovReg(0, 6), Halt >>

\* gen_http_with_headers_pattern, lines 583-614.
ext_http_with_headers_pattern(p) ==
    << MovImm(0, 4096), MovImm(1, 8192), MovImm(2, 12288), ExtCall(198, 0, 1, 2),
       MovImm(1, 16384), MovImm(2, 20480), ExtCall(198, 0, 1, 2),
       ExtCall(190, 0, 0, 0), MovReg(5, 0), ExtCall(194, 5, 0, 0),
       MovReg(0, 5), ExtCall(197, 0, 0, 0), Halt >>

\* gen_sqlite_query_pattern, lines 615-643.
ext_sqlite_query_pattern(p) ==
    << MovImm(0, 4096), ExtCall(245, 0, 0, 0), MovReg(5, 0),
       MovImm(1, 8192), ExtCall(247, 5, 1, 0), MovReg(6, 0),
       MovImm(1, 1), MovImm(2, 12288), ExtCall(248, 6, 1, 2),
       ExtCall(249, 6, 0, 0), Halt >>

\* gen_sqlite_transaction_pattern, lines 644-676: "if error, rollback"
\* is BR_NE r0, r0.
ext_sqlite_transaction_pattern(p) ==
    << MovImm(0, 4096), ExtCall(245, 0, 0, 0), MovReg(5, 0), ExtCall(250, 5, 0, 0),
       MovImm(1, 8192), ExtCall(247, 5, 1, 0), MovReg(6, 0), ExtCall(249, 6, 0, 0),
       Branch(BR_NE, 0, 0, 2),
       ExtCall(251, 5, 0, 0), Halt,
       ExtCall(252, 5, 0, 0), Halt >>

\* gen_base64_roundtrip_pattern (lines 677-705) and gen_url_encode_pattern
\* (lines 706-738): encode or decode.
ext_codec_pattern(p) ==
    Setup(<<4096, IF p.id \in {424, 425} THEN 128 ELSE 256, 8192>>)
    \o <<ExtCall(p.id, 0, 1, 2), Halt>>

\* gen_compression_pattern, lines 739-772.
ext_compression_pattern(p) ==
    Setup(<<4096, 4096, 8192, 8192>>) \o <<ExtCall(p.id, 0, 1, 2), Halt>>

\* gen_tls_secure_pattern, lines 773-806.
ext_tls_secure_pattern(p) ==
    << MovImm(0, 4096), MovImm(1, 443), ExtCall(500, 0, 1, 0), MovReg(5, 0),
       MovImm(1, 8192), MovImm(2, 256), ExtCall(501, 5, 1, 2),
       MovImm(1, 12288), MovImm(2, 4096), ExtCall(502, 5, 1, 2), MovReg(6, 0),
       MovReg(0, 5), ExtCall(503, 0, 0, 0), MovReg(0, 6), Halt >>

\* gen_uuid_pattern, lines 807-825.
ext_uuid_pattern(p) == << MovImm(0, 4096), ExtCall(330, 0, 0, 0), Halt >>

\* The values of p.id each method draws from (random.choice and the
\* random() < 0.5 branches).
ExtIds == [hash_pattern |-> {1, 15, 16, 17, 38}, hmac_pattern |-> {2, 21, 22},
           sign_verify_pattern |-> {8, 9}, encrypt_decrypt_pattern |-> {3, 4},
           password_hash_pattern |-> {35}, json_parse_extract_pattern |-> {172, 173, 174},
           json_build_pattern |-> {180}, json_array_iterate_pattern |-> {170},
           http_get_pattern |-> {190}, http_post_pattern |-> {191},
           http_with_headers_pattern |-> {190}, sqlite_query_pattern |-> {245},
           sqlite_transaction_pattern |-> {245}, base64_roundtrip_pattern |-> {420, 421},
           url_encode_pattern |-> {424, 425}, compression_pattern |-> {402, 403},
           tls_secure_pattern |-> {500}, uuid_pattern |-> {330}]

\* generate(), lines 188-191: the method drawn by weight.
ExtProgram(g, p) ==
    CASE g = "hash_pattern" -> ext_hash_pattern(p)
      [] g = "hmac_pattern" -> ext_hmac_pattern(p)
      [] g = "sign_verify_pattern" -> ext_sign_verify_pattern(p)
      [] g = "encrypt_decrypt_pattern" -> ext_encrypt_decrypt_pattern(p)
      [] g = "password_hash_pattern" -> ext_password_hash_pattern(p)
      [] g = "json_parse_extract_pattern" -> ext_json_parse_extract_pattern(p)
      [] g = "json_build_pattern" -> ext_json_build_pattern(p)
      [] g = "json_array_iterate_pattern" -> ext_json_array_iterate_pattern(p)
      [] g = "http_get_pattern" -> ext_http_get_pattern(p)
      [] g = "http_post_pattern" -> ext_http_post_pattern(p)
      [] g = "http_with_headers_pattern" -> ext_http_with_headers_pattern(p)
      [] g = "sqlite_query_pattern" -> ext_sqlite_query_pattern(p)
      [] g = "sqlite_transaction_pattern" -> ext_sqlite_transaction_pattern(p)
      [] g \in {"base64_roundtrip_pattern", "url_encode_pattern"} -> ext_codec_pattern(p)
      [] g = "compression_pattern" -> ext_compression_pattern(p)
      [] g = "tls_secure_pattern" -> ext_tls_secure_pattern(p)
      [] g = "uuid_pattern" -> ext_uuid_pattern(p)

====
