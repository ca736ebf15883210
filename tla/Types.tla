------------------------------- MODULE Types -------------------------------
(***************************************************************************)
(* The types the generator of epc_bootstrap.c goes by: of expressions, of  *)
(* variables, of what functions give back, and which variables are roots   *)
(* of the collector.  Everything is a long long when the program runs; the *)
(* type only chooses the code.  "none" is the 0 of map_get.                *)
(***************************************************************************)
EXTENDS Syntax

CONSTANT Globals  \* names without a small letter (is_global_var)

Get(map, key) == IF key \in DOMAIN map THEN map[key] ELSE "none"
Put(map, key, t) == (key :> t) @@ map
Cat(n, E(_)) == FlattenSeq([i \in DOMAIN n |-> E(n[i])])

\* What the functions of the runtime give back.
TextCalls == {"read_file_content", "ep_md5", "ep_sha256", "ep_net_recv", "substring",
  "string_from_list", "ep_http_request", "concat", "ep_auto_to_string",
  "ep_float_to_string", "int_to_string", "ep_int_to_str", "string_upper",
  "string_lower", "string_trim", "string_replace", "char_at", "char_from_code",
  "ptr_to_str", "ep_sb_to_string", "ep_hmac_sha256", "ep_base64_encode",
  "ep_uuid_v4", "file_read", "read_line", "map_get_str"}
ListCalls == {"create_list", "fs_scan_dir", "string_split", "map_keys", "map_values", "bytes_to_list"}
FloatCalls == {"int_to_float"} \cup {"ep_dlcall_f" \o ToString(n) : n \in 0..6}
NumberCalls == {
  "ep_net_connect", "ep_net_listen", "ep_net_accept", "ep_net_send", "ep_net_close",
  "append_list", "get_list", "set_list", "length_list", "string_length", "get_character",
  "display_string", "screen_write", "get_argument_count", "write_file_content", "run_command",
  "pop_list", "get_list_data_ptr", "sqlite_get_callback_ptr", "free_list", "create_map",
  "map_insert", "map_get_val", "map_contains", "map_delete", "free_map", "create_deque",
  "deque_push_back", "deque_push_front", "deque_pop_back", "deque_pop_front", "deque_length",
  "free_deque", "fs_copy_file", "fs_delete_file", "fs_move_file", "fs_exists", "fs_is_dir",
  "fs_is_file", "fs_get_size", "ep_sleep_ms", "string_contains", "string_index_of",
  "string_to_int", "str_to_ptr", "ep_sb_create", "ep_sb_append", "ep_sb_append_int",
  "ep_random_int", "ep_abs", "ep_time_now_ms", "ep_time_now_sec", "ep_time_day",
  "ep_time_month", "ep_time_year", "sleep_ms", "ep_system", "float_to_int", "file_write",
  "file_append", "file_exists", "read_int", "read_key", "terminal_columns", "terminal_rows",
  "ep_dlopen", "ep_dlsym", "ep_dlclose", "ep_dlcall0", "ep_dlcall1", "ep_dlcall2",
  "ep_dlcall3", "ep_dlcall4", "ep_dlcall5", "ep_dlcall6", "remove_list", "map_size",
  "map_set_str", "alloc_bytes", "free_bytes", "peek_byte", "poke_byte", "list_to_bytes",
  "ep_gc_get_minor_count", "ep_gc_get_major_count", "ep_gc_get_nursery_count"}
Builtins == [n \in NumberCalls |-> "int"] @@ [n \in TextCalls |-> "fresh"] @@ [n \in ListCalls |-> "list"]
            @@ [n \in FloatCalls |-> "float"] @@ ("get_argument" :> "text")

(***************************************************************************)
(* infer_type.  funcs are the types of calls, vars those of variables.     *)
(***************************************************************************)
Or(t, default) == IF t = "none" THEN default ELSE t
RECURSIVE InferType(_, _, _)
InferType(e, funcs, vars) ==
  CASE e.k = "str" -> "text"
    [] e.k = "float" -> "float"
    [] e.k \in {"bool", "not"} -> "bool"
    [] e.k = "ident" -> Or(Get(vars, e.name), "int")
    [] e.k = "call" -> Or(Get(funcs, e.name), "int")
    [] e.k = "binary" ->
         IF "float" \in {InferType(e.l, funcs, vars), InferType(e.r, funcs, vars)}
         THEN "float" ELSE "int"
    [] e.k = "borrow" ->
         IF InferType(e.e, funcs, vars) \in {"text", "fresh", "textref"} THEN "textref" ELSE "listref"
    [] e.k = "await" -> InferType(e.e, funcs, vars)
    [] OTHER -> "int"

\* seed_param_types: an annotation that names a type counts, else a borrow.
Annotation(type) ==
  CASE type = "Int" -> "int" [] type = "Str" -> "text" [] type = "List" -> "list"
    [] type = "Bool" -> "bool" [] type = "Float" -> "float" [] OTHER -> "none"
ParamType(p) == Or(Annotation(p.type), IF p.borrow THEN "listref" ELSE "int")
SeedParamTypes(params) ==
  FoldLeft(LAMBDA vars, p : Put(vars, p.name, ParamType(p)), <<>>, params)

\* collect_var_types: the last assignment in the text decides.
RECURSIVE CollectVarTypes(_, _, _, _)
CollectVarTypes(stmts, funcs, structs, vars) ==
  FoldLeft(LAMBDA acc, s :
             CASE s.k = "set" ->
                    Put(acc, s.x, IF s.e.k = "struct" /\ s.e.name \in structs THEN "structure"
                                  ELSE InferType(s.e, funcs, acc))
               [] s.k # "set" ->
                    FoldLeft(LAMBDA a, b : CollectVarTypes(b, funcs, structs, a), acc, BlocksOf(s)),
           vars, stmts)

\* determine_ret_type: the first return in the text, outside for-each and match.
RECURSIVE Returned(_)
Returned(stmts) ==
  Cat(stmts, LAMBDA s : CASE s.k = "return" -> <<s.e>>
                          [] s.k \in {"if", "while"} -> Cat(BlocksOf(s), Returned)
                          [] OTHER -> <<>>)
RetType(f, funcs, structs) ==
  LET vars == CollectVarTypes(f.body, funcs, structs, SeedParamTypes(f.params)) IN
  IF Returned(f.body) = <<>> THEN "int" ELSE InferType(Head(Returned(f.body)), funcs, vars)

\* Structures that a for-each takes its values from; the list is filled after
\* analyze_return_types, which knows of none.
IteratorTypes(program) ==
  {program.impls[i].type : i \in {j \in DOMAIN program.impls : program.impls[j].trait = "Iterator"}}

\* analyze_return_types: three rounds over all functions.
Round(program, funcs) ==
  FoldLeft(LAMBDA acc, f : Put(acc, f.name, RetType(f, acc, {})),
           funcs, program.funcs)
WithExternals(program) ==
  FoldLeft(LAMBDA acc, x : Put(acc, x.name, Or(Get(acc, x.name), "int")), Builtins, program.externals)
Rounds == 3
AnalyzeReturnTypes(program) ==
  FoldLeft(LAMBDA acc, i : Round(program, acc), WithExternals(program), [i \in 1..Rounds |-> i])

(***************************************************************************)
(* A variable that is still a number and is the first argument of a call   *)
(* on lists or texts is one of those, for the function's own code.         *)
(***************************************************************************)
ListUses == {"length_list", "append_list", "get_list", "set_list", "remove_list", "pop_list",
  "map_insert", "map_get_val", "map_contains", "map_delete", "map_keys", "map_size",
  "map_values", "map_set_str", "map_get_str"}
TextUses == {"string_length", "get_character", "char_at", "string_contains", "string_index_of",
  "string_replace", "string_upper", "string_lower", "string_trim", "string_split",
  "string_to_list", "json_get_string", "json_get_int", "json_get_bool"}

\* The calls in an expression and in statements, in the order they are met.
RECURSIVE CallsIn(_), CallsOf(_)
CallsIn(e) ==
  (IF e.k = "call" THEN <<e>> ELSE <<>>)
  \o (IF e.k \in {"call", "binary", "comp", "logical", "receive", "borrow", "await", "not",
                  "try", "struct", "method", "enum", "list"}
      THEN Cat(PartsOf(e), CallsIn) ELSE <<>>)
CallsOf(stmts) ==
  Cat(stmts, LAMBDA s : (IF s.k = "spawn" THEN <<>> ELSE Cat(PartsOf(s), CallsIn))
                        \o Cat(BlocksOf(s), CallsOf))

UsageType(call) ==
  CASE call.name \in ListUses -> "list" [] call.name \in TextUses -> "text" [] OTHER -> "none"
Promote(vars, call) ==
  IF /\ call.args # <<>> /\ call.args[1].k = "ident" /\ UsageType(call) # "none"
     /\ Get(vars, call.args[1].name) = "int"
  THEN Put(vars, call.args[1].name, UsageType(call)) ELSE vars
InferUsageTypes(stmts, vars) == FoldLeft(Promote, vars, CallsOf(stmts))

\* What gen_function knows of the variables of f.
VarTypes(f, funcs, structs) ==
  InferUsageTypes(f.body, CollectVarTypes(f.body, funcs, structs, SeedParamTypes(f.params)))

(***************************************************************************)
(* Roots.  A variable that is a number, a truth value or a float is one    *)
(* only where it is used as something else.  flags holds, for every        *)
(* function, which parameters are annotated as one of these.               *)
(***************************************************************************)
Primitive == {"int", "bool", "float"}
PrimParamFlags(program) ==
  FoldLeft(LAMBDA acc, f :
             IF f.name \in DOMAIN acc THEN acc
             ELSE Put(acc, f.name, [i \in DOMAIN f.params |-> Annotation(f.params[i].type) \in Primitive]),
           <<>>, program.funcs)

RECURSIVE HasVar(_, _)
HasVar(e, x) ==
  \/ e.k \in {"ident", "call"} /\ e.name = x
  \/ e.k = "closure"
  \/ \E i \in DOMAIN PartsOf(e) : HasVar(PartsOf(e)[i], x)

PrimCalls == {"int_to_string", "int_to_float", "float_to_int", "char_from_code", "ep_abs",
  "ep_sleep_ms", "sleep_ms", "ep_time_ms", "ep_random_int"}
RECURSIVE IsPrim(_, _, _)
IsPrim(e, x, flags) ==
  CASE e.k \in {"int", "str", "bool", "float", "ident"} -> TRUE
    [] e.k \in {"binary", "comp", "logical"} -> IsPrim(e.l, x, flags) /\ IsPrim(e.r, x, flags)
    [] e.k = "not" -> IsPrim(e.e, x, flags)
    [] e.k = "call" /\ e.name \in PrimCalls -> \A i \in DOMAIN e.args : IsPrim(e.args[i], x, flags)
    [] e.k = "call" /\ e.name \notin PrimCalls /\ e.name \in DOMAIN flags ->
         \A i \in DOMAIN e.args :
           HasVar(e.args[i], x) => /\ i \in DOMAIN flags[e.name] /\ flags[e.name][i]
                                   /\ IsPrim(e.args[i], x, flags)
    [] OTHER -> ~HasVar(e, x)

\* The arguments of a spawn are not looked at.
RECURSIVE HaveNonPrim(_, _, _)
HaveNonPrim(stmts, x, flags) ==
  \E i \in DOMAIN stmts : LET s == stmts[i] IN
    \/ s.k \in {"set", "return", "display", "exprstmt", "if", "while", "foreach"}
         /\ ~IsPrim(s.e, x, flags)
    \/ s.k = "foreach" /\ s.x = x
    \/ s.k \in {"send", "fieldset", "match"} /\ \E p \in DOMAIN PartsOf(s) : HasVar(PartsOf(s)[p], x)
    \/ s.k = "match" /\ \E a \in DOMAIN s.arms : \E b \in DOMAIN s.arms[a].bindings :
                                                     s.arms[a].bindings[b] = x
    \/ \E b \in DOMAIN BlocksOf(s) : HaveNonPrim(BlocksOf(s)[b], x, flags)

\* gen_function: the variables that are pushed as roots, and popped at its end.
Rooted(f, vars, flags) ==
  {x \in DOMAIN vars \ (Globals \ {f.params[i].name : i \in DOMAIN f.params}) :
     vars[x] \in Primitive => HaveNonPrim(f.body, x, flags)}
=============================================================================
