----------------------------- MODULE Generating -----------------------------
(***************************************************************************)
(* gen_function, gen_statement and gen_expr of epc_bootstrap.c: C from the *)
(* tree.  An expression is a sequence of tokens, in which brackets are     *)
(* there where the code prints them, and what C reads as one operand (a    *)
(* call, a statement expression) is one token with its parts inside.  A    *)
(* statement is a record whose field `c` says which line is printed.       *)
(***************************************************************************)
EXTENDS Types

(***************************************************************************)
(* Names.  A function whose name means something in C gets another one; a  *)
(* spawn and a call of a method print the name as it is.                   *)
(***************************************************************************)
CWords == {"auto", "break", "case", "char", "const", "continue", "default", "do", "double",
  "else", "enum", "extern", "float", "for", "goto", "if", "int", "long", "register", "return",
  "short", "signed", "sizeof", "static", "struct", "switch", "typedef", "union", "unsigned",
  "void", "volatile", "while", "inline", "restrict", "printf", "scanf", "malloc", "free",
  "exit", "read", "write", "open", "close", "time", "sleep", "select", "remove"}
SanitizeName(name) ==
  CASE name = "main" -> "_main" [] name \in CWords -> "ep_" \o name [] OTHER -> name

\* Numbers of fields and of variants: one for every name, whatever type has it.
FieldSlotIndex(seen, name) == IF \E i \in DOMAIN seen : seen[i] = name THEN seen ELSE Append(seen, name)
Slots(defs, Names(_)) == FoldLeft(FieldSlotIndex, <<>>, Cat(defs, Names))
FieldSlots(program) == Slots(program.structs, LAMBDA d : [i \in DOMAIN d.fields |-> d.fields[i].name])
TagSlots(program) == Slots(program.enums, LAMBDA d : [i \in DOMAIN d.variants |-> d.variants[i].name])

\* The types of the values in a variant, of the last choice that has its name.
TypeNameToCode(type) ==
  CASE type = "Str" -> "text" [] type = "Float" -> "float" [] type = "Bool" -> "bool" [] OTHER -> "int"
VariantTypes(program) ==
  FoldLeft(LAMBDA map, v : Put(map, v.name, [i \in DOMAIN v.fields |-> TypeNameToCode(v.fields[i].type)]),
           <<>>, Cat(program.enums, LAMBDA d : d.variants))

\* A call under try gives back whatever is not the first variant of the
\* choice its function is declared to return.
TryVariants(program) ==
  FoldLeft(LAMBDA map, pair : Put(map, pair[1], pair[2]), <<>>,
           Cat(program.funcs, LAMBDA f :
             Cat(program.enums, LAMBDA d :
               IF f.ret = d.name /\ f.ret # "" /\ d.variants # <<>>
               THEN << <<f.name, d.variants[1].name>> >> ELSE <<>>)))

(***************************************************************************)
(* Names in the body of a closure (collect_idents), in their order.      *)
(***************************************************************************)
RECURSIVE CollectIdents(_), CollectIdentsOf(_)
CollectIdents(e) ==
  CASE e.k = "ident" -> <<e.name>>
    [] e.k = "call" -> <<e.name>> \o Cat(e.args, CollectIdents)
    [] e.k = "closure" -> CollectIdentsOf(e.body)
    [] OTHER -> Cat(PartsOf(e), CollectIdents)
CollectIdentsOf(stmts) ==
  Cat(stmts, LAMBDA s : (CASE s.k = "set" -> <<s.x>> [] s.k = "spawn" -> <<s.name>> [] OTHER -> <<>>)
                        \o Cat(PartsOf(s), CollectIdents) \o Cat(BlocksOf(s), CollectIdentsOf))

(***************************************************************************)
(* Expressions.  env: the types of calls and of variables, the variants,   *)
(* the variants under try, the structures to walk over, and the locals of  *)
(* an async function, which are fields of its frame.                       *)
(***************************************************************************)
RECURSIVE GenExpr(_, _), GenBlock(_, _)
TypeIn(e, env)   == InferType(e, env.funcs, env.vars)
IsVar(x, env)    == x \in DOMAIN env.vars
Atom(t)          == <<t>>
Bracketed(toks)  == << <<"open">> >> \o toks \o << <<"close">> >>
Operands(es, env) == [i \in DOMAIN es |-> GenExpr(es[i], env)]

GenIdent(x, env) ==
  CASE x \in env.locals -> <<"var", x>>
    [] x \notin env.locals /\ ~IsVar(x, env) /\ x \in env.variants -> <<"make", x, <<>>>>
    [] x \notin env.locals \cup env.variants /\ ~IsVar(x, env) /\ x \in DOMAIN env.funcs ->
         <<"function", SanitizeName(x)>>
    [] OTHER -> <<"var", x>>

\* With a float the operands are turned into floats; "%" comes out as "+".
FloatOp(op) == IF op \in {"-", "*", "/"} THEN op ELSE "+"
GenBinary(e, env) ==
  IF "float" \in {TypeIn(e.l, env), TypeIn(e.r, env)}
  THEN << <<"float", FloatOp(e.op), GenExpr(e.l, env), GenExpr(e.r, env)>> >>
  ELSE Bracketed(GenExpr(e.l, env) \o << <<"op", e.op>> >> \o GenExpr(e.r, env))

\* A comparison of texts is one operand; one of numbers has no brackets.
GenComp(e, env) ==
  IF TypeIn(e.l, env) \in {"text", "fresh"}
  THEN << <<"strcmp", e.op, GenExpr(e.l, env), GenExpr(e.r, env)>> >>
  ELSE GenExpr(e.l, env) \o << <<"op", e.op>> >> \o GenExpr(e.r, env)

\* Mutant: no brackets.
GenLogicalBare(e, env) == GenExpr(e.l, env) \o << <<"op", e.op>> >> \o GenExpr(e.r, env)
GenLogical(e, env) ==
  Bracketed(GenExpr(e.l, env) \o << <<"op", e.op>> >> \o GenExpr(e.r, env))

\* A variable that is called holds a closure or a function.
GenCall(e, env) ==
  CASE /\ e.name = "ep_auto_to_string" /\ Len(e.args) = 1
       /\ TypeIn(e.args[1], env) = "float" ->
         <<"call", "ep_float_to_string", Operands(e.args, env)>>
    [] e.name \notin DOMAIN env.funcs /\ IsVar(e.name, env) ->
         <<"callvalue", e.name, Operands(e.args, env)>>
    [] OTHER -> <<"call", SanitizeName(e.name), Operands(e.args, env)>>

\* A closure takes the values of the variables it names and is generated as a
\* function of its own, with the types of the text around it.
Captured(e, env) ==
  FoldLeft(FieldSlotIndex, <<>>,
           SelectSeq(CollectIdentsOf(e.body),
                     LAMBDA x : /\ x # "ret_val" /\ IsVar(x, env) /\ x \notin DOMAIN env.funcs
                                /\ \A i \in DOMAIN e.params : e.params[i].name # x))
GenClosure(e, env) ==
  LET own == CollectVarTypes(e.body, env.funcs, env.structs, <<>>)
      params == [x \in {e.params[i].name : i \in DOMAIN e.params} |-> "int"]
  IN <<"closure", Captured(e, env), e.params,
       GenBlock(e.body, [env EXCEPT !.vars = own @@ params @@ @]).code>>

\* try gives back the whole value when it is not the good variant.
GenTry(e, env) ==
  IF e.e.k = "call" /\ e.e.name \in DOMAIN env.tries
  THEN << <<"try", env.tries[e.e.name], GenExpr(e.e, env)>> >>
  ELSE GenExpr(e.e, env)

GenStruct(e, env) ==
  <<"struct", e.name, [i \in DOMAIN e.fields |-> <<e.fields[i].f, GenExpr(e.fields[i].e, env)>>]>>

\* In an async function what is awaited was computed by a line before.
GenExpr(e, env) ==
  CASE e.k = "int" -> Atom(<<"num", e.n>>)
    [] e.k = "float" -> Atom(<<"fnum", e.x>>)
    [] e.k = "str" -> Atom(<<"str", e.s>>)
    [] e.k = "bool" -> Atom(<<"num", IF e.b THEN 1 ELSE 0>>)
    [] e.k = "ident" -> Atom(GenIdent(e.name, env))
    [] e.k = "binary" -> GenBinary(e, env)
    [] e.k = "comp" -> GenComp(e, env)
    [] e.k = "logical" -> GenLogical(e, env)
    [] e.k = "not" -> Bracketed(<< <<"op", "!">> >> \o Bracketed(GenExpr(e.e, env)))
    [] e.k = "call" -> Atom(GenCall(e, env))
    [] e.k = "method" -> Atom(<<"call", e.name, Operands(<<e.e>> \o e.args, env)>>)
    [] e.k = "channel" -> Atom(<<"call", "create_channel", <<>>>>)
    [] e.k = "receive" -> Atom(<<"call", "receive_channel", Operands(<<e.e>>, env)>>)
    [] e.k = "borrow" -> GenExpr(e.e, env)
    [] e.k = "await" /\ env.async -> Atom(<<"awaited", e>>)
    [] e.k = "await" /\ ~env.async -> Atom(<<"call", "ep_await_future", Operands(<<e.e>>, env)>>)
    [] e.k = "field" -> Atom(<<"field", e.f, GenExpr(e.e, env)>>)
    [] e.k = "struct" -> Atom(GenStruct(e, env))
    [] e.k = "enum" -> Atom(<<"make", e.name, Operands(e.args, env)>>)
    [] e.k = "try" -> GenTry(e, env)
    [] e.k = "closure" -> Atom(GenClosure(e, env))
    [] e.k = "list" -> Atom(<<"list", Operands(e.args, env)>>)
    [] OTHER -> <<>>

(***************************************************************************)
(* Statements.  What comes after a match knows the types of its bindings,  *)
(* so a block gives its code together with the types behind it.            *)
(***************************************************************************)
\* A list that is returned or sent is taken from the variable.
Cleared(e, env) == IF e.k = "ident" /\ Get(env.vars, e.name) = "list" THEN <<e.name>> ELSE <<>>

GenReturn(s, env) ==
  IF env.async THEN [c |-> "asyncreturn", e |-> GenExpr(s.e, env)]
  ELSE [c |-> "return", e |-> GenExpr(s.e, env), clears |-> Cleared(s.e, env)]

\* How a value is shown goes by its type; elements of containers tell at run time.
AnyCalls == {"get_list", "pop_list", "map_get_val", "map_get_str"}
ShownAs(e, env) ==
  LET t == TypeIn(e, env) IN
  CASE e.k = "call" /\ e.name \in AnyCalls -> "auto"
    [] t \in {"text", "fresh"} /\ ~(e.k = "call" /\ e.name \in AnyCalls) -> "text"
    [] t \in {"float", "bool"} -> t
    [] OTHER -> "auto"

\* The test of an arm, and what its names are bound to.
ArmTest(arm) ==
  CASE arm.pattern = 26 -> <<"text", arm.name>> [] arm.pattern = 25 -> <<"num", arm.name>>
    [] OTHER -> <<"tag", arm.name>>
ArmTypes(arm, env) ==
  LET types == IF arm.name \in DOMAIN env.payloads THEN env.payloads[arm.name] ELSE <<>> IN
  FoldLeft(LAMBDA vars, i : Put(vars, arm.bindings[i], IF i \in DOMAIN types THEN types[i] ELSE "int"),
           env.vars, [i \in DOMAIN arm.bindings |-> i])
GenMatch(s, env) ==
  FoldLeft(LAMBDA acc, arm :
             LET body == GenBlock(arm.body, [env EXCEPT !.vars = ArmTypes(arm, [env EXCEPT !.vars = acc.vars])])
             IN [code |-> [acc.code EXCEPT !.arms = Append(@, [test |-> ArmTest(arm), names |-> arm.bindings,
                                                               body |-> body.code])],
                 vars |-> body.vars],
           [code |-> [c |-> "match", e |-> GenExpr(s.e, env), arms |-> <<>>], vars |-> env.vars],
           s.arms)

\* The index is moved on at the end of the body, behind what `continue` skips.
GenForEach(s, env) ==
  LET body == GenBlock(s.body, env)
      over == IF TypeIn(s.e, env) = "structure" THEN "iterator" ELSE "list"
  IN [code |-> [c |-> "foreach", x |-> s.x, over |-> over, e |-> GenExpr(s.e, env), body |-> body.code],
      vars |-> body.vars]

GenIf(s, env) ==
  LET then == GenBlock(s.then, env)
      else == GenBlock(s.else, [env EXCEPT !.vars = then.vars])
  IN [code |-> [c |-> "if", e |-> GenExpr(s.e, env), then |-> then.code, else |-> else.code],
      vars |-> else.vars]
GenWhile(s, env) ==
  LET body == GenBlock(s.body, env)
  IN [code |-> [c |-> "while", e |-> GenExpr(s.e, env), body |-> body.code], vars |-> body.vars]

\* The other statements leave the types as they are.
GenPlain(s, env) ==
  CASE s.k = "set" -> [c |-> "assign", x |-> s.x, e |-> GenExpr(s.e, env)]
    [] s.k = "return" -> GenReturn(s, env)
    [] s.k = "display" -> [c |-> "print", how |-> ShownAs(s.e, env), e |-> GenExpr(s.e, env)]
    [] s.k = "spawn" -> [c |-> "spawn", args |-> Operands(s.args, env)]
    [] s.k = "send" -> [c |-> "send", chan |-> GenExpr(s.chan, env), e |-> GenExpr(s.e, env),
                        clears |-> Cleared(s.e, env)]
    [] s.k = "fieldset" -> [c |-> "setfield", e |-> GenExpr(s.chan, env), f |-> s.f, v |-> GenExpr(s.e, env)]
    [] s.k \in {"break", "continue"} -> [c |-> s.k]
    [] s.k = "exprstmt" -> [c |-> "do", e |-> GenExpr(s.e, env)]

GenStatement(s, env) ==
  CASE s.k = "if" -> GenIf(s, env) [] s.k = "while" -> GenWhile(s, env)
    [] s.k = "match" -> GenMatch(s, env) [] s.k = "foreach" -> GenForEach(s, env)
    [] OTHER -> [code |-> GenPlain(s, env), vars |-> env.vars]
GenBlock(stmts, env) ==
  FoldLeft(LAMBDA acc, s : LET g == GenStatement(s, [env EXCEPT !.vars = acc.vars])
                           IN [code |-> Append(acc.code, g.code), vars |-> g.vars],
           [code |-> <<>>, vars |-> env.vars], stmts)

(***************************************************************************)
(* Functions.  Locals are declared at the top, but for the constants of    *)
(* the program; the roots pushed there are popped at the end.              *)
(***************************************************************************)
Declared(f, vars) ==
  DOMAIN vars \ (Globals \cup {f.params[i].name : i \in DOMAIN f.params})
GenFunction(f, base, flags) ==
  LET vars == VarTypes(f, base.funcs, base.structs)
      env == [base EXCEPT !.vars = vars, !.async = f.async,
                          !.locals = IF f.async THEN DOMAIN vars ELSE {}]
      roots == IF f.async THEN {} ELSE Rooted(f, vars, flags)
  IN [name |-> SanitizeName(f.name), params |-> f.params, async |-> f.async,
      declared |-> Declared(f, vars), roots |-> roots,
      code |-> GenBlock(f.body, env).code]

\* Methods are functions with one more parameter; of the methods of traits
\* only the first of a name is generated, and of functions those that do not
\* have the name of a function of the runtime.
SelfParam == [name |-> "self", borrow |-> FALSE, type |-> ""]
AsFunction(m) == Func(m.name, <<SelfParam>> \o m.params, m.body, FALSE, "")
TraitMethods(program) ==
  FoldLeft(LAMBDA acc, m : IF \E i \in DOMAIN acc : acc[i].name = m.name THEN acc ELSE Append(acc, m),
           <<>>, Cat(program.impls, LAMBDA i : i.methods))
Generated(program) ==
  [i \in DOMAIN program.methods |-> AsFunction(program.methods[i])]
  \o [i \in DOMAIN TraitMethods(program) |-> AsFunction(TraitMethods(program)[i])]
  \o SelectSeq(program.funcs, LAMBDA f : f.name \notin DOMAIN Builtins)

Constants(program, base) ==
  [i \in DOMAIN program.constants |->
     [x |-> program.constants[i].x, e |-> GenExpr(program.constants[i].e, base)]]

\* generate_c without its analyses: all functions in the order of the text.
GenerateC(program, funcs) ==
  LET base == [funcs |-> funcs, vars |-> <<>>, async |-> FALSE, locals |-> {},
               variants |-> ToSet(TagSlots(program)), tries |-> TryVariants(program),
               payloads |-> VariantTypes(program), structs |-> IteratorTypes(program)]
      flags == PrimParamFlags(program)
  IN [constants |-> Constants(program, base), fields |-> FieldSlots(program), tags |-> TagSlots(program),
      funcs |-> [i \in DOMAIN Generated(program) |-> GenFunction(Generated(program)[i], base, flags)]]

(***************************************************************************)
(* Spawns.  A spawn is compiled to a call of a wrapper with the number it  *)
(* has while functions are generated; the wrappers are numbered by a walk  *)
(* of its own, over functions, into if and while only.                     *)
(***************************************************************************)
RECURSIVE CollectSpawns(_), SpawnsIn(_), SpawnsOf(_)
\* Mutant: loops are not looked into.
CollectSpawnsNoLoops(stmts) ==
  Cat(stmts, LAMBDA s : CASE s.k = "spawn" -> <<s>>
                          [] s.k = "if" -> Cat(BlocksOf(s), CollectSpawns)
                          [] OTHER -> <<>>)
CollectSpawns(stmts) ==
  Cat(stmts, LAMBDA s : CASE s.k = "spawn" -> <<s>>
                          [] s.k \in {"if", "while"} -> Cat(BlocksOf(s), CollectSpawns)
                          [] OTHER -> <<>>)
CollectAllSpawns(program) == Cat(program.funcs, LAMBDA f : CollectSpawns(f.body))

\* The order in which gen_statement meets them, closures in expressions too.
SpawnsIn(e) == IF e.k = "closure" THEN SpawnsOf(e.body) ELSE Cat(PartsOf(e), SpawnsIn)
SpawnsOf(stmts) ==
  Cat(stmts, LAMBDA s : (IF s.k = "spawn" THEN <<s>> ELSE <<>>) \o Cat(PartsOf(s), SpawnsIn)
                        \o Cat(BlocksOf(s), SpawnsOf))
EmittedSpawns(program) == Cat(Generated(program), LAMBDA f : SpawnsOf(f.body))
WrapperCalls(spawn) == IF spawn.name = "main" THEN "_main" ELSE spawn.name

(***************************************************************************)
(* Awaits.  Before a statement of an async function's body the futures it  *)
(* awaits are computed, numbered on from `n`, and the function can leave   *)
(* and come back there; the statement then reads them by number.           *)
(***************************************************************************)
AwaitLooksInto == {"binary", "comp", "logical", "borrow", "not", "try", "receive", "call"}
RECURSIVE AwaitsIn(_), AwaitsRead(_)
AwaitsIn(e) ==
  (IF e.k \in AwaitLooksInto \cup {"await"} THEN Cat(PartsOf(e), AwaitsIn) ELSE <<>>)
  \o (IF e.k = "await" THEN <<e>> ELSE <<>>)
EmitAsyncYields(s) ==
  IF s.k \in {"set", "return", "display", "exprstmt"} THEN AwaitsIn(s.e) ELSE <<>>

\* What gen_expr reads, one number after the other; it does not look into an await.
AwaitsRead(e) == IF e.k = "await" THEN <<e>> ELSE Cat(PartsOf(e), AwaitsRead)
RECURSIVE CountAwaits(_)
CountAwaits(stmts) ==
  FoldLeft(LAMBDA n, s :
             n + (IF s.k \in {"set", "return", "display", "exprstmt", "if", "while"}
                  THEN Len(AwaitsIn(s.e)) ELSE 0)
               + (IF s.k \in {"if", "while", "foreach"}
                  THEN FoldLeft(LAMBDA m, b : m + CountAwaits(b), 0, BlocksOf(s)) ELSE 0),
           0, stmts)
=============================================================================
