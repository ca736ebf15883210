------------------------------ MODULE Checker ------------------------------
(***************************************************************************)
(* check_program of epc_bootstrap.c: what the compiler refuses before it   *)
(* looks at moves and borrows.  Two walks over every function and method,  *)
(* one with the declared types and one without; an error is its name, and  *)
(* the program passes when there is none.                                  *)
(***************************************************************************)
EXTENDS Syntax

Flat(n, E(_)) == FlattenSeq([i \in DOMAIN n |-> E(n[i])])

LitCategory(e) ==
  CASE e.k \in {"int", "float", "bool"} -> "number"
    [] e.k = "str" -> "text"
    [] OTHER -> "open"

\* The kinds of expressions both walks look into.
Nested == {"binary", "comp", "logical", "call", "borrow", "receive", "await", "not", "try"}

(***************************************************************************)
(* The walk without types: `sent` says that the value goes to another      *)
(* thread, which a borrowed one must not.                                  *)
(***************************************************************************)
RECURSIVE ExprErrors(_, _), StmtErrors(_), BlockErrors(_)
ExprErrors(e, sent) ==
  (IF e.k = "borrow" /\ sent THEN <<"E0036">> ELSE <<>>)
  \o (IF e.k \in Nested \cup {"list"} THEN Flat(PartsOf(e), LAMBDA p : ExprErrors(p, FALSE))
      ELSE <<>>)
  \o (IF e.k = "list" /\ {"number", "text"} \subseteq {LitCategory(e.args[i]) : i \in DOMAIN e.args}
      THEN <<"mixed list">> ELSE <<>>)

\* Mutant: of the blocks of a statement only the first is walked.
StmtErrorsOfThen(s) ==
  (IF s.k = "set" /\ s.x = "channel" THEN <<"reserved name">> ELSE <<>>)
  \o (CASE s.k \in {"set", "return", "display", "exprstmt", "if", "while", "foreach"} ->
             ExprErrors(s.e, FALSE)
        [] s.k = "spawn" -> Flat(s.args, LAMBDA a : ExprErrors(a, TRUE))
        [] s.k = "send" -> ExprErrors(s.e, TRUE)
        [] OTHER -> <<>>)
  \o (IF BlocksOf(s) = <<>> THEN <<>> ELSE BlockErrors(BlocksOf(s)[1]))
\* The subject of a match and the places of a field are not looked at.
StmtErrors(s) ==
  (IF s.k = "set" /\ s.x = "channel" THEN <<"reserved name">> ELSE <<>>)
  \o (CASE s.k \in {"set", "return", "display", "exprstmt", "if", "while", "foreach"} ->
             ExprErrors(s.e, FALSE)
        [] s.k = "spawn" -> Flat(s.args, LAMBDA a : ExprErrors(a, TRUE))
        [] s.k = "send" -> ExprErrors(s.e, TRUE)
        [] OTHER -> <<>>)
  \o Flat(BlocksOf(s), BlockErrors)
BlockErrors(stmts) == Flat(stmts, StmtErrors)

FunctionErrors(f) ==
  Flat(f.params, LAMBDA p : IF p.name = "channel" THEN <<"reserved name">> ELSE <<>>)
  \o BlockErrors(f.body)

(***************************************************************************)
(* The walk with types.  env holds the variants with their choice and the  *)
(* types of their fields, the functions with the types of their            *)
(* parameters, and the return type of the function being walked.           *)
(***************************************************************************)
Named(seq, name) == SelectInSeq(seq, LAMBDA x : x.name = name)

\* The type an expression shows by its form, "" when it shows none.
ArgType(e, env) ==
  CASE e.k = "enum" -> LET i == Named(env.variants, e.name) IN
                       IF i = 0 THEN "" ELSE env.variants[i].owner
    [] e.k = "int" -> "Int"
    [] e.k = "str" -> "Str"
    [] e.k = "float" -> "Float"
    [] e.k = "bool" -> "Bool"
    [] OTHER -> ""

\* The declared type at a place of a list that was found by name.
TypeAt(seq, name, i) ==
  LET j == Named(seq, name) IN
  IF j # 0 /\ i \in DOMAIN seq[j].types THEN seq[j].types[i] ELSE ""

\* 0 is allowed for a text: it is the value of no text.
IsZero(e) == e.k = "int" /\ e.n = 0
Scalars == {"Int", "Float", "Bool"}
TypeConflict(declared, e, env) ==
  \/ declared = "Str" /\ ArgType(e, env) \in Scalars /\ ~IsZero(e)
  \/ declared \in Scalars /\ ArgType(e, env) = "Str"

\* A text in arithmetic is only allowed in "+ 0", which makes a number of it.
TextInArithmetic(text, op, other, env) ==
  ArgType(text, env) = "Str" /\ ~(op = "+" /\ IsZero(other))

RECURSIVE TypeErrors(_, _), TypeErrorsOfStmt(_, _)
TypeErrors(e, env) ==
  (CASE e.k = "enum" ->
          Flat([i \in DOMAIN e.args |-> i],
               LAMBDA i : IF /\ TypeAt(env.variants, e.name, i) # ""
                             /\ ArgType(e.args[i], env) \notin {"", TypeAt(env.variants, e.name, i)}
                          THEN <<"variant field">> ELSE <<>>)
     [] e.k = "binary" ->
          (IF TextInArithmetic(e.l, e.op, e.r, env) THEN <<"text in arithmetic">> ELSE <<>>)
          \o (IF TextInArithmetic(e.r, e.op, e.l, env) THEN <<"text in arithmetic">> ELSE <<>>)
     [] e.k = "call" ->
          Flat([i \in DOMAIN e.args |-> i],
               LAMBDA i : IF TypeConflict(TypeAt(env.funcs, e.name, i), e.args[i], env)
                          THEN <<"argument">> ELSE <<>>)
     [] OTHER -> <<>>)
  \o (IF e.k \in Nested \cup {"enum"} THEN Flat(PartsOf(e), LAMBDA p : TypeErrors(p, env))
      ELSE <<>>)

TypeErrorsOfStmt(s, env) ==
  (IF s.k = "return" /\ TypeConflict(env.ret, s.e, env) THEN <<"return">> ELSE <<>>)
  \o (IF s.k \in {"set", "return", "display", "exprstmt", "if", "while", "foreach"}
      THEN TypeErrors(s.e, env) ELSE <<>>)
  \o Flat(BlocksOf(s), LAMBDA b : Flat(b, LAMBDA t : TypeErrorsOfStmt(t, env)))

Fields(list, Type(_)) == [i \in DOMAIN list |-> Type(list[i])]
EnvOf(program, ret) ==
  [variants |->
     Flat(program.enums,
          LAMBDA d : Fields(d.variants,
                            LAMBDA v : [name |-> v.name, owner |-> d.name,
                                        types |-> Fields(v.fields, LAMBDA f : f.type)])),
   funcs |-> Fields(program.funcs,
                    LAMBDA f : [name |-> f.name, types |-> Fields(f.params, LAMBDA p : p.type)]),
   ret |-> ret]

\* check_program: the methods of a trait's implementation are not walked, and
\* neither are the return types and parameters of methods.
CheckProgram(program) ==
  Flat(program.funcs,
       LAMBDA f : Flat(f.body, LAMBDA s : TypeErrorsOfStmt(s, EnvOf(program, f.ret))))
  \o Flat(program.methods,
          LAMBDA m : Flat(m.body, LAMBDA s : TypeErrorsOfStmt(s, EnvOf(program, ""))))
  \o Flat(program.funcs, FunctionErrors)
  \o Flat(program.methods, LAMBDA m : BlockErrors(m.body))
=============================================================================
