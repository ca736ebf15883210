------------------------------- MODULE Parser -------------------------------
(***************************************************************************)
(* The recursive-descent parser of epc_bootstrap.c.  Its state is a record *)
(* that every operator takes and returns: the tokens, the position, the    *)
(* error flag, whether a condition is being read and how many argument     *)
(* lists are open; `n` is the node or list read last.                      *)
(***************************************************************************)
EXTENDS Syntax, Lexer

CONSTANT Capitals  \* names that begin with a capital letter

Start(toks) == [toks |-> toks, pos |-> 1, err |-> FALSE,
                cond |-> FALSE, depth |-> 0, n |-> 0]

TokenAt(p, offset) ==
  IF p.pos + offset <= Len(p.toks) THEN p.toks[p.pos + offset] ELSE <<T.eof, "EOF">>
Peek(p)     == TokenAt(p, 0)[1]
PeekAt(p, i) == TokenAt(p, i)[1]
Text(p)     == TokenAt(p, 0)[2]
Adv(p)      == IF p.pos <= Len(p.toks) THEN [p EXCEPT !.pos = @ + 1] ELSE p
Error(p)    == [p EXCEPT !.err = TRUE]
Expect(p, t) == IF Peek(p) = t THEN Adv(p) ELSE Error(Adv(p))
Maybe(p, t) == IF Peek(p) = t THEN Adv(p) ELSE p
Give(p, node) == [p EXCEPT !.n = node]
Name(p)     == Give(Adv(p), Text(p))
EnterArgs(p) == [p EXCEPT !.depth = @ + 1]
LeaveArgs(p) == [p EXCEPT !.depth = @ - 1]

RECURSIVE SkipNewlines(_)
SkipNewlines(p) == IF Peek(p) = T.newline THEN SkipNewlines(Adv(p)) ELSE p

\* Mutant: "and also" binds no closer than "or else".
PrecedenceOfLogic(t) ==
  CASE t \in {T.orelse, T.also} -> 1
    [] t \in {T.less, T.greater, T.equal, T.differs, T.atmost, T.atleast} -> 3
    [] t \in {T.plus, T.minus} -> 4
    [] t \in {T.times, T.divided, T.modulo} -> 5
    [] t = T.lparen -> 6
    [] t = T.dot -> 7
    [] OTHER -> 0
Precedence(t) ==
  CASE t = T.orelse -> 1
    [] t = T.also -> 2
    [] t \in {T.less, T.greater, T.equal, T.differs, T.atmost, T.atleast} -> 3
    [] t \in {T.plus, T.minus} -> 4
    [] t \in {T.times, T.divided, T.modulo} -> 5
    [] t = T.lparen -> 6
    [] t = T.dot -> 7
    [] OTHER -> 0

\* Whatever begins here: an expression of operators that bind more than
\* `precedence`, a statement or a member of a block.
RECURSIVE Item(_, _, _)
Expr(p, precedence) == Item(p, "expression", precedence)
Statement(p)        == Item(p, "statement", 0)

\* Expressions between separators; one is there already when acc is not empty.
RECURSIVE Exprs(_, _, _)
Exprs(p, seps, acc) ==
  IF acc = <<>> \/ Peek(p) \in seps
  THEN LET e == Expr(IF acc = <<>> THEN p ELSE Adv(p), 0) IN Exprs(e, seps, Append(acc, e.n))
  ELSE Give(p, acc)

\* An argument list behind its bracket, up to and with the closing one.
Args(p, seps, close) ==
  LET inside == EnterArgs(p)
      read == IF Peek(inside) = close THEN Give(inside, <<>>) ELSE Exprs(inside, seps, <<>>)
  IN Expect(LeaveArgs(read), close)

CallArgs(p) == Args(p, {T.and, T.comma}, T.rparen)

\* [as type], a type that is skipped, and a colon with the line breaks after it.
TypeOr(p, default) == IF Peek(p) = T.as THEN Name(Adv(p)) ELSE Give(p, default)
SkipReturning(p)   == IF Peek(p) = T.returning THEN Adv(Adv(p)) ELSE p
Colon(p)           == SkipNewlines(Expect(p, T.colon))

\* with [borrow] name [as type] and ...
RECURSIVE Params(_, _)
Params(p, acc) ==
  IF Peek(p) = (IF acc = <<>> THEN T.with ELSE T.and)
  THEN LET name == Name(Maybe(Adv(p), T.borrow))
           type == TypeOr(name, "")
           param == [name |-> name.n, borrow |-> Peek(Adv(p)) = T.borrow, type |-> type.n]
       IN Params(type, Append(acc, param))
  ELSE Give(p, acc)

\* The fields of a variant: with name [as type] and ...
RECURSIVE VariantFields(_, _)
VariantFields(p, acc) ==
  IF Peek(p) = (IF acc = <<>> THEN T.with ELSE T.and)
  THEN LET name == Name(Adv(p)) type == TypeOr(name, "Int")
       IN VariantFields(type, Append(acc, [name |-> name.n, type |-> type.n]))
  ELSE Give(p, acc)

\* Names between "and", the first of them behind `first`.
RECURSIVE Names(_, _, _)
Names(p, first, acc) ==
  IF Peek(p) = first
  THEN LET name == Name(Adv(p)) IN Names(name, T.and, Append(acc, name.n))
  ELSE Give(p, acc)

(***************************************************************************)
(* The members of an indented block up to its DEDENT: line breaks are      *)
(* skipped, and so is every token that no member begins with.              *)
(***************************************************************************)
Starter == [field |-> T.field, variant |-> T.variant, signature |-> T.define,
            method |-> T.define, arm |-> T.if]
Begins(p, what) == what \in {"statement", "value"} \/ Peek(p) = Starter[what]

RECURSIVE Items(_, _, _)
Items(p, what, acc) ==
  CASE Peek(p) \in {T.dedent, T.eof} -> Give(Maybe(p, T.dedent), acc)
    [] Peek(p) = T.newline -> Items(Adv(p), what, acc)
    [] ~Begins(p, what) -> Items(Adv(p), what, acc)
    [] OTHER -> LET i == Item(p, what, 0) IN Items(i, what, Append(acc, i.n))

Block(p)  == Items(Expect(p, T.indent), "statement", <<>>)
Members(p, what) == Items(Expect(Colon(p), T.indent), what, <<>>)

FieldDef(p) ==
  LET name == Name(Adv(p))
      type == TypeOr(name, "Int")
      value == IF Peek(type) = T.is THEN Expr(Adv(type), 0) ELSE Give(type, None)
  IN Give(value, [name |-> name.n, type |-> type.n, default |-> value.n])

VariantDef(p) ==
  LET name == Name(Adv(p)) fields == VariantFields(name, <<>>)
  IN Give(fields, [name |-> name.n, fields |-> fields.n])

Signature(p) ==
  LET name == Name(Adv(p)) params == Params(name, <<>>)
  IN Give(Maybe(SkipReturning(params), T.colon), [name |-> name.n, params |-> params.n])

\* An arm keeps the type of its pattern: a number, a text or a variant.
Arm(p) ==
  LET name == Name(Adv(p))
      bindings == Names(name, T.with, <<>>)
      body == Block(Colon(bindings))
  IN Give(body, [name |-> name.n, bindings |-> bindings.n, body |-> body.n,
                 pattern |-> Peek(Adv(p))])

\* One field of a structure being created.
FieldValue(p) ==
  LET name == Name(p) value == Expr(Expect(name, T.is), 0)
  IN Give(value, [f |-> name.n, e |-> value.n])

(***************************************************************************)
(* Statements.                                                             *)
(***************************************************************************)
Condition(p) ==
  LET c == Expr([p EXCEPT !.cond = TRUE], 0) IN [c EXCEPT !.cond = p.cond]

SetStatement(p) ==
  LET x == Name(p) IN
  IF Peek(x) = T.dot
  THEN LET f == Name(Adv(x)) e == Expr(Expect(f, T.to), 0)
       IN Give(SkipNewlines(e), FieldSet(Ident(x.n), f.n, e.n))
  ELSE LET e == Expr(Expect(x, T.to), 0)
       IN Give(SkipNewlines(IF Peek(e) = T.as THEN Adv(Adv(e)) ELSE e), Set(x.n, e.n))

WhileStatement(p) ==
  LET c == Condition(IF Peek(p) = T.repeat THEN Expect(Adv(p), T.while) ELSE Adv(p))
      body == Block(Colon(c))
  IN Give(body, While(c.n, body.n))

\* Arguments of a spawn are parted by "and" only and are no argument list
\* to the parser.
SpawnStatement(p) ==
  LET f == Name(p)
      open == Expect(f, T.lparen)
      args == IF Peek(open) = T.rparen THEN Give(open, <<>>) ELSE Exprs(open, {T.and}, <<>>)
  IN Give(SkipNewlines(Expect(args, T.rparen)), Spawn(f.n, args.n))

SendStatement(p) ==
  LET e == Expr(p, 0) chan == Expr(Expect(e, T.to), 0)
  IN Give(SkipNewlines(chan), Send(chan.n, e.n))

IfStatement(p) ==
  LET c == Condition(Adv(p))
      then == Block(Colon(c))
      chained == Statement(Adv(then))
      else == CASE Peek(then) # T.else -> Give(then, <<>>)
                [] Peek(then) = T.else /\ PeekAt(then, 1) = T.if ->
                     Give(chained, <<chained.n>>)
                [] OTHER -> Block(Colon(Adv(then)))
  IN Give(else, If(c.n, then.n, else.n))

MatchStatement(p) ==
  LET e == Expr(Adv(p), 0) arms == Members(e, "arm") IN Give(arms, Match(e.n, arms.n))

ForEachStatement(p) ==
  LET x == Name(Expect(Adv(p), T.each))
      e == Expr(Expect(x, T.in), 0)
      body == Block(Colon(e))
  IN Give(body, ForEach(x.n, e.n, body.n))

Plain(p, Build(_)) == LET e == Expr(p, 0) IN Give(SkipNewlines(e), Build(e.n))

StatementAt(p) ==
  LET t == Peek(p) IN
  CASE t = T.set -> SetStatement(Adv(p))
    [] t = T.if -> IfStatement(p)
    [] t \in {T.repeat, T.while} -> WhileStatement(p)
    [] t = T.return -> Plain(Adv(p), Return)
    [] t = T.display -> Plain(Adv(p), Display)
    [] t = T.spawn -> SpawnStatement(Adv(p))
    [] t = T.send -> SendStatement(Adv(p))
    [] t = T.check -> MatchStatement(p)
    [] t = T.for -> ForEachStatement(p)
    [] t = T.break -> Give(SkipNewlines(Adv(p)), Break)
    [] t = T.continue -> Give(SkipNewlines(Adv(p)), Continue)
    [] OTHER -> Plain(p, ExprStmt)

(***************************************************************************)
(* Expressions: precedence climbing.  "and" is an operator only in a       *)
(* condition outside all argument lists, and a separator elsewhere.        *)
(***************************************************************************)
MathOps    == (T.plus :> "+") @@ (T.minus :> "-") @@ (T.times :> "*")
              @@ (T.divided :> "/") @@ (T.modulo :> "%")
CompOps    == (T.less :> "<") @@ (T.greater :> ">") @@ (T.equal :> "==")
              @@ (T.differs :> "!=") @@ (T.atmost :> "<=") @@ (T.atleast :> ">=")
LogicalOps == (T.also :> "&&") @@ (T.orelse :> "||") @@ (T.and :> "&&")

\* Behind a dot: a call of a method or a field.
Member(p, obj) ==
  LET name == Name(Adv(p)) args == CallArgs(Adv(name)) IN
  IF Peek(name) = T.lparen THEN Give(args, MethodCall(obj, name.n, args.n))
  ELSE Give(name, FieldAccess(obj, name.n))

\* An operator or an argument list behind `left`.
Infix(p, left) ==
  LET t == Peek(p)
      right(prec) == Expr(Adv(p), prec)
      args == CallArgs(Adv(p))
  IN CASE t \in DOMAIN MathOps -> LET r == right(Precedence(t)) IN
            Give(r, Binary(left, MathOps[t], r.n))
       [] t \in DOMAIN CompOps -> LET r == right(Precedence(t)) IN
            Give(r, Comp(left, CompOps[t], r.n))
       [] t \in DOMAIN LogicalOps -> LET r == right(IF t = T.orelse THEN 1 ELSE 2) IN
            Give(r, Logical(left, LogicalOps[t], r.n))
       [] t = T.lparen ->
            Give(args, IF left.k = "ident" THEN CallNode(left.name, args.n) ELSE left)
       [] OTHER -> Give(Adv(p), left)

RECURSIVE Climb(_, _)
Climb(p, precedence) ==
  LET t == Peek(p)
      next == IF t = T.and /\ p.cond /\ p.depth = 0 THEN 2 ELSE Precedence(t)
  IN CASE t = T.dot /\ precedence < 7 -> Climb(Member(p, p.n), precedence)
       [] ~(t = T.dot /\ precedence < 7) /\ precedence < next ->
            Climb(Infix(p, p.n), precedence)
       [] OTHER -> p

\* Keywords that are names where an expression is expected.
Contextual == {T.define, T.display, T.repeat, T.returning, T.structure, T.field,
               T.choice, T.variant, T.check, T.each, T.trait, T.implement,
               T.range, T.break, T.continue}

Word(p) ==
  LET name == Name(p)
      args == CallArgs(Adv(name))
      payload == LeaveArgs(Exprs(EnterArgs(Adv(name)), {T.and}, <<>>))
  IN CASE Peek(name) = T.lparen -> Give(args, CallNode(name.n, args.n))
       [] name.n \in Capitals /\ Peek(name) = T.with ->
            Give(payload, EnumCreate(name.n, payload.n))
       [] OTHER -> Give(name, Ident(name.n))

ClosureExpr(p) ==
  LET first == IF Peek(p) = T.colon THEN Give(p, <<>>)
               ELSE LET name == Name(p) IN Names(name, T.and, <<name.n>>)
      head == Colon(first)
      single == Statement(head)
      body == IF Peek(head) = T.indent THEN Block(head) ELSE Give(single, <<single.n>>)
  IN Give(body, Closure([i \in DOMAIN first.n |->
                           [name |-> first.n[i], borrow |-> FALSE, type |-> ""]], body.n))

StructExpr(p) ==
  LET name == Name(p)
      head == Colon(name)
      fields == IF Peek(head) = T.indent THEN Items(Expect(head, T.indent), "value", <<>>)
                ELSE Give(head, <<>>)
  IN Give(fields, StructCreate(name.n, fields.n))

ListExpr(p) ==
  LET args == Args(p, {T.and, T.comma}, T.rbracket) IN Give(args, ListLit(args.n))

\* A word that takes the whole expression behind it.
Greedy(p, Build(_)) == LET e == Expr(p, 0) IN Give(e, Build(e.n))
Tight(p, Build(_))  == LET e == Expr(p, 6) IN Give(e, Build(e.n))
Negated(e)          == Binary(IntLit(0), "-", e)

Prefix(p) ==
  LET t == Peek(p) a == Adv(p) IN
  CASE t = T.num -> Give(a, IntLit(Text(p)))
    [] t = T.float -> Give(a, Float(Text(p)))
    [] t = T.str -> Give(a, Str(Text(p)))
    [] t = T.channel -> Give(a, ChannelNode)
    [] t = T.receive -> Greedy(Expect(a, T.from), ReceiveNode)
    [] t = T.borrow -> Greedy(a, BorrowNode)
    [] t = T.await -> Greedy(a, AwaitNode)
    [] t \in {T.true, T.false} -> Give(a, Bool(t = T.true))
    [] t = T.not -> Tight(a, Not)
    [] t = T.try -> Greedy(a, Try)
    [] t = T.minus -> Tight(a, Negated)
    [] t = T.given -> ClosureExpr(a)
    [] t = T.create -> StructExpr(a)
    [] t = T.lbracket -> ListExpr(a)
    [] t = T.ident \/ t \in Contextual -> Word(p)
    [] t = T.lparen -> LET e == Expr(a, 0) IN Expect(e, T.rparen)
    [] OTHER -> Give(Error(a), IntLit(0))

(***************************************************************************)
(* Definitions and the whole program.                                      *)
(***************************************************************************)
FuncDef(p) ==
  LET name == Name(Expect(Maybe(p, T.async), T.define))
      params == Params(name, <<>>)
      ret == IF Peek(params) = T.returning THEN Name(Adv(params)) ELSE Give(params, "")
      body == Block(Maybe(Expect(ret, T.colon), T.newline))
  IN Give(body, Func(name.n, params.n, body.n, Peek(p) = T.async, ret.n))

ParseExternal(p) ==
  LET name == Name(Expect(p, T.define))
      params == Params(name, <<>>)
      ret == IF Peek(params) = T.returning THEN Name(Adv(params)) ELSE Give(params, "")
  IN Give(Maybe(Maybe(ret, T.colon), T.newline), External(name.n, params.n, ret.n))

ParseStruct(p) ==
  LET name == Name(Expect(Expect(p, T.define), T.structure))
      fields == Members(name, "field")
  IN Give(fields, StructDef(name.n, fields.n))

ParseEnum(p) ==
  LET name == Name(Expect(Expect(p, T.define), T.choice))
      variants == Members(name, "variant")
  IN Give(variants, EnumDef(name.n, variants.n))

ParseTrait(p) ==
  LET name == Name(Expect(Expect(p, T.define), T.trait))
      sigs == Members(name, "signature")
  IN Give(sigs, TraitDef(name.n, sigs.n))

ParseMethod(p) ==
  LET name == Name(Expect(p, T.define))
      type == Name(Expect(name, T.on))
      params == Params(type, <<>>)
      body == Block(Colon(SkipReturning(params)))
  IN Give(body, MethodDef(name.n, type.n, params.n, body.n))

ParseImpl(p) ==
  LET trait == Name(Expect(p, T.implement))
      type == Name(Expect(trait, T.for))
      methods == Members(type, "method")
  IN Give(methods, TraitImpl(trait.n, type.n, methods.n))

\* An import: a path in quotes and, perhaps, a name for it.
ImportAlias(p) == IF Peek(p) = T.as THEN Name(Adv(p)) ELSE Give(p, "")
ParseImport(p) ==
  LET path == Adv(p) alias == ImportAlias(Adv(path)) IN Give(alias, <<Text(path), alias.n>>)

Item(p, what, precedence) ==
  CASE what = "expression" -> Climb(Prefix(p), precedence)
    [] what \in {"statement", "constants"} -> StatementAt(p)
    [] what = "value" -> FieldValue(p)
    [] what = "field" -> FieldDef(p)
    [] what = "variant" -> VariantDef(p)
    [] what = "signature" -> Signature(p)
    [] what = "arm" -> Arm(p)
    [] what \in {"method", "funcs"} -> FuncDef(p)
    [] what = "methods" -> ParseMethod(p)
    [] what = "structs" -> ParseStruct(p)
    [] what = "enums" -> ParseEnum(p)
    [] what = "traits" -> ParseTrait(p)
    [] what = "impls" -> ParseImpl(p)
    [] what = "externals" -> ParseExternal(Adv(p))
    [] what = "imports" -> ParseImport(p)

\* What begins with "define", and the list of the program that anything is for.
Definition(p) ==
  CASE PeekAt(p, 1) = T.structure -> "structs"
    [] PeekAt(p, 1) = T.choice -> "enums"
    [] PeekAt(p, 1) = T.trait -> "traits"
    [] PeekAt(p, 1) \notin {T.structure, T.choice, T.trait} /\ PeekAt(p, 2) = T.on -> "methods"
    [] OTHER -> "funcs"
ListFor(p) ==
  CASE Peek(p) = T.import /\ PeekAt(p, 1) = T.str -> "imports"
    [] Peek(p) = T.external -> "externals"
    [] Peek(p) = T.async -> "funcs"
    [] Peek(p) = T.define -> Definition(p)
    [] Peek(p) = T.implement -> "impls"
    [] Peek(p) = T.set -> "constants"
    [] OTHER -> "none"

\* An import without a path in quotes ends the program without an error.
RECURSIVE TopLevel(_, _)
Added(prog, list, node) == [prog EXCEPT ![list] = Append(@, node)]
TopLevel(p, prog) ==
  LET list == ListFor(p) IN
  CASE Peek(p) = T.eof -> Give(p, prog)
    [] Peek(p) = T.newline -> TopLevel(Adv(p), prog)
    [] Peek(p) = T.import /\ list = "none" -> Give(Adv(Adv(p)), prog)
    [] list # "none" -> LET i == Item(p, list, 0) IN TopLevel(i, Added(prog, list, i.n))
    [] OTHER -> Give(Error(p), prog)

\* parse_program: the program is in `n`, whether it is one in `err`.
Parse(toks) ==
  TopLevel(Start(toks), Program(<<>>, <<>>, <<>>, <<>>, <<>>, <<>>, <<>>, <<>>))
=============================================================================
