----------------------------- MODULE MCCompiling -----------------------------
(***************************************************************************)
(* Small programs for the compiler: written out as lines from their trees, *)
(* so that what the compiler makes of the lines can be held against the    *)
(* trees and against a meaning of them that is given here.                 *)
(***************************************************************************)
EXTENDS Compiling

MCCapitals == {"Red", "Blue"}
MCGlobals  == {"LIMIT"}

(***************************************************************************)
(* Printing.  Brackets stand only where precedence needs them.  A style    *)
(* chooses words or symbols, "else if" or an if inside else, empty lines,  *)
(* and the depth of a level.                                               *)
(***************************************************************************)
W(s)  == <<"word", s>>
Sy(s) == <<"sym", s>>
L(d, words) == [indent |-> d, words |-> words]
OpWords(op, st) ==
  CASE ~st.wordy -> <<Sy(op)>>
    [] op = "+" -> <<W("plus")>> [] op = "-" -> <<W("minus")>> [] op = "%" -> <<W("modulo")>>
    [] op = "*" -> <<W("multiplied"), W("by")>> [] op = "/" -> <<W("divided"), W("by")>>
    [] op = "<" -> <<W("is"), W("fewer"), W("than")>> [] op = "==" -> <<W("equals")>>
    [] op = "!=" -> <<W("is"), W("not"), W("equal"), W("to")>>
    [] op = "&&" -> <<W("and"), W("also")>> [] op = "||" -> <<W("or"), W("else")>>

Level(e) ==
  CASE e.k = "logical" -> IF e.op = "||" THEN 1 ELSE 2
    [] e.k = "comp" -> 3
    [] e.k = "binary" -> IF e.op \in {"+", "-"} THEN 4 ELSE 5
    [] e.k \in {"borrow", "await", "receive", "try"} -> 0
    [] e.k = "not" -> 6
    [] OTHER -> 7

Between(seqs, sep) ==
  FlattenSeq([i \in DOMAIN seqs |-> IF i = 1 THEN seqs[i] ELSE sep \o seqs[i]])
RECURSIVE Show(_, _, _)
Shown(e, st) ==
  LET list(es) == Between([i \in DOMAIN es |-> Show(es[i], 0, st)],
                          IF st.wordy THEN <<W("and")>> ELSE <<Sy(",")>>)
  IN CASE e.k = "int" -> << <<"num", e.n>> >>
       [] e.k = "str" -> << <<"str", [i \in DOMAIN e.s |-> <<"text", e.s[i]>>]>> >>
       [] e.k = "bool" -> <<W(IF e.b THEN "true" ELSE "false")>>
       [] e.k = "ident" -> <<W(e.name)>>
       [] e.k \in {"binary", "comp", "logical"} ->
            Show(e.l, Level(e), st) \o OpWords(e.op, st) \o Show(e.r, Level(e) + 1, st)
       [] e.k = "not" -> <<W("not")>> \o Show(e.e, 6, st)
       [] e.k = "call" -> <<W(e.name), Sy("(")>> \o list(e.args) \o <<Sy(")")>>
       [] e.k = "list" -> <<Sy("[")>> \o list(e.args) \o <<Sy("]")>>
       [] e.k = "enum" -> <<W(e.name), W("with")>>
                          \o Between([i \in DOMAIN e.args |-> Show(e.args[i], 0, st)], <<W("and")>>)
       [] e.k = "channel" -> <<W("channel")>>
       [] e.k = "receive" -> <<W("receive"), W("from")>> \o Show(e.e, 0, st)
       [] e.k \in {"borrow", "await", "try"} -> <<W(e.k)>> \o Show(e.e, 0, st)
       [] e.k = "field" -> Show(e.e, 7, st) \o <<Sy("."), W(e.f)>>
       [] e.k = "method" -> Show(e.e, 7, st) \o <<Sy("."), W(e.name), Sy("(")>> \o list(e.args) \o <<Sy(")")>>
       [] e.k = "float" -> << <<"float", e.x>> >>
       [] e.k = "struct" -> <<W("create"), W(e.name), Sy(":")>>
       [] e.k = "closure" ->
            <<W("given")>> \o Between([i \in DOMAIN e.params |-> <<W(e.params[i].name)>>], <<W("and")>>)
            \o <<Sy(":"), W("return")>> \o Show(e.body[1].e, 0, st)
Show(e, level, st) ==
  IF Level(e) < level THEN <<Sy("(")>> \o Shown(e, st) \o <<Sy(")")>> ELSE Shown(e, st)

RECURSIVE ShowStmt(_, _, _)
ShowBlock(b, d, st) == Cat(b, LAMBDA s : ShowStmt(s, d, st))
Colon1 == <<Sy(":")>>
ShowIf(s, d, st, first) ==
  LET in == d + st.step IN
  <<L(d, first \o <<W("if")>> \o Show(s.e, 0, st) \o Colon1)>> \o ShowBlock(s.then, in, st)
ShowElse(s, d, st) ==
  IF s.else = <<>> THEN <<>>
  ELSE <<L(d, <<W("else")>> \o Colon1)>> \o ShowBlock(s.else, d + st.step, st)
ShowArm(a, d, st) ==
  LET pattern == CASE a.pattern = 25 -> << <<"num", a.name>> >>
                   [] a.pattern = 26 -> << <<"str", [i \in DOMAIN a.name |-> <<"text", a.name[i]>>]>> >>
                   [] OTHER -> <<W(a.name)>>
      names == Between([i \in DOMAIN a.bindings |-> <<W(a.bindings[i])>>], <<W("and")>>)
  IN <<L(d, <<W("if")>> \o pattern \o (IF names = <<>> THEN <<>> ELSE <<W("with")>> \o names) \o Colon1)>>
     \o ShowBlock(a.body, d + st.step, st)
ShowStmt(s, d, st) ==
  LET line(words) == <<L(d, words)>> \o (IF st.blank THEN <<L(0, <<>>)>> ELSE <<>>)
      show(e) == Show(e, 0, st)
  IN CASE s.k = "set" /\ s.e.k = "struct" ->
            line(<<W("set"), W(s.x), W("to")>> \o show(s.e))
            \o [i \in DOMAIN s.e.fields |->
                  L(d + st.step, <<W(s.e.fields[i].f), W("is")>> \o show(s.e.fields[i].e))]
       [] s.k = "fieldset" -> line(<<W("set"), W(s.chan.name), Sy("."), W(s.f), W("to")>> \o show(s.e))
       [] s.k = "set" /\ s.e.k # "struct" -> line(<<W(IF st.wordy THEN "let" ELSE "set"), W(s.x), W("to")>> \o show(s.e))
       [] s.k = "return" -> line(<<W("give"), W("back")>> \o show(s.e))
       [] s.k = "display" -> line(<<W(IF st.wordy THEN "show" ELSE "display")>> \o show(s.e))
       [] s.k = "exprstmt" -> line(show(s.e))
       [] s.k \in {"break", "continue"} -> line(<<W(s.k)>>)
       [] s.k = "send" -> line(<<W("send")>> \o show(s.e) \o <<W("to")>> \o show(s.chan))
       [] s.k = "spawn" -> line(<<W("spawn"), W(s.name), Sy("(")>>
                                \o Between([i \in DOMAIN s.args |-> show(s.args[i])], <<W("and")>>)
                                \o <<Sy(")")>>)
       [] s.k = "if" /\ st.chain /\ Len(s.else) = 1 /\ s.else[1].k = "if" ->
            ShowIf(s, d, st, <<>>) \o ShowIf(s.else[1], d, st, <<W("else")>>) \o ShowElse(s.else[1], d, st)
       [] s.k = "if" -> ShowIf(s, d, st, <<>>) \o ShowElse(s, d, st)
       [] s.k = "while" -> line(<<W("repeat"), W("while")>> \o show(s.e) \o Colon1)
                           \o ShowBlock(s.body, d + st.step, st)
       [] s.k = "foreach" -> line(<<W("for"), W("each"), W(s.x), W("in")>> \o show(s.e) \o Colon1)
                             \o ShowBlock(s.body, d + st.step, st)
       [] s.k = "match" -> line(<<W("check")>> \o show(s.e) \o Colon1)
                           \o Cat(s.arms, LAMBDA a : ShowArm(a, d + st.step, st))

ShowParams(ps) ==
  IF ps = <<>> THEN <<>>
  ELSE <<W("with")>> \o Between([i \in DOMAIN ps |->
         (IF ps[i].borrow THEN <<W("borrow")>> ELSE <<>>) \o <<W(ps[i].name)>>
         \o (IF ps[i].type = "" THEN <<>> ELSE <<W("as"), W(ps[i].type)>>)], <<W("and")>>)
ShowFunc(f, st) ==
  <<L(0, (IF f.async THEN <<W("async")>> ELSE <<>>) \o <<W("define"), W(f.name)>> \o ShowParams(f.params)
         \o (IF f.ret = "" THEN <<>> ELSE <<W("returning"), W(f.ret)>>) \o Colon1)>>
  \o ShowBlock(f.body, st.step, st)
ShowMethod(m, st) ==
  <<L(0, <<W("define"), W(m.name), W("on"), W(m.type)>> \o ShowParams(m.params) \o Colon1)>>
  \o ShowBlock(m.body, st.step, st)

\* Definitions with members, each on a line of its own.
ShowTyped(f) == <<W(f.name), W("as"), W(f.type)>>
ShowVariant(v) ==
  <<W("variant"), W(v.name)>> \o (IF v.fields = <<>> THEN <<>> ELSE <<W("with")>>)
  \o Between([i \in DOMAIN v.fields |-> ShowTyped(v.fields[i])], <<W("and")>>)
ShowField(f, st) ==
  <<W("field")>> \o ShowTyped(f) \o (IF f.default = None THEN <<>> ELSE <<W("is")>> \o Show(f.default, 0, st))
ShowMembers(head, members, Line1(_), st) ==
  <<L(0, head \o Colon1)>> \o [i \in DOMAIN members |-> L(st.step, Line1(members[i]))]
ShowDefinitions(tree, st) ==
  Cat(tree.structs, LAMBDA d : ShowMembers(<<W("define"), W("structure"), W(d.name)>>, d.fields,
                                           LAMBDA f : ShowField(f, st), st))
  \o Cat(tree.enums, LAMBDA d : ShowMembers(<<W("define"), W("choice"), W(d.name)>>, d.variants,
                                            ShowVariant, st))
  \o Cat(tree.traits, LAMBDA d : ShowMembers(<<W("define"), W("trait"), W(d.name)>>, d.sigs,
                                             LAMBDA m : <<W("define"), W(m.name)>> \o ShowParams(m.params), st))
  \o Cat(tree.impls, LAMBDA i :
       <<L(0, <<W("implement"), W(i.trait), W("for"), W(i.type)>> \o Colon1)>>
       \o Cat(i.methods, LAMBDA m : [j \in DOMAIN ShowFunc(m, st) |->
                                      [ShowFunc(m, st)[j] EXCEPT !.indent = @ + st.step]]))
  \o Cat(tree.externals, LAMBDA x :
       <<L(0, <<W("external"), W("define"), W(x.name)>> \o ShowParams(x.params)
              \o <<W("returning"), W(x.ret)>>)>>)
  \o Cat(tree.constants, LAMBDA c : ShowStmt(c, 0, st))
ShowImport(i) ==
  L(0, <<W("import"), <<"str", [j \in DOMAIN i[1] |-> <<"text", i[1][j]>>]>>>>
       \o (IF i[2] = "" THEN <<>> ELSE <<W("as"), W(i[2])>>))

\* A file: lines as they are, or a tree in a style.
Plainly == [wordy |-> FALSE, chain |-> FALSE, blank |-> FALSE, step |-> 4]
Wordy   == [wordy |-> TRUE, chain |-> TRUE, blank |-> TRUE, step |-> 1]
File(lines, tree, st) == [lines |-> lines, tree |-> tree, style |-> st]
MCEmpty == File(<<>>, NoProgram, Plainly)
MCLines(file) ==
  file.lines \o [i \in DOMAIN file.tree.imports |-> ShowImport(file.tree.imports[i])]
  \o ShowDefinitions(file.tree, file.style)
  \o Cat(file.tree.methods, LAMBDA m : ShowMethod(m, file.style))
  \o Cat(file.tree.funcs, LAMBDA f : ShowFunc(f, file.style))

(***************************************************************************)
(* What a program means: the values it shows.  A value is tagged with its  *)
(* kind.  A run that divides by zero or goes on too long is compared no    *)
(* further.                                                                *)
(***************************************************************************)
Stuck1 == <<"stuck">>
Num(n) == <<"int", n>>
Text1(s) == <<"text", s>>
Half   == 2^(Width - 1)
InRange(n) == ((n + Half) % (2 * Half)) - Half
Abs(n) == IF n < 0 THEN -n ELSE n
Towards0(a, b) == IF (a < 0) = (b < 0) THEN Abs(a) \div Abs(b) ELSE -(Abs(a) \div Abs(b))
Arith(op, a, b) ==
  CASE a[1] # "int" \/ b[1] # "int" -> Stuck1
    [] op \in {"/", "%"} /\ b[2] = 0 -> Stuck1
    [] op = "+" -> Num(InRange(a[2] + b[2]))
    [] op = "-" -> Num(InRange(a[2] - b[2]))
    [] op = "*" -> Num(InRange(a[2] * b[2]))
    [] op = "/" -> Num(InRange(Towards0(a[2], b[2])))
    [] op = "%" -> Num(InRange(a[2] - Towards0(a[2], b[2]) * b[2]))
Truth(n) == Num(IF n THEN 1 ELSE 0)
Compared(op, a, b) ==
  CASE a[1] \notin {"int", "text"} \/ a[1] # b[1] -> Stuck1
    [] op = "==" -> Truth(a[2] = b[2])
    [] op = "!=" -> Truth(a[2] # b[2])
    [] op = "<" /\ a[1] = "int" -> Truth(a[2] < b[2])
    [] OTHER -> Stuck1
IsTrue(v) == IF v[1] = "bool" THEN v[2] ELSE v[2] # 0

\* A run: the variables, what was shown, why it left a block, the steps left.
Run(args, fuel) == [vars |-> args, out |-> <<>>, sig |-> "go", val |-> Num(0), fuel |-> fuel]
Sig(st, why) == [st EXCEPT !.sig = why]
Assign(st, x, v) == IF v[1] = "stuck" THEN Sig(st, "stuck") ELSE [st EXCEPT !.vars = (x :> v) @@ @]
Show1(st, v) == IF v[1] = "stuck" THEN Sig(st, "stuck") ELSE [st EXCEPT !.out = Append(@, v)]
GiveUp(st, v) == IF v[1] = "stuck" THEN Sig(st, "stuck") ELSE [st EXCEPT !.sig = "return", !.val = v]
Fuel == 12

RECURSIVE Means(_, _, _), Does(_, _, _), DoesBlock(_, _, _), Repeats(_, _, _), Walks(_, _, _, _)
Binds(f, args) == [x \in {f.params[i].name : i \in DOMAIN f.params} |->
                     args[SelectInSeq(f.params, LAMBDA p : p.name = x)]]
Means(e, bound, funcs) ==
  LET v(x) == Means(x, bound, funcs)
      args == [i \in DOMAIN e.args |-> v(e.args[i])]
      called == SelectInSeq(funcs, LAMBDA f : f.name = e.name)
  IN CASE e.k = "int" -> Num(e.n)
       [] e.k = "str" -> Text1(e.s)
       [] e.k = "bool" -> <<"bool", e.b>>
       [] e.k = "ident" -> IF e.name \in DOMAIN bound THEN bound[e.name] ELSE <<"enum", e.name, <<>>>>
       [] e.k = "binary" -> Arith(e.op, v(e.l), v(e.r))
       [] e.k = "comp" -> Compared(e.op, v(e.l), v(e.r))
       [] e.k = "logical" ->
            LET l == v(e.l) IN
            CASE l[1] = "stuck" -> l
              [] l[1] # "stuck" /\ IsTrue(l) = (e.op = "||") -> Truth(e.op = "||")
              [] OTHER -> LET r == v(e.r) IN IF r[1] = "stuck" THEN r ELSE Truth(IsTrue(r))
       [] e.k = "not" -> LET x == v(e.e) IN IF x[1] = "stuck" THEN x ELSE <<"bool", ~IsTrue(x)>>
       [] e.k = "list" -> <<"list", args>>
       [] e.k = "enum" -> <<"enum", e.name, args>>
       [] e.k = "call" /\ e.name = "concat" -> Text1(args[1][2] \o args[2][2])
       [] OTHER -> DoesBlock(funcs[called].body, Run(Binds(funcs[called], args), Fuel), funcs).val

DoesBlock(b, st, funcs) == FoldLeft(LAMBDA acc, s : IF acc.sig = "go" THEN Does(s, acc, funcs) ELSE acc, st, b)
Chosen(arms, v) ==
  SelectInSeq(arms, LAMBDA a : CASE a.pattern = 25 -> v = Num(a.name) [] a.pattern = 26 -> v = Text1(a.name)
                                 [] OTHER -> v[1] = "enum" /\ v[2] = a.name)
Does(s, st, funcs) ==
  LET v == Means(s.e, st.vars, funcs) IN
  CASE s.k \in {"break", "continue"} -> Sig(st, s.k)
    [] s.k = "set" -> Assign(st, s.x, v)
    [] s.k = "display" -> Show1(st, v)
    [] s.k = "return" -> GiveUp(st, v)
    [] s.k \notin {"break", "continue"} /\ v[1] = "stuck" -> Sig(st, "stuck")
    [] s.k = "if" -> DoesBlock(IF IsTrue(v) THEN s.then ELSE s.else, st, funcs)
    [] s.k = "while" -> Repeats(s, st, funcs)
    [] s.k = "foreach" -> Walks(s, v[2], st, funcs)
    [] s.k = "match" ->
         LET i == Chosen(s.arms, v) IN
         IF i = 0 THEN st
         ELSE DoesBlock(s.arms[i].body,
                FoldLeft(LAMBDA acc, j : Assign(acc, s.arms[i].bindings[j], v[3][j]), st,
                         [j \in DOMAIN s.arms[i].bindings |-> j]), funcs)
\* After a body: go on, leave the loop, or leave all.
After(st) == IF st.sig \in {"break", "continue"} THEN Sig(st, "go") ELSE st
Repeats(s, st, funcs) ==
  LET v == Means(s.e, st.vars, funcs) body == DoesBlock(s.body, [st EXCEPT !.fuel = @ - 1], funcs) IN
  CASE v[1] = "stuck" -> Sig(st, "stuck")
    [] st.fuel = 0 -> Sig(st, "endless")
    [] v[1] # "stuck" /\ st.fuel # 0 /\ ~IsTrue(v) -> st
    [] OTHER -> IF body.sig \in {"go", "continue"} THEN Repeats(s, After(body), funcs) ELSE After(body)
Walks(s, items, st, funcs) ==
  IF items = <<>> THEN st
  ELSE LET body == DoesBlock(s.body, Assign(st, s.x, Head(items)), funcs) IN
       IF body.sig \in {"go", "continue"} THEN Walks(s, Tail(items), After(body), funcs) ELSE After(body)

(***************************************************************************)
(* What C makes of the generated code.  Its precedences, not the compiler's*)
(* decide what belongs to an operator, and values have no kind of their    *)
(* own: a print and a comparison take them as the code says.               *)
(***************************************************************************)
CLevel(op) ==
  CASE op = "||" -> 1 [] op = "&&" -> 2 [] op \in {"==", "!="} -> 3
    [] op \in {"<", ">", "<=", ">="} -> 4 [] op \in {"+", "-"} -> 5 [] op \in {"*", "/", "%"} -> 6
    [] OTHER -> 7
DepthAt(toks, i) == Cardinality({j \in 1..(i - 1) : toks[j] = <<"open">>})
                    - Cardinality({j \in 1..(i - 1) : toks[j] = <<"close">>})
\* The operator that is applied last: the last one of the loosest.
SplitAt(toks) ==
  LET at == {i \in DOMAIN toks : toks[i][1] = "op" /\ DepthAt(toks, i) = 0}
      loosest == {i \in at : \A j \in at : CLevel(toks[i][2]) <= CLevel(toks[j][2])}
  IN IF at = {} THEN 0 ELSE CHOOSE i \in loosest : \A j \in loosest : j <= i

RECURSIVE CMeans(_, _), CAtom(_, _), CDoes(_, _), CBlock(_, _), CRepeats(_, _), CWalks(_, _, _, _)
AsInt(v) == IF v[1] = "bool" THEN Truth(v[2]) ELSE v
CMeans(toks, bound) ==
  LET i == SplitAt(toks)
      op == toks[i][2]
      l == CMeans(SubSeq(toks, 1, i - 1), bound)
      r == CMeans(SubSeq(toks, i + 1, Len(toks)), bound)
  IN CASE Len(toks) = 1 -> CAtom(toks[1], bound)
       [] Len(toks) # 1 /\ i = 0 -> CMeans(Tail(Front(toks)), bound)
       [] i # 0 /\ op = "!" -> IF r[1] = "stuck" THEN r ELSE Truth(~IsTrue(r))
       [] i # 0 /\ CLevel(op) \in {1, 2} ->
            CASE l[1] = "stuck" -> l
              [] l[1] # "stuck" /\ IsTrue(l) = (op = "||") -> Truth(op = "||")
              [] OTHER -> IF r[1] = "stuck" THEN r ELSE Truth(IsTrue(r))
       [] i # 0 /\ CLevel(op) \in {3, 4} ->
            IF l[1] = "int" /\ r[1] = "int" THEN Compared(op, l, r) ELSE Stuck1
       [] OTHER -> Arith(op, l, r)

\* A text has an address to "==" and a text to strcmp.
CAtom(t, bound) ==
  LET args == [i \in DOMAIN t[3] |-> CMeans(t[3][i], bound)]
      called == SelectInSeq(code.funcs, LAMBDA f : f.name = t[2])
  IN CASE t[1] = "num" -> Num(t[2])
       [] t[1] = "str" -> Text1(t[2])
       [] t[1] = "var" -> bound[t[2]]
       [] t[1] = "make" -> <<"enum", t[2], args>>
       [] t[1] = "list" -> <<"list", [i \in DOMAIN t[2] |-> CMeans(t[2][i], bound)]>>
       [] t[1] = "strcmp" -> LET l == CMeans(t[3], bound) r == CMeans(t[4], bound) IN
                             IF l[1] = "text" THEN Compared(t[2], l, r) ELSE Stuck1
       [] t[1] = "call" /\ t[2] = "concat" -> Text1(args[1][2] \o args[2][2])
       [] OTHER -> CBlock(code.funcs[called].code, Run(Binds(code.funcs[called], args), 2 * Fuel)).val

CBlock(b, st) == FoldLeft(LAMBDA acc, s : IF acc.sig = "go" THEN CDoes(s, acc) ELSE acc, st, b)
CShows(how, v) ==
  CASE v[1] = "stuck" -> v
    [] v[1] # "stuck" /\ how = "text" -> IF v[1] = "text" THEN v ELSE <<"junk">>
    [] v[1] # "stuck" /\ how = "bool" -> IF v[1] = "int" THEN <<"bool", IsTrue(v)>> ELSE <<"junk">>
    [] OTHER -> v
CTest(test, v) ==
  CASE test[1] = "num" -> v = Num(test[2]) [] test[1] = "text" -> v = Text1(test[2])
    [] OTHER -> v[1] = "enum" /\ v[2] = test[2]
\* A for-each and an arm declare their names in a block of their own: behind
\* it, these names are again what they were before.
Behind(st, inside, names) ==
  LET kept == (DOMAIN inside.vars \ names) \cup (DOMAIN st.vars \cap names)
  IN [inside EXCEPT !.vars = [x \in kept |-> IF x \in names THEN st.vars[x] ELSE inside.vars[x]]]
CDoes(s, st) ==
  LET v == CMeans(s.e, st.vars) IN
  CASE s.c \in {"break", "continue"} -> Sig(st, s.c)
    [] s.c = "assign" -> Assign(st, s.x, v)
    [] s.c = "print" -> Show1(st, CShows(s.how, v))
    [] s.c = "return" -> GiveUp(st, v)
    [] s.c \notin {"break", "continue"} /\ v[1] = "stuck" -> Sig(st, "stuck")
    [] s.c = "if" -> CBlock(IF IsTrue(v) THEN s.then ELSE s.else, st)
    [] s.c = "while" -> CRepeats(s, st)
    [] s.c = "foreach" -> Behind(st, CWalks(s, v[2], 1, st), {s.x})
    [] s.c = "match" ->
         LET i == SelectInSeq(s.arms, LAMBDA a : CTest(a.test, v)) IN
         IF i = 0 THEN st
         ELSE Behind(st, CBlock(s.arms[i].body,
                FoldLeft(LAMBDA acc, j : Assign(acc, s.arms[i].names[j], v[3][j]), st,
                         [j \in DOMAIN s.arms[i].names |-> j])), Range(s.arms[i].names))
CRepeats(s, st) ==
  LET v == CMeans(s.e, st.vars) body == CBlock(s.body, [st EXCEPT !.fuel = @ - 1]) IN
  CASE v[1] = "stuck" -> Sig(st, "stuck")
    [] st.fuel = 0 -> Sig(st, "endless")
    [] v[1] # "stuck" /\ st.fuel # 0 /\ ~IsTrue(v) -> st
    [] OTHER -> IF body.sig \in {"go", "continue"} THEN CRepeats(s, After(body)) ELSE After(body)
\* The index moves on behind the body; what continues leaves it where it is.
CWalks(s, items, i, st) ==
  LET body == CBlock(s.body, [Assign(st, s.x, items[i]) EXCEPT !.fuel = @ - 1]) IN
  CASE st.fuel = 0 -> Sig(st, "endless")
    [] st.fuel # 0 /\ i > Len(items) -> st
    [] OTHER -> IF body.sig \in {"go", "continue"}
                THEN CWalks(s, items, IF body.sig = "go" THEN i + 1 ELSE i, After(body))
                ELSE After(body)

(***************************************************************************)
(* The programs.                                                           *)
(***************************************************************************)
X == Ident("x")
Y == Ident("y")
Define(name, params, body) == Func(name, params, body, FALSE, "")
Main(body) == Define("main", <<>>, body)
Of(funcs)  == [NoProgram EXCEPT !.funcs = funcs]
Alone(file, mode) == [main |-> <<"main">>, files |-> (<<"main">> :> file), mode |-> mode]
Tree(funcs, st) == Alone(File(<<>>, Of(funcs), st), "compile")
Start1 == <<Set("x", IntLit(3)), Set("y", Binary(IntLit(1), "-", IntLit(3)))>>

\* Two operators over variables and literals, and a not.
Ops == {"+", "-", "*", "/", "%", "<", "==", "&&", "||"}
Mk(op, l, r) ==
  CASE op \in {"&&", "||"} -> Logical(l, op, r) [] op \in {"<", "=="} -> Comp(l, op, r)
    [] OTHER -> Binary(l, op, r)
Small == {Mk(op, X, IntLit(2)) : op \in Ops}
Const == {Mk(op, IntLit(7), IntLit(3)) : op \in {"+", "-", "/", "%"}}
TwoOps == {Mk(op, a, b) : op \in Ops, a \in Small, b \in Const \cup {Y}}
          \cup {Mk(op, a, b) : op \in Ops, a \in Const \cup {Y}, b \in Small}
          \cup {Not(a) : a \in Small}
Expressions == {Tree(<<Main(Start1 \o <<Display(e)>>)>>, IF e.k = "binary" THEN Wordy ELSE Plainly) : e \in TwoOps}
               \cup {Tree(<<Main(Start1 \o <<If(e, <<Display(X)>>, <<Display(Y)>>)>>)>>, Wordy) : e \in TwoOps}

\* Loops and branches that break off, go on, or return.
Steps == {<<Break>>, <<Continue>>, <<Display(Y)>>, <<Set("y", Binary(Y, "+", X)), Display(Y)>>, <<Return(Y)>>, <<>>}
Forks == {If(Comp(X, "==", IntLit(1)), a, b) : a \in Steps \ {<<>>}, b \in Steps}
         \cup {If(Comp(X, "==", IntLit(2)), a, <<If(Comp(X, "<", IntLit(2)), b, a)>>) : a \in Steps \ {<<>>},
            b \in {<<Break>>, <<Display(Y)>>}}
Count == Set("x", Binary(X, "+", IntLit(1)))
Three == ListLit(<<IntLit(1), IntLit(2), IntLit(3)>>)
LoopsOver(fork) ==
  {<<While(Comp(X, "<", IntLit(4)), <<Count, fork, Display(X)>>)>>,
   <<While(Comp(X, "<", IntLit(4)), <<fork, Count>>)>>,
   <<ForEach("x", Three, <<fork, Display(X)>>), Display(Y)>>,
   <<While(Comp(X, "<", IntLit(2)), <<Count, ForEach("z", Three, <<fork>>), Display(X)>>)>>}
Loops == UNION {{Tree(<<Main(<<Set("x", IntLit(0)), Set("y", IntLit(5))>> \o b)>>, st) :
                   b \in LoopsOver(fork)} : fork \in Forks, st \in {Wordy}}

\* Choices, texts, truth values and functions, with what comes back from three calls.
ArmOf(name, bindings, body, pattern) == [name |-> name, bindings |-> bindings, body |-> body, pattern |-> pattern]
Matching ==
  <<Set("t", Str(<<"b">>)), Set("c", EnumCreate("Red", <<IntLit(4), X>>)),
    Match(X, <<ArmOf(1, <<>>, <<Display(IntLit(1))>>, 25), ArmOf(3, <<>>, <<Display(Str(<<"three">>))>>, 25)>>),
    Match(Ident("t"), <<ArmOf(<<"a">>, <<>>, <<Display(X)>>, 26), ArmOf(<<"b">>, <<>>, <<Display(Ident("t"))>>, 26)>>),
    Match(Ident("c"), <<ArmOf("Blue", <<>>, <<Display(X)>>, 27),
                        ArmOf("Red", <<"p", "q">>, <<Display(Ident("p")), Display(Ident("q"))>>, 27)>>)>>
Giving(name, e) == Define(name, <<>>, <<Return(e)>>)
CallOf(name) == CallNode(name, <<>>)
Twice == Define("twice", <<[name |-> "n", borrow |-> FALSE, type |-> "Int"]>>,
                <<If(Comp(Ident("n"), "<", IntLit(3)), <<Return(Binary(Ident("n"), "+", Ident("n")))>>,
                     <<Return(Ident("n"))>>)>>)
Chain(e) == <<Giving("f", CallOf("g")), Giving("g", CallOf("h")), Giving("h", e)>>
Shown1(e) == <<Set("v", CallOf("f")), Display(Ident("v")), Display(Comp(CallOf("f"), "==", e))>>
Kinds ==
  {Tree(<<Main(Start1 \o Matching)>>, Wordy),
   Tree(<<Main(<<Set("b", Bool(TRUE)), Display(Ident("b")), Display(Not(Ident("b"))),
                Display(CallNode("concat", <<Str(<<"a">>), Str(<<"b">>)>>)),
                Display(CallNode("twice", <<CallNode("twice", <<IntLit(2)>>)>>))>>), Twice>>, Plainly)}
  \cup {Tree(<<Main(Shown1(e))>> \o Chain(e), Plainly) : e \in {Str(<<"t">>), IntLit(2)}}

\* Everything that can be defined, all of it or all but one kind, and what uses it.
Param(name, type) == [name |-> name, borrow |-> FALSE, type |-> type]
P == Ident("p")
Everything ==
  [NoProgram EXCEPT
    !.structs = <<StructDef("Point", <<[name |-> "px", type |-> "Int", default |-> None],
                                       [name |-> "label", type |-> "Str", default |-> Str(<<"t">>)]>>)>>,
    !.enums = <<EnumDef("Colour", <<[name |-> "Blue", fields |-> <<>>],
                  [name |-> "Red", fields |-> <<[name |-> "n", type |-> "Int"], [name |-> "s", type |-> "Str"]>>]>>)>>,
    !.traits = <<TraitDef("Shape", <<[name |-> "area", params |-> <<Param("n", "Int")>>]>>)>>,
    !.impls = <<TraitImpl("Shape", "Point", <<Define("area", <<Param("n", "")>>, <<Return(Ident("n"))>>)>>)>>,
    !.methods = <<MethodDef("grow", "Point", <<Param("n", "")>>,
                            <<FieldSet(Ident("self"), "px", Ident("n")), Return(Ident("self"))>>)>>,
    !.externals = <<External("host", <<Param("n", "Int")>>, "Float")>>,
    !.constants = <<Set("LIMIT", Binary(IntLit(2), "+", IntLit(1)))>>]
Using ==
  {<<Set("p", StructCreate("Point", <<[f |-> "px", e |-> X], [f |-> "label", e |-> Str(<<"u">>)]>>)),
     FieldSet(P, "px", Binary(FieldAccess(P, "px"), "+", IntLit(1))),
     Display(MethodCall(FieldAccess(P, "px"), "grow", <<MethodCall(P, "area", <<X, Y>>)>>))>>,
   <<Set("g", Closure(<<Param("n", "")>>, <<Return(Binary(Ident("n"), "*", Binary(X, "+", Ident("LIMIT"))))>>)),
     Display(CallNode("g", <<IntLit(1)>>))>>,
   <<Set("f", Float("1.5")), Display(Binary(CallNode("host", <<IntLit(1)>>), "%", Ident("f")))>>,
   <<Set("p", Try(CallNode("pick", <<X>>))), ExprStmt(CallNode("pick", <<Y>>)),
     Match(P, <<[name |-> "Red", bindings |-> <<"n", "s">>, body |-> <<Display(Ident("s"))>>, pattern |-> 27]>>)>>}
Pick == Func("pick", <<Param("n", "Int")>>, <<Return(EnumCreate("Red", <<Ident("n"), Str(<<"t">>)>>))>>, FALSE, "Colour")
Defining ==
  {Alone(File(<<>>, [tree EXCEPT !.funcs = <<Main(Start1 \o body), Pick>>], st), "compile") :
     tree \in {Everything} \cup {[Everything EXCEPT ![list] = <<>>] :
                                 list \in {"structs", "enums", "traits", "impls", "methods", "externals", "constants"}},
     body \in Using, st \in {Plainly, Wordy}}

\* Moves and borrows of two texts.
A == Ident("a")
Chan == Ident("c")
Hands == {Set("a", Str(<<"t">>)), Set("r", BorrowNode(A)), Send(Chan, A), Display(A), Display(Ident("r")),
          Set("b", A), Set("a", CallNode("concat", <<A, A>>)), ExprStmt(CallNode("string_length", <<A>>)),
          Spawn("other", <<A>>)}
Test == Comp(X, "<", IntLit(1))
Moved(b) == Tree(<<Main(<<Set("x", IntLit(0)), Set("c", ChannelNode), Set("a", Str(<<"t">>))>> \o b),
                   Define("other", <<[name |-> "s", borrow |-> FALSE, type |-> ""]>>, <<Return(X)>>)>>, Plainly)
Moves ==
  {Moved(<<s, t, u>>) : s \in Hands, t \in Hands, u \in Hands}
  \cup {Moved(<<If(Test, <<s>>, <<t>>), u>>) : s \in Hands, t \in Hands,
              u \in {Display(A), Send(Chan, A), Set("b", A)}}
  \cup {Moved(<<While(Test, <<s, t>>), u>>) : s \in Hands, t \in Hands, u \in {Display(A), Send(Chan, A)}}
  \cup {Moved(<<s, ForEach("z", Three, <<t>>)>>) : s \in Hands, t \in Hands}

\* Spawns and awaits, wherever a statement can stand.
Sp(n) == Spawn("work", <<IntLit(n)>>)
In(s) == {<<s>>, <<If(Test, <<s>>, <<Sp(9)>>)>>, <<If(Test, <<Display(X)>>, <<s>>), Sp(8)>>, <<While(Test, <<s, Break>>)>>,
          <<ForEach("z", Three, <<s>>), Sp(7)>>,
          <<Match(X, <<ArmOf(1, <<>>, <<s>>, 25)>>), Sp(6)>>}
Work == Define("work", <<[name |-> "n", borrow |-> FALSE, type |-> ""]>>, <<Return(Ident("n"))>>)
Awaiting(e) == {<<Set("x", e)>>, <<Display(e), Return(e)>>, <<If(Comp(e, "<", X), <<Display(e)>>, <<>>), Display(e)>>,
                <<While(Test, <<Set("x", e)>>), Display(e)>>, <<ExprStmt(e)>>}
Aw == AwaitNode(CallNode("work", <<X>>))
Awaited == {Aw, Binary(Aw, "+", AwaitNode(CallNode("work", <<Y>>))),
            CallNode("work", <<Aw>>), Comp(IntLit(1), "<", Aw), AwaitNode(CallNode("work", <<Aw>>)),
            ListLit(<<Aw>>), Not(Aw)}
Threads ==
  {Tree(<<Main(<<Set("x", IntLit(0))>> \o a \o b), Work>>, Wordy) : a \in In(Sp(1)), b \in In(Sp(2))}
  \cup {Tree(<<Define("work2", <<>>, <<Sp(3)>>), Main(<<Set("x", IntLit(0))>> \o a), Work>>, Plainly) : a \in In(Sp(1))}
  \cup UNION {{Tree(<<Func("later", <<>>, Start1 \o b, TRUE, ""), Main(<<Display(AwaitNode(CallOf("later")))>>), Work>>, Plainly) :
                 b \in Awaiting(e)} : e \in Awaited}

\* Statements the compiler must refuse, and where they can stand.
Wrong == {Set("channel", IntLit(1)), Send(Chan, BorrowNode(A)), Display(Binary(IntLit(1), "-", Str(<<"t">>))),
          Set("x", ListLit(<<IntLit(1), Str(<<"t">>)>>)), ExprStmt(CallNode("twice", <<Str(<<"t">>)>>)),
          If(Not(Binary(Str(<<"t">>), "*", X)), <<Display(X)>>, <<>>), Spawn("twice", <<BorrowNode(A)>>)}
Right == {Display(Binary(Str(<<"t">>), "+", IntLit(0))), ExprStmt(CallNode("twice", <<IntLit(1)>>)),
          Set("x", ListLit(<<IntLit(1), X>>))}
Places == {<<"if">>, <<"else">>, <<"while">>, <<"foreach">>, <<"match">>, <<>>}
          \cup {<<p, q>> : p \in {"if", "else", "while", "foreach", "match"}, q \in {"else", "while", "match"}}
RECURSIVE Put1(_, _)
Put1(s, place) ==
  IF place = <<>> THEN s
  ELSE LET in == Put1(s, Tail(place)) IN
  CASE Head(place) = "if" -> If(Test, <<in>>, <<Display(X)>>)
    [] Head(place) = "else" -> If(Test, <<Display(X)>>, <<in>>)
    [] Head(place) = "while" -> While(Test, <<Count, in>>)
    [] Head(place) = "foreach" -> ForEach("z", Three, <<Display(X), in>>)
    [] Head(place) = "match" -> Match(X, <<ArmOf(1, <<>>, <<Display(X)>>, 25), ArmOf(2, <<>>, <<in>>, 25)>>)
Setup == <<Set("x", IntLit(0)), Set("c", ChannelNode), Set("a", Str(<<"t">>))>>
Planted ==
  {Tree(<<Main(Setup \o <<Put1(s, place)>>), Twice>>, Plainly) : s \in Wrong \cup Right, place \in Places}
  \cup {Alone(File(<<>>, [Of(<<Main(<<Display(IntLit(1))>>), Twice>>) EXCEPT
                           !.methods = <<MethodDef("m", "Point", <<>>, Setup \o <<Put1(s, place)>>)>>], Plainly), "check") :
          s \in Wrong \cup Right, place \in Places}

\* Four lines at any depths: what is a program of them must have them all.
Lines4 == {<<W("set"), W("x"), W("to"), <<"num", 1>>>>, <<W("if"), W("x"), Sy(":")>>, <<W("else"), Sy(":")>>,
           <<W("define"), W("g"), Sy(":")>>}
Layouts ==
  {Alone(File(<<L(0, <<W("define"), W("main"), Sy(":")>>), L(1, <<W("display"), W("x")>>)>>
              \o <<L(i, a), L(j, b), L(k, c)>>, NoProgram, Plainly), "check") :
     i \in 0..2, j \in 0..2, k \in 0..3, a \in Lines4 \ {<<W("else"), Sy(":")>>}, b \in Lines4, c \in Lines4}

\* Projects of several files: shared, circular, named, missing and broken ones.
ModuleOf(name, imports) ==
  File(<<>>, [Of(<<Define(name, <<>>, <<Return(IntLit(1))>>)>>) EXCEPT !.imports = imports], Plainly)
Import(path) == <<path, "">>
Broken == {MCEmpty, File(<<L(0, <<<<"open">>>>)>>, NoProgram, Plainly), File(<<L(0, <<W("display")>>)>>, NoProgram, Plainly)}
ImportsOf == {<<>>, <<Import(<<"b">>)>>, <<Import(<<"b">>), Import(<<"c">>)>>, <<Import(<<"c">>), <<<<"b">>, "q">>>>,
              <<<<<<"c">>, "q">>>>, <<Import(<<"..", "main">>)>>, <<Import(<<"json">>)>>}
Project(main, path, imports, a, b, c) ==
  [main |-> path, mode |-> main,
   files |-> (<<"lib", "main">> :> ModuleOf("main", imports)) @@ (<<"lib", "b">> :> ModuleOf("b", a))
             @@ (<<"lib", "c">> :> c) @@ (<<"b">> :> ModuleOf("b", b)) @@ (<<"main">> :> ModuleOf("main", imports))
             @@ (<<"stdlib", "json">> :> ModuleOf("json", <<>>)) @@ (<<"c">> :> c)]
Modules ==
  {Project("compile", path, i, a, a, c) : path \in {<<"lib", "main">>, <<"main">>}, i \in ImportsOf, a \in ImportsOf,
     c \in {ModuleOf("c", <<>>), ModuleOf("c", <<Import(<<"b">>)>>), ModuleOf("c", <<Import(<<"main">>)>>)} \cup Broken}

Freestanding == {Alone(File(<<>>, Of(<<Main(<<Display(IntLit(1))>>)>>), Plainly), "freestanding")}
MCProjects == Expressions \cup Defining \cup Loops \cup Kinds \cup Moves \cup Threads \cup Planted \cup Layouts \cup Modules
              \cup Freestanding

(***************************************************************************)
(* The properties.                                                         *)
(***************************************************************************)
MainFile == ReadFileContent(project.main)
Written  == MainFile.lines = <<>> /\ DOMAIN project.files = {<<"main">>}
RECURSIVE AllExprs(_), AllStmts(_)
AllExprs(e) == <<e>> \o Cat(PartsOf(e), AllExprs)
AllStmts(b) == Cat(b, LAMBDA s : <<s>> \o Cat(BlocksOf(s), AllStmts))
Has(seq, Test1(_)) == \E i \in DOMAIN seq : Test1(seq[i])
StmtsOf(tree) == Cat(tree.funcs \o tree.methods, LAMBDA f : AllStmts(f.body))
ExprsOf(stmts) == Cat(stmts, LAMBDA s : Cat(PartsOf(s), AllExprs))

\* Tokens, blocks and precedence together give back the tree that was
\* written down: no program that is one is refused, and none is read as
\* another (tokenize_source and parse_program).
ParsedAsWritten ==
  Written => /\ result \notin {"lexing", "parsing"}
             /\ stage = "loaded" => program = MainFile.tree

\* Whatever the depths of its lines are, a file that is accepted has every
\* line in its program: nothing is skipped on the way (the layout tokens and
\* parse_block).
NothingIsDropped ==
  stage = "loaded" /\ MainFile.lines # <<>> =>
    LET lines(word) == Cardinality({i \in DOMAIN MainFile.lines : MainFile.lines[i].words[1] = W(word)})
        stmts(kind) == Len(SelectSeq(StmtsOf(program) \o program.constants, LAMBDA s : s.k = kind))
    IN /\ stmts("set") = lines("set") /\ stmts("if") = lines("if") /\ stmts("display") = lines("display")
       /\ Len(program.funcs) = lines("define")

\* What the parser makes of the lines is what they say, no more and no less.
ReadAsWritten == ParsedAsWritten /\ NothingIsDropped

\* A wrong statement is refused wherever it stands in a function or a method,
\* and a program without one is not (check_program); a project is
\* refused for a function it has twice only where a file was loaded under two
\* paths (main).
HasWrong == LET stmts == StmtsOf(MainFile.tree) IN \E w \in Wrong : Has(stmts, LAMBDA s : s.k = w.k /\ s = w)
NoStatementIsUnchecked ==
  /\ Written => /\ result = "semantic errors" => HasWrong
                /\ stage \notin {"loading", "loaded", "ended"} \/ result = "check passed" => ~HasWrong
  /\ MainFile.lines = <<>> /\ result = "duplicate" =>
       Cardinality({PlaceOf(p) : p \in ToSet(parsed)}) < Len(parsed)

\* What the generated program shows is what the program means, after folding
\* and by C's own precedences, but for a comparison of numbers inside
\* arithmetic or another comparison, which is printed without brackets, and
\* for continue inside a for-each, which skips the step of the index.
Bare(e) == e.k \in {"binary", "comp"} /\ "comp" \in {e.l.k, e.r.k}
Skips(s) == s.k = "foreach" /\ Has(AllStmts(s.body), LAMBDA t : t.k = "continue")
Deterministic == project.main = <<"main">> /\ Written /\ MainFile.tree.methods = <<>>
                 /\ MainFile.tree.externals = <<>>
RunnableKinds == {"set", "display", "if", "while", "foreach", "match", "break", "continue", "return"}
Runnable(stmts) ==
  /\ ~Has(stmts, LAMBDA s : s.k \notin RunnableKinds)
  /\ ~Has(ExprsOf(stmts), LAMBDA e : e.k \notin {"int", "str", "bool", "ident", "binary", "comp", "logical",
                                           "not", "list", "enum", "call"})
MeansWhatItSays ==
  stage = "generated" /\ Deterministic /\ Runnable(StmtsOf(MainFile.tree)) =>
    LET stmts == StmtsOf(MainFile.tree)
        ran == DoesBlock(MainFile.tree.funcs[1].body, Run(<<>>, Fuel), MainFile.tree.funcs)
        made == CBlock(code.funcs[1].code, Run(<<>>, 2 * Fuel))
    IN \/ Has(ExprsOf(stmts), Bare) \/ Has(stmts, Skips)
       \/ ran.sig \in {"stuck", "endless"}
       \/ made.out = ran.out /\ made.sig = ran.sig

(***************************************************************************)
(* The states in which a path through statements can leave them: what was  *)
(* sent away, which variable each reference borrows, whether something     *)
(* went wrong.                                                             *)
(***************************************************************************)
Uses(s) == ToSet(Cat(Cat(PartsOf(s), AllExprs), LAMBDA e : IF e.k = "ident" THEN <<e.name>> ELSE <<>>))
Wrongly(o, bad) == [o EXCEPT !.bad = @ \/ bad]
Lends(o, x) == \E r \in o.refs : r[2] = x
Texts == {"a", "b"}
GivenAway(o, es) ==
  LET texts == {x \in Texts : \E i \in DOMAIN es : es[i] = Ident(x)}
  IN Wrongly([o EXCEPT !.gone = @ \cup texts], \E x \in texts : Lends(o, x))
RECURSIVE Paths(_, _), PathsOf(_, _)
PathsOf(s, o) ==
  LET read == Wrongly(o, Uses(s) \cap o.gone # {})
      dropped == [read EXCEPT !.refs = {r \in @ : r[1] # s.x}]
      once(outcomes) == Paths(s.body, outcomes)
  IN CASE s.k = "set" /\ s.e.k = "borrow" ->
            {[dropped EXCEPT !.refs = @ \cup {<<s.x, s.e.e.name>>}, !.gone = @ \ {s.x}]}
       [] s.k = "set" /\ s.e.k # "borrow" -> {Wrongly([dropped EXCEPT !.gone = @ \ {s.x}], Lends(dropped, s.x))}
       [] s.k = "send" -> {GivenAway(read, <<s.e>>)}
       [] s.k = "spawn" -> {GivenAway(read, s.args)}
       [] s.k = "if" -> Paths(s.then, {read}) \cup Paths(s.else, {read})
       [] s.k \in {"while", "foreach"} -> {read} \cup once({read}) \cup once(once({read}))
       [] OTHER -> {read}
Paths(b, outcomes) == FoldLeft(LAMBDA acc, s : UNION {PathsOf(s, o) : o \in acc}, outcomes, b)

\* On no path of an accepted function is a variable read that was given to
\* another thread, or one changed or given away that a reference borrows
\* (analyze_safety), but where the analysis does not look: at statements that
\* are an expression, into for-each and match, and twice into a loop, whose
\* body may borrow what it changed or gave away before.
NamesText(s) == (Uses(s) \cup (IF s.k = "set" THEN {s.x} ELSE {})) \cap Texts # {}
Unwatched(stmts) ==
  \/ Has(stmts, LAMBDA s : s.k = "exprstmt" /\ NamesText(s))
  \/ Has(stmts, LAMBDA s : s.k \in {"foreach", "match"} /\ Has(AllStmts(<<s>>), NamesText))
  \/ Has(stmts, LAMBDA s : s.k = "while" /\ Has(AllStmts(s.body), LAMBDA t : t.k = "set" /\ t.e.k = "borrow"))
AcceptedIsSafe ==
  stage = "generated" /\ Deterministic =>
    LET f == MainFile.tree.funcs[1] IN
    \/ Unwatched(AllStmts(f.body))
    \/ \A o \in Paths(f.body, {[gone |-> {}, refs |-> {}, bad |-> FALSE]}) : ~o.bad

\* A spawn has the number of the wrapper that was made for it, and the
\* wrapper calls a function that is there; in an async function a value that
\* is awaited is read under the number it was kept at, and there are enough
\* of those.  Spawns in for-each, match and methods, names that mean something
\* in C, and awaits in a block, its condition, another await or a list go by
\* different numbers or names (the two walks of the generator do not agree).
Apart(p) ==
  \/ Has(StmtsOf(p), LAMBDA s : s.k \in {"foreach", "match"} /\ Has(AllStmts(<<s>>), LAMBDA t : t.k = "spawn"))
  \/ p.methods # <<>>
Awaits(e) == Has(AllExprs(e), LAMBDA x : x.k = "await")
Inside(f) ==
  \/ Has(AllStmts(f.body), LAMBDA s : BlocksOf(s) # <<>> /\ Has(ExprsOf(AllStmts(<<s>>)), Awaits))
  \/ Has(ExprsOf(f.body), LAMBDA e : e.k \in {"await", "list"} /\ Has(PartsOf(e), Awaits))
NumberedAlike ==
  stage = "generated" =>
    /\ Apart(program) \/ EmittedSpawns(program) = CollectAllSpawns(program)
    /\ \A i \in DOMAIN CollectAllSpawns(program) :
         LET spawn == CollectAllSpawns(program)[i] IN
         \/ spawn.name \in CWords
         \/ \E j \in DOMAIN code.funcs : code.funcs[j].name = WrapperCalls(spawn)
    /\ \A i \in DOMAIN program.funcs :
         LET f == program.funcs[i]
             reads == Cat(f.body, LAMBDA s : Cat(PartsOf(s), AwaitsRead))
         IN f.async /\ ~Inside(f) => /\ Cat(f.body, EmitAsyncYields) = reads
                                     /\ CountAwaits(f.body) >= Len(reads)
=============================================================================
