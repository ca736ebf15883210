------------------------------- MODULE Syntax -------------------------------
(***************************************************************************)
(* The syntax trees of the compiler (make_node_* of epc_bootstrap.c).  A   *)
(* node is a list whose first element says its kind; here it is a record   *)
(* whose field `k` does.  A tree is a finite value and no pass writes into *)
(* a node but the folding of constants, which here returns a new tree.     *)
(***************************************************************************)
EXTENDS Integers, SequencesExt

\* Expressions.
IntLit(n)               == [k |-> "int", n |-> n]
Str(s)                == [k |-> "str", s |-> s]
Ident(name)           == [k |-> "ident", name |-> name]
Binary(l, op, r)      == [k |-> "binary", l |-> l, op |-> op, r |-> r]
Comp(l, op, r)        == [k |-> "comp", l |-> l, op |-> op, r |-> r]
Logical(l, op, r)     == [k |-> "logical", l |-> l, op |-> op, r |-> r]
CallNode(name, args)  == [k |-> "call", name |-> name, args |-> args]
ChannelNode           == [k |-> "channel"]
ReceiveNode(e)        == [k |-> "receive", e |-> e]
BorrowNode(e)         == [k |-> "borrow", e |-> e]
AwaitNode(e)          == [k |-> "await", e |-> e]
FieldAccess(obj, f)   == [k |-> "field", e |-> obj, f |-> f]
StructCreate(n, fs)   == [k |-> "struct", name |-> n, fields |-> fs]
MethodCall(obj, m, a) == [k |-> "method", e |-> obj, name |-> m, args |-> a]
EnumCreate(v, args)   == [k |-> "enum", name |-> v, args |-> args]
Bool(b)               == [k |-> "bool", b |-> b]
Not(e)                == [k |-> "not", e |-> e]
Try(e)                == [k |-> "try", e |-> e]
Closure(ps, body)     == [k |-> "closure", params |-> ps, body |-> body]
ListLit(es)           == [k |-> "list", args |-> es]
None                  == [k |-> "none"]
Float(x)              == [k |-> "float", x |-> x]

\* Statements.
Set(x, e)             == [k |-> "set", x |-> x, e |-> e]
Return(e)             == [k |-> "return", e |-> e]
Display(e)            == [k |-> "display", e |-> e]
If(c, then, else)     == [k |-> "if", e |-> c, then |-> then, else |-> else]
While(c, body)        == [k |-> "while", e |-> c, body |-> body]
Spawn(f, args)        == [k |-> "spawn", name |-> f, args |-> args]
Send(chan, e)         == [k |-> "send", chan |-> chan, e |-> e]
FieldSet(obj, f, e)   == [k |-> "fieldset", chan |-> obj, f |-> f, e |-> e]
Match(e, arms)        == [k |-> "match", e |-> e, arms |-> arms]
ForEach(x, e, body)   == [k |-> "foreach", x |-> x, e |-> e, body |-> body]
Break                 == [k |-> "break"]
Continue              == [k |-> "continue"]
ExprStmt(e)           == [k |-> "exprstmt", e |-> e]

\* Definitions and the whole program.  The parser appends the annotated
\* return type to the node of a function.
Func(name, params, body, async, ret) ==
  [k |-> "func", name |-> name, params |-> params, body |-> body,
   async |-> async, ret |-> ret]
External(name, params, ret) ==
  [k |-> "external", name |-> name, params |-> params, ret |-> ret]
StructDef(name, fields) == [k |-> "structdef", name |-> name, fields |-> fields]
EnumDef(name, variants) == [k |-> "enumdef", name |-> name, variants |-> variants]
MethodDef(m, type, params, body) ==
  [k |-> "methoddef", name |-> m, type |-> type, params |-> params, body |-> body]
TraitDef(name, sigs) == [k |-> "traitdef", name |-> name, sigs |-> sigs]
TraitImpl(trait, type, methods) ==
  [k |-> "impl", trait |-> trait, type |-> type, methods |-> methods]
Program(imports, externals, funcs, structs, enums, methods, traits, impls) ==
  [k |-> "program", imports |-> imports, externals |-> externals,
   funcs |-> funcs, structs |-> structs, enums |-> enums, methods |-> methods,
   traits |-> traits, impls |-> impls, constants |-> <<>>]

(***************************************************************************)
(* What the passes walk over.  Passes differ in the kinds they look into,  *)
(* so each names those and takes the parts of a node from here.            *)
(***************************************************************************)
\* The expressions directly inside a node, in the order of its fields.
PartsOf(n) ==
  CASE n.k \in {"binary", "comp", "logical"} -> <<n.l, n.r>>
    [] n.k \in {"call", "enum", "list", "spawn"} -> n.args
    [] n.k = "method" -> <<n.e>> \o n.args
    [] n.k = "struct" -> [i \in DOMAIN n.fields |-> n.fields[i].e]
    [] n.k \in {"send", "fieldset"} -> <<n.chan, n.e>>
    [] n.k \in {"receive", "borrow", "await", "field", "not", "try", "set",
                "return", "display", "if", "while", "match", "foreach",
                "exprstmt"} -> <<n.e>>
    [] OTHER -> <<>>

\* The blocks directly inside a statement.
BlocksOf(n) ==
  CASE n.k = "if" -> <<n.then, n.else>>
    [] n.k \in {"while", "foreach"} -> <<n.body>>
    [] n.k = "match" -> [i \in DOMAIN n.arms |-> n.arms[i].body]
    [] OTHER -> <<>>
=============================================================================
