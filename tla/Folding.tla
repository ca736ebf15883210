------------------------------ MODULE Folding ------------------------------
(***************************************************************************)
(* optimize_program of epc_bootstrap.c: arithmetic between literals is     *)
(* done by the compiler, in the long long the program would use.           *)
(***************************************************************************)
EXTENDS Syntax

CONSTANT Width    \* bits of a number; 64 in the code
ASSUME WidthAssumption == Width \in Nat /\ Width > 1

\* Two's complement, and division towards zero.
Wrapped(n) == LET m == n % 2^Width IN IF m >= 2^(Width - 1) THEN m - 2^Width ELSE m
Sign(n)    == IF n < 0 THEN -1 ELSE 1
Size(n)    == n * Sign(n)
Quotient(a, b) == Wrapped(Sign(a) * Sign(b) * (Size(a) \div Size(b)))

\* What two numbers make; a division by 0 is left to the running program.
CanFold(op, b)  == op \in {"/", "%"} => b # 0
Folded(a, op, b) ==
  CASE op = "+" -> Wrapped(a + b)
    [] op = "-" -> Wrapped(a - b)
    [] op = "*" -> Wrapped(a * b)
    [] op = "/" -> Quotient(a, b)
    [] op = "%" -> Wrapped(a - Quotient(a, b) * b)

RECURSIVE FoldExpr(_), FoldStmt(_)
FoldAll(es) == [i \in DOMAIN es |-> FoldExpr(es[i])]
FoldExpr(e) ==
  CASE e.k = "binary" ->
         LET l == FoldExpr(e.l) r == FoldExpr(e.r) IN
         IF l.k = "int" /\ r.k = "int" /\ CanFold(e.op, r.n)
         THEN IntLit(Folded(l.n, e.op, r.n)) ELSE Binary(l, e.op, r)
    [] e.k \in {"comp", "logical"} -> [e EXCEPT !.l = FoldExpr(@), !.r = FoldExpr(@)]
    [] e.k \in {"call", "list"} -> [e EXCEPT !.args = FoldAll(@)]
    [] e.k \in {"receive", "await", "not", "try"} -> [e EXCEPT !.e = FoldExpr(@)]
    [] OTHER -> e

FoldBlock(stmts) == [i \in DOMAIN stmts |-> FoldStmt(stmts[i])]
FoldStmt(s) ==
  CASE s.k \in {"set", "return", "display", "exprstmt", "send"} -> [s EXCEPT !.e = FoldExpr(@)]
    [] s.k = "if" -> [s EXCEPT !.e = FoldExpr(@), !.then = FoldBlock(@), !.else = FoldBlock(@)]
    [] s.k \in {"while", "foreach"} -> [s EXCEPT !.e = FoldExpr(@), !.body = FoldBlock(@)]
    [] s.k = "match" ->
         [s EXCEPT !.arms = [i \in DOMAIN @ |-> [@[i] EXCEPT !.body = FoldBlock(@)]]]
    [] OTHER -> s

OptimizeProgram(program) ==
  LET Bodies(defs) == [i \in DOMAIN defs |-> [defs[i] EXCEPT !.body = FoldBlock(@)]] IN
  [program EXCEPT !.funcs = Bodies(@), !.methods = Bodies(@)]
=============================================================================
