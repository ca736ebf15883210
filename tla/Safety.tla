------------------------------- MODULE Safety -------------------------------
(***************************************************************************)
(* analyze_safety of epc_bootstrap.c: moves and borrows.  Every function   *)
(* is walked once along its text, with a state of what is moved, of what   *)
(* every reference borrows, and of how often a variable is borrowed.       *)
(***************************************************************************)
EXTENDS Types

Tracked  == {"text", "fresh", "list", "listref", "textref"}
RefTypes == {"listref", "textref"}

Known(x, s)      == Get(s.state, x)
CountOf(x, s)    == IF x \in DOMAIN s.counts THEN s.counts[x] ELSE 0
Refuse(s)        == [s EXCEPT !.ok = FALSE]
When(cond, s, t) == IF cond THEN t ELSE s

(***************************************************************************)
(* check_expr_reads: nothing that is moved is read.  Fields, methods,      *)
(* closures, lists, not and try are not looked into.                       *)
(***************************************************************************)
RECURSIVE MayRead(_, _, _)
MayRead(e, vars, s) ==
  CASE e.k = "ident" -> ~(Get(vars, e.name) \in Tracked /\ Known(e.name, s) = "moved")
    [] e.k \in {"borrow", "await", "binary", "comp", "logical", "call", "receive"} ->
         \A i \in DOMAIN PartsOf(e) : MayRead(PartsOf(e)[i], vars, s)
    [] OTHER -> TRUE
Reading(e, vars, s) == When(~MayRead(e, vars, s), s, Refuse(s))

DecBorrowCount(x, s) == When(CountOf(x, s) > 0, s, [s EXCEPT !.counts = Put(@, x, CountOf(x, s) - 1)])
IncBorrowCount(x, s) == [s EXCEPT !.counts = Put(@, x, CountOf(x, s) + 1)]

\* A tracked variable given away must be there and not borrowed.
Stuck(x, vars, s) ==
  Get(vars, x) \in Tracked /\ (Known(x, s) = "moved" \/ CountOf(x, s) > 0)

\* Setting a variable ends what it borrowed before.
Release(x, s) ==
  LET target == Get(s.borrows, x) IN
  IF target = "none" THEN s
  ELSE DecBorrowCount(target, [s EXCEPT !.borrows = Put(@, x, "none")])

CheckedBorrow(c, s) ==
  IF c.e.e.k # "ident" \/ Known(c.e.e.name, s) = "moved" THEN Refuse(s)
  ELSE IncBorrowCount(c.e.e.name, [s EXCEPT !.borrows = Put(@, c.x, c.e.e.name)])
CheckedAssign(c, vars, s) ==
  IF CountOf(c.x, s) > 0 THEN Refuse(s)
  ELSE IF Get(vars, c.x) \notin Tracked THEN s
  ELSE IF c.e.k = "ident" /\ Stuck(c.e.name, vars, s) THEN Refuse(s)
  ELSE [s EXCEPT !.state = Put(@, c.x, "owned")]
CheckedSet(c, vars, s) ==
  LET released == Release(c.x, s) IN
  IF ~MayRead(c.e, vars, s) THEN Refuse(s)
  ELSE IF c.e.k = "borrow" THEN CheckedBorrow(c, released)
  ELSE CheckedAssign(c, vars, released)

\* What send and spawn do with a value: the other thread has it then,
\* unless it is a reference.
CheckedMove(e, vars, s) ==
  IF e.k # "ident" \/ Get(vars, e.name) \notin Tracked THEN Reading(e, vars, s)
  ELSE IF Stuck(e.name, vars, s) THEN Refuse(s)
  ELSE IF Get(vars, e.name) \in RefTypes THEN s
  ELSE [s EXCEPT !.state = Put(@, e.name, "moved")]
CheckedSend(c, vars, s) ==
  IF ~MayRead(c.chan, vars, s) THEN Refuse(s) ELSE CheckedMove(c.e, vars, s)
CheckedSpawn(c, vars, s) ==
  FoldLeft(LAMBDA acc, a : IF acc.ok THEN CheckedMove(a, vars, acc) ELSE acc, s, c.args)

\* Only what a parameter borrows may be returned as a reference.
Lent(f, x) == \E i \in DOMAIN f.params : f.params[i].name = x /\ f.params[i].borrow
CheckedReturn(f, c, vars, s) ==
  LET e == c.e
      target == Or(Get(s.borrows, e.name), e.name)
  IN CASE ~MayRead(e, vars, s) -> Refuse(s)
       [] MayRead(e, vars, s) /\ e.k = "borrow" ->
            When(e.e.k = "ident" /\ ~Lent(f, e.e.name), s, Refuse(s))
       [] MayRead(e, vars, s) /\ e.k = "ident" ->
            When(Get(vars, e.name) \in RefTypes /\ ~Lent(f, target), s, Refuse(s))
       [] OTHER -> s

(***************************************************************************)
(* check_safety_stmts.  Both branches of an if start where it does; after  *)
(* it a variable known before is moved if one of them moved it.  The body  *)
(* of a loop is walked once, and must not leave moved what it found there. *)
(***************************************************************************)
RECURSIVE CheckSafety(_, _, _, _)
Larger(a, b) == IF b > a THEN b ELSE a
\* Mutant: moved only when both branches moved it.
AfterIfBoth(s, then, else) ==
  [ok |-> then.ok /\ else.ok,
   state |-> [x \in DOMAIN s.state |->
                IF {Known(x, then), Known(x, else)} = {"moved"} THEN "moved" ELSE s.state[x]],
   borrows |-> else.borrows @@ then.borrows @@ s.borrows,
   counts |-> [x \in DOMAIN then.counts \cup DOMAIN else.counts |->
                 Larger(CountOf(x, s), Larger(CountOf(x, then), CountOf(x, else)))]]
AfterIf(s, then, else) ==
  [ok |-> then.ok /\ else.ok,
   state |-> [x \in DOMAIN s.state |->
                IF "moved" \in {Known(x, then), Known(x, else)} THEN "moved" ELSE s.state[x]],
   borrows |-> else.borrows @@ then.borrows @@ s.borrows,
   counts |-> [x \in DOMAIN then.counts \cup DOMAIN else.counts |->
                 Larger(CountOf(x, s), Larger(CountOf(x, then), CountOf(x, else)))]]
CheckedIf(f, c, vars, s) ==
  IF ~MayRead(c.e, vars, s) THEN Refuse(s)
  ELSE AfterIf(s, CheckSafety(f, c.then, vars, s), CheckSafety(f, c.else, vars, s))
CheckedWhile(f, c, vars, s) ==
  LET after == CheckSafety(f, c.body, vars, s) IN
  IF /\ MayRead(c.e, vars, s)
     /\ \A x \in DOMAIN s.state : s.state[x] = "owned" => Known(x, after) # "moved"
  THEN Reading(c.e, vars, after) ELSE Refuse(s)

\* The other statements, for-each and match with their blocks, are skipped.
CheckedStmt(f, c, vars, s) ==
  CASE ~s.ok -> s
    [] s.ok /\ c.k = "set" -> CheckedSet(c, vars, s)
    [] s.ok /\ c.k = "send" -> CheckedSend(c, vars, s)
    [] s.ok /\ c.k = "spawn" -> CheckedSpawn(c, vars, s)
    [] s.ok /\ c.k = "display" -> Reading(c.e, vars, s)
    [] s.ok /\ c.k = "return" -> CheckedReturn(f, c, vars, s)
    [] s.ok /\ c.k = "if" -> CheckedIf(f, c, vars, s)
    [] s.ok /\ c.k = "while" -> CheckedWhile(f, c, vars, s)
    [] OTHER -> s
CheckSafety(f, stmts, vars, s) ==
  FoldLeft(LAMBDA acc, c : CheckedStmt(f, c, vars, acc), s, stmts)

\* Functions only, not methods.  A parameter that is not borrowed is a number
\* here whatever its annotation says, so it is not tracked.
FunctionIsSafe(f, funcs, structs) ==
  LET params == FoldLeft(LAMBDA vars, p : Put(vars, p.name, IF p.borrow THEN "listref" ELSE "int"),
                         <<>>, f.params)
      vars == CollectVarTypes(f.body, funcs, structs, params)
      mine == {f.params[i].name : i \in DOMAIN f.params}
      start == [ok |-> TRUE, borrows |-> <<>>, counts |-> <<>>,
                state |-> [x \in {y \in mine : vars[y] \in Tracked} |-> "owned"]]
  IN CheckSafety(f, f.body, vars, start).ok
AnalyzeSafety(program, funcs, structs) ==
  \A i \in DOMAIN program.funcs : FunctionIsSafe(program.funcs[i], funcs, structs)
=============================================================================
