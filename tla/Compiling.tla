------------------------------ MODULE Compiling ------------------------------
(***************************************************************************)
(* The compiler from its command line to clang (main and generate_c of     *)
(* epc_bootstrap.c): files are loaded along their imports (module Loading, *)
(* which gets what a file says from here), the program is checked, folded, *)
(* analysed, generated and written.  One behaviour is one run of the       *)
(* compiler on one project.                                                *)
(***************************************************************************)
EXTENDS Loading, Parser, Checker, Folding, Safety, Generating

CONSTANT Lines(_)  \* the lines of a content

VARIABLE code      \* what generate_c made of the program
vars == <<project, stage, result, frames, parsed, program, trees, code>>

NoCode == [constants |-> <<>>, fields |-> <<>>, tags |-> <<>>, funcs |-> <<>>]
Init   == LoadInit /\ code = NoCode

\* What a file is: nothing that can be read, refused, or a tree.
Refused(why)  == [why |-> why, tree |-> NoProgram]
Parsed(p)     == IF p.err THEN Refused("parsing") ELSE [why |-> "none", tree |-> p.n]
Lexed(lexed)  == IF lexed.ok THEN Parsed(Parse(lexed.toks)) ELSE Refused("lexing")
Read(content) == IF content = Empty THEN Refused("unreadable") ELSE Lexed(Tokenize(Lines(content)))

Load == LoadNext /\ UNCHANGED code

(***************************************************************************)
(* main, behind loading.                                                   *)
(***************************************************************************)
Duplicate == \E i, j \in DOMAIN program.funcs : i < j /\ program.funcs[i].name = program.funcs[j].name

Check ==
  /\ stage = "loaded"
  /\ CASE Duplicate -> End("duplicate")
       [] ~Duplicate /\ CheckProgram(program) # <<>> -> End("semantic errors")
       [] ~Duplicate /\ CheckProgram(program) = <<>> /\ project.mode = "check" -> End("check passed")
       [] OTHER -> stage' = "checked" /\ UNCHANGED result
  /\ UNCHANGED <<project, frames, parsed, program, trees, code>>

Optimize ==
  /\ stage = "checked" /\ stage' = "optimized"
  /\ program' = OptimizeProgram(program)
  /\ UNCHANGED <<project, result, frames, parsed, trees, code>>

\* generate_c gives an empty text when moves and borrows are refused.
Generate ==
  /\ stage = "optimized"
  /\ LET funcs == AnalyzeReturnTypes(program) IN
     IF AnalyzeSafety(program, funcs, IteratorTypes(program))
     THEN code' = GenerateC(program, funcs) /\ stage' = "generated" /\ UNCHANGED result
     ELSE End("unsafe") /\ UNCHANGED code
  /\ UNCHANGED <<project, frames, parsed, program, trees>>

\* The host may refuse to write; a freestanding program stops at its C.
WriteC ==
  /\ stage = "generated"
  /\ \/ End("not written")
     \/ project.mode = "freestanding" /\ End("freestanding source")
     \/ project.mode # "freestanding" /\ stage' = "written" /\ UNCHANGED result
  /\ UNCHANGED <<project, frames, parsed, program, trees, code>>

Clang ==
  /\ stage = "written"
  /\ End("compiled") \/ End("clang failed")
  /\ UNCHANGED <<project, frames, parsed, program, trees, code>>

Next == Load \/ Check \/ Optimize \/ Generate \/ WriteC \/ Clang
Spec == Init /\ [][Next]_vars
=============================================================================
