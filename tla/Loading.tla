------------------------------- MODULE Loading -------------------------------
(***************************************************************************)
(* How the compiler loads a program along its imports (parse_all_modules   *)
(* of epc_bootstrap.c).  Lexing and parsing a file is here one step, which *)
(* module Compiling puts in: this one is about paths, calls and names.     *)
(*                                                                         *)
(* A path is the sequence of its parts, without the ".ep" at its end.      *)
(***************************************************************************)
EXTENDS Syntax

CONSTANTS
  Projects,    \* records [main, files, mode]: a path, the contents by real place, the command
  ReadFile(_), \* what lexing and parsing make of a content: [why, tree]
  Empty        \* the content of an empty file

VARIABLES
  project,     \* what the compiler was called with
  stage,       \* how far main is
  result,      \* why it ended
  frames,      \* calls of parse_all_modules, the innermost last
  parsed,      \* paths in parsed_files
  program,     \* the program made of all files
  trees        \* what was read at each path, for the property
loadVars == <<project, stage, result, frames, parsed, program, trees>>

\* A list of the parser is a sequence, and its functions have names.
IsSequence(s) == Len(s) \in Nat /\ s = [i \in 1..Len(s) |-> s[i]]
AreNamed(defs) == IsSequence(defs) /\ \A i \in DOMAIN defs : "name" \in DOMAIN defs[i]
IsTree(tree) == IsSequence(tree.imports) /\ AreNamed(tree.funcs)
ASSUME TreesAssumption ==
  /\ IsTree(ReadFile(Empty).tree)
  /\ \A p \in Projects : \A at \in DOMAIN p.files : IsTree(ReadFile(p.files[at]).tree)

StdNames == {"math", "hash", "net", "json", "string", "sql", "gui", "crypto", "fs", "http",
  "collections", "sort", "datetime", "os", "test", "log", "sync", "regex", "csv", "websocket",
  "static_server", "toml", "select", "structured"}

\* The folder of a path; a path without one is taken from here.
GetFileDir(path) == IF Len(path) = 1 THEN <<".">> ELSE Front(path)
ResolveImportPath(current, import) ==
  IF Len(import) = 1 /\ import[1] \in StdNames THEN <<"stdlib">> \o import
  ELSE GetFileDir(current) \o import

\* Where the system finds the file of a path.
PlaceOf(path) ==
  FoldLeft(LAMBDA at, part : CASE part = "." -> at [] part = ".." /\ at # <<>> -> Front(at)
                               [] OTHER -> Append(at, part),
           <<>>, path)
ReadFileContent(path) ==
  IF PlaceOf(path) \in DOMAIN project.files THEN project.files[PlaceOf(path)] ELSE Empty

\* A call of parse_all_modules; with an alias it collects for its caller only.
Call(path, alias) ==
  [path |-> path, alias |-> alias, read |-> FALSE, imports |-> <<>>, next |-> 0,
   funcs |-> <<>>, externals |-> <<>>]
NoProgram == Program(<<>>, <<>>, <<>>, <<>>, <<>>, <<>>, <<>>, <<>>)

LoadInit ==
  /\ project \in Projects
  /\ stage = "loading" /\ result = "none"
  /\ frames = <<Call(project.main, "")>> /\ parsed = <<>>
  /\ program = NoProgram /\ trees = <<>>

End(why)  == stage' = "ended" /\ result' = why
Top       == Last(frames)
\* Mutant: only files that are being read are known.
HasParsedOpen(path) == \E i \in 1..(Len(frames) - 1) : frames[i].path = path
HasParsed(path) == Contains(parsed, path)

(***************************************************************************)
(* parse_all_modules.                                                      *)
(***************************************************************************)
\* A call gives its functions to the caller, and copies of them under the
\* name of the import when it has one.
NameUnder(alias, name) == alias \o "_" \o name
Renamed(def, alias) == [def EXCEPT !.name = NameUnder(alias, @)]
Handed(defs, alias) ==
  IF alias = "" THEN defs
  ELSE [i \in 1 .. 2 * Len(defs) |-> IF i % 2 = 1 THEN defs[(i + 1) \div 2]
                                     ELSE Renamed(defs[i \div 2], alias)]
GiveBack(frame) ==
  /\ frames' = IF Len(frames) = 1 THEN <<>>
               ELSE LET caller == frames[Len(frames) - 1] IN
                    Append(SubSeq(frames, 1, Len(frames) - 2),
                           [caller EXCEPT !.funcs = @ \o Handed(frame.funcs, frame.alias),
                                          !.externals = @ \o Handed(frame.externals, frame.alias)])
  /\ stage' = IF Len(frames) = 1 THEN "loaded" ELSE stage

AlreadyParsed ==
  /\ stage = "loading" /\ ~Top.read /\ HasParsed(Top.path)
  /\ GiveBack(Top)
  /\ UNCHANGED <<project, result, parsed, program, trees>>

Take(file) ==
  \/ /\ file.why # "none"
     /\ End(file.why)
     /\ UNCHANGED <<frames, program, trees>>
  \/ /\ file.why = "none"
     /\ frames' = [frames EXCEPT ![Len(frames)] =
                     [@ EXCEPT !.read = TRUE, !.imports = file.tree.imports,
                               !.funcs = file.tree.funcs, !.externals = file.tree.externals]]
     /\ program' = [program EXCEPT
          !.structs = @ \o file.tree.structs, !.enums = @ \o file.tree.enums,
          !.methods = @ \o file.tree.methods, !.traits = @ \o file.tree.traits,
          !.impls = @ \o file.tree.impls, !.constants = @ \o file.tree.constants]
     /\ trees' = [path \in DOMAIN trees \cup {Top.path} |->
                    IF path = Top.path THEN file.tree ELSE trees[path]]
     /\ UNCHANGED <<stage, result>>

\* The path is noted before the file is read.
ReadModule ==
  /\ stage = "loading" /\ ~Top.read /\ ~HasParsed(Top.path)
  /\ parsed' = Append(parsed, Top.path)
  /\ Take(ReadFile(ReadFileContent(Top.path)))
  /\ UNCHANGED project

ImportNext ==
  /\ stage = "loading" /\ Top.read /\ Top.next < Len(Top.imports)
  /\ LET import == Top.imports[Top.next + 1] IN
     frames' = Append([frames EXCEPT ![Len(frames)].next = @ + 1],
                      Call(ResolveImportPath(Top.path, import[1]), import[2]))
  /\ UNCHANGED <<project, stage, result, parsed, program, trees>>

\* The last import is through; the functions of the first call are all.
ModuleDone ==
  /\ stage = "loading" /\ Top.read /\ Top.next = Len(Top.imports)
  /\ GiveBack(Top)
  /\ program' = IF Len(frames) = 1 THEN [program EXCEPT !.funcs = Top.funcs, !.externals = Top.externals]
                ELSE program
  /\ UNCHANGED <<project, result, parsed, trees>>

LoadNext == AlreadyParsed \/ ReadModule \/ ImportNext \/ ModuleDone

\* What main does with the program afterwards.
PassOn ==
  /\ stage # "loading" /\ stage' \notin {"loading", "loaded"}
  /\ UNCHANGED <<project, frames, parsed, trees>>

LoadSpec == LoadInit /\ [][LoadNext \/ PassOn]_loadVars

(***************************************************************************)
(* The property.                                                           *)
(***************************************************************************)
Target(path, i) == ResolveImportPath(path, trees[path].imports[i][1])
Targets(path)   == {Target(path, i) : i \in DOMAIN trees[path].imports}
IsOnlyImporter(path, i) ==
  \A p \in DOMAIN trees : \A j \in DOMAIN trees[p].imports :
    Target(p, j) = Target(path, i) => p = path /\ j = i

\* What is loaded is what main imports or what something does that is loaded,
\* all of it and none twice, whatever circles the imports make; and what an
\* import with a name brings is in the program under that name too, unless the
\* file was imported elsewhere as well (parse_all_modules, contains_string).
LoadedOnce ==
  stage = "loaded" =>
    /\ DOMAIN trees = ToSet(parsed) /\ IsInjective(parsed)
    /\ parsed # <<>> /\ parsed[1] = project.main
    /\ \A i \in 2..Len(parsed) : \E j \in 1..(i - 1) : parsed[i] \in Targets(parsed[j])
    /\ \A p \in DOMAIN trees : Targets(p) \subseteq DOMAIN trees
    /\ \A p \in DOMAIN trees : \A i \in DOMAIN trees[p].imports :
         LET alias == trees[p].imports[i][2]
             defs  == trees[Target(p, i)].funcs
         IN alias # "" /\ Target(p, i) # project.main /\ IsOnlyImporter(p, i) =>
              \A j \in DOMAIN defs : \E k \in DOMAIN program.funcs :
                program.funcs[k].name = NameUnder(alias, defs[j].name)
=============================================================================
