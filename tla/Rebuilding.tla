---------------------------- MODULE Rebuilding ----------------------------
(***************************************************************************)
(* Ern-OS making a new Ern-OS out of itself, and a new compiler out of     *)
(* frozen C (system/kernel/rebuilding.ep with the commands "rebuild the    *)
(* system" and "rebuild the toolchain" of do_command.ep).                  *)
(*                                                                         *)
(* Every step is a program run on the host, of which only a sentence in    *)
(* its output is looked at.  It may fail, and the machine may stop during  *)
(* it or between two of them.  Moves are atomic, everything else can be    *)
(* cut.  A build is sound when it passes what the code asks of it: a       *)
(* system that says all is well, a compiler that compiles the system.      *)
(***************************************************************************)
EXTENDS Naturals, Sequences

CONSTANT MaxRounds      \* bound: how often a rebuild is asked for

ASSUME MaxRoundsAssumption == MaxRounds \in Nat

VARIABLES
    system,     \* start_ern_os
    previous,   \* start_ern_os.previous
    fresh,      \* rebuilt_ern_os
    copy,       \* rebuilt_ern_os.ep: "none", "cut" or "whole"
    compiler,   \* toolchain/epc
    baked,      \* toolchain/epc_next
    at,         \* the step of the command that comes next
    round,      \* how often a rebuild was asked for
    installed   \* history: the systems that were put in place, oldest first

programs == <<system, previous, fresh, copy>>
compilers == <<compiler, baked>>
vars == <<programs, compilers, at, round, installed>>

\* What was built in a round, whether or not it is any good.
Build(n, sound) == [round |-> n, sound |-> sound]
Builds == [round : 0 .. MaxRounds, sound : BOOLEAN]
Missing == [round |-> 0, sound |-> FALSE]
Original == Build(0, TRUE)

Steps ==
    {"off", "shell", "copy", "compile", "check", "aside", "place", "restore", "tidy",
     "bake", "copy for baked", "compile with baked", "place baked", "tidy baked", "tidy trial"}

TypeOK ==
    /\ {system, previous, fresh, compiler, baked} \subseteq Builds
    /\ copy \in {"none", "cut", "whole"}
    /\ at \in Steps
    /\ round \in 0 .. MaxRounds
    /\ installed \in Seq(Builds) \ {<<>>}
    /\ at \in {"compile", "compile with baked"} => copy = "whole"
    /\ at \in {"place", "restore"} => system = Missing

Init ==
    /\ system = Original /\ compiler = Original
    /\ previous = Missing /\ fresh = Missing /\ baked = Missing
    /\ copy = "none"
    /\ at = "off"
    /\ round = 0
    /\ installed = <<Original>>

\* What clang or the compiler leaves when it fails or is interrupted.
Leftovers(file) == {file, Missing} \cup {Build(round, sound) : sound \in BOOLEAN}

-----------------------------------------------------------------------------
\* A person starts the system: something has to be there under its name.
Boot ==
    /\ at = "off"
    /\ system # Missing
    /\ at' = "shell"
    /\ UNCHANGED <<programs, compilers, round, installed>>

\* An admin says "rebuild the system" or "rebuild the toolchain".
Ask(step) ==
    /\ at = "shell"
    /\ round < MaxRounds
    /\ round' = round + 1
    /\ at' = step
    /\ UNCHANGED <<programs, compilers, installed>>

\* outside_copy of the source, over whatever copy there was.
CopySource(now, next, otherwise) ==
    /\ at = now
    /\ \/ copy' = "whole" /\ at' = next
       \/ copy' \in {copy, "cut"} /\ at' = otherwise
    /\ UNCHANGED <<system, previous, fresh, compilers, round, installed>>

RebuildCopySource == CopySource("copy", "compile", "shell")

\* A sound compiler may make a sound system or, when the source is no good, a
\* faulty one; any other outcome is a failure.
Compile(now, with, next, otherwise) ==
    /\ at = now
    /\ \/ /\ with.sound /\ copy = "whole"
          /\ \E sound \in BOOLEAN : fresh' = Build(round, sound)
          /\ at' = next
       \/ fresh' \in Leftovers(fresh) /\ at' = otherwise
    /\ UNCHANGED <<system, previous, copy, compilers, round, installed>>

\* Mutant: what the compiler said is not looked at.
RebuildCompileUnheard ==
    /\ at = "compile"
    /\ fresh' \in Leftovers(fresh) /\ at' = "check"
    /\ UNCHANGED <<system, previous, copy, compilers, round, installed>>

RebuildCompile == Compile("compile", compiler, "check", "tidy")

\* Mutant: whatever the new system says, it is put in place.
CheckUnheard ==
    /\ at = "check" /\ at' = "aside"
    /\ UNCHANGED <<programs, compilers, round, installed>>

\* Only a sound system can say that all is well.
RebuildCheck ==
    /\ at = "check"
    /\ \/ fresh.sound /\ at' = "aside"
       \/ at' = "tidy"
    /\ UNCHANGED <<programs, compilers, round, installed>>

\* The first move of rebuild_swap: the system in place becomes .previous.
SetAside ==
    /\ at = "aside"
    /\ \/ /\ system # Missing
          /\ previous' = system /\ system' = Missing
          /\ at' = "place"
       \/ at' = "tidy" /\ UNCHANGED <<system, previous>>
    /\ UNCHANGED <<fresh, copy, compilers, round, installed>>

\* The second move: the fresh one takes its name.
Place ==
    /\ at = "place"
    /\ \/ /\ fresh # Missing
          /\ system' = fresh /\ fresh' = Missing
          /\ installed' = Append(installed, fresh)
          /\ at' = "tidy"
       \/ at' = "restore" /\ UNCHANGED <<system, fresh, installed>>
    /\ UNCHANGED <<previous, copy, compilers, round>>

\* Mutant: .previous is swept up after a move that failed.
RestoreSweeping ==
    /\ at = "restore"
    /\ \/ previous # Missing /\ system' = previous
       \/ UNCHANGED system
    /\ previous' = Missing
    /\ at' = "tidy"
    /\ UNCHANGED <<fresh, copy, compilers, round, installed>>

\* "Put the old one back"; whether that worked is not asked.
Restore ==
    /\ at = "restore"
    /\ \/ /\ previous # Missing
          /\ system' = previous /\ previous' = Missing
       \/ UNCHANGED <<system, previous>>
    /\ at' = "tidy"
    /\ UNCHANGED <<fresh, copy, compilers, round, installed>>

\* rebuild_tidy, on every way out but the first.
RebuildTidy ==
    /\ at = "tidy"
    /\ copy' \in {"none", copy}
    /\ at' = "shell"
    /\ UNCHANGED <<system, previous, fresh, compilers, round, installed>>

-----------------------------------------------------------------------------
\* clang builds a compiler under the name epc_next.
ToolchainBake ==
    /\ at = "bake"
    /\ \/ /\ \E sound \in BOOLEAN : baked' = Build(round, sound)
          /\ at' = "copy for baked"
       \/ baked' \in Leftovers(baked) /\ at' = "shell"
    /\ UNCHANGED <<programs, compiler, round, installed>>

\* toolchain_check: the baked compiler has to compile a copy of the system.
ToolchainCopySource == CopySource("copy for baked", "compile with baked", "tidy baked")
ToolchainCheck == Compile("compile with baked", baked, "place baked", "tidy baked")

ToolchainSwap ==
    /\ at = "place baked"
    /\ \/ baked # Missing /\ compiler' = baked /\ baked' = Missing
       \/ UNCHANGED compilers
    /\ at' = "tidy baked"
    /\ UNCHANGED <<programs, round, installed>>

\* toolchain_tidy: the copy, then the trial system.
ToolchainTidyCopy ==
    /\ at = "tidy baked"
    /\ copy' \in {"none", copy}
    /\ at' = "tidy trial"
    /\ UNCHANGED <<system, previous, fresh, compilers, round, installed>>

ToolchainTidyTrial ==
    /\ at = "tidy trial"
    /\ fresh' \in {Missing, fresh}
    /\ at' = "shell"
    /\ UNCHANGED <<system, previous, copy, compilers, round, installed>>

-----------------------------------------------------------------------------
\* "restart", "shut down" or the end of the power: a copy, a build or a baking
\* under way leaves what it had made.
Stop ==
    /\ at # "off"
    /\ at' = "off"
    /\ copy' \in IF at \in {"copy", "copy for baked"} THEN {copy, "cut"} ELSE {copy}
    /\ fresh' \in IF at \in {"compile", "compile with baked"} THEN Leftovers(fresh) ELSE {fresh}
    /\ baked' \in IF at = "bake" THEN Leftovers(baked) ELSE {baked}
    /\ UNCHANGED <<system, previous, compiler, round, installed>>

RebuildSystem ==
    \/ Ask("copy")
    \/ RebuildCopySource \/ RebuildCompile \/ RebuildCheck
    \/ SetAside \/ Place \/ Restore \/ RebuildTidy

RebuildToolchain ==
    \/ Ask("bake")
    \/ ToolchainBake \/ ToolchainCopySource \/ ToolchainCheck \/ ToolchainSwap
    \/ ToolchainTidyCopy \/ ToolchainTidyTrial

Next == Boot \/ RebuildSystem \/ RebuildToolchain \/ Stop

Spec == Init /\ [][Next]_vars

-----------------------------------------------------------------------------
(* Properties *)

\* What stands under the names of the system and of the compiler has passed
\* the check it was built to pass, wherever a rebuild failed or was cut.
OnlyCheckedBuildsAreInPlace ==
    /\ system = Missing \/ system.sound
    /\ compiler.sound

Newest == installed[Len(installed)]

\* A rebuild that failed or was cut short can be taken back: the system that
\* was put in place last is in place, or it is .previous with nothing in place.
\* Beside it, .previous holds the one it took over from, or nothing.
TheLastSystemIsKept ==
    \/ /\ system = Newest
       /\ \/ previous = Missing
          \/ Len(installed) > 1 /\ previous = installed[Len(installed) - 1]
    \/ system = Missing /\ previous = Newest

\* What a rebuild puts in place was built by this very rebuild: no leftover of
\* an earlier one, and no trial build of a compiler, is ever taken for it.
PutsInPlaceWhatItBuilt ==
    [][installed' # installed => system' = Build(round, TRUE)]_vars
=============================================================================
