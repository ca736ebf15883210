------------------------- MODULE RebuildingProofs -------------------------
(***************************************************************************)
(* The compiler and its use.                                               *)
(*                                                                         *)
(* The properties of Rebuilding for any number of rebuilds.  What the      *)
(* files are worth depends on the step the command is at: the inductive    *)
(* invariant says, of every step, what the ones before it have shown.      *)
(*                                                                         *)
(* What Loading has loaded in the end, for any projects, files and         *)
(* imports.  Its invariant says where every import stands that was read:   *)
(* still to come, loaded, or the call that goes on; and where the names    *)
(* are that it brings.                                                     *)
(***************************************************************************)
EXTENDS Rebuilding, Loading, SequenceTheorems, TLAPS

\* From a compile that was said to be successful to the end of the swap, the
\* fresh system is of this round; from its check on it is sound.
FreshInStep ==
    /\ at = "check" => fresh.round = round
    /\ at \in {"aside", "place"} => fresh = Build(round, TRUE)

\* A baked compiler goes in place only after it compiled the system.
BakedInStep == at = "place baked" => baked.sound

\* Between the two moves nothing is in place.
SwapInStep == at \in {"place", "restore"} => previous = Newest

HistoryIsSound == \A i \in 1 .. Len(installed) : installed[i].sound

IInv ==
    /\ TypeOK
    /\ OnlyCheckedBuildsAreInPlace
    /\ TheLastSystemIsKept
    /\ FreshInStep
    /\ BakedInStep
    /\ SwapInStep
    /\ HistoryIsSound

\* The operators every step is made of.
LEMMA BuildsAreBuilds ==
    ASSUME TypeOK, NEW sound \in BOOLEAN
    PROVE  Build(round, sound) \in Builds /\ Missing \in Builds
<1>1. round \in 0 .. MaxRounds
  BY DEF TypeOK
<1>2. Build(round, sound) \in Builds
  BY <1>1, Zenon DEF Build, Builds
<1>3. 0 \in 0 .. MaxRounds
  BY MaxRoundsAssumption
<1>4. Missing \in Builds
  BY <1>3, Zenon DEF Missing, Builds
<1> QED
  BY <1>2, <1>4

\* What a failed or interrupted program leaves is one of the builds.
LEMMA LeftoversAreBuilds ==
    ASSUME TypeOK, NEW file \in Builds
    PROVE  Leftovers(file) \subseteq Builds
BY BuildsAreBuilds DEF Leftovers

\* Adding one more system to the history.
LEMMA HistoryGrows ==
    ASSUME NEW s \in Seq(Builds) \ {<<>>}, NEW b \in Builds
    PROVE  /\ Append(s, b) \in Seq(Builds) \ {<<>>}
           /\ Len(Append(s, b)) = Len(s) + 1
           /\ Append(s, b)[Len(s) + 1] = b
           /\ Append(s, b)[Len(s)] = s[Len(s)]
           /\ \A i \in 1 .. Len(s) : Append(s, b)[i] = s[i]
<1>1. Len(s) \in Nat \ {0}
  OBVIOUS
<1> QED
  BY <1>1

\* The invariant holds in the beginning.
LEMMA InitIInv == Init => IInv
<1> SUFFICES ASSUME Init PROVE IInv
  OBVIOUS
<1>1. Original \in Builds /\ Missing \in Builds /\ Original.sound
  BY MaxRoundsAssumption DEF Original, Missing, Build, Builds
<1>2. /\ installed \in Seq(Builds) \ {<<>>}
      /\ Len(installed) = 1
      /\ installed[1] = Original
  BY <1>1 DEF Init
<1>3. TypeOK
  BY <1>1, <1>2, MaxRoundsAssumption DEF Init, TypeOK, Steps
<1>4. OnlyCheckedBuildsAreInPlace /\ TheLastSystemIsKept
  BY <1>1, <1>2 DEF Init, OnlyCheckedBuildsAreInPlace, TheLastSystemIsKept, Newest
<1>5. FreshInStep /\ BakedInStep /\ SwapInStep /\ HistoryIsSound
  BY <1>1, <1>2 DEF Init, FreshInStep, BakedInStep, SwapInStep, HistoryIsSound
<1> QED
  BY <1>3, <1>4, <1>5 DEF IInv

\* Steps of the command that touch neither what is in place nor its history
\* keep whatever is said about them.
LEMMA InPlaceStays ==
    ASSUME IInv, UNCHANGED <<system, previous, compiler, installed>>
    PROVE  OnlyCheckedBuildsAreInPlace' /\ TheLastSystemIsKept' /\ HistoryIsSound'
BY DEF IInv, OnlyCheckedBuildsAreInPlace, TheLastSystemIsKept, HistoryIsSound, Newest

\* Every step of a rebuild keeps the invariant.
LEMMA NextIInv == IInv /\ [Next]_vars => IInv'
<1> SUFFICES ASSUME IInv, [Next]_vars PROVE IInv'
  OBVIOUS
<1> USE DEF IInv
<1>b. \A sound \in BOOLEAN : Build(round, sound) \in Builds /\ Missing \in Builds
  BY BuildsAreBuilds
<1>f. /\ \A sound \in BOOLEAN : Build(round, sound).round = round /\ Build(round, sound).sound = sound
      /\ \A file \in Builds : file.round = round /\ file.sound => file = Build(round, TRUE)
  BY <1>b DEF Build, Builds
<1>1. CASE Boot
  <2>1. TypeOK'
    BY <1>1 DEF TypeOK, Boot, Steps, programs, compilers
  <2>2. OnlyCheckedBuildsAreInPlace' /\ TheLastSystemIsKept' /\ HistoryIsSound'
    BY <1>1, InPlaceStays DEF Boot, programs, compilers
  <2>3. FreshInStep' /\ BakedInStep' /\ SwapInStep'
    BY <1>1 DEF Boot, FreshInStep, BakedInStep, SwapInStep
  <2> QED
    BY <2>1, <2>2, <2>3
<1>2. CASE Ask("copy") \/ Ask("bake")
  <2>a. round \in 0 .. MaxRounds /\ round < MaxRounds /\ round' = round + 1
    BY <1>2 DEF TypeOK, Ask
  <2>b. round' \in 0 .. MaxRounds
    BY <2>a, MaxRoundsAssumption
  <2>c. /\ at' \in {"copy", "bake"}
        /\ UNCHANGED <<system, previous, fresh, copy, compiler, baked, installed>>
    BY <1>2 DEF Ask, programs, compilers
  <2>1. TypeOK'
    BY <2>b, <2>c DEF TypeOK, Steps
  <2>2. OnlyCheckedBuildsAreInPlace' /\ TheLastSystemIsKept' /\ HistoryIsSound'
    BY <1>2, InPlaceStays DEF Ask, programs, compilers
  <2>3. FreshInStep' /\ BakedInStep' /\ SwapInStep'
    BY <1>2 DEF Ask, FreshInStep, BakedInStep, SwapInStep
  <2> QED
    BY <2>1, <2>2, <2>3
<1>3. CASE RebuildCopySource \/ ToolchainCopySource
  <2> USE DEF RebuildCopySource, ToolchainCopySource, CopySource
  <2>1. TypeOK'
    BY <1>3 DEF TypeOK, Steps, compilers
  <2>2. OnlyCheckedBuildsAreInPlace' /\ TheLastSystemIsKept' /\ HistoryIsSound'
    BY <1>3, InPlaceStays DEF compilers
  <2>3. FreshInStep' /\ BakedInStep' /\ SwapInStep'
    BY <1>3 DEF FreshInStep, BakedInStep, SwapInStep
  <2> QED
    BY <2>1, <2>2, <2>3
<1>4. CASE RebuildCompile \/ ToolchainCheck
  <2> USE DEF RebuildCompile, ToolchainCheck, Compile
  <2>1. Leftovers(fresh) \subseteq Builds
    BY LeftoversAreBuilds DEF TypeOK
  <2>2. fresh' \in Builds
    BY <1>4, <1>b, <2>1
  <2>3. TypeOK'
    BY <1>4, <2>2 DEF TypeOK, Steps, compilers
  <2>4. OnlyCheckedBuildsAreInPlace' /\ TheLastSystemIsKept' /\ HistoryIsSound'
    BY <1>4, InPlaceStays DEF compilers
  <2>5. FreshInStep'
    BY <1>4, <1>f DEF FreshInStep
  <2>6. BakedInStep' /\ SwapInStep'
    BY <1>4 DEF BakedInStep, SwapInStep, compilers
  <2> QED
    BY <2>3, <2>4, <2>5, <2>6
<1>5. CASE RebuildCheck
  <2>1. TypeOK'
    BY <1>5 DEF TypeOK, RebuildCheck, Steps, programs, compilers
  <2>2. OnlyCheckedBuildsAreInPlace' /\ TheLastSystemIsKept' /\ HistoryIsSound'
    BY <1>5, InPlaceStays DEF RebuildCheck, programs, compilers
  <2>3. FreshInStep'
    BY <1>5, <1>f DEF RebuildCheck, FreshInStep, programs, TypeOK
  <2>4. BakedInStep' /\ SwapInStep'
    BY <1>5 DEF RebuildCheck, BakedInStep, SwapInStep
  <2> QED
    BY <2>1, <2>2, <2>3, <2>4
<1>6. CASE SetAside
  <2>1. TypeOK'
    BY <1>6, <1>b DEF TypeOK, SetAside, Steps, compilers
  <2>2. OnlyCheckedBuildsAreInPlace' /\ TheLastSystemIsKept' /\ HistoryIsSound'
    BY <1>6 DEF SetAside, OnlyCheckedBuildsAreInPlace, TheLastSystemIsKept, HistoryIsSound, Newest, compilers
  <2>3. FreshInStep' /\ BakedInStep'
    BY <1>6 DEF SetAside, FreshInStep, BakedInStep
  <2>4. SwapInStep'
    BY <1>6 DEF SetAside, SwapInStep, TheLastSystemIsKept, Newest
  <2> QED
    BY <2>1, <2>2, <2>3, <2>4
<1>7. CASE Place
  <2>1. CASE at' = "restore"
    <3>1. UNCHANGED <<system, previous, fresh, copy, compilers, round, installed>> /\ at = "place"
      BY <1>7, <2>1 DEF Place
    <3>2. TypeOK'
      BY <2>1, <3>1 DEF TypeOK, Steps, compilers
    <3>3. OnlyCheckedBuildsAreInPlace' /\ TheLastSystemIsKept' /\ HistoryIsSound'
      BY <3>1, InPlaceStays DEF compilers
    <3>4. FreshInStep' /\ BakedInStep' /\ SwapInStep'
      BY <2>1, <3>1 DEF FreshInStep, BakedInStep, SwapInStep, Newest
    <3> QED
      BY <3>2, <3>3, <3>4
  <2>2. CASE at' = "tidy"
    <3>1. /\ at = "place"
          /\ system' = fresh /\ fresh' = Missing
          /\ installed' = Append(installed, fresh)
          /\ UNCHANGED <<previous, copy, compilers, round>>
      BY <1>7, <2>2 DEF Place
    <3>2. /\ fresh \in Builds /\ fresh.sound
          /\ installed \in Seq(Builds) \ {<<>>}
          /\ previous = installed[Len(installed)]
      BY <3>1, <1>f DEF FreshInStep, SwapInStep, Newest, TypeOK
    <3>3. /\ installed' \in Seq(Builds) \ {<<>>}
          /\ Len(installed') = Len(installed) + 1
          /\ installed'[Len(installed) + 1] = fresh
          /\ installed'[Len(installed)] = previous
          /\ \A i \in 1 .. Len(installed) : installed'[i] = installed[i]
      BY <3>1, <3>2, HistoryGrows
    <3>4. TypeOK'
      BY <2>2, <3>1, <3>2, <3>3, <1>b DEF TypeOK, Steps, compilers
    <3>5. OnlyCheckedBuildsAreInPlace'
      BY <3>1, <3>2 DEF OnlyCheckedBuildsAreInPlace, compilers
    <3>6. Len(installed) \in Nat \ {0}
      BY <3>2
    <3>7. TheLastSystemIsKept'
      BY <3>1, <3>3, <3>6 DEF TheLastSystemIsKept, Newest
    <3>8. HistoryIsSound'
      BY <3>2, <3>3, <3>6 DEF HistoryIsSound
    <3>9. FreshInStep' /\ BakedInStep' /\ SwapInStep'
      BY <2>2 DEF FreshInStep, BakedInStep, SwapInStep
    <3> QED
      BY <3>4, <3>5, <3>7, <3>8, <3>9
  <2> QED
    BY <1>7, <2>1, <2>2 DEF Place
<1>8. CASE Restore
  <2>1. TypeOK'
    BY <1>8, <1>b DEF TypeOK, Restore, Steps, compilers
  <2>2. previous = Newest /\ previous.sound
    BY <1>8 DEF Restore, SwapInStep, HistoryIsSound, Newest, TypeOK
  <2>3. OnlyCheckedBuildsAreInPlace'
    BY <1>8, <2>2 DEF Restore, OnlyCheckedBuildsAreInPlace, compilers
  <2>4. TheLastSystemIsKept' /\ HistoryIsSound'
    BY <1>8, <2>2 DEF Restore, TheLastSystemIsKept, HistoryIsSound, Newest
  <2>5. FreshInStep' /\ BakedInStep' /\ SwapInStep'
    BY <1>8 DEF Restore, FreshInStep, BakedInStep, SwapInStep
  <2> QED
    BY <2>1, <2>3, <2>4, <2>5
<1>9. CASE RebuildTidy \/ ToolchainTidyCopy \/ ToolchainTidyTrial
  <2> USE DEF RebuildTidy, ToolchainTidyCopy, ToolchainTidyTrial
  <2>1. TypeOK'
    BY <1>9, <1>b DEF TypeOK, Steps, compilers
  <2>2. OnlyCheckedBuildsAreInPlace' /\ TheLastSystemIsKept' /\ HistoryIsSound'
    BY <1>9, InPlaceStays DEF compilers
  <2>3. FreshInStep' /\ BakedInStep' /\ SwapInStep'
    BY <1>9 DEF FreshInStep, BakedInStep, SwapInStep
  <2> QED
    BY <2>1, <2>2, <2>3
<1>10. CASE ToolchainBake
  <2>1. Leftovers(baked) \subseteq Builds
    BY LeftoversAreBuilds DEF TypeOK
  <2>2. baked' \in Builds
    BY <1>10, <1>b, <2>1 DEF ToolchainBake
  <2>3. TypeOK'
    BY <1>10, <2>2 DEF TypeOK, ToolchainBake, Steps, programs
  <2>4. OnlyCheckedBuildsAreInPlace' /\ TheLastSystemIsKept' /\ HistoryIsSound'
    BY <1>10, InPlaceStays DEF ToolchainBake, programs
  <2>5. FreshInStep' /\ BakedInStep' /\ SwapInStep'
    BY <1>10 DEF ToolchainBake, FreshInStep, BakedInStep, SwapInStep
  <2> QED
    BY <2>3, <2>4, <2>5
<1>11. CASE ToolchainSwap
  <2>1. TypeOK'
    BY <1>11, <1>b DEF TypeOK, ToolchainSwap, Steps, programs, compilers
  <2>2. OnlyCheckedBuildsAreInPlace'
    BY <1>11 DEF ToolchainSwap, OnlyCheckedBuildsAreInPlace, BakedInStep, programs, compilers
  <2>3. TheLastSystemIsKept' /\ HistoryIsSound'
    BY <1>11 DEF ToolchainSwap, TheLastSystemIsKept, HistoryIsSound, Newest, programs
  <2>4. FreshInStep' /\ BakedInStep' /\ SwapInStep'
    BY <1>11 DEF ToolchainSwap, FreshInStep, BakedInStep, SwapInStep
  <2> QED
    BY <2>1, <2>2, <2>3, <2>4
<1>12. CASE Stop
  <2>1. Leftovers(fresh) \subseteq Builds /\ Leftovers(baked) \subseteq Builds
    BY LeftoversAreBuilds DEF TypeOK
  <2>2. fresh' \in Builds /\ baked' \in Builds
    BY <1>12, <2>1 DEF Stop, TypeOK
  <2>3. TypeOK'
    BY <1>12, <2>2 DEF TypeOK, Stop, Steps
  <2>4. OnlyCheckedBuildsAreInPlace' /\ TheLastSystemIsKept' /\ HistoryIsSound'
    BY <1>12, InPlaceStays DEF Stop
  <2>5. FreshInStep' /\ BakedInStep' /\ SwapInStep'
    BY <1>12 DEF Stop, FreshInStep, BakedInStep, SwapInStep
  <2> QED
    BY <2>3, <2>4, <2>5
<1>13. CASE UNCHANGED vars
  BY <1>13, InPlaceStays
     DEF vars, programs, compilers, TypeOK, FreshInStep, BakedInStep, SwapInStep, Newest
<1> QED
  BY <1>1, <1>2, <1>3, <1>4, <1>5, <1>6, <1>7, <1>8, <1>9, <1>10, <1>11, <1>12, <1>13
     DEF Next, RebuildSystem, RebuildToolchain

\* The inductive invariant holds for any number of rebuilds.
THEOREM InductiveInvariant == Spec => []IInv
BY InitIInv, NextIInv, PTL DEF Spec

\* The files stay within their types and the command within its steps.
THEOREM TypeCorrect == Spec => []TypeOK
BY InductiveInvariant, PTL DEF IInv

\* Only a system that said all is well and a compiler that compiled the system
\* are ever found under the names that are booted and run.
THEOREM CheckedBuildsOnly == Spec => []OnlyCheckedBuildsAreInPlace
BY InductiveInvariant, PTL DEF IInv

\* Wherever a rebuild fails or is cut short, the system that was put in place
\* last is in place or kept as .previous.
THEOREM LastSystemKept == Spec => []TheLastSystemIsKept
BY InductiveInvariant, PTL DEF IInv

\* No rebuild puts in place what it did not build itself.
THEOREM PutsInPlaceItsOwn == Spec => PutsInPlaceWhatItBuilt
<1>1. IInv /\ [Next]_vars => [installed' # installed => system' = Build(round, TRUE)]_vars
  <2> SUFFICES ASSUME IInv, Next, installed' # installed
               PROVE  system' = Build(round, TRUE)
    OBVIOUS
  <2>1. CASE Place
    BY <2>1 DEF Place, IInv, FreshInStep
  <2>2. ~Place => UNCHANGED installed
    BY DEF Next, RebuildSystem, RebuildToolchain, Boot, Ask, RebuildCopySource, CopySource,
           RebuildCompile, Compile, RebuildCheck, SetAside, Restore, RebuildTidy, ToolchainBake,
           ToolchainCopySource, ToolchainCheck, ToolchainSwap, ToolchainTidyCopy,
           ToolchainTidyTrial, Stop
  <2> QED
    BY <2>1, <2>2
<1> QED
  BY <1>1, InductiveInvariant, PTL DEF Spec, PutsInPlaceWhatItBuilt

-----------------------------------------------------------------------------
(* What is loaded along the imports. *)

\* What files say, for a project.
TreeIn(pr, path) ==
    ReadFile(IF PlaceOf(path) \in DOMAIN pr.files THEN pr.files[PlaceOf(path)] ELSE Empty).tree
ImportsIn(pr, path) == TreeIn(pr, path).imports
FuncsIn(pr, path) == TreeIn(pr, path).funcs
TargetIn(pr, path, i) == ResolveImportPath(path, ImportsIn(pr, path)[i][1])
AliasIn(pr, path, i) == ImportsIn(pr, path)[i][2]

HasName(defs, name) == \E m \in DOMAIN defs : defs[m].name = name
HasAll(defs, others) == \A j \in DOMAIN others : HasName(defs, others[j].name)

\* The calls that are going on: all but the innermost have read their file and
\* are at an import, which the next of them is the call for.
FrameFields == {"path", "alias", "read", "imports", "next", "funcs", "externals"}
IsFrame(f) == DOMAIN f = FrameFields /\ f.read \in BOOLEAN /\ f.next \in Nat /\ AreNamed(f.funcs)

HasRead(pr, ps, f) ==
    /\ f.path \in ToSet(ps)
    /\ f.imports = ImportsIn(pr, f.path) /\ f.next <= Len(f.imports)
    /\ HasAll(f.funcs, FuncsIn(pr, f.path))

Calls(pr, fr, ps) ==
    /\ IsSequence(fr) /\ IsSequence(ps) /\ Len(fr) >= 1
    /\ \A k \in 1 .. Len(fr) : IsFrame(fr[k])
    /\ \A k \in 1 .. Len(fr) : IF fr[k].read THEN HasRead(pr, ps, fr[k])
                               ELSE fr[k].next = 0 /\ fr[k].funcs = <<>>
    /\ \A k \in 1 .. Len(fr) - 1 : fr[k].read /\ fr[k].next >= 1
    /\ \A k, l \in 1 .. Len(fr) : fr[k].read /\ fr[l].read /\ fr[k].path = fr[l].path => k = l
    /\ fr[1].path = pr.main
    /\ ~fr[1].read => ps = <<>>
    /\ \A k \in 2 .. Len(fr) : /\ fr[k].path = TargetIn(pr, fr[k - 1].path, fr[k - 1].next)
                               /\ fr[k].alias = AliasIn(pr, fr[k - 1].path, fr[k - 1].next)

\* The paths so far: none twice, each but the first imported by one before.
InOrder(pr, ps) ==
    /\ \A i, j \in 1 .. Len(ps) : ps[i] = ps[j] => i = j
    /\ Len(ps) >= 1 => ps[1] = pr.main
    /\ \A i \in 2 .. Len(ps) : \E j \in 1 .. i - 1 : \E m \in DOMAIN ImportsIn(pr, ps[j]) :
         ps[i] = TargetIn(pr, ps[j], m)

\* An import that its file has not come to yet.
Pending(fr, p, i) == \E k \in 1 .. Len(fr) : fr[k].read /\ fr[k].path = p /\ fr[k].next < i

\* What every other import asks for is loaded or about to be.
Followed(pr, fr, ps) ==
    \A p \in ToSet(ps) : \A i \in DOMAIN ImportsIn(pr, p) :
        \/ Pending(fr, p, i)
        \/ TargetIn(pr, p, i) \in ToSet(ps)
        \/ ~fr[Len(fr)].read /\ fr[Len(fr)].path = TargetIn(pr, p, i)

\* What is loaded some import asked for that is not pending any more.
AskedFor(pr, fr, ps) ==
    \A t \in ToSet(ps) :
        t # pr.main => \E p \in ToSet(ps) : \E i \in DOMAIN ImportsIn(pr, p) :
                          TargetIn(pr, p, i) = t /\ ~Pending(fr, p, i)

\* An import with a name, of a file that no other imports.
Brings(pr, ps, p, i) ==
    /\ AliasIn(pr, p, i) # "" /\ TargetIn(pr, p, i) # pr.main
    /\ \A q \in ToSet(ps) : \A j \in DOMAIN ImportsIn(pr, q) :
         TargetIn(pr, q, j) = TargetIn(pr, p, i) => q = p /\ j = i

NamesOf(pr, p, i) ==
    {NameUnder(AliasIn(pr, p, i), FuncsIn(pr, TargetIn(pr, p, i))[j].name) :
       j \in DOMAIN FuncsIn(pr, TargetIn(pr, p, i))}

\* What it brings is on its way up to the first call, or its call goes on.
Brought(pr, fr, ps) ==
    \A p \in ToSet(ps) : \A i \in DOMAIN ImportsIn(pr, p) :
        Brings(pr, ps, p, i) /\ ~Pending(fr, p, i) =>
            \/ \A name \in NamesOf(pr, p, i) : \E k \in 1 .. Len(fr) : HasName(fr[k].funcs, name)
            \/ \E k \in 2 .. Len(fr) : /\ fr[k - 1].path = p /\ fr[k - 1].next = i
                                       /\ fr[k].read \/ TargetIn(pr, p, i) \notin ToSet(ps)

\* What LoadedOnce says of the paths and functions in the end.
Loaded(pr, ps, defs) ==
    /\ InOrder(pr, ps) /\ Len(ps) >= 1 /\ IsSequence(ps)
    /\ \A p \in ToSet(ps) : \A i \in DOMAIN ImportsIn(pr, p) : TargetIn(pr, p, i) \in ToSet(ps)
    /\ \A p \in ToSet(ps) : \A i \in DOMAIN ImportsIn(pr, p) :
         Brings(pr, ps, p, i) => \A name \in NamesOf(pr, p, i) : HasName(defs, name)

Going(pr, fr, ps) ==
    Calls(pr, fr, ps) /\ InOrder(pr, ps) /\ Followed(pr, fr, ps) /\ AskedFor(pr, fr, ps)
    /\ Brought(pr, fr, ps)

\* What was read, for the property.
AsRead == /\ DOMAIN trees = ToSet(parsed)
          /\ \A p \in ToSet(parsed) : trees[p] = TreeIn(project, p)

LoadInv ==
    /\ project \in Projects
    /\ stage \in {"loading", "loaded"} => AsRead
    /\ stage = "loading" => Going(project, frames, parsed) /\ "funcs" \in DOMAIN program
    /\ stage = "loaded" => Loaded(project, parsed, program.funcs)

-----------------------------------------------------------------------------
(* Sequences of anything. *)

\* A sequence of anything is one of its own elements.
LEMMA OfItsOwn ==
    ASSUME NEW s, IsSequence(s)
    PROVE  /\ \E S : s \in Seq(S)
           /\ Len(s) \in Nat /\ DOMAIN s = 1 .. Len(s)
<1> DEFINE S == {s[i] : i \in 1 .. Len(s)}
<1>1. Len(s) \in Nat /\ s = [i \in 1 .. Len(s) |-> s[i]]
  BY DEF IsSequence
<1>2. [i \in 1 .. Len(s) |-> s[i]] \in [1 .. Len(s) -> S]
  OBVIOUS
<1> HIDE DEF S
<1>3. s \in [1 .. Len(s) -> S]
  BY <1>1, <1>2, Zenon
<1>4. s \in Seq(S)
  BY <1>1, <1>3, SeqDef
<1> QED
  BY <1>1, <1>3, <1>4

\* Every sequence is one of anything.
LEMMA OfAnything ==
    ASSUME NEW S, NEW s \in Seq(S)
    PROVE  IsSequence(s)
<1>1. Len(s) \in Nat /\ s \in [1 .. Len(s) -> S]
  BY LenProperties
<1> QED
  BY <1>1 DEF IsSequence

\* One more at the end.
LEMMA OneMore ==
    ASSUME NEW s, IsSequence(s), NEW e
    PROVE  /\ IsSequence(Append(s, e)) /\ Len(Append(s, e)) = Len(s) + 1
           /\ Append(s, e)[Len(s) + 1] = e
           /\ \A k \in 1 .. Len(s) : Append(s, e)[k] = s[k]
<1>1. PICK S : s \in Seq(S)
  BY OfItsOwn
<1>2. PICK T : T = S \cup {e}
  OBVIOUS
<1>3. s \in Seq(T) /\ e \in T
  BY <1>1, <1>2, SeqMonotonic
<1>4. Append(s, e) \in Seq(T) /\ Len(Append(s, e)) = Len(s) + 1
      /\ Append(s, e)[Len(s) + 1] = e /\ \A k \in 1 .. Len(s) : Append(s, e)[k] = s[k]
  BY <1>3, AppendProperties
<1> QED
  BY <1>4, OfAnything

\* The beginning of a sequence.
LEMMA TheFirst ==
    ASSUME NEW s, IsSequence(s), NEW m \in Nat, m <= Len(s)
    PROVE  /\ IsSequence(SubSeq(s, 1, m)) /\ Len(SubSeq(s, 1, m)) = m
           /\ \A k \in 1 .. m : SubSeq(s, 1, m)[k] = s[k]
<1>1. PICK S : s \in Seq(S)
  BY OfItsOwn
<1>2. SubSeq(s, 1, m) \in Seq(S) /\ Len(SubSeq(s, 1, m)) = m
      /\ \A k \in 1 .. m : SubSeq(s, 1, m)[k] = s[k]
  BY <1>1, LenProperties
<1> QED
  BY <1>2, OfAnything

\* Another one in a place.
LEMMA AnotherOne ==
    ASSUME NEW s, IsSequence(s), NEW m \in 1 .. Len(s), NEW e
    PROVE  /\ IsSequence([s EXCEPT ![m] = e]) /\ Len([s EXCEPT ![m] = e]) = Len(s)
           /\ [s EXCEPT ![m] = e][m] = e
           /\ \A k \in 1 .. Len(s) : k # m => [s EXCEPT ![m] = e][k] = s[k]
<1>1. PICK S : s \in Seq(S)
  BY OfItsOwn
<1>2. PICK T : T = S \cup {e}
  OBVIOUS
<1>3. s \in Seq(T) /\ e \in T
  BY <1>1, <1>2, SeqMonotonic
<1>4. [s EXCEPT ![m] = e] \in Seq(T) /\ Len([s EXCEPT ![m] = e]) = Len(s)
      /\ [s EXCEPT ![m] = e][m] = e
      /\ \A k \in 1 .. Len(s) : k # m => [s EXCEPT ![m] = e][k] = s[k]
  BY <1>3, ExceptSeq, LenProperties
<1> QED
  BY <1>4, OfAnything

\* One sequence after another.
LEMMA OneAfterAnother ==
    ASSUME NEW s, IsSequence(s), NEW t, IsSequence(t)
    PROVE  /\ IsSequence(s \o t) /\ Len(s \o t) = Len(s) + Len(t)
           /\ \A k \in 1 .. Len(s) : (s \o t)[k] = s[k]
           /\ \A k \in 1 .. Len(t) : (s \o t)[Len(s) + k] = t[k]
<1>1. PICK S : s \in Seq(S)
  BY OfItsOwn
<1>2. PICK T : t \in Seq(T)
  BY OfItsOwn
<1>3. PICK U : U = S \cup T
  OBVIOUS
<1>4. s \in Seq(U) /\ t \in Seq(U)
  BY <1>1, <1>2, <1>3, SeqMonotonic
<1>5. Len(s) \in Nat /\ Len(t) \in Nat
  BY OfItsOwn
<1>6. PICK c : c = s \o t
  OBVIOUS
<1>7. /\ c \in Seq(U) /\ Len(c) = Len(s) + Len(t)
      /\ \A i \in 1 .. Len(s) + Len(t) : c[i] = IF i <= Len(s) THEN s[i] ELSE t[i - Len(s)]
  BY <1>4, <1>6, ConcatProperties
<1>8. ASSUME NEW k \in 1 .. Len(s) PROVE c[k] = s[k]
  BY <1>5, <1>7
<1>9. ASSUME NEW k \in 1 .. Len(t) PROVE c[Len(s) + k] = t[k]
  <2>1. PICK i : i = Len(s) + k
    OBVIOUS
  <2>2. i \in 1 .. Len(s) + Len(t) /\ ~(i <= Len(s)) /\ i - Len(s) = k
    BY <1>5, <2>1
  <2> QED
    BY <1>7, <2>1, <2>2
<1>10. IsSequence(c)
  BY <1>7, OfAnything
<1> QED
  BY <1>6, <1>7, <1>8, <1>9, <1>10

-----------------------------------------------------------------------------
(* Functions that are handed on. *)

\* Two lists of functions have the names of both.
LEMMA NamesOfBoth ==
    ASSUME NEW a, AreNamed(a), NEW b, AreNamed(b)
    PROVE  /\ AreNamed(a \o b)
           /\ \A name : HasName(a, name) \/ HasName(b, name) => HasName(a \o b, name)
<1>1. IsSequence(a) /\ IsSequence(b)
  BY DEF AreNamed
<1>2. PICK c : c = a \o b
  OBVIOUS
<1>3. /\ IsSequence(c) /\ Len(c) = Len(a) + Len(b)
      /\ \A k \in 1 .. Len(a) : c[k] = a[k]
      /\ \A k \in 1 .. Len(b) : c[Len(a) + k] = b[k]
  BY <1>1, <1>2, OneAfterAnother
<1>4. /\ Len(a) \in Nat /\ DOMAIN a = 1 .. Len(a) /\ Len(b) \in Nat /\ DOMAIN b = 1 .. Len(b)
      /\ Len(c) \in Nat /\ DOMAIN c = 1 .. Len(c)
  BY <1>1, <1>3, OfItsOwn
<1>5. ASSUME NEW k \in 1 .. Len(c)
      PROVE  (\E i \in DOMAIN a : c[k] = a[i]) \/ (\E i \in DOMAIN b : c[k] = b[i])
  <2>1. CASE k <= Len(a)
    BY <2>1, <1>3, <1>4
  <2>2. CASE k > Len(a)
    <3>1. k - Len(a) \in 1 .. Len(b) /\ Len(a) + (k - Len(a)) = k
      BY <2>2, <1>3, <1>4
    <3> QED
      BY <3>1, <1>3, <1>4
  <2> QED
    BY <2>1, <2>2, <1>4
<1>6. AreNamed(c)
  <2>1. \A i \in DOMAIN a : "name" \in DOMAIN a[i]
    BY DEF AreNamed
  <2>2. \A i \in DOMAIN b : "name" \in DOMAIN b[i]
    BY DEF AreNamed
  <2> QED
    BY <2>1, <2>2, <1>3, <1>4, <1>5 DEF AreNamed
<1>7. ASSUME NEW name, HasName(a, name) PROVE HasName(c, name)
  <2>1. PICK m \in DOMAIN a : a[m].name = name
    BY <1>7 DEF HasName
  <2>2. m \in DOMAIN c /\ c[m] = a[m]
    BY <1>3, <1>4
  <2> QED
    BY <2>1, <2>2 DEF HasName
<1>8. ASSUME NEW name, HasName(b, name) PROVE HasName(c, name)
  <2>1. PICK m \in DOMAIN b : b[m].name = name
    BY <1>8 DEF HasName
  <2>2. Len(a) + m \in DOMAIN c /\ c[Len(a) + m] = b[m]
    BY <1>3, <1>4
  <2> QED
    BY <2>1, <2>2 DEF HasName
<1> QED
  BY <1>2, <1>6, <1>7, <1>8

\* What a call hands to its caller: all its functions, and under the name of
\* the import if it has one.
LEMMA NamesHanded ==
    ASSUME NEW defs, AreNamed(defs), NEW alias
    PROVE  /\ AreNamed(Handed(defs, alias))
           /\ \A name : HasName(defs, name) =>
                          /\ HasName(Handed(defs, alias), name)
                          /\ alias # "" => HasName(Handed(defs, alias), NameUnder(alias, name))
<1>1. CASE alias = ""
  BY <1>1 DEF Handed
<1>2. CASE alias # ""
  <2>1. PICK h : h = [i \in 1 .. 2 * Len(defs) |-> IF i % 2 = 1 THEN defs[(i + 1) \div 2]
                                                  ELSE Renamed(defs[i \div 2], alias)]
    OBVIOUS
  <2>2. Handed(defs, alias) = h
    BY <1>2, <2>1 DEF Handed
  <2>3. /\ Len(defs) \in Nat /\ DOMAIN defs = 1 .. Len(defs)
        /\ \A i \in DOMAIN defs : "name" \in DOMAIN defs[i]
    BY OfItsOwn DEF AreNamed
  <2>4. DOMAIN h = 1 .. 2 * Len(defs) /\ 2 * Len(defs) \in Nat
    BY <2>1, <2>3
  <2>5. IsSequence(h)
    <3> DEFINE S == {h[i] : i \in 1 .. 2 * Len(defs)}
               n == 2 * Len(defs)
    <3>1. h \in [1 .. n -> S] /\ n \in Nat
      BY <2>1, <2>3
    <3> HIDE DEF S, n
    <3>2. h \in Seq(S)
      BY <3>1, SeqDef
    <3> QED
      BY <3>2, OfAnything
  <2>6. ASSUME NEW i \in 1 .. Len(defs)
        PROVE  /\ 2 * i - 1 \in DOMAIN h /\ h[2 * i - 1] = defs[i]
               /\ 2 * i \in DOMAIN h /\ h[2 * i] = Renamed(defs[i], alias)
    <3>1. /\ 2 * i - 1 \in 1 .. 2 * Len(defs) /\ 2 * i \in 1 .. 2 * Len(defs)
          /\ (2 * i - 1) % 2 = 1 /\ ((2 * i - 1) + 1) \div 2 = i
          /\ (2 * i) % 2 # 1 /\ (2 * i) \div 2 = i
      BY <2>3
    <3> QED
      BY <3>1, <2>1
  <2>7. ASSUME NEW i \in 1 .. Len(defs)
        PROVE  /\ "name" \in DOMAIN Renamed(defs[i], alias)
               /\ Renamed(defs[i], alias).name = NameUnder(alias, defs[i].name)
    BY <2>3 DEF Renamed
  <2>8. ASSUME NEW k \in DOMAIN h PROVE "name" \in DOMAIN h[k]
    <3>1. \E i \in 1 .. Len(defs) : k = 2 * i - 1 \/ k = 2 * i
      <4>1. CASE k % 2 = 1
        <5>1. (k + 1) \div 2 \in 1 .. Len(defs) /\ k = 2 * ((k + 1) \div 2) - 1
          BY <4>1, <2>3, <2>4
        <5> QED
          BY <5>1
      <4>2. CASE k % 2 # 1
        <5>1. k \div 2 \in 1 .. Len(defs) /\ k = 2 * (k \div 2)
          BY <4>2, <2>3, <2>4
        <5> QED
          BY <5>1
      <4> QED
        BY <4>1, <4>2
    <3>2. PICK i \in 1 .. Len(defs) : k = 2 * i - 1 \/ k = 2 * i
      BY <3>1
    <3>3. h[k] = defs[i] \/ h[k] = Renamed(defs[i], alias)
      BY <3>2, <2>6
    <3> QED
      BY <3>3, <2>3, <2>7
  <2>9. ASSUME NEW name, HasName(defs, name)
        PROVE  HasName(h, name) /\ HasName(h, NameUnder(alias, name))
    <3>1. PICK i \in DOMAIN defs : defs[i].name = name
      BY <2>9 DEF HasName
    <3>2. i \in 1 .. Len(defs)
      BY <2>3
    <3>3. h[2 * i - 1].name = name /\ 2 * i - 1 \in DOMAIN h
      BY <3>1, <3>2, <2>6
    <3>4. h[2 * i].name = NameUnder(alias, name) /\ 2 * i \in DOMAIN h
      BY <3>1, <3>2, <2>6, <2>7
    <3> QED
      BY <3>3, <3>4 DEF HasName
  <2> QED
    BY <2>2, <2>5, <2>8, <2>9 DEF AreNamed
<1> QED
  BY <1>1, <1>2

-----------------------------------------------------------------------------
(* The steps, as they look to the invariant. *)

\* A call ends, and its caller has its functions too.
PoppedTo(fr, gr) ==
    /\ Len(fr) >= 2 /\ IsSequence(gr) /\ Len(gr) = Len(fr) - 1
    /\ \A k \in 1 .. Len(fr) - 2 : gr[k] = fr[k]
    /\ LET f == fr[Len(fr) - 1]
           g == gr[Len(fr) - 1]
       IN /\ DOMAIN g = DOMAIN f
          /\ g.path = f.path /\ g.alias = f.alias /\ g.read = f.read
          /\ g.imports = f.imports /\ g.next = f.next
          /\ g.funcs = f.funcs \o Handed(fr[Len(fr)].funcs, fr[Len(fr)].alias)

\* The call for the next import begins.
PushedTo(pr, fr, gr) ==
    /\ IsSequence(gr) /\ Len(gr) = Len(fr) + 1
    /\ \A k \in 1 .. Len(fr) - 1 : gr[k] = fr[k]
    /\ LET f == fr[Len(fr)]
           g == gr[Len(fr)]
       IN /\ f.read /\ f.next < Len(f.imports)
          /\ DOMAIN g = DOMAIN f
          /\ g.path = f.path /\ g.alias = f.alias /\ g.read = f.read
          /\ g.imports = f.imports /\ g.next = f.next + 1 /\ g.funcs = f.funcs
          /\ gr[Len(fr) + 1] = Call(TargetIn(pr, f.path, f.next + 1), AliasIn(pr, f.path, f.next + 1))

\* The innermost call reads its file, which was not loaded yet.
ReadTo(pr, fr, ps, gr, qs) ==
    /\ IsSequence(gr) /\ Len(gr) = Len(fr)
    /\ \A k \in 1 .. Len(fr) - 1 : gr[k] = fr[k]
    /\ LET f == fr[Len(fr)]
           g == gr[Len(fr)]
       IN /\ ~f.read /\ f.path \notin ToSet(ps)
          /\ DOMAIN g = DOMAIN f
          /\ g.path = f.path /\ g.alias = f.alias /\ g.read = TRUE /\ g.next = f.next
          /\ g.imports = ImportsIn(pr, f.path) /\ g.funcs = FuncsIn(pr, f.path)
          /\ qs = Append(ps, f.path)

\* A call ends after its last import, or where its file was loaded before.
HasEnded(ps, f) ==
    IF f.read THEN f.next = Len(f.imports) ELSE f.path \in ToSet(ps)

LEMMA TreesAreTrees ==
    ASSUME NEW pr \in Projects, NEW path
    PROVE  /\ IsSequence(ImportsIn(pr, path)) /\ AreNamed(FuncsIn(pr, path))
           /\ Len(ImportsIn(pr, path)) \in Nat
           /\ DOMAIN ImportsIn(pr, path) = 1 .. Len(ImportsIn(pr, path))
<1>1. IsTree(TreeIn(pr, path))
  BY TreesAssumption DEF TreeIn
<1>2. IsSequence(ImportsIn(pr, path)) /\ AreNamed(FuncsIn(pr, path))
  BY <1>1 DEF IsTree, ImportsIn, FuncsIn
<1> QED
  BY <1>2, OfItsOwn

\* A path more is loaded.
LEMMA OnePathMore ==
    ASSUME NEW ps, IsSequence(ps), NEW path
    PROVE  /\ IsSequence(Append(ps, path)) /\ Len(Append(ps, path)) = Len(ps) + 1
           /\ Append(ps, path)[Len(ps) + 1] = path
           /\ \A k \in 1 .. Len(ps) : Append(ps, path)[k] = ps[k]
           /\ ToSet(Append(ps, path)) = ToSet(ps) \cup {path}
           /\ Len(ps) \in Nat /\ DOMAIN ps = 1 .. Len(ps)
<1>1. PICK qs : qs = Append(ps, path)
  OBVIOUS
<1>2. /\ IsSequence(qs) /\ Len(qs) = Len(ps) + 1 /\ qs[Len(ps) + 1] = path
      /\ \A k \in 1 .. Len(ps) : qs[k] = ps[k]
  BY <1>1, OneMore
<1>3. /\ Len(ps) \in Nat /\ DOMAIN ps = 1 .. Len(ps)
      /\ DOMAIN qs = 1 .. Len(qs)
  BY <1>2, OfItsOwn
<1>4. \A k \in 1 .. Len(ps) + 1 : k \in 1 .. Len(ps) \/ k = Len(ps) + 1
  BY <1>3
<1>5. \A k \in 1 .. Len(ps) : k \in 1 .. Len(ps) + 1
  BY <1>3
<1>6. Len(ps) + 1 \in 1 .. Len(ps) + 1
  BY <1>3
<1>7. ToSet(qs) = ToSet(ps) \cup {path}
  BY <1>2, <1>3, <1>4, <1>5, <1>6 DEF ToSet
<1> QED
  BY <1>1, <1>2, <1>3, <1>7

-----------------------------------------------------------------------------
(* A call ends. *)

\* The calls that are left are as they were, with more functions.
LEMMA CallsLeft ==
    ASSUME NEW pr, NEW fr, NEW ps, Calls(pr, fr, ps), NEW gr, PoppedTo(fr, gr)
    PROVE  /\ Len(fr) \in Nat /\ Len(gr) \in Nat
           /\ \A k \in 1 .. Len(gr) :
                /\ gr[k].path = fr[k].path /\ gr[k].alias = fr[k].alias /\ gr[k].read = fr[k].read
                /\ gr[k].imports = fr[k].imports /\ gr[k].next = fr[k].next
                /\ IsFrame(gr[k])
                /\ \A name : HasName(fr[k].funcs, name) => HasName(gr[k].funcs, name)
           /\ \A name : HasName(fr[Len(fr)].funcs, name) =>
                /\ HasName(gr[Len(gr)].funcs, name)
                /\ fr[Len(fr)].alias # ""
                     => HasName(gr[Len(gr)].funcs, NameUnder(fr[Len(fr)].alias, name))
<1>1. Len(fr) \in Nat /\ \A k \in 1 .. Len(fr) : IsFrame(fr[k])
  BY OfItsOwn DEF Calls
<1>2. PICK m \in Nat : m = Len(fr) - 1
  BY <1>1 DEF PoppedTo
<1>3. /\ Len(gr) = m /\ m >= 1 /\ m + 1 = Len(fr)
      /\ \A k \in 1 .. Len(fr) - 2 : gr[k] = fr[k]
  BY <1>1, <1>2 DEF PoppedTo
<1>4. PICK f : f = fr[m]
  OBVIOUS
<1>5. PICK g : g = gr[m]
  OBVIOUS
<1>6. PICK e : e = fr[Len(fr)]
  OBVIOUS
<1>7. /\ DOMAIN g = DOMAIN f
      /\ g.path = f.path /\ g.alias = f.alias /\ g.read = f.read
      /\ g.imports = f.imports /\ g.next = f.next
      /\ g.funcs = f.funcs \o Handed(e.funcs, e.alias)
  BY <1>2, <1>4, <1>5, <1>6 DEF PoppedTo
<1>8. IsFrame(f) /\ IsFrame(e)
  BY <1>1, <1>3, <1>4, <1>6
<1>9. AreNamed(f.funcs) /\ AreNamed(e.funcs)
  BY <1>8 DEF IsFrame
<1>10. PICK h : h = Handed(e.funcs, e.alias)
  OBVIOUS
<1>11. /\ AreNamed(h)
       /\ \A name : HasName(e.funcs, name) =>
                      HasName(h, name) /\ (e.alias # "" => HasName(h, NameUnder(e.alias, name)))
  BY <1>9, <1>10, NamesHanded
<1>12. /\ AreNamed(g.funcs)
       /\ \A name : HasName(f.funcs, name) \/ HasName(h, name) => HasName(g.funcs, name)
  <2>1. PICK d : d = f.funcs
    OBVIOUS
  <2>2. AreNamed(d) /\ AreNamed(h)
    BY <1>9, <1>11, <2>1
  <2>3. /\ AreNamed(d \o h)
        /\ \A name : HasName(d, name) \/ HasName(h, name) => HasName(d \o h, name)
    BY <2>2, NamesOfBoth
  <2>4. g.funcs = d \o h
    BY <1>7, <1>10, <2>1
  <2> QED
    BY <2>1, <2>3, <2>4, Zenon
<1>13. IsFrame(g)
  BY <1>7, <1>8, <1>12 DEF IsFrame
<1>14. ASSUME NEW k \in 1 .. Len(gr)
       PROVE  /\ gr[k].path = fr[k].path /\ gr[k].alias = fr[k].alias /\ gr[k].read = fr[k].read
              /\ gr[k].imports = fr[k].imports /\ gr[k].next = fr[k].next
              /\ IsFrame(gr[k])
              /\ \A name : HasName(fr[k].funcs, name) => HasName(gr[k].funcs, name)
  <2>1. CASE k = m
    BY <2>1, <1>4, <1>5, <1>7, <1>12, <1>13
  <2>2. CASE k # m
    <3>1. k \in 1 .. Len(fr) - 2 /\ k \in 1 .. Len(fr)
      BY <2>2, <1>1, <1>2, <1>3
    <3>2. gr[k] = fr[k] /\ IsFrame(fr[k])
      BY <3>1, <1>1, <1>3
    <3> QED
      BY <3>2
  <2> QED
    BY <2>1, <2>2
<1>15. \A name : HasName(fr[Len(fr)].funcs, name) =>
          /\ HasName(gr[Len(gr)].funcs, name)
          /\ fr[Len(fr)].alias # ""
               => HasName(gr[Len(gr)].funcs, NameUnder(fr[Len(fr)].alias, name))
  BY <1>3, <1>5, <1>6, <1>11, <1>12
<1> QED
  BY <1>1, <1>3, <1>14, <1>15

LEMMA PoppedCalls ==
    ASSUME NEW pr, NEW fr, NEW ps, Calls(pr, fr, ps), NEW gr, PoppedTo(fr, gr)
    PROVE  Calls(pr, gr, ps)
<1> DEFINE m == Len(gr)
<1>1. /\ Len(fr) = m + 1 /\ m \in Nat /\ m >= 1 /\ IsSequence(gr)
  <2>1. Len(fr) \in Nat /\ m \in Nat
    BY CallsLeft
  <2>2. Len(fr) >= 2 /\ IsSequence(gr) /\ m = Len(fr) - 1
    BY DEF PoppedTo
  <2> QED
    BY <2>1, <2>2
<1>2. \A k \in 1 .. m :
        /\ gr[k].path = fr[k].path /\ gr[k].alias = fr[k].alias /\ gr[k].read = fr[k].read
        /\ gr[k].imports = fr[k].imports /\ gr[k].next = fr[k].next
        /\ IsFrame(gr[k])
        /\ \A name : HasName(fr[k].funcs, name) => HasName(gr[k].funcs, name)
  BY CallsLeft
<1> HIDE DEF m
<1>3. \A k \in 1 .. m : k \in 1 .. Len(fr)
  BY <1>1
<1>4. ASSUME NEW k \in 1 .. m PROVE gr[k].read /\ HasRead(pr, ps, gr[k])
  <2>1. \A l \in 1 .. Len(fr) - 1 : fr[l].read
    BY DEF Calls
  <2>2. fr[k].read
    BY <2>1, <1>1
  <2>3. HasRead(pr, ps, fr[k])
    BY <2>2, <1>3 DEF Calls
  <2>4. HasAll(gr[k].funcs, FuncsIn(pr, gr[k].path))
    BY <2>3, <1>2 DEF HasRead, HasAll
  <2> QED
    BY <2>2, <2>3, <2>4, <1>2 DEF HasRead
<1>5. \A k \in 1 .. m - 1 : gr[k].read /\ gr[k].next >= 1
  <2>1. \A k \in 1 .. Len(fr) - 1 : fr[k].read /\ fr[k].next >= 1
    BY DEF Calls
  <2> QED
    BY <2>1, <1>1, <1>2
<1>6. \A k, l \in 1 .. m : gr[k].read /\ gr[l].read /\ gr[k].path = gr[l].path => k = l
  <2>1. \A k, l \in 1 .. Len(fr) : fr[k].read /\ fr[l].read /\ fr[k].path = fr[l].path => k = l
    BY DEF Calls
  <2> QED
    BY <2>1, <1>2, <1>3
<1>7. gr[1].path = pr.main /\ (~gr[1].read => ps = <<>>)
  <2>1. 1 \in 1 .. m
    BY <1>1
  <2>2. fr[1].path = pr.main /\ (~fr[1].read => ps = <<>>)
    BY DEF Calls
  <2> QED
    BY <2>1, <2>2, <1>2
<1>8. ASSUME NEW k \in 2 .. m
      PROVE  /\ gr[k].path = TargetIn(pr, gr[k - 1].path, gr[k - 1].next)
             /\ gr[k].alias = AliasIn(pr, gr[k - 1].path, gr[k - 1].next)
  <2>1. k \in 2 .. Len(fr) /\ k \in 1 .. m /\ k - 1 \in 1 .. m
    BY <1>1
  <2>2. /\ fr[k].path = TargetIn(pr, fr[k - 1].path, fr[k - 1].next)
        /\ fr[k].alias = AliasIn(pr, fr[k - 1].path, fr[k - 1].next)
    BY <2>1 DEF Calls
  <2> QED
    BY <2>1, <2>2, <1>2
<1>9. IsSequence(ps)
  BY DEF Calls
<1> QED
  BY <1>1, <1>2, <1>4, <1>5, <1>6, <1>7, <1>8, <1>9 DEF Calls, m

\* No import is lost with the call that ends.
LEMMA PoppedPending ==
    ASSUME NEW pr \in Projects, NEW fr, NEW ps, Calls(pr, fr, ps), NEW gr, PoppedTo(fr, gr),
           HasEnded(ps, fr[Len(fr)]), NEW p, NEW i \in DOMAIN ImportsIn(pr, p)
    PROVE  Pending(gr, p, i) <=> Pending(fr, p, i)
<1>1. Len(fr) \in Nat /\ Len(gr) \in Nat /\ Len(fr) = Len(gr) + 1
  <2>1. Len(fr) \in Nat /\ Len(gr) \in Nat
    BY CallsLeft
  <2> QED
    BY <2>1 DEF PoppedTo
<1>2. \A k \in 1 .. Len(gr) :
        /\ gr[k].path = fr[k].path /\ gr[k].alias = fr[k].alias /\ gr[k].read = fr[k].read
        /\ gr[k].imports = fr[k].imports /\ gr[k].next = fr[k].next
        /\ IsFrame(gr[k])
        /\ \A name : HasName(fr[k].funcs, name) => HasName(gr[k].funcs, name)
  BY CallsLeft
<1>3. ASSUME Pending(gr, p, i) PROVE Pending(fr, p, i)
  <2>1. PICK k \in 1 .. Len(gr) : gr[k].read /\ gr[k].path = p /\ gr[k].next < i
    BY <1>3 DEF Pending
  <2>2. k \in 1 .. Len(fr) /\ fr[k].read /\ fr[k].path = p /\ fr[k].next < i
    BY <2>1, <1>1, <1>2
  <2> QED
    BY <2>2 DEF Pending
<1>4. ASSUME Pending(fr, p, i) PROVE Pending(gr, p, i)
  <2>1. PICK k \in 1 .. Len(fr) : fr[k].read /\ fr[k].path = p /\ fr[k].next < i
    BY <1>4 DEF Pending
  <2>2. CASE k = Len(fr)
    <3>1. fr[k].next = Len(fr[k].imports)
      BY <2>1, <2>2 DEF HasEnded
    <3>2. fr[k].imports = ImportsIn(pr, p)
      BY <2>1 DEF Calls, HasRead
    <3>3. i \in 1 .. Len(ImportsIn(pr, p)) /\ Len(ImportsIn(pr, p)) \in Nat
      BY TreesAreTrees
    <3> QED
      BY <2>1, <3>1, <3>2, <3>3
  <2>3. CASE k # Len(fr)
    <3>1. k \in 1 .. Len(gr)
      BY <2>3, <1>1
    <3>2. gr[k].read /\ gr[k].path = p /\ gr[k].next < i
      BY <2>1, <3>1, <1>2
    <3> QED
      BY <3>1, <3>2 DEF Pending
  <2> QED
    BY <2>2, <2>3
<1> QED
  BY <1>3, <1>4

LEMMA PoppedFollowed ==
    ASSUME NEW pr \in Projects, NEW fr, NEW ps, Calls(pr, fr, ps), NEW gr, PoppedTo(fr, gr),
           HasEnded(ps, fr[Len(fr)]), Followed(pr, fr, ps)
    PROVE  Followed(pr, gr, ps)
<1> SUFFICES ASSUME NEW p \in ToSet(ps), NEW i \in DOMAIN ImportsIn(pr, p)
             PROVE  Pending(gr, p, i) \/ TargetIn(pr, p, i) \in ToSet(ps)
  BY DEF Followed
<1>1. \/ Pending(fr, p, i)
      \/ TargetIn(pr, p, i) \in ToSet(ps)
      \/ ~fr[Len(fr)].read /\ fr[Len(fr)].path = TargetIn(pr, p, i)
  BY DEF Followed
<1>2. Pending(gr, p, i) <=> Pending(fr, p, i)
  BY PoppedPending
<1>3. ~fr[Len(fr)].read => fr[Len(fr)].path \in ToSet(ps)
  BY DEF HasEnded
<1> QED
  BY <1>1, <1>2, <1>3

LEMMA PoppedAskedFor ==
    ASSUME NEW pr \in Projects, NEW fr, NEW ps, Calls(pr, fr, ps), NEW gr, PoppedTo(fr, gr),
           HasEnded(ps, fr[Len(fr)]), AskedFor(pr, fr, ps)
    PROVE  AskedFor(pr, gr, ps)
<1>1. \A p : \A i \in DOMAIN ImportsIn(pr, p) : Pending(gr, p, i) <=> Pending(fr, p, i)
  BY PoppedPending
<1> QED
  BY <1>1 DEF AskedFor

LEMMA PoppedBrought ==
    ASSUME NEW pr \in Projects, NEW fr, NEW ps, Calls(pr, fr, ps), NEW gr, PoppedTo(fr, gr),
           HasEnded(ps, fr[Len(fr)]), Brought(pr, fr, ps)
    PROVE  Brought(pr, gr, ps)
<1>1. Len(fr) \in Nat /\ Len(gr) \in Nat /\ Len(fr) = Len(gr) + 1 /\ Len(gr) >= 1
  <2>1. Len(fr) \in Nat /\ Len(gr) \in Nat
    BY CallsLeft
  <2> QED
    BY <2>1 DEF PoppedTo
<1>2. \A k \in 1 .. Len(gr) :
        /\ gr[k].path = fr[k].path /\ gr[k].alias = fr[k].alias /\ gr[k].read = fr[k].read
        /\ gr[k].imports = fr[k].imports /\ gr[k].next = fr[k].next
        /\ IsFrame(gr[k])
        /\ \A name : HasName(fr[k].funcs, name) => HasName(gr[k].funcs, name)
  BY CallsLeft
<1>3. \A name : HasName(fr[Len(fr)].funcs, name) =>
          /\ HasName(gr[Len(gr)].funcs, name)
          /\ fr[Len(fr)].alias # ""
               => HasName(gr[Len(gr)].funcs, NameUnder(fr[Len(fr)].alias, name))
  BY CallsLeft
<1>4. ASSUME NEW name, \E k \in 1 .. Len(fr) : HasName(fr[k].funcs, name)
      PROVE  \E k \in 1 .. Len(gr) : HasName(gr[k].funcs, name)
  <2>1. PICK k \in 1 .. Len(fr) : HasName(fr[k].funcs, name)
    BY <1>4
  <2>2. CASE k = Len(fr)
    <3>1. HasName(fr[Len(fr)].funcs, name)
      BY <2>1, <2>2
    <3>2. HasName(gr[Len(gr)].funcs, name)
      BY <3>1, <1>3
    <3>3. Len(gr) \in 1 .. Len(gr)
      BY <1>1
    <3> QED
      BY <3>2, <3>3
  <2>3. CASE k # Len(fr)
    <3>1. k \in 1 .. Len(gr)
      BY <2>3, <1>1
    <3> QED
      BY <3>1, <2>1, <1>2
  <2> QED
    BY <2>2, <2>3
<1>5. SUFFICES ASSUME NEW p \in ToSet(ps), NEW i \in DOMAIN ImportsIn(pr, p),
                      Brings(pr, ps, p, i), ~Pending(gr, p, i)
      PROVE  \/ \A name \in NamesOf(pr, p, i) : \E k \in 1 .. Len(gr) : HasName(gr[k].funcs, name)
             \/ \E k \in 2 .. Len(gr) : /\ gr[k - 1].path = p /\ gr[k - 1].next = i
                                        /\ gr[k].read \/ TargetIn(pr, p, i) \notin ToSet(ps)
  BY DEF Brought
<1>6. ~Pending(fr, p, i)
  BY <1>5, PoppedPending
<1>7. \/ \A name \in NamesOf(pr, p, i) : \E k \in 1 .. Len(fr) : HasName(fr[k].funcs, name)
      \/ \E k \in 2 .. Len(fr) : /\ fr[k - 1].path = p /\ fr[k - 1].next = i
                                 /\ fr[k].read \/ TargetIn(pr, p, i) \notin ToSet(ps)
  BY <1>5, <1>6 DEF Brought
<1>8. CASE \A name \in NamesOf(pr, p, i) : \E k \in 1 .. Len(fr) : HasName(fr[k].funcs, name)
  BY <1>4, <1>8
<1>9. ASSUME NEW k \in 2 .. Len(fr), fr[k - 1].path = p, fr[k - 1].next = i,
             fr[k].read \/ TargetIn(pr, p, i) \notin ToSet(ps)
      PROVE  \/ \A name \in NamesOf(pr, p, i) : HasName(gr[Len(gr)].funcs, name)
             \/ k \in 2 .. Len(gr) /\ gr[k - 1].path = p /\ gr[k - 1].next = i
                /\ (gr[k].read \/ TargetIn(pr, p, i) \notin ToSet(ps))
  <2>1. CASE k # Len(fr)
    <3>1. k \in 2 .. Len(gr) /\ k \in 1 .. Len(gr) /\ k - 1 \in 1 .. Len(gr)
      BY <2>1, <1>1
    <3> QED
      BY <3>1, <1>2, <1>9
  <2>2. CASE k = Len(fr)
    <3>1. /\ fr[k].path = TargetIn(pr, p, i)
          /\ fr[k].alias = AliasIn(pr, p, i)
      BY <1>9 DEF Calls
    <3>2. fr[k].read
      BY <2>2, <3>1, <1>9 DEF HasEnded
    <3>3. HasAll(fr[k].funcs, FuncsIn(pr, TargetIn(pr, p, i)))
      <4>1. k \in 1 .. Len(fr)
        BY <1>1
      <4> QED
        BY <4>1, <3>1, <3>2 DEF Calls, HasRead
    <3>4. AliasIn(pr, p, i) # ""
      BY <1>5 DEF Brings
    <3>5. ASSUME NEW j \in DOMAIN FuncsIn(pr, TargetIn(pr, p, i))
          PROVE  HasName(gr[Len(gr)].funcs,
                         NameUnder(AliasIn(pr, p, i), FuncsIn(pr, TargetIn(pr, p, i))[j].name))
      <4>1. HasName(fr[Len(fr)].funcs, FuncsIn(pr, TargetIn(pr, p, i))[j].name)
        BY <2>2, <3>3 DEF HasAll
      <4> QED
        BY <4>1, <2>2, <3>1, <3>4, <1>3
    <3> QED
      BY <3>5 DEF NamesOf
  <2> QED
    BY <2>1, <2>2
<1>10. Len(gr) \in 1 .. Len(gr)
  BY <1>1
<1> QED
  BY <1>7, <1>8, <1>9, <1>10

-----------------------------------------------------------------------------
(* The call for an import begins. *)

LEMMA NewCall ==
    ASSUME NEW path, NEW alias
    PROVE  LET c == Call(path, alias)
           IN IsFrame(c) /\ c.path = path /\ c.alias = alias /\ ~c.read /\ c.next = 0
              /\ c.funcs = <<>>
<1>1. PICK c : c = Call(path, alias)
  OBVIOUS
<1>2. /\ DOMAIN c = FrameFields /\ c.path = path /\ c.alias = alias /\ c.read = FALSE
      /\ c.next = 0 /\ c.funcs = <<>>
  BY <1>1 DEF Call, FrameFields
<1>3. PICK d : d = c.funcs
  OBVIOUS
<1>4. AreNamed(d)
  <2>1. d = <<>>
    BY <1>2, <1>3
  <2>2. d \in Seq({}) /\ DOMAIN d = {}
    BY <2>1, EmptySeq
  <2>3. IsSequence(d)
    BY <2>2, OfAnything
  <2> QED
    BY <2>2, <2>3 DEF AreNamed
<1>5. c.read \in BOOLEAN /\ c.next \in Nat
  <2>1. c.next = 0
    BY <1>2
  <2>2. c.read = FALSE
    BY <1>2
  <2>3. c.next \in Nat
    BY <2>1
  <2>4. c.read \in BOOLEAN
    BY <2>2
  <2> QED
    BY <2>3, <2>4
<1>6. IsFrame(c)
  BY <1>2, <1>3, <1>4, <1>5 DEF IsFrame
<1>7. ~c.read
  BY <1>2
<1> QED
  BY <1>1, <1>2, <1>6, <1>7

\* The others are as they were, one import further.
LEMMA CallsBelow ==
    ASSUME NEW pr, NEW fr, NEW ps, Calls(pr, fr, ps), NEW gr, PushedTo(pr, fr, gr)
    PROVE  /\ Len(fr) \in Nat /\ Len(fr) >= 1 /\ Len(gr) = Len(fr) + 1
           /\ \A k \in 1 .. Len(fr) :
                /\ gr[k].path = fr[k].path /\ gr[k].alias = fr[k].alias /\ gr[k].read = fr[k].read
                /\ gr[k].imports = fr[k].imports /\ gr[k].funcs = fr[k].funcs
                /\ gr[k].next = IF k = Len(fr) THEN fr[k].next + 1 ELSE fr[k].next
                /\ IsFrame(gr[k]) /\ fr[k].read /\ HasRead(pr, ps, fr[k])
           /\ LET f == fr[Len(fr)]
                  c == gr[Len(fr) + 1]
              IN /\ f.next < Len(f.imports) /\ f.next \in Nat
                 /\ IsFrame(c) /\ ~c.read /\ c.next = 0 /\ c.funcs = <<>>
                 /\ c.path = TargetIn(pr, f.path, f.next + 1)
                 /\ c.alias = AliasIn(pr, f.path, f.next + 1)
<1>1. PICK n \in Nat : n = Len(fr)
  BY OfItsOwn DEF Calls
<1>2. n >= 1 /\ Len(gr) = n + 1 /\ \A k \in 1 .. n - 1 : gr[k] = fr[k]
  BY <1>1 DEF Calls, PushedTo
<1>3. PICK f : f = fr[n]
  OBVIOUS
<1>4. PICK g : g = gr[n]
  OBVIOUS
<1>5. /\ f.read /\ f.next < Len(f.imports) /\ DOMAIN g = DOMAIN f
      /\ g.path = f.path /\ g.alias = f.alias /\ g.read = f.read
      /\ g.imports = f.imports /\ g.next = f.next + 1 /\ g.funcs = f.funcs
  BY <1>1, <1>3, <1>4 DEF PushedTo
<1>6. gr[n + 1] = Call(TargetIn(pr, f.path, f.next + 1), AliasIn(pr, f.path, f.next + 1))
  BY <1>1, <1>3 DEF PushedTo
<1>7. \A k \in 1 .. n : IsFrame(fr[k])
  BY <1>1 DEF Calls
<1>8. \A k \in 1 .. n : fr[k].read
  <2>1. \A k \in 1 .. n - 1 : fr[k].read
    BY <1>1 DEF Calls
  <2>2. \A k \in 1 .. n : k \in 1 .. n - 1 \/ k = n
    OBVIOUS
  <2> QED
    BY <2>1, <2>2, <1>3, <1>5
<1>9. \A k \in 1 .. n : HasRead(pr, ps, fr[k])
  BY <1>1, <1>8 DEF Calls
<1>10. IsFrame(f)
  BY <1>2, <1>3, <1>7
<1>11. IsFrame(g) /\ f.next \in Nat
  BY <1>5, <1>10 DEF IsFrame
<1>12. ASSUME NEW k \in 1 .. n
       PROVE  /\ gr[k].path = fr[k].path /\ gr[k].alias = fr[k].alias /\ gr[k].read = fr[k].read
              /\ gr[k].imports = fr[k].imports /\ gr[k].funcs = fr[k].funcs
              /\ gr[k].next = IF k = n THEN fr[k].next + 1 ELSE fr[k].next
              /\ IsFrame(gr[k]) /\ fr[k].read /\ HasRead(pr, ps, fr[k])
  <2>1. CASE k = n
    BY <2>1, <1>3, <1>4, <1>5, <1>8, <1>9, <1>11
  <2>2. CASE k # n
    <3>1. gr[k] = fr[k]
      BY <2>2, <1>2
    <3> QED
      BY <3>1, <2>2, <1>7, <1>8, <1>9
  <2> QED
    BY <2>1, <2>2
<1>13. PICK c : c = gr[n + 1]
  OBVIOUS
<1>14. /\ IsFrame(c) /\ ~c.read /\ c.next = 0 /\ c.funcs = <<>>
       /\ c.path = TargetIn(pr, f.path, f.next + 1) /\ c.alias = AliasIn(pr, f.path, f.next + 1)
  BY <1>6, <1>13, NewCall
<1> QED
  BY <1>1, <1>2, <1>3, <1>5, <1>11, <1>12, <1>13, <1>14

LEMMA PushedCalls ==
    ASSUME NEW pr \in Projects, NEW fr, NEW ps, Calls(pr, fr, ps), NEW gr, PushedTo(pr, fr, gr)
    PROVE  Calls(pr, gr, ps)
<1>1. /\ Len(fr) \in Nat /\ Len(fr) >= 1 /\ Len(gr) = Len(fr) + 1
      /\ \A k \in 1 .. Len(fr) :
           /\ gr[k].path = fr[k].path /\ gr[k].alias = fr[k].alias /\ gr[k].read = fr[k].read
           /\ gr[k].imports = fr[k].imports /\ gr[k].funcs = fr[k].funcs
           /\ gr[k].next = IF k = Len(fr) THEN fr[k].next + 1 ELSE fr[k].next
           /\ IsFrame(gr[k]) /\ fr[k].read /\ HasRead(pr, ps, fr[k])
      /\ LET f == fr[Len(fr)]
             c == gr[Len(fr) + 1]
         IN /\ f.next < Len(f.imports) /\ f.next \in Nat
            /\ IsFrame(c) /\ ~c.read /\ c.next = 0 /\ c.funcs = <<>>
            /\ c.path = TargetIn(pr, f.path, f.next + 1)
            /\ c.alias = AliasIn(pr, f.path, f.next + 1)
  BY CallsBelow
<1>2. PICK n \in Nat : n = Len(fr)
  BY <1>1
<1>3. \A k \in 1 .. n + 1 : k \in 1 .. n \/ k = n + 1
  OBVIOUS
<1>4. PICK c : c = gr[n + 1]
  OBVIOUS
<1>5. PICK f : f = fr[n]
  OBVIOUS
<1>6. /\ IsFrame(c) /\ ~c.read /\ c.next = 0 /\ c.funcs = <<>>
      /\ c.path = TargetIn(pr, f.path, f.next + 1) /\ c.alias = AliasIn(pr, f.path, f.next + 1)
      /\ f.next < Len(f.imports) /\ f.next \in Nat
  BY <1>1, <1>2, <1>4, <1>5
<1>7. \A k \in 1 .. n : HasRead(pr, ps, gr[k])
  <2> SUFFICES ASSUME NEW k \in 1 .. n PROVE HasRead(pr, ps, gr[k])
    OBVIOUS
  <2>1. /\ fr[k].path \in ToSet(ps) /\ fr[k].imports = ImportsIn(pr, fr[k].path)
        /\ fr[k].next <= Len(fr[k].imports) /\ HasAll(fr[k].funcs, FuncsIn(pr, fr[k].path))
    BY <1>1, <1>2 DEF HasRead
  <2>2. gr[k].next <= Len(gr[k].imports)
    <3>1. CASE k = n
      <4>1. Len(f.imports) \in Nat
        BY <2>1, <3>1, <1>5, TreesAreTrees
      <4> QED
        BY <4>1, <3>1, <1>1, <1>2, <1>5, <1>6
    <3>2. CASE k # n
      BY <3>2, <2>1, <1>1, <1>2
    <3> QED
      BY <3>1, <3>2
  <2> QED
    BY <2>1, <2>2, <1>1, <1>2 DEF HasRead
<1>8. ASSUME NEW k \in 1 .. n + 1
      PROVE  /\ IsFrame(gr[k])
             /\ IF gr[k].read THEN HasRead(pr, ps, gr[k]) ELSE gr[k].next = 0 /\ gr[k].funcs = <<>>
  BY <1>1, <1>2, <1>3, <1>4, <1>6, <1>7
<1>9. ASSUME NEW k \in 1 .. n PROVE gr[k].read /\ gr[k].next >= 1
  <2>1. gr[k].read
    BY <1>1, <1>2
  <2>2. CASE k = n
    BY <2>2, <1>1, <1>2
  <2>3. CASE k # n
    <3>1. k \in 1 .. Len(fr) - 1
      BY <2>3, <1>2
    <3>2. fr[k].next >= 1
      BY <3>1 DEF Calls
    <3> QED
      BY <3>2, <2>1, <2>3, <1>1, <1>2
  <2> QED
    BY <2>2, <2>3
<1>10. ASSUME NEW k \in 1 .. n + 1, NEW l \in 1 .. n + 1,
              gr[k].read, gr[l].read, gr[k].path = gr[l].path
       PROVE  k = l
  <2>1. k \in 1 .. n /\ l \in 1 .. n
    BY <1>3, <1>4, <1>6, <1>10
  <2>2. \A a, b \in 1 .. n : fr[a].read /\ fr[b].read /\ fr[a].path = fr[b].path => a = b
    BY <1>2 DEF Calls
  <2> QED
    BY <2>1, <2>2, <1>1, <1>2, <1>10
<1>11. gr[1].path = pr.main /\ gr[1].read
  <2>1. 1 \in 1 .. n /\ fr[1].path = pr.main
    BY <1>1, <1>2 DEF Calls
  <2> QED
    BY <2>1, <1>1, <1>2
<1>12. ASSUME NEW k \in 2 .. n + 1
       PROVE  /\ gr[k].path = TargetIn(pr, gr[k - 1].path, gr[k - 1].next)
              /\ gr[k].alias = AliasIn(pr, gr[k - 1].path, gr[k - 1].next)
  <2>1. CASE k = n + 1
    <3>1. k - 1 = n /\ n \in 1 .. n
      BY <2>1, <1>1, <1>2
    <3>2. gr[n].path = f.path /\ gr[n].next = f.next + 1
      BY <3>1, <1>1, <1>2, <1>5
    <3> QED
      BY <2>1, <3>1, <3>2, <1>4, <1>6
  <2>2. CASE k # n + 1
    <3>1. k \in 2 .. Len(fr) /\ k \in 1 .. n /\ k - 1 \in 1 .. n /\ k - 1 # n
      BY <2>2, <1>2
    <3>2. /\ fr[k].path = TargetIn(pr, fr[k - 1].path, fr[k - 1].next)
          /\ fr[k].alias = AliasIn(pr, fr[k - 1].path, fr[k - 1].next)
      BY <3>1 DEF Calls
    <3>3. /\ gr[k].path = fr[k].path /\ gr[k].alias = fr[k].alias
          /\ gr[k - 1].path = fr[k - 1].path /\ gr[k - 1].next = fr[k - 1].next
      BY <3>1, <1>1, <1>2
    <3> QED
      BY <3>2, <3>3
  <2> QED
    BY <2>1, <2>2
<1>13. IsSequence(gr) /\ Len(gr) = n + 1 /\ (n + 1) - 1 = n /\ n + 1 >= 1
  BY <1>1, <1>2 DEF PushedTo
<1>14. IsSequence(ps)
  BY DEF Calls
<1> QED
  BY <1>8, <1>9, <1>10, <1>11, <1>12, <1>13, <1>14 DEF Calls

\* The import that is come to is pending no more, and all others are as they were.
LEMMA PushedPending ==
    ASSUME NEW pr \in Projects, NEW fr, NEW ps, Calls(pr, fr, ps), NEW gr, PushedTo(pr, fr, gr),
           NEW p, NEW i \in DOMAIN ImportsIn(pr, p)
    PROVE  Pending(gr, p, i) <=> /\ Pending(fr, p, i)
                                 /\ ~(p = fr[Len(fr)].path /\ i = fr[Len(fr)].next + 1)
<1>1. /\ Len(fr) \in Nat /\ Len(fr) >= 1 /\ Len(gr) = Len(fr) + 1
      /\ \A k \in 1 .. Len(fr) :
           /\ gr[k].path = fr[k].path /\ gr[k].alias = fr[k].alias /\ gr[k].read = fr[k].read
           /\ gr[k].imports = fr[k].imports /\ gr[k].funcs = fr[k].funcs
           /\ gr[k].next = IF k = Len(fr) THEN fr[k].next + 1 ELSE fr[k].next
           /\ IsFrame(gr[k]) /\ fr[k].read /\ HasRead(pr, ps, fr[k])
      /\ LET f == fr[Len(fr)]
             c == gr[Len(fr) + 1]
         IN /\ f.next < Len(f.imports) /\ f.next \in Nat
            /\ IsFrame(c) /\ ~c.read /\ c.next = 0 /\ c.funcs = <<>>
            /\ c.path = TargetIn(pr, f.path, f.next + 1)
            /\ c.alias = AliasIn(pr, f.path, f.next + 1)
  BY CallsBelow
<1>2. PICK n \in Nat : n = Len(fr)
  BY <1>1
<1>3. \A k \in 1 .. n + 1 : k \in 1 .. n \/ k = n + 1
  OBVIOUS
<1>4. ~gr[n + 1].read /\ n \in 1 .. n /\ Len(gr) = n + 1 /\ fr[n].next \in Nat
  BY <1>1, <1>2
<1>5. \A a, b \in 1 .. n : fr[a].path = fr[b].path => a = b
  <2>1. \A a, b \in 1 .. n : fr[a].read /\ fr[b].read /\ fr[a].path = fr[b].path => a = b
    BY <1>2 DEF Calls
  <2> QED
    BY <2>1, <1>1, <1>2
<1>6. \A k \in 1 .. n : /\ gr[k].path = fr[k].path /\ gr[k].read /\ fr[k].read
                        /\ gr[k].next = IF k = n THEN fr[k].next + 1 ELSE fr[k].next
  BY <1>1, <1>2
<1>7. i \in Nat
  BY TreesAreTrees
<1>8. ASSUME Pending(gr, p, i)
      PROVE  Pending(fr, p, i) /\ ~(p = fr[n].path /\ i = fr[n].next + 1)
  <2>1. PICK k \in 1 .. n + 1 : gr[k].read /\ gr[k].path = p /\ gr[k].next < i
    BY <1>4, <1>8 DEF Pending
  <2>2. k \in 1 .. n /\ fr[k].read /\ fr[k].path = p
    BY <2>1, <1>3, <1>4, <1>6
  <2>3. CASE k = n
    <3>1. fr[n].next + 1 < i
      BY <2>1, <2>2, <2>3, <1>6
    <3>2. fr[n].next < i /\ i # fr[n].next + 1
      BY <3>1, <1>4, <1>7
    <3> QED
      BY <3>2, <2>2, <2>3, <1>2 DEF Pending
  <2>4. CASE k # n
    <3>1. p # fr[n].path
      BY <2>2, <2>4, <1>4, <1>5
    <3>2. fr[k].next < i
      BY <2>1, <2>2, <2>4, <1>6
    <3> QED
      BY <3>1, <3>2, <2>2, <1>2 DEF Pending
  <2> QED
    BY <2>3, <2>4
<1>9. ASSUME Pending(fr, p, i), ~(p = fr[n].path /\ i = fr[n].next + 1)
      PROVE  Pending(gr, p, i)
  <2>1. PICK k \in 1 .. n : fr[k].read /\ fr[k].path = p /\ fr[k].next < i
    BY <1>2, <1>9 DEF Pending
  <2>2. gr[k].next < i
    <3>1. CASE k = n
      <4>1. i # fr[n].next + 1 /\ fr[n].next < i
        BY <2>1, <3>1, <1>9
      <4>2. fr[n].next + 1 < i
        BY <4>1, <1>4, <1>7
      <4> QED
        BY <4>2, <3>1, <1>6
    <3>2. CASE k # n
      BY <2>1, <3>2, <1>6
    <3> QED
      BY <3>1, <3>2
  <2>3. k \in 1 .. Len(gr)
    BY <1>4
  <2> QED
    BY <2>1, <2>2, <2>3, <1>6 DEF Pending
<1> QED
  BY <1>2, <1>8, <1>9

LEMMA PushedFollowed ==
    ASSUME NEW pr \in Projects, NEW fr, NEW ps, Calls(pr, fr, ps), NEW gr, PushedTo(pr, fr, gr),
           Followed(pr, fr, ps)
    PROVE  Followed(pr, gr, ps)
<1> SUFFICES ASSUME NEW p \in ToSet(ps), NEW i \in DOMAIN ImportsIn(pr, p)
             PROVE  \/ Pending(gr, p, i)
                    \/ TargetIn(pr, p, i) \in ToSet(ps)
                    \/ ~gr[Len(gr)].read /\ gr[Len(gr)].path = TargetIn(pr, p, i)
  BY DEF Followed
<1>1. \/ Pending(fr, p, i)
      \/ TargetIn(pr, p, i) \in ToSet(ps)
      \/ ~fr[Len(fr)].read /\ fr[Len(fr)].path = TargetIn(pr, p, i)
  BY DEF Followed
<1>2. fr[Len(fr)].read
  BY DEF PushedTo
<1>3. Pending(gr, p, i) <=> /\ Pending(fr, p, i)
                            /\ ~(p = fr[Len(fr)].path /\ i = fr[Len(fr)].next + 1)
  BY PushedPending
<1>4. ~gr[Len(gr)].read
      /\ gr[Len(gr)].path = TargetIn(pr, fr[Len(fr)].path, fr[Len(fr)].next + 1)
  <2>1. Len(gr) = Len(fr) + 1
    BY DEF PushedTo
  <2>2. PICK c : c = gr[Len(fr) + 1]
    OBVIOUS
  <2>3. c = Call(TargetIn(pr, fr[Len(fr)].path, fr[Len(fr)].next + 1),
                 AliasIn(pr, fr[Len(fr)].path, fr[Len(fr)].next + 1))
    BY <2>2 DEF PushedTo
  <2>4. ~c.read /\ c.path = TargetIn(pr, fr[Len(fr)].path, fr[Len(fr)].next + 1)
    BY <2>3, NewCall
  <2> QED
    BY <2>1, <2>2, <2>4
<1> QED
  BY <1>1, <1>2, <1>3, <1>4

LEMMA PushedAskedFor ==
    ASSUME NEW pr \in Projects, NEW fr, NEW ps, Calls(pr, fr, ps), NEW gr, PushedTo(pr, fr, gr),
           AskedFor(pr, fr, ps)
    PROVE  AskedFor(pr, gr, ps)
<1>1. \A p : \A i \in DOMAIN ImportsIn(pr, p) : Pending(gr, p, i) => Pending(fr, p, i)
  BY PushedPending
<1> QED
  BY <1>1 DEF AskedFor

\* The file of an import that no other import names was not loaded before.
LEMMA PushedBrought ==
    ASSUME NEW pr \in Projects, NEW fr, NEW ps, Calls(pr, fr, ps), NEW gr, PushedTo(pr, fr, gr),
           AskedFor(pr, fr, ps), Brought(pr, fr, ps)
    PROVE  Brought(pr, gr, ps)
<1>1. /\ Len(fr) \in Nat /\ Len(fr) >= 1 /\ Len(gr) = Len(fr) + 1
      /\ \A k \in 1 .. Len(fr) :
           /\ gr[k].path = fr[k].path /\ gr[k].alias = fr[k].alias /\ gr[k].read = fr[k].read
           /\ gr[k].imports = fr[k].imports /\ gr[k].funcs = fr[k].funcs
           /\ gr[k].next = IF k = Len(fr) THEN fr[k].next + 1 ELSE fr[k].next
           /\ IsFrame(gr[k]) /\ fr[k].read /\ HasRead(pr, ps, fr[k])
      /\ LET f == fr[Len(fr)]
             c == gr[Len(fr) + 1]
         IN /\ f.next < Len(f.imports) /\ f.next \in Nat
            /\ IsFrame(c) /\ ~c.read /\ c.next = 0 /\ c.funcs = <<>>
            /\ c.path = TargetIn(pr, f.path, f.next + 1)
            /\ c.alias = AliasIn(pr, f.path, f.next + 1)
  BY CallsBelow
<1>2. SUFFICES ASSUME NEW p \in ToSet(ps), NEW i \in DOMAIN ImportsIn(pr, p),
                      Brings(pr, ps, p, i), ~Pending(gr, p, i)
      PROVE  \/ \A name \in NamesOf(pr, p, i) : \E k \in 1 .. Len(gr) : HasName(gr[k].funcs, name)
             \/ \E k \in 2 .. Len(gr) : /\ gr[k - 1].path = p /\ gr[k - 1].next = i
                                        /\ gr[k].read \/ TargetIn(pr, p, i) \notin ToSet(ps)
  BY DEF Brought
<1>3. Pending(gr, p, i) <=> /\ Pending(fr, p, i)
                            /\ ~(p = fr[Len(fr)].path /\ i = fr[Len(fr)].next + 1)
  BY PushedPending
<1>4. CASE ~Pending(fr, p, i)
  <2>1. \/ \A name \in NamesOf(pr, p, i) : \E k \in 1 .. Len(fr) : HasName(fr[k].funcs, name)
        \/ \E k \in 2 .. Len(fr) : /\ fr[k - 1].path = p /\ fr[k - 1].next = i
                                   /\ fr[k].read \/ TargetIn(pr, p, i) \notin ToSet(ps)
    BY <1>2, <1>4 DEF Brought
  <2>2. CASE \A name \in NamesOf(pr, p, i) : \E k \in 1 .. Len(fr) : HasName(fr[k].funcs, name)
    <3>1. \A k \in 1 .. Len(fr) : k \in 1 .. Len(gr) /\ gr[k].funcs = fr[k].funcs
      BY <1>1
    <3> QED
      BY <2>2, <3>1
  <2>3. ASSUME NEW k \in 2 .. Len(fr), fr[k - 1].path = p, fr[k - 1].next = i,
               fr[k].read \/ TargetIn(pr, p, i) \notin ToSet(ps)
        PROVE  /\ k \in 2 .. Len(gr) /\ gr[k - 1].path = p /\ gr[k - 1].next = i
               /\ gr[k].read \/ TargetIn(pr, p, i) \notin ToSet(ps)
    <3>1. k \in 1 .. Len(fr) /\ k - 1 \in 1 .. Len(fr) /\ k - 1 # Len(fr) /\ k \in 2 .. Len(gr)
      BY <1>1
    <3> QED
      BY <3>1, <2>3, <1>1
  <2> QED
    BY <2>1, <2>2, <2>3
<1>5. CASE Pending(fr, p, i)
  <2>1. p = fr[Len(fr)].path /\ i = fr[Len(fr)].next + 1
    BY <1>2, <1>3, <1>5
  <2>2. TargetIn(pr, p, i) \notin ToSet(ps)
    <3> SUFFICES ASSUME TargetIn(pr, p, i) \in ToSet(ps) PROVE FALSE
      OBVIOUS
    <3>1. PICK q \in ToSet(ps) : \E j \in DOMAIN ImportsIn(pr, q) :
            TargetIn(pr, q, j) = TargetIn(pr, p, i) /\ ~Pending(fr, q, j)
      BY <1>2 DEF AskedFor, Brings
    <3>2. PICK j \in DOMAIN ImportsIn(pr, q) :
            TargetIn(pr, q, j) = TargetIn(pr, p, i) /\ ~Pending(fr, q, j)
      BY <3>1
    <3>3. q = p /\ j = i
      BY <3>2, <1>2 DEF Brings
    <3> QED
      BY <3>2, <3>3, <1>5
  <2>3. Len(fr) \in 1 .. Len(fr) /\ Len(gr) \in 2 .. Len(gr) /\ Len(gr) - 1 = Len(fr)
    BY <1>1
  <2>4. gr[Len(gr) - 1].path = p /\ gr[Len(gr) - 1].next = i
    BY <2>1, <2>3, <1>1
  <2> QED
    BY <2>2, <2>3, <2>4
<1> QED
  BY <1>4, <1>5

-----------------------------------------------------------------------------
(* A file is read. *)

\* All calls have read their files now, and are otherwise as they were.
LEMMA CallsAfter ==
    ASSUME NEW pr \in Projects, NEW fr, NEW ps, Calls(pr, fr, ps), NEW gr, NEW qs,
           ReadTo(pr, fr, ps, gr, qs)
    PROVE  /\ Len(fr) \in Nat /\ Len(fr) >= 1 /\ Len(gr) = Len(fr)
           /\ \A k \in 1 .. Len(fr) :
                /\ gr[k].path = fr[k].path /\ gr[k].alias = fr[k].alias /\ gr[k].next = fr[k].next
                /\ gr[k].read /\ IsFrame(gr[k]) /\ HasRead(pr, qs, gr[k])
                /\ k # Len(fr) => gr[k].funcs = fr[k].funcs /\ fr[k].read /\ HasRead(pr, ps, fr[k])
           /\ ~fr[Len(fr)].read /\ fr[Len(fr)].next = 0 /\ fr[Len(fr)].funcs = <<>>
           /\ fr[Len(fr)].path \notin ToSet(ps)
           /\ IsSequence(ps) /\ IsSequence(qs) /\ qs = Append(ps, fr[Len(fr)].path)
           /\ ToSet(qs) = ToSet(ps) \cup {fr[Len(fr)].path}
<1>1. PICK n \in Nat : n = Len(fr)
  BY OfItsOwn DEF Calls
<1>2. n >= 1 /\ Len(gr) = n /\ \A k \in 1 .. n - 1 : gr[k] = fr[k]
  BY <1>1 DEF Calls, ReadTo
<1>3. PICK f : f = fr[n]
  OBVIOUS
<1>4. PICK g : g = gr[n]
  OBVIOUS
<1>5. /\ ~f.read /\ f.path \notin ToSet(ps) /\ DOMAIN g = DOMAIN f
      /\ g.path = f.path /\ g.alias = f.alias /\ g.read = TRUE /\ g.next = f.next
      /\ g.imports = ImportsIn(pr, f.path) /\ g.funcs = FuncsIn(pr, f.path)
      /\ qs = Append(ps, f.path)
  BY <1>1, <1>3, <1>4 DEF ReadTo
<1>6. /\ IsSequence(ps) /\ IsSequence(qs) /\ ToSet(qs) = ToSet(ps) \cup {f.path}
  <2>1. IsSequence(ps)
    BY DEF Calls
  <2> QED
    BY <1>5, <2>1, OnePathMore
<1>7. \A k \in 1 .. n : IsFrame(fr[k])
  BY <1>1 DEF Calls
<1>8. \A k \in 1 .. n - 1 : fr[k].read /\ HasRead(pr, ps, fr[k])
  <2>1. \A k \in 1 .. n - 1 : fr[k].read
    BY <1>1 DEF Calls
  <2>2. \A k \in 1 .. n - 1 : k \in 1 .. n
    OBVIOUS
  <2> QED
    BY <2>1, <2>2, <1>1 DEF Calls
<1>9. n \in 1 .. n
  BY <1>2
<1>10. IsFrame(f) /\ f.next = 0 /\ f.funcs = <<>>
  BY <1>1, <1>3, <1>5, <1>7, <1>9 DEF Calls
<1>11. AreNamed(FuncsIn(pr, f.path)) /\ Len(ImportsIn(pr, f.path)) \in Nat
  BY TreesAreTrees
<1>12. AreNamed(g.funcs)
  BY <1>5, <1>11
<1>13. g.read \in BOOLEAN /\ g.next \in Nat
  <2>1. g.next = f.next /\ f.next \in Nat
    BY <1>5, <1>10 DEF IsFrame
  <2> QED
    BY <2>1, <1>5
<1>14. IsFrame(g)
  <2>1. DOMAIN g = FrameFields
    BY <1>5, <1>10 DEF IsFrame
  <2> QED
    BY <2>1, <1>12, <1>13 DEF IsFrame
<1>15. HasRead(pr, qs, g)
  <2>1. g.path \in ToSet(qs)
    BY <1>5, <1>6
  <2>2. g.imports = ImportsIn(pr, g.path)
    BY <1>5
  <2>3. g.next <= Len(g.imports)
    <3>1. g.next = 0
      BY <1>5, <1>10
    <3>2. Len(g.imports) \in Nat
      BY <1>5, <1>11
    <3> QED
      BY <3>1, <3>2
  <2>4. HasAll(g.funcs, FuncsIn(pr, g.path))
    <3>1. HasAll(g.funcs, g.funcs)
      BY DEF HasAll, HasName
    <3>2. FuncsIn(pr, g.path) = g.funcs
      BY <1>5
    <3> QED
      BY <3>1, <3>2
  <2> QED
    BY <2>1, <2>2, <2>3, <2>4 DEF HasRead
<1>16. ASSUME NEW k \in 1 .. n
       PROVE  /\ gr[k].path = fr[k].path /\ gr[k].alias = fr[k].alias /\ gr[k].next = fr[k].next
              /\ gr[k].read /\ IsFrame(gr[k]) /\ HasRead(pr, qs, gr[k])
              /\ k # n => gr[k].funcs = fr[k].funcs /\ fr[k].read /\ HasRead(pr, ps, fr[k])
  <2>1. CASE k = n
    <3>1. g.path = f.path /\ g.alias = f.alias /\ g.next = f.next /\ g.read
      BY <1>5
    <3> QED
      BY <2>1, <3>1, <1>3, <1>4, <1>14, <1>15
  <2>2. CASE k # n
    <3>1. k \in 1 .. n - 1
      BY <2>2
    <3>2. gr[k] = fr[k] /\ fr[k].read /\ HasRead(pr, ps, fr[k]) /\ IsFrame(fr[k])
      BY <3>1, <1>2, <1>7, <1>8
    <3>3. HasRead(pr, qs, fr[k])
      BY <3>2, <1>6 DEF HasRead
    <3> QED
      BY <3>2, <3>3
  <2> QED
    BY <2>1, <2>2
<1> QED
  BY <1>1, <1>2, <1>3, <1>5, <1>6, <1>10, <1>16

LEMMA ReadCalls ==
    ASSUME NEW pr \in Projects, NEW fr, NEW ps, Calls(pr, fr, ps), NEW gr, NEW qs,
           ReadTo(pr, fr, ps, gr, qs)
    PROVE  Calls(pr, gr, qs)
<1>1. PICK n \in Nat : n = Len(fr)
  BY CallsAfter
<1>2. /\ n >= 1 /\ Len(gr) = n
      /\ \A k \in 1 .. n :
           /\ gr[k].path = fr[k].path /\ gr[k].alias = fr[k].alias /\ gr[k].next = fr[k].next
           /\ gr[k].read /\ IsFrame(gr[k]) /\ HasRead(pr, qs, gr[k])
           /\ k # n => gr[k].funcs = fr[k].funcs /\ fr[k].read /\ HasRead(pr, ps, fr[k])
      /\ fr[n].path \notin ToSet(ps)
      /\ IsSequence(qs)
  BY <1>1, CallsAfter
<1>3. \A k \in 1 .. n - 1 : gr[k].next >= 1
  <2>1. \A k \in 1 .. n - 1 : fr[k].next >= 1
    BY <1>1 DEF Calls
  <2> QED
    BY <2>1, <1>2
<1>4. \A k, l \in 1 .. n : gr[k].path = gr[l].path => k = l
  <2>1. \A k, l \in 1 .. n : fr[k].read /\ fr[l].read /\ fr[k].path = fr[l].path => k = l
    BY <1>1 DEF Calls
  <2>2. \A k \in 1 .. n : k # n => fr[k].read /\ fr[k].path # fr[n].path
    BY <1>2 DEF HasRead
  <2> QED
    BY <2>1, <2>2, <1>2
<1>5. gr[1].path = pr.main /\ gr[1].read
  <2>1. fr[1].path = pr.main /\ 1 \in 1 .. n
    BY <1>2 DEF Calls
  <2> QED
    BY <2>1, <1>2
<1>6. ASSUME NEW k \in 2 .. n
      PROVE  /\ gr[k].path = TargetIn(pr, gr[k - 1].path, gr[k - 1].next)
             /\ gr[k].alias = AliasIn(pr, gr[k - 1].path, gr[k - 1].next)
  <2>1. k \in 1 .. n /\ k - 1 \in 1 .. n
    OBVIOUS
  <2>2. /\ fr[k].path = TargetIn(pr, fr[k - 1].path, fr[k - 1].next)
        /\ fr[k].alias = AliasIn(pr, fr[k - 1].path, fr[k - 1].next)
    BY <1>1 DEF Calls
  <2> QED
    BY <2>1, <2>2, <1>2
<1>7. IsSequence(gr)
  BY DEF ReadTo
<1>8. \A k \in 1 .. n - 1 : gr[k].read
  BY <1>2
<1> QED
  BY <1>2, <1>3, <1>4, <1>5, <1>6, <1>7, <1>8 DEF Calls

\* What the files loaded before wait for does not change.
LEMMA ReadPending ==
    ASSUME NEW pr \in Projects, NEW fr, NEW ps, Calls(pr, fr, ps), NEW gr, NEW qs,
           ReadTo(pr, fr, ps, gr, qs), NEW p \in ToSet(ps), NEW i
    PROVE  Pending(gr, p, i) <=> Pending(fr, p, i)
<1>1. PICK n \in Nat : n = Len(fr)
  BY CallsAfter
<1>2. /\ n >= 1 /\ Len(gr) = n
      /\ \A k \in 1 .. n :
           /\ gr[k].path = fr[k].path /\ gr[k].alias = fr[k].alias /\ gr[k].next = fr[k].next
           /\ gr[k].read /\ IsFrame(gr[k]) /\ HasRead(pr, qs, gr[k])
           /\ k # n => gr[k].funcs = fr[k].funcs /\ fr[k].read /\ HasRead(pr, ps, fr[k])
      /\ ~fr[n].read /\ fr[n].path \notin ToSet(ps)
  BY <1>1, CallsAfter
<1>3. ASSUME NEW k \in 1 .. n
      PROVE  gr[k].read /\ gr[k].path = p /\ gr[k].next < i
               <=> fr[k].read /\ fr[k].path = p /\ fr[k].next < i
  <2>1. CASE k = n
    BY <2>1, <1>2
  <2>2. CASE k # n
    BY <2>2, <1>2
  <2> QED
    BY <2>1, <2>2
<1> QED
  BY <1>1, <1>2, <1>3 DEF Pending

\* Who asked for the file that is read: main, or the call before.
LEMMA WhoAsked ==
    ASSUME NEW pr \in Projects, NEW fr, NEW ps, Calls(pr, fr, ps), NEW gr, NEW qs,
           ReadTo(pr, fr, ps, gr, qs)
    PROVE  \/ fr[Len(fr)].path = pr.main /\ ps = <<>>
           \/ \E k \in 1 .. Len(fr) - 1 :
                /\ fr[k].path \in ToSet(ps) /\ fr[k].next \in DOMAIN ImportsIn(pr, fr[k].path)
                /\ fr[Len(fr)].path = TargetIn(pr, fr[k].path, fr[k].next)
                /\ ~Pending(gr, fr[k].path, fr[k].next)
<1>1. PICK n \in Nat : n = Len(fr)
  BY CallsAfter
<1>2. /\ n >= 1 /\ Len(gr) = n
      /\ \A k \in 1 .. n :
           /\ gr[k].path = fr[k].path /\ gr[k].alias = fr[k].alias /\ gr[k].next = fr[k].next
           /\ gr[k].read /\ IsFrame(gr[k]) /\ HasRead(pr, qs, gr[k])
           /\ k # n => gr[k].funcs = fr[k].funcs /\ fr[k].read /\ HasRead(pr, ps, fr[k])
      /\ ~fr[n].read
  BY <1>1, CallsAfter
<1>3. CASE n = 1
  BY <1>1, <1>2, <1>3 DEF Calls
<1>4. CASE n # 1
  <2>1. PICK k \in 1 .. n - 1 : k = n - 1
    BY <1>2, <1>4
  <2>2. k \in 1 .. n /\ k # n
    BY <1>2
  <2>3. HasRead(pr, ps, fr[k]) /\ IsFrame(gr[k]) /\ gr[k].next = fr[k].next
    BY <1>2, <2>2
  <2>4. fr[k].path \in ToSet(ps) /\ fr[k].imports = ImportsIn(pr, fr[k].path)
        /\ fr[k].next <= Len(fr[k].imports)
    BY <2>3 DEF HasRead
  <2>5. fr[k].next >= 1
    BY <1>1 DEF Calls
  <2>6. fr[k].next \in Nat
    BY <2>3 DEF IsFrame
  <2>7. Len(ImportsIn(pr, fr[k].path)) \in Nat
        /\ DOMAIN ImportsIn(pr, fr[k].path) = 1 .. Len(ImportsIn(pr, fr[k].path))
    BY TreesAreTrees
  <2>8. fr[k].next \in DOMAIN ImportsIn(pr, fr[k].path)
    BY <2>4, <2>5, <2>6, <2>7
  <2>9. fr[n].path = TargetIn(pr, fr[k].path, fr[k].next)
    <3>1. n \in 2 .. Len(fr) /\ n - 1 = k
      BY <1>1, <1>2, <1>4, <2>1
    <3>2. \A l \in 2 .. Len(fr) : fr[l].path = TargetIn(pr, fr[l - 1].path, fr[l - 1].next)
      BY DEF Calls
    <3> QED
      BY <3>1, <3>2
  <2>10. ~Pending(gr, fr[k].path, fr[k].next)
    <3>1. Calls(pr, gr, qs)
      BY ReadCalls
    <3>2. \A l \in 1 .. n : gr[l].path = gr[k].path => l = k
      BY <1>2, <2>2, <3>1 DEF Calls
    <3>3. ~(fr[k].next < fr[k].next)
      BY <2>6
    <3> QED
      BY <1>2, <2>2, <2>3, <3>2, <3>3 DEF Pending
  <2> QED
    BY <1>1, <2>4, <2>8, <2>9, <2>10
<1> QED
  BY <1>3, <1>4

LEMMA ReadInOrder ==
    ASSUME NEW pr \in Projects, NEW fr, NEW ps, Calls(pr, fr, ps), NEW gr, NEW qs,
           ReadTo(pr, fr, ps, gr, qs), InOrder(pr, ps)
    PROVE  InOrder(pr, qs)
<1>1. PICK path : path = fr[Len(fr)].path
  OBVIOUS
<1>2. IsSequence(ps) /\ path \notin ToSet(ps) /\ qs = Append(ps, path)
  BY <1>1, CallsAfter
<1>3. PICK m \in Nat : m = Len(ps)
  BY <1>2, OfItsOwn
<1>4. /\ Len(qs) = m + 1 /\ qs[m + 1] = path /\ \A k \in 1 .. m : qs[k] = ps[k]
      /\ DOMAIN ps = 1 .. m
  BY <1>2, <1>3, OnePathMore
<1>5. \A k \in 1 .. m : ps[k] # path /\ ps[k] \in ToSet(ps)
  BY <1>2, <1>4 DEF ToSet
<1>6. \A k \in 1 .. m + 1 : k \in 1 .. m \/ k = m + 1
  OBVIOUS
<1>7. \A i, j \in 1 .. m : ps[i] = ps[j] => i = j
  BY <1>3 DEF InOrder
<1>8. \A i, j \in 1 .. m + 1 : qs[i] = qs[j] => i = j
  BY <1>4, <1>5, <1>6, <1>7
<1>9. \/ path = pr.main /\ m = 0
      \/ m >= 1 /\ \E k \in 1 .. m : \E i \in DOMAIN ImportsIn(pr, ps[k]) :
                     path = TargetIn(pr, ps[k], i)
  <2>1. CASE path = pr.main /\ ps = <<>>
    BY <2>1, <1>3
  <2>2. CASE \E k \in 1 .. Len(fr) - 1 :
                /\ fr[k].path \in ToSet(ps) /\ fr[k].next \in DOMAIN ImportsIn(pr, fr[k].path)
                /\ path = TargetIn(pr, fr[k].path, fr[k].next)
    <3>1. PICK p \in ToSet(ps) : \E i \in DOMAIN ImportsIn(pr, p) : path = TargetIn(pr, p, i)
      BY <2>2
    <3>2. PICK k \in 1 .. m : ps[k] = p
      BY <1>4 DEF ToSet
    <3> QED
      BY <3>1, <3>2
  <2> QED
    BY <2>1, <2>2, <1>1, WhoAsked
<1>10. qs[1] = pr.main
  <2>1. CASE m = 0
    BY <2>1, <1>4, <1>9
  <2>2. CASE m # 0
    <3>1. m >= 1 /\ 1 \in 1 .. m
      BY <2>2
    <3>2. ps[1] = pr.main
      BY <3>1, <1>3 DEF InOrder
    <3> QED
      BY <3>1, <3>2, <1>4
  <2> QED
    BY <2>1, <2>2
<1>11. ASSUME NEW i \in 2 .. m + 1
       PROVE  \E j \in 1 .. i - 1 : \E l \in DOMAIN ImportsIn(pr, qs[j]) :
                qs[i] = TargetIn(pr, qs[j], l)
  <2>1. CASE i = m + 1
    <3>1. m # 0 /\ i - 1 = m
      BY <2>1
    <3>2. PICK k \in 1 .. m : \E l \in DOMAIN ImportsIn(pr, ps[k]) : path = TargetIn(pr, ps[k], l)
      BY <3>1, <1>9
    <3>3. qs[k] = ps[k] /\ k \in 1 .. i - 1 /\ qs[i] = path
      BY <2>1, <3>1, <1>4
    <3> QED
      BY <3>2, <3>3
  <2>2. CASE i # m + 1
    <3>1. i \in 2 .. m /\ i \in 1 .. m
      BY <2>2
    <3>2. PICK j \in 1 .. i - 1 : \E l \in DOMAIN ImportsIn(pr, ps[j]) : ps[i] = TargetIn(pr, ps[j], l)
      BY <3>1, <1>3 DEF InOrder
    <3>3. j \in 1 .. m /\ qs[j] = ps[j] /\ qs[i] = ps[i]
      BY <3>1, <1>4
    <3> QED
      BY <3>2, <3>3
  <2> QED
    BY <2>1, <2>2
<1> QED
  BY <1>4, <1>8, <1>10, <1>11 DEF InOrder

LEMMA ReadFollowed ==
    ASSUME NEW pr \in Projects, NEW fr, NEW ps, Calls(pr, fr, ps), NEW gr, NEW qs,
           ReadTo(pr, fr, ps, gr, qs), Followed(pr, fr, ps)
    PROVE  Followed(pr, gr, qs)
<1>1. PICK n \in Nat : n = Len(fr)
  BY CallsAfter
<1>2. PICK path : path = fr[n].path
  OBVIOUS
<1>3. /\ n \in 1 .. n /\ Len(gr) = n /\ gr[n].path = path /\ gr[n].read /\ gr[n].next = 0
      /\ ToSet(qs) = ToSet(ps) \cup {path}
  <2>1. n >= 1 /\ Len(gr) = n /\ fr[n].next = 0
    BY <1>1, CallsAfter
  <2>2. n \in 1 .. n
    BY <2>1
  <2>3. gr[n].path = fr[n].path /\ gr[n].read /\ gr[n].next = fr[n].next
    BY <1>1, <2>2, CallsAfter
  <2>4. ToSet(qs) = ToSet(ps) \cup {fr[n].path}
    BY <1>1, CallsAfter
  <2> QED
    BY <2>1, <2>2, <2>3, <2>4, <1>2
<1>4. ASSUME NEW p \in ToSet(ps), NEW i \in DOMAIN ImportsIn(pr, p)
      PROVE  Pending(gr, p, i) \/ TargetIn(pr, p, i) \in ToSet(qs)
  <2>1. \/ Pending(fr, p, i) \/ TargetIn(pr, p, i) \in ToSet(ps) \/ path = TargetIn(pr, p, i)
    BY <1>1, <1>2 DEF Followed
  <2>2. Pending(fr, p, i) => Pending(gr, p, i)
    BY ReadPending
  <2> QED
    BY <2>1, <2>2, <1>3
<1>5. ASSUME NEW i \in DOMAIN ImportsIn(pr, path) PROVE Pending(gr, path, i)
  <2>1. i \in Nat /\ i >= 1
    BY TreesAreTrees
  <2>2. gr[n].next < i
    BY <2>1, <1>3
  <2> QED
    BY <2>2, <1>3 DEF Pending
<1> QED
  BY <1>3, <1>4, <1>5 DEF Followed

LEMMA ReadAskedFor ==
    ASSUME NEW pr \in Projects, NEW fr, NEW ps, Calls(pr, fr, ps), NEW gr, NEW qs,
           ReadTo(pr, fr, ps, gr, qs), AskedFor(pr, fr, ps)
    PROVE  AskedFor(pr, gr, qs)
<1>1. PICK path : path = fr[Len(fr)].path
  OBVIOUS
<1>2. ToSet(qs) = ToSet(ps) \cup {path}
  BY <1>1, CallsAfter
<1>3. ASSUME NEW t \in ToSet(ps), t # pr.main
      PROVE  \E p \in ToSet(qs) : \E i \in DOMAIN ImportsIn(pr, p) :
               TargetIn(pr, p, i) = t /\ ~Pending(gr, p, i)
  <2>1. PICK p \in ToSet(ps) : \E i \in DOMAIN ImportsIn(pr, p) :
          TargetIn(pr, p, i) = t /\ ~Pending(fr, p, i)
    BY <1>3 DEF AskedFor
  <2>2. PICK i \in DOMAIN ImportsIn(pr, p) : TargetIn(pr, p, i) = t /\ ~Pending(fr, p, i)
    BY <2>1
  <2>3. ~Pending(gr, p, i)
    BY <2>2, ReadPending
  <2> QED
    BY <2>2, <2>3, <1>2
<1>4. ASSUME path # pr.main
      PROVE  \E p \in ToSet(qs) : \E i \in DOMAIN ImportsIn(pr, p) :
               TargetIn(pr, p, i) = path /\ ~Pending(gr, p, i)
  <2>1. PICK k \in 1 .. Len(fr) - 1 :
                /\ fr[k].path \in ToSet(ps) /\ fr[k].next \in DOMAIN ImportsIn(pr, fr[k].path)
                /\ path = TargetIn(pr, fr[k].path, fr[k].next)
                /\ ~Pending(gr, fr[k].path, fr[k].next)
    BY <1>1, <1>4, WhoAsked
  <2> QED
    BY <2>1, <1>2
<1> QED
  BY <1>2, <1>3, <1>4 DEF AskedFor

LEMMA ReadBrought ==
    ASSUME NEW pr \in Projects, NEW fr, NEW ps, Calls(pr, fr, ps), NEW gr, NEW qs,
           ReadTo(pr, fr, ps, gr, qs), Brought(pr, fr, ps)
    PROVE  Brought(pr, gr, qs)
<1>1. PICK n \in Nat : n = Len(fr)
  BY CallsAfter
<1>2. PICK path : path = fr[n].path
  OBVIOUS
<1>3. /\ n >= 1 /\ Len(gr) = n
      /\ \A k \in 1 .. n :
           /\ gr[k].path = fr[k].path /\ gr[k].alias = fr[k].alias /\ gr[k].next = fr[k].next
           /\ gr[k].read /\ IsFrame(gr[k]) /\ HasRead(pr, qs, gr[k])
           /\ k # n => gr[k].funcs = fr[k].funcs /\ fr[k].read /\ HasRead(pr, ps, fr[k])
      /\ fr[n].next = 0 /\ fr[n].funcs = <<>>
      /\ ToSet(qs) = ToSet(ps) \cup {path}
  BY <1>1, <1>2, CallsAfter
<1>4. SUFFICES ASSUME NEW p \in ToSet(qs), NEW i \in DOMAIN ImportsIn(pr, p),
                      Brings(pr, qs, p, i), ~Pending(gr, p, i)
      PROVE  \/ \A name \in NamesOf(pr, p, i) : \E k \in 1 .. Len(gr) : HasName(gr[k].funcs, name)
             \/ \E k \in 2 .. Len(gr) : /\ gr[k - 1].path = p /\ gr[k - 1].next = i
                                        /\ gr[k].read \/ TargetIn(pr, p, i) \notin ToSet(qs)
  BY DEF Brought
<1>5. p \in ToSet(ps)
  <2> SUFFICES ASSUME p = path PROVE FALSE
    BY <1>3
  <2>1. i \in Nat /\ i >= 1
    BY TreesAreTrees
  <2>2. n \in 1 .. n /\ gr[n].next < i /\ gr[n].read /\ gr[n].path = p
    BY <2>1, <1>2, <1>3
  <2> QED
    BY <2>2, <1>3, <1>4 DEF Pending
<1>6. Brings(pr, ps, p, i)
  BY <1>3, <1>4 DEF Brings
<1>7. ~Pending(fr, p, i)
  BY <1>4, <1>5, ReadPending
<1>8. \/ \A name \in NamesOf(pr, p, i) : \E k \in 1 .. n : HasName(fr[k].funcs, name)
      \/ \E k \in 2 .. n : fr[k - 1].path = p /\ fr[k - 1].next = i
  BY <1>1, <1>5, <1>6, <1>7 DEF Brought
<1>9. ASSUME NEW name, NEW k \in 1 .. n, HasName(fr[k].funcs, name)
      PROVE  HasName(gr[k].funcs, name)
  <2>1. CASE k = n
    <3>1. PICK d : d = fr[n].funcs
      OBVIOUS
    <3>2. DOMAIN d = {}
      BY <1>3, <3>1
    <3>3. HasName(d, name)
      BY <2>1, <3>1, <1>9
    <3> QED
      BY <3>2, <3>3 DEF HasName
  <2>2. CASE k # n
    BY <2>2, <1>3, <1>9
  <2> QED
    BY <2>1, <2>2
<1>10. CASE \A name \in NamesOf(pr, p, i) : \E k \in 1 .. n : HasName(fr[k].funcs, name)
  BY <1>3, <1>9, <1>10
<1>11. ASSUME NEW k \in 2 .. n, fr[k - 1].path = p, fr[k - 1].next = i
       PROVE  gr[k - 1].path = p /\ gr[k - 1].next = i /\ gr[k].read
  <2>1. k - 1 \in 1 .. n /\ k \in 1 .. n
    OBVIOUS
  <2> QED
    BY <2>1, <1>3, <1>11
<1> QED
  BY <1>3, <1>8, <1>10, <1>11

-----------------------------------------------------------------------------
(* The steps of the compiler. *)

\* The first call is through: nothing is pending and no other call goes on.
LEMMA AllLoaded ==
    ASSUME NEW pr \in Projects, NEW fr, NEW ps, Going(pr, fr, ps), Len(fr) = 1,
           fr[1].read, fr[1].next = Len(fr[1].imports)
    PROVE  Loaded(pr, ps, fr[1].funcs)
<1>1. HasRead(pr, ps, fr[1]) /\ IsSequence(ps)
  BY DEF Going, Calls
<1>2. fr[1].path \in ToSet(ps) /\ fr[1].imports = ImportsIn(pr, fr[1].path)
  BY <1>1 DEF HasRead
<1>3. Len(ps) >= 1
  <2>1. Len(ps) \in Nat /\ DOMAIN ps = 1 .. Len(ps)
    BY <1>1, OfItsOwn
  <2>2. \E k : k \in DOMAIN ps
    BY <1>2 DEF ToSet
  <2> QED
    BY <2>1, <2>2
<1>4. ASSUME NEW p, NEW i \in DOMAIN ImportsIn(pr, p) PROVE ~Pending(fr, p, i)
  <2> SUFFICES ASSUME fr[1].path = p, fr[1].next < i PROVE FALSE
    BY DEF Pending
  <2>1. fr[1].next = Len(ImportsIn(pr, p))
    BY <1>2
  <2>2. Len(ImportsIn(pr, p)) \in Nat /\ i \in 1 .. Len(ImportsIn(pr, p))
    BY TreesAreTrees
  <2> QED
    BY <2>1, <2>2
<1>5. \A p \in ToSet(ps) : \A i \in DOMAIN ImportsIn(pr, p) : TargetIn(pr, p, i) \in ToSet(ps)
  BY <1>4 DEF Going, Followed
<1>6. ASSUME NEW p \in ToSet(ps), NEW i \in DOMAIN ImportsIn(pr, p), Brings(pr, ps, p, i),
             NEW name \in NamesOf(pr, p, i)
      PROVE  HasName(fr[1].funcs, name)
  <2>1. ~\E k \in 2 .. Len(fr) : /\ fr[k - 1].path = p /\ fr[k - 1].next = i
                                 /\ fr[k].read \/ TargetIn(pr, p, i) \notin ToSet(ps)
    OBVIOUS
  <2>2. \E k \in 1 .. Len(fr) : HasName(fr[k].funcs, name)
    BY <1>4, <1>6, <2>1 DEF Going, Brought
  <2> QED
    BY <2>2
<1> QED
  BY <1>1, <1>3, <1>5, <1>6 DEF Loaded, Going

LEMMA PoppedGoing ==
    ASSUME NEW pr \in Projects, NEW fr, NEW ps, Going(pr, fr, ps), NEW gr, PoppedTo(fr, gr),
           HasEnded(ps, fr[Len(fr)])
    PROVE  Going(pr, gr, ps)
BY PoppedCalls, PoppedFollowed, PoppedAskedFor, PoppedBrought DEF Going

LEMMA PushedGoing ==
    ASSUME NEW pr \in Projects, NEW fr, NEW ps, Going(pr, fr, ps), NEW gr, PushedTo(pr, fr, gr)
    PROVE  Going(pr, gr, ps)
BY PushedCalls, PushedFollowed, PushedAskedFor, PushedBrought DEF Going

LEMMA ReadGoing ==
    ASSUME NEW pr \in Projects, NEW fr, NEW ps, Going(pr, fr, ps), NEW gr, NEW qs,
           ReadTo(pr, fr, ps, gr, qs)
    PROVE  Going(pr, gr, qs)
BY ReadCalls, ReadInOrder, ReadFollowed, ReadAskedFor, ReadBrought DEF Going

\* The innermost call.
LEMMA TopCall ==
    ASSUME Going(project, frames, parsed)
    PROVE  /\ Top = frames[Len(frames)] /\ Len(frames) \in Nat /\ Len(frames) >= 1
           /\ IsSequence(frames) /\ IsFrame(Top)
           /\ Len(frames) >= 2 => IsFrame(frames[Len(frames) - 1])
<1>1. IsSequence(frames) /\ Len(frames) >= 1 /\ \A k \in 1 .. Len(frames) : IsFrame(frames[k])
  BY DEF Going, Calls
<1>2. Len(frames) \in Nat
  BY <1>1, OfItsOwn
<1> QED
  BY <1>1, <1>2 DEF Top, Last

LEMMA GivenBack ==
    ASSUME Going(project, frames, parsed), GiveBack(Top), Len(frames) # 1
    PROVE  PoppedTo(frames, frames')
<1>1. /\ Top = frames[Len(frames)] /\ IsSequence(frames)
  BY TopCall
<1>2. PICK n \in Nat : n = Len(frames)
  BY TopCall
<1>3. n >= 2
  BY <1>2, TopCall
<1>4. PICK f : f = frames[n - 1]
  OBVIOUS
<1>5. IsFrame(f)
  BY <1>2, <1>3, <1>4, TopCall
<1>6. PICK g : g = [f EXCEPT !.funcs = @ \o Handed(Top.funcs, Top.alias),
                             !.externals = @ \o Handed(Top.externals, Top.alias)]
  OBVIOUS
<1>7. PICK s : s = SubSeq(frames, 1, n - 2)
  OBVIOUS
<1>8. frames' = Append(s, g)
  BY <1>2, <1>4, <1>6, <1>7 DEF GiveBack
<1>9. IsSequence(s) /\ Len(s) = n - 2 /\ \A k \in 1 .. n - 2 : s[k] = frames[k]
  <2>1. n - 2 \in Nat /\ n - 2 <= Len(frames)
    BY <1>2, <1>3
  <2> QED
    BY <2>1, <1>1, <1>7, TheFirst
<1>10. /\ IsSequence(frames') /\ Len(frames') = (n - 2) + 1 /\ frames'[(n - 2) + 1] = g
       /\ \A k \in 1 .. n - 2 : frames'[k] = frames[k]
  BY <1>8, <1>9, OneMore
<1>11. /\ DOMAIN g = DOMAIN f
       /\ g.path = f.path /\ g.alias = f.alias /\ g.read = f.read
       /\ g.imports = f.imports /\ g.next = f.next
  BY <1>5, <1>6 DEF IsFrame, FrameFields
<1>12. g.funcs = f.funcs \o Handed(Top.funcs, Top.alias)
  BY <1>5, <1>6 DEF IsFrame, FrameFields
<1>13. (n - 2) + 1 = n - 1
  OBVIOUS
<1> QED
  BY <1>1, <1>2, <1>3, <1>4, <1>10, <1>11, <1>12, <1>13 DEF PoppedTo

LEMMA ImportBegun ==
    ASSUME Going(project, frames, parsed), ImportNext
    PROVE  PushedTo(project, frames, frames')
<1>1. /\ Top = frames[Len(frames)] /\ IsSequence(frames)
  BY TopCall
<1>2. PICK n \in Nat : n = Len(frames)
  BY TopCall
<1>3. n >= 1
  BY <1>2, TopCall
<1>4. PICK f : f = frames[n]
  OBVIOUS
<1>5. IsFrame(f) /\ f = Top /\ f.read /\ f.next < Len(f.imports)
  BY <1>1, <1>2, <1>4, TopCall DEF ImportNext
<1>6. PICK g : g = [f EXCEPT !.next = @ + 1]
  OBVIOUS
<1>7. PICK s : s = [frames EXCEPT ![n].next = @ + 1]
  OBVIOUS
<1>8. s = [frames EXCEPT ![n] = g]
  BY <1>4, <1>6, <1>7
<1>9. IsSequence(s) /\ Len(s) = n /\ s[n] = g /\ \A k \in 1 .. n : k # n => s[k] = frames[k]
  <2>1. n \in 1 .. Len(frames)
    BY <1>2, <1>3
  <2>2. IsSequence(s) /\ Len(s) = Len(frames) /\ s[n] = g
    BY <1>1, <1>8, <2>1, AnotherOne
  <2>3. \A k \in 1 .. Len(frames) : k # n => s[k] = frames[k]
    BY <1>1, <1>8, <2>1, AnotherOne
  <2> QED
    BY <1>2, <2>2, <2>3
<1>10. PICK c : c = Call(TargetIn(project, f.path, f.next + 1), AliasIn(project, f.path, f.next + 1))
  OBVIOUS
<1>11. f.imports = ImportsIn(project, f.path)
  <2>1. n \in 1 .. n
    BY <1>3
  <2>2. \A k \in 1 .. n : frames[k].read => HasRead(project, parsed, frames[k])
    BY <1>2 DEF Going, Calls
  <2>3. HasRead(project, parsed, f)
    BY <2>1, <2>2, <1>4, <1>5
  <2> QED
    BY <2>3 DEF HasRead
<1>12. frames' = Append(s, c)
  BY <1>2, <1>5, <1>7, <1>10, <1>11 DEF ImportNext, TargetIn, AliasIn
<1>13. /\ IsSequence(frames') /\ Len(frames') = n + 1 /\ frames'[n + 1] = c
       /\ \A k \in 1 .. n : frames'[k] = s[k]
  BY <1>9, <1>12, OneMore
<1>14. /\ DOMAIN g = DOMAIN f
       /\ g.path = f.path /\ g.alias = f.alias /\ g.read = f.read
       /\ g.imports = f.imports /\ g.funcs = f.funcs
  BY <1>5, <1>6 DEF IsFrame, FrameFields
<1>15. g.next = f.next + 1
  BY <1>5, <1>6 DEF IsFrame, FrameFields
<1>16. frames'[n] = g /\ \A k \in 1 .. n - 1 : frames'[k] = frames[k]
  BY <1>3, <1>9, <1>13
<1> QED
  BY <1>2, <1>4, <1>5, <1>10, <1>13, <1>14, <1>15, <1>16 DEF PushedTo

LEMMA FileRead ==
    ASSUME LoadInv, ReadModule, ReadFile(ReadFileContent(Top.path)).why = "none"
    PROVE  ReadTo(project, frames, parsed, frames', parsed')
<1>1. stage = "loading" /\ Going(project, frames, parsed)
  BY DEF ReadModule, LoadInv
<1>2. /\ Top = frames[Len(frames)] /\ IsSequence(frames)
  BY <1>1, TopCall
<1>3. PICK n \in Nat : n = Len(frames)
  BY <1>1, TopCall
<1>4. n \in 1 .. Len(frames)
  BY <1>1, <1>3, TopCall
<1>5. PICK f : f = frames[n]
  OBVIOUS
<1>6. IsFrame(f) /\ f = Top /\ ~f.read
  BY <1>1, <1>2, <1>3, <1>5, TopCall DEF ReadModule
<1>7. f.path \notin ToSet(parsed) /\ parsed' = Append(parsed, f.path)
  BY <1>6 DEF ReadModule, HasParsed, Contains, ToSet
<1>8. PICK tree : tree = TreeIn(project, f.path)
  OBVIOUS
<1>9. tree = ReadFile(ReadFileContent(Top.path)).tree
  BY <1>6, <1>8 DEF TreeIn, ReadFileContent
<1>10. PICK g : g = [f EXCEPT !.read = TRUE, !.imports = tree.imports,
                              !.funcs = tree.funcs, !.externals = tree.externals]
  OBVIOUS
<1>11. frames' = [frames EXCEPT ![n] = g]
  <2>1. Take(ReadFile(ReadFileContent(Top.path)))
    BY DEF ReadModule
  <2>2. frames' = [frames EXCEPT ![Len(frames)] =
                     [@ EXCEPT !.read = TRUE, !.imports = tree.imports,
                               !.funcs = tree.funcs, !.externals = tree.externals]]
    BY <1>9, <2>1 DEF Take
  <2> QED
    BY <1>3, <1>5, <1>10, <2>2
<1>12. IsSequence(frames') /\ Len(frames') = Len(frames) /\ frames'[n] = g
  <2>1. PICK fr : fr = frames'
    OBVIOUS
  <2>2. IsSequence(fr) /\ Len(fr) = Len(frames)
    BY <1>2, <1>4, <1>11, <2>1, AnotherOne
  <2>3. fr[n] = g
    BY <1>2, <1>4, <1>11, <2>1, AnotherOne
  <2> QED
    BY <2>1, <2>2, <2>3
<1>13. \A k \in 1 .. Len(frames) : k # n => frames'[k] = frames[k]
  BY <1>2, <1>4, <1>11, AnotherOne
<1>14. \A k \in 1 .. n - 1 : frames'[k] = frames[k]
  BY <1>3, <1>13
<1>15. /\ DOMAIN g = DOMAIN f
       /\ g.path = f.path /\ g.alias = f.alias /\ g.next = f.next
  BY <1>6, <1>10 DEF IsFrame, FrameFields
<1>16. g.read = TRUE
  BY <1>6, <1>10 DEF IsFrame, FrameFields
<1>17. g.imports = ImportsIn(project, f.path) /\ g.funcs = FuncsIn(project, f.path)
  BY <1>6, <1>8, <1>10 DEF IsFrame, FrameFields, ImportsIn, FuncsIn
<1> QED
  BY <1>3, <1>5, <1>6, <1>7, <1>12, <1>14, <1>15, <1>16, <1>17 DEF ReadTo

-----------------------------------------------------------------------------
(* The invariant holds, and it is what LoadedOnce says in the end. *)

LEMMA LoadBegins ==
    ASSUME LoadInit
    PROVE  LoadInv
<1>1. PICK c : c = Call(project.main, "")
  OBVIOUS
<1>2. PICK fr : fr = frames
  OBVIOUS
<1>3. PICK ps : ps = parsed
  OBVIOUS
<1>4. fr = <<c>> /\ ps = <<>> /\ project \in Projects /\ stage = "loading" /\ program = NoProgram
  BY <1>1, <1>2, <1>3 DEF LoadInit
<1>5. IsFrame(c) /\ c.path = project.main /\ ~c.read /\ c.next = 0 /\ c.funcs = <<>>
  <2>1. PICK none : none = ""
    OBVIOUS
  <2>2. c = Call(project.main, none)
    BY <1>1, <2>1
  <2> QED
    BY <2>2, NewCall
<1>6. IsSequence(fr) /\ Len(fr) = 1 /\ fr[1] = c
  <2>1. fr \in Seq({c})
    BY <1>4
  <2> QED
    BY <2>1, <1>4, OfAnything
<1>7. IsSequence(ps) /\ Len(ps) = 0 /\ ToSet(ps) = {}
  <2>1. ps \in Seq({}) /\ Len(ps) = 0 /\ DOMAIN ps = {}
    BY <1>4, EmptySeq
  <2> QED
    BY <2>1, OfAnything DEF ToSet
<1>8. \A k \in 1 .. Len(fr) : k = 1
  BY <1>6
<1>9. \A k \in 1 .. Len(fr) - 1 : FALSE
  BY <1>6
<1>10. \A k \in 2 .. Len(fr) : FALSE
  BY <1>6
<1>11. Calls(project, fr, ps)
  <2>1. \A k \in 1 .. Len(fr) : /\ IsFrame(fr[k]) /\ ~fr[k].read
                                /\ fr[k].next = 0 /\ fr[k].funcs = <<>>
    BY <1>5, <1>6, <1>8
  <2>2. fr[1].path = project.main /\ Len(fr) >= 1
    BY <1>5, <1>6
  <2> QED
    BY <1>4, <1>6, <1>7, <1>9, <1>10, <2>1, <2>2 DEF Calls
<1>12. InOrder(project, ps) /\ Followed(project, fr, ps) /\ AskedFor(project, fr, ps)
       /\ Brought(project, fr, ps)
  BY <1>7 DEF InOrder, Followed, AskedFor, Brought
<1>13. "funcs" \in DOMAIN program
  BY <1>4 DEF NoProgram, Program
<1>14. AsRead
  <2>1. PICK ts : ts = trees
    OBVIOUS
  <2>2. ts = <<>>
    BY <2>1 DEF LoadInit
  <2>3. ts \in Seq({}) /\ DOMAIN ts = {}
    BY <2>2, EmptySeq
  <2> QED
    BY <1>3, <1>7, <2>1, <2>3 DEF AsRead
<1> QED
  BY <1>2, <1>3, <1>4, <1>11, <1>12, <1>13, <1>14 DEF LoadInv, Going

LEMMA EndedCall ==
    ASSUME LoadInv, AlreadyParsed \/ ModuleDone
    PROVE  Going(project, frames, parsed) /\ GiveBack(Top) /\ HasEnded(parsed, frames[Len(frames)])
<1>1. Going(project, frames, parsed) /\ GiveBack(Top)
  BY DEF AlreadyParsed, ModuleDone, LoadInv
<1>2. Top = frames[Len(frames)]
  BY <1>1, TopCall
<1>3. HasEnded(parsed, Top)
  BY DEF AlreadyParsed, ModuleDone, HasEnded, HasParsed, Contains, ToSet
<1> QED
  BY <1>1, <1>2, <1>3

LEMMA TreeRead ==
    ASSUME Going(project, frames, parsed), AsRead, ReadModule,
           ReadFile(ReadFileContent(Top.path)).why = "none"
    PROVE  AsRead'
<1>1. PICK tree : tree = ReadFile(ReadFileContent(Top.path)).tree
  OBVIOUS
<1>2. PICK path : path = Top.path
  OBVIOUS
<1>3. tree = TreeIn(project, path)
  BY <1>1, <1>2 DEF TreeIn, ReadFileContent
<1>4. trees' = [p \in DOMAIN trees \cup {path} |-> IF p = path THEN tree ELSE trees[p]]
  BY <1>1, <1>2 DEF ReadModule, Take
<1>5. IsSequence(parsed) /\ parsed' = Append(parsed, path) /\ project' = project
  BY <1>2 DEF Going, Calls, ReadModule
<1>6. ToSet(parsed') = ToSet(parsed) \cup {path}
  BY <1>5, OnePathMore
<1> QED
  BY <1>3, <1>4, <1>5, <1>6 DEF AsRead, TreeIn

LEMMA LoadContinues ==
    ASSUME LoadInv, [LoadNext \/ PassOn]_loadVars
    PROVE  LoadInv'
<1>1. CASE UNCHANGED loadVars
  BY <1>1 DEF LoadInv, loadVars, AsRead, TreeIn
<1>2. CASE PassOn
  BY <1>2 DEF LoadInv, PassOn
<1>3. CASE AlreadyParsed \/ ModuleDone
  <2>1. /\ Going(project, frames, parsed) /\ GiveBack(Top) /\ HasEnded(parsed, frames[Len(frames)])
        /\ project \in Projects /\ project' = project /\ parsed' = parsed /\ stage = "loading"
        /\ "funcs" \in DOMAIN program /\ AsRead /\ trees' = trees
    BY <1>3, EndedCall DEF LoadInv, AlreadyParsed, ModuleDone
  <2>4. AsRead'
    BY <2>1 DEF AsRead, TreeIn
  <2>2. CASE Len(frames) # 1
    <3>1. PoppedTo(frames, frames')
      BY <2>1, <2>2, GivenBack
    <3>2. Going(project, frames', parsed)
      BY <2>1, <3>1, PoppedGoing
    <3>3. stage' = stage /\ program' = program
      BY <1>3, <2>1, <2>2 DEF GiveBack, AlreadyParsed, ModuleDone
    <3> QED
      BY <2>1, <2>4, <3>2, <3>3 DEF LoadInv
  <2>3. CASE Len(frames) = 1
    <3>1. Top = frames[1] /\ stage' = "loaded"
      BY <2>1, <2>3, TopCall DEF GiveBack
    <3>2. frames[1].read
      <4> SUFFICES ASSUME ~frames[1].read PROVE FALSE
        OBVIOUS
      <4>1. parsed = <<>>
        BY <2>1 DEF Going, Calls
      <4>2. frames[1].path \in ToSet(parsed)
        BY <2>1, <2>3 DEF HasEnded
      <4> QED
        BY <4>1, <4>2 DEF ToSet
    <3>3. ModuleDone
      BY <1>3, <3>1, <3>2 DEF AlreadyParsed
    <3>4. program'.funcs = frames[1].funcs
      BY <2>1, <2>3, <3>1, <3>3 DEF ModuleDone
    <3>5. Loaded(project, parsed, frames[1].funcs)
      BY <2>1, <2>3, <3>2, AllLoaded DEF HasEnded
    <3> QED
      BY <2>1, <2>4, <3>1, <3>4, <3>5 DEF LoadInv
  <2> QED
    BY <2>2, <2>3
<1>4. CASE ReadModule
  <2>1. /\ Going(project, frames, parsed) /\ project \in Projects /\ project' = project
        /\ stage = "loading" /\ "funcs" \in DOMAIN program /\ AsRead
        /\ Take(ReadFile(ReadFileContent(Top.path)))
    BY <1>4 DEF LoadInv, ReadModule
  <2>2. CASE ReadFile(ReadFileContent(Top.path)).why = "none"
    <3>1. ReadTo(project, frames, parsed, frames', parsed')
      BY <1>4, <2>2, FileRead
    <3>2. Going(project, frames', parsed')
      BY <2>1, <3>1, ReadGoing
    <3>3. stage' = stage /\ "funcs" \in DOMAIN program'
      BY <2>1, <2>2 DEF Take
    <3>4. AsRead'
      BY <1>4, <2>1, <2>2, TreeRead
    <3> QED
      BY <2>1, <3>2, <3>3, <3>4 DEF LoadInv
  <2>3. CASE ReadFile(ReadFileContent(Top.path)).why # "none"
    BY <2>1, <2>3 DEF Take, End, LoadInv
  <2> QED
    BY <2>2, <2>3
<1>5. CASE ImportNext
  <2>1. /\ Going(project, frames, parsed) /\ project \in Projects /\ project' = project
        /\ stage = "loading" /\ stage' = stage /\ parsed' = parsed /\ program' = program
        /\ "funcs" \in DOMAIN program /\ AsRead /\ trees' = trees
    BY <1>5 DEF LoadInv, ImportNext
  <2>2. PushedTo(project, frames, frames')
    BY <1>5, <2>1, ImportBegun
  <2>3. Going(project, frames', parsed)
    BY <2>1, <2>2, PushedGoing
  <2>4. AsRead'
    BY <2>1 DEF AsRead, TreeIn
  <2> QED
    BY <2>1, <2>3, <2>4 DEF LoadInv
<1> QED
  BY <1>1, <1>2, <1>3, <1>4, <1>5 DEF LoadNext

LEMMA LoadEnds ==
    ASSUME LoadInv
    PROVE  LoadedOnce
<1> SUFFICES ASSUME stage = "loaded"
             PROVE  LoadedOnce
  BY DEF LoadedOnce
<1>1. /\ InOrder(project, parsed) /\ Len(parsed) >= 1 /\ IsSequence(parsed)
      /\ \A p \in ToSet(parsed) : \A i \in DOMAIN ImportsIn(project, p) :
           TargetIn(project, p, i) \in ToSet(parsed)
      /\ \A p \in ToSet(parsed) : \A i \in DOMAIN ImportsIn(project, p) :
           Brings(project, parsed, p, i) =>
             \A name \in NamesOf(project, p, i) : HasName(program.funcs, name)
  BY DEF LoadInv, Loaded
<1>2. /\ DOMAIN trees = ToSet(parsed)
      /\ \A p \in ToSet(parsed) : trees[p] = TreeIn(project, p)
  BY DEF LoadInv, AsRead
<1>3. \A p \in ToSet(parsed) :
        trees[p].imports = ImportsIn(project, p) /\ trees[p].funcs = FuncsIn(project, p)
  BY <1>2 DEF ImportsIn, FuncsIn
<1>4. \A p \in ToSet(parsed) : \A i :
        Target(p, i) = TargetIn(project, p, i) /\ trees[p].imports[i][2] = AliasIn(project, p, i)
  BY <1>3 DEF Target, TargetIn, AliasIn
<1>5. Len(parsed) \in Nat /\ DOMAIN parsed = 1 .. Len(parsed)
  BY <1>1, OfItsOwn
<1>6. IsInjective(parsed) /\ parsed[1] = project.main
  BY <1>1, <1>5 DEF InOrder, IsInjective
<1>7. parsed # <<>>
  BY <1>1
<1>8. ASSUME NEW i \in 2 .. Len(parsed)
      PROVE  \E j \in 1 .. i - 1 : parsed[i] \in Targets(parsed[j])
  <2>1. PICK j \in 1 .. i - 1 : \E m \in DOMAIN ImportsIn(project, parsed[j]) :
          parsed[i] = TargetIn(project, parsed[j], m)
    BY <1>1 DEF InOrder
  <2>2. PICK m \in DOMAIN ImportsIn(project, parsed[j]) : parsed[i] = TargetIn(project, parsed[j], m)
    BY <2>1
  <2>3. parsed[j] \in ToSet(parsed)
    BY <1>5 DEF ToSet
  <2>4. m \in DOMAIN trees[parsed[j]].imports /\ parsed[i] = Target(parsed[j], m)
    BY <1>3, <1>4, <2>2, <2>3
  <2> QED
    BY <2>4 DEF Targets
<1>9. \A p \in DOMAIN trees : Targets(p) \subseteq DOMAIN trees
  BY <1>1, <1>2, <1>3, <1>4 DEF Targets
<1>10. ASSUME NEW p \in DOMAIN trees, NEW i \in DOMAIN trees[p].imports,
              trees[p].imports[i][2] # "",
              Target(p, i) # project.main, IsOnlyImporter(p, i),
              NEW j \in DOMAIN trees[Target(p, i)].funcs
       PROVE  \E k \in DOMAIN program.funcs :
                program.funcs[k].name
                  = NameUnder(trees[p].imports[i][2], trees[Target(p, i)].funcs[j].name)
  <2>1. p \in ToSet(parsed) /\ i \in DOMAIN ImportsIn(project, p)
        /\ AliasIn(project, p, i) # "" /\ TargetIn(project, p, i) # project.main
    BY <1>2, <1>3, <1>4, <1>10
  <2>2. Brings(project, parsed, p, i)
    <3> SUFFICES ASSUME NEW q \in ToSet(parsed), NEW l \in DOMAIN ImportsIn(project, q),
                        TargetIn(project, q, l) = TargetIn(project, p, i)
                 PROVE  q = p /\ l = i
      BY <2>1 DEF Brings
    <3>1. q \in DOMAIN trees /\ l \in DOMAIN trees[q].imports
      BY <1>2, <1>3
    <3>2. Target(q, l) = Target(p, i)
      BY <1>4, <2>1
    <3> QED
      BY <3>1, <3>2, <1>10 DEF IsOnlyImporter
  <2>3. trees[Target(p, i)].funcs = FuncsIn(project, TargetIn(project, p, i))
    BY <1>1, <1>3, <1>4, <2>1
  <2>4. PICK name : name = NameUnder(trees[p].imports[i][2], trees[Target(p, i)].funcs[j].name)
    OBVIOUS
  <2>5. trees[p].imports[i][2] = AliasIn(project, p, i)
    BY <1>4, <2>1
  <2>6. name \in NamesOf(project, p, i)
    BY <1>10, <2>3, <2>4, <2>5 DEF NamesOf
  <2>7. HasName(program.funcs, name)
    BY <1>1, <2>1, <2>2, <2>6
  <2> QED
    BY <2>4, <2>7 DEF HasName
<1> QED
  BY <1>2, <1>6, <1>7, <1>8, <1>9, <1>10 DEF LoadedOnce

\* What a compiler that ends its loading has loaded is what main imports, all of
\* it and none twice, whatever circles the imports make, and it has under its
\* name what an import with a name brought (parse_all_modules).
THEOREM LoadedOnceTheorem == LoadSpec => []LoadedOnce
<1>1. LoadInit => LoadInv
  BY LoadBegins
<1>2. LoadInv /\ [LoadNext \/ PassOn]_loadVars => LoadInv'
  BY LoadContinues
<1>3. LoadInv => LoadedOnce
  BY LoadEnds
<1> QED
  BY <1>1, <1>2, <1>3, PTL DEF LoadSpec
=============================================================================
