---------------------------- MODULE DiskProofs -----------------------------
(***************************************************************************)
(* Proofs about the disk layer, for every set of paths, places and texts.  *)
(***************************************************************************)
EXTENDS Disk, SequenceTheorems, TLAPS

-----------------------------------------------------------------------------
(* Facts about the vocabulary of DiskTypes. *)

\* What a write leaves when it stops early is again a text.
LEMMA CutsAreTexts ==
    ASSUME NEW text \in Seq(Chunk)
    PROVE  Cuts(text) \subseteq Seq(Chunk)
<1> SUFFICES ASSUME NEW n \in 0 .. Len(text) - 1
             PROVE  SubSeq(text, 1, n) \in Seq(Chunk)
  BY DEF Cuts
<1>1. \A i \in 1 .. n : text[i] \in Chunk
  BY ElementOfSeq
<1> QED
  BY <1>1, SubSeqProperties

\* A file, the empty place and a folder are nodes.
LEMMA NodesAreNodes ==
    /\ Nothing \in Node
    /\ Folder \in Node
    /\ \A text \in Seq(Chunk) : File(text) \in Node
BY DEF Node, Nothing, Folder, File

\* Extending a node by a text gives a node.
LEMMA ExtendedIsNode ==
    ASSUME NEW node \in Node, NEW text \in Seq(Chunk)
    PROVE  Extended(node, text) \in Node
<1>1. node.data \o text \in Seq(Chunk)
  BY ConcatProperties DEF Node
<1> QED
  BY <1>1 DEF Extended, File, Node

\* The parts of a request.
LEMMA RequestParts ==
    ASSUME NEW r \in Requests
    PROVE  /\ r.op \in Ops
           /\ r.path \in Paths
           /\ r.to \in Paths
           /\ r.text \in Seq(Chunk)
           /\ r # NoRequest
<1>1. CASE \E op \in Ops \ (Writing \cup {"rename"}), p \in Paths : r = Request(op, p, <<>>, p)
  BY <1>1 DEF Request, Ops, Recovering, Direct, Writing, NoRequest
<1>2. CASE \E op \in Writing, p \in Paths, text \in Texts : r = Request(op, p, text, p)
  BY <1>2, TextsAssumption DEF Request, Ops, Recovering, Direct, Writing, NoRequest
<1>3. CASE \E p \in Paths, q \in Paths : r = Request("rename", p, <<>>, q)
  BY <1>3 DEF Request, Ops, Recovering, Direct, Writing, NoRequest
<1> QED
  BY <1>1, <1>2, <1>3 DEF Requests

\* The texts a host call can leave of the text of a request.
LEMMA AcceptedAreTexts ==
    ASSUME NEW text \in Seq(Chunk)
    PROVE  Accepted(text) \subseteq Seq(Chunk)
BY CutsAreTexts DEF Accepted

-----------------------------------------------------------------------------
(* Type correctness. *)

\* While a request is served it is one of the requests; otherwise there is none.
Busy == at # "idle" <=> request \in Requests

\* The type invariant is inductive together with Busy.
TypeInv == TypeOK /\ Busy

\* The disk starts well typed.
LEMMA InitTypeInv == Init => TypeInv
BY NodesAreNodes, RequestParts
   DEF Init, TypeInv, TypeOK, Busy, Answers, Waiting

\* Every step of the disk keeps the types.
LEMMA StepTypeInv == TypeInv /\ [Next]_vars => TypeInv'
<1> SUFFICES ASSUME TypeInv, [Next]_vars PROVE TypeInv'
  OBVIOUS
<1> USE NodesAreNodes
<1>a. ASSUME at # "idle"
      PROVE  /\ request \in Requests /\ request.path \in Paths /\ request.to \in Paths
             /\ request.text \in Seq(Chunk)
             /\ Final \in Places /\ Staged \in Places /\ request.to \in Places
  BY <1>a, RequestParts, PlacesAssumption DEF TypeInv, Busy, Final, Staged
<1>n. NoRequest \notin Requests /\ <<>> \in Seq(Chunk)
  BY RequestParts
<1>r. ASSUME host' \in [Places -> Node], Return(0, <<>>) \/ Return(1, <<>>) PROVE TypeInv'
  <2>1. request' = NoRequest /\ at' = "idle" /\ answer' \in Answers
    <3>1. Returned(0, <<>>) \in Answers /\ Returned(1, <<>>) \in Answers
      BY <1>n DEF Returned, Answers
    <3> QED BY <1>r, <3>1 DEF Return
  <2> QED
    BY <1>r, <1>n, <2>1 DEF TypeInv, TypeOK, Busy
<1>f. ASSUME Refused PROVE TypeInv'
  BY <1>f, <1>n DEF Return, Returned, Answers, Refused, TypeInv, TypeOK, Busy
<1>1. ASSUME NEW r \in Requests, Call(r) PROVE TypeInv'
  BY <1>1 DEF Call, TypeInv, TypeOK, Busy, Answers, Waiting
<1>2. CASE Recover
  <2>1. CASE RecoverNothing
    BY <2>1 DEF RecoverNothing, Goto, TypeInv, TypeOK, Busy
  <2>2. CASE RecoverStale
    BY <2>2, <1>a, <1>f DEF RecoverStale, Goto, TypeInv, TypeOK, Busy
  <2>3. CASE RecoverOrphan
    BY <2>3, <1>a, <1>f DEF RecoverOrphan, Goto, TypeInv, TypeOK, Busy
  <2> QED BY <1>2, <2>1, <2>2, <2>3 DEF Recover
<1>3. CASE Act
  <2>a. /\ at = "act" /\ request.path \in Paths /\ request.to \in Places
        /\ request.text \in Seq(Chunk) /\ Final \in Places /\ Staged \in Places
        /\ host[Final] \in Node /\ host[Staged] \in Node
    BY <1>3, <1>a DEF Act, ReadFile, Exists, IsFolder, AppendFile, StageText, MakeFolder,
                      Remove, RemoveRefused, Rename, At, TypeInv, TypeOK
  <2>1. CASE ReadFile
    BY <2>1, <2>a, <1>n DEF Return, Returned, Answers, ReadFile, TypeInv, TypeOK, Busy, Node
  <2>2. CASE Exists \/ IsFolder
    BY <2>2, <2>a, <1>r DEF Exists, IsFolder, TypeInv, TypeOK
  <2>3. CASE AppendFile
    <3>1. ASSUME NEW text \in Accepted(request.text),
                 host' = [host EXCEPT ![Final] = Extended(host[Final], text)],
                 Return(1, <<>>)
          PROVE  TypeInv'
      BY <3>1, <2>a, <1>n, AcceptedAreTexts, ExtendedIsNode DEF Return, Returned, Answers, TypeInv, TypeOK, Busy
    <3> QED BY <2>3, <3>1, <1>f DEF AppendFile
  <2>4. CASE StageText
    <3>1. ASSUME NEW text \in Accepted(request.text),
                 host' = [host EXCEPT ![Staged] = File(text)],
                 Goto("install")
          PROVE  TypeInv'
      BY <3>1, <2>a, AcceptedAreTexts DEF Goto, TypeInv, TypeOK, Busy
    <3> QED BY <2>4, <3>1, <1>f DEF StageText
  <2>5. CASE MakeFolder
    BY <2>5, <2>a, <1>r, <1>f DEF MakeFolder, TypeInv, TypeOK
  <2>6. CASE Remove
    BY <2>6, <2>a, <1>n DEF Return, Returned, Answers, Remove, TypeInv, TypeOK, Busy
  <2>7. CASE RemoveRefused
    BY <2>7, <1>f DEF RemoveRefused
  <2>8. CASE Rename
    BY <2>8, <2>a, <1>r, <1>f DEF Rename, TypeInv, TypeOK
  <2> QED BY <1>3, <2>1, <2>2, <2>3, <2>4, <2>5, <2>6, <2>7, <2>8 DEF Act
<1>4. CASE Install
  <2>1. ASSUME at = "install", Goto("clean"), UNCHANGED host PROVE TypeInv'
    BY <2>1 DEF Goto, TypeInv, TypeOK, Busy
  <2> QED BY <1>4, <2>1, <1>a, <1>r DEF Install, TypeInv, TypeOK
<1>5. CASE CleanUp
  BY <1>5, <1>a, <1>r, <1>f DEF CleanUp, TypeInv, TypeOK
<1>6. CASE Crash
  <2>1. host' \in [Places -> Node]
    BY <1>6, <1>a, CutsAreTexts, ExtendedIsNode DEF Crash, At, TypeInv, TypeOK
  <2> QED
    BY <1>6, <2>1, RequestParts DEF Crash, TypeInv, TypeOK, Busy, Answers, Stopped
<1>7. CASE UNCHANGED vars
  BY <1>7 DEF vars, TypeInv, TypeOK, Busy
<1> QED
  BY <1>1, <1>2, <1>3, <1>4, <1>5, <1>6, <1>7 DEF Next

\* The disk layer is type correct, whatever its paths, places and texts are.
THEOREM DiskTypeCorrect == Spec => []TypeOK
<1>1. TypeInv => TypeOK
  BY DEF TypeInv
<1> QED
  BY InitTypeInv, StepTypeInv, <1>1, PTL DEF Spec

-----------------------------------------------------------------------------
(* The discipline of the staging place. *)

\* Which requests reach which of the host calls.
RightStep ==
    /\ at = "recover" => request.op \in Recovering
    /\ at \in {"install", "clean"} => request.op = "write"

\* The inductive invariant behind every result below.
DiskInv == TypeInv /\ RightStep /\ StagingDiscipline

\* At the start nothing is staged and nothing is served.
LEMMA InitDiskInv == Init => DiskInv
BY InitTypeInv DEF Init, DiskInv, RightStep, StagingDiscipline, NoRequest, Request

\* When the host keeps whole texts, every step keeps the discipline.
LEMMA StepDiskInv ==
    ASSUME ShortWrites = FALSE, DiskInv, [Next]_vars
    PROVE  DiskInv'
<1>t. TypeInv'
  BY StepTypeInv DEF DiskInv
<1>a. ASSUME at # "idle" PROVE Final \in Places /\ Staged \in Places
  BY <1>a, RequestParts, PlacesAssumption DEF DiskInv, TypeInv, Busy, Final, Staged
<1>b. host \in [Places -> Node]
  BY DEF DiskInv, TypeInv, TypeOK
<1>i. ASSUME at' = "idle" PROVE DiskInv'
  BY <1>i, <1>t DEF DiskInv, RightStep, StagingDiscipline
<1>f. ASSUME Refused PROVE DiskInv'
  BY <1>f, <1>i DEF Refused, Return
<1>1. ASSUME NEW r \in Requests, Call(r) PROVE DiskInv'
  BY <1>1, <1>t DEF Call, DiskInv, RightStep, StagingDiscipline
<1>2. CASE Recover
  <2>1. CASE Refused
    BY <2>1, <1>f
  <2>2. CASE Goto("act")
    <3>1. Staged' = Staged /\ request' = request /\ at' = "act"
      BY <2>2 DEF Goto, Staged
    <3>2. host'[Staged] = Nothing
      BY <1>2, <2>2, <1>a, <1>b
         DEF Recover, RecoverNothing, RecoverStale, RecoverOrphan, Refused, Return, Goto
    <3> QED BY <3>1, <3>2, <1>t DEF DiskInv, RightStep, StagingDiscipline
  <2> QED BY <1>2, <2>1, <2>2 DEF Recover, RecoverNothing, RecoverStale, RecoverOrphan
<1>3. CASE StageText
  <2>1. ASSUME host' = [host EXCEPT ![Staged] = File(request.text)], Goto("install")
        PROVE  DiskInv'
    BY <2>1, <1>3, <1>a, <1>b, <1>t
       DEF StageText, At, Goto, Staged, DiskInv, RightStep, StagingDiscipline
  <2> QED BY <1>3, <2>1, <1>f DEF StageText, Accepted
<1>4. CASE Install
  <2>1. ASSUME at = "install", Goto("clean"), UNCHANGED host PROVE DiskInv'
    BY <2>1, <1>t DEF Goto, Staged, DiskInv, RightStep, StagingDiscipline
  <2> QED BY <1>4, <2>1, <1>i DEF Install, Return
<1>5. CASE Act /\ ~StageText
  BY <1>5, <1>i DEF Act, ReadFile, Exists, IsFolder, AppendFile, MakeFolder, Remove,
                    RemoveRefused, Rename, Refused, Return
<1>6. CASE CleanUp \/ Crash
  BY <1>6, <1>i DEF CleanUp, Crash, Refused, Return
<1>7. CASE UNCHANGED vars
  BY <1>7, <1>t DEF vars, Staged, DiskInv, RightStep, StagingDiscipline
<1> QED
  BY <1>1, <1>2, <1>3, <1>4, <1>5, <1>6, <1>7 DEF Next

\* When the host keeps whole texts, the staging place always holds what the
\* code of disk_write and disk_recover relies on.
THEOREM StagingDisciplineHolds ==
    ASSUME ShortWrites = FALSE
    PROVE  Spec => []StagingDiscipline
<1>1. DiskInv /\ [Next]_vars => DiskInv'
  BY StepDiskInv
<1>2. DiskInv => StagingDiscipline
  BY DEF DiskInv
<1> QED
  BY InitDiskInv, <1>1, <1>2, PTL DEF Spec

-----------------------------------------------------------------------------
(* Files are replaced whole. *)

\* The only places a step changes are the two places of its request, and for
\* a rename its target.
LEMMA StepsStayAtTheirPlaces ==
    ASSUME DiskInv, Next, NEW x \in Places, host'[x] # host[x]
    PROVE  /\ at # "idle"
           /\ x \in {Final, Staged} \/ (request.op = "rename" /\ x = request.to)
<1>b. host \in [Places -> Node]
  BY DEF DiskInv, TypeInv, TypeOK
<1>1. \A r \in Requests : Call(r) => host' = host
  BY DEF Call
<1>2. Recover \/ Install \/ CleanUp \/ Crash =>
         at # "idle" /\ \/ host' = host
                        \/ \E m : host' = [host EXCEPT ![Staged] = m]
                        \/ \E m : host' = [host EXCEPT ![Final] = m]
                        \/ \E m, n : host' = [host EXCEPT ![Final] = m, ![Staged] = n]
  BY DEF Recover, RecoverNothing, RecoverStale, RecoverOrphan, Install, CleanUp, Crash, Refused
<1>3. Act =>
         at # "idle" /\ \/ host' = host
                        \/ \E m : host' = [host EXCEPT ![Staged] = m]
                        \/ \E m : host' = [host EXCEPT ![Final] = m]
                        \/ /\ request.op = "rename"
                           /\ \E m, n : host' = [host EXCEPT ![request.to] = m, ![Final] = n]
  BY DEF Act, ReadFile, Exists, IsFolder, AppendFile, StageText, MakeFolder, Remove,
         RemoveRefused, Rename, At, Refused
<1> QED
  BY <1>b, <1>1, <1>2, <1>3 DEF Next

\* When no path is the staging place of another and the host keeps whole
\* texts, a file changes only to the whole new text of a write to it, by
\* growing at its end, or by being removed or moved as a whole: no crash, no
\* refusal and no leftover of an earlier write can make it anything else.
LEMMA StepChangesWhole ==
    ASSUME ShortWrites = FALSE, StagesAreHidden, DiskInv, Next
    PROVE  FilesChangeWhole
<1> SUFFICES ASSUME NEW p \in Paths, IsFile(host[p]), host'[p] # host[p]
             PROVE  ChangesWhole(p)
  BY DEF FilesChangeWhole
<1>b. host \in [Places -> Node] /\ p \in Places
  BY PlacesAssumption DEF DiskInv, TypeInv, TypeOK
<1>c. /\ at # "idle"
      /\ p = Final \/ p = Staged \/ (request.op = "rename" /\ p = request.to)
  BY <1>b, StepsStayAtTheirPlaces
<1>d. /\ request \in Requests /\ Final \in Paths /\ Staged \in Places /\ Staged \notin Paths
      /\ request.to \in Paths
  BY <1>c, RequestParts, PlacesAssumption
     DEF DiskInv, TypeInv, Busy, Final, Staged, StagesAreHidden
<1>e. p = Final \/ (request.op = "rename" /\ p = request.to)
  BY <1>c, <1>d
<1>n. ~IsFile(Nothing) /\ host[p] # Nothing
  BY DEF IsFile, Nothing
<1>1. CASE at = "recover"
  <2>1. host'[p] = host[p]
    <3>1. Next => Recover \/ Crash
      BY <1>1 DEF Next, Call, Act, ReadFile, Exists, IsFolder, AppendFile, StageText,
                  MakeFolder, Remove, RemoveRefused, Rename, At, Install, CleanUp
    <3>2. CASE Crash
      BY <3>2, <1>1 DEF Crash, At
    <3>3. CASE Recover
      <4>1. request.op = "rename" /\ p = request.to /\ p # Final => host'[p] = host[p]
        BY <3>3, <1>b, <1>d DEF Recover, RecoverNothing, RecoverStale, RecoverOrphan, Refused
      <4>2. p = Final => host'[p] = host[p]
        BY <3>3, <1>b, <1>d, <1>n
           DEF Recover, RecoverNothing, RecoverStale, RecoverOrphan, Refused
      <4> QED BY <4>1, <4>2, <1>e
    <3> QED BY <3>1, <3>2, <3>3
  <2> QED BY <2>1
<1>2. CASE at = "act"
  <2>1. AppendFile \/ StageText \/ MakeFolder \/ Remove \/ Rename \/ Crash
    BY <1>2 DEF Next, Call, Act, ReadFile, Exists, IsFolder, RemoveRefused, Refused, At,
                Recover, RecoverNothing, RecoverStale, RecoverOrphan, Install, CleanUp
  <2>2. CASE AppendFile
    BY <2>2, <1>b, <1>d, <1>e DEF AppendFile, At, Accepted, ChangesWhole, Refused, Final
  <2>3. CASE StageText
    BY <2>3, <1>b, <1>d, <1>e DEF StageText, At, Refused
  <2>4. CASE MakeFolder
    BY <2>4, <1>b, <1>d, <1>e, <1>n DEF MakeFolder, At, Refused
  <2>5. CASE Remove
    <3>1. request.op # "rename" /\ p = Final
      BY <2>5, <1>e DEF Remove, At
    <3>2. host[p].kind = "file" /\ "file" # "folder"
      BY DEF IsFile
    <3> QED BY <2>5, <3>1, <3>2, <1>b, <1>d DEF Remove, At, ChangesWhole, Final
  <2>6. CASE Rename
    <3>1. CASE p = request.to /\ p = Final
      BY <2>6, <3>1 DEF Rename, Refused
    <3>2. CASE p = request.to /\ p # Final
      BY <2>6, <3>2, <1>b, <1>d, PlacesAssumption DEF Rename, At, Refused, ChangesWhole, Final
    <3>3. CASE p = Final /\ p # request.to
      BY <2>6, <3>3, <1>b, <1>d, PlacesAssumption DEF Rename, At, Refused, ChangesWhole, Final
    <3> QED BY <1>e, <3>1, <3>2, <3>3
  <2>7. CASE Crash
    BY <2>7, <1>2, <1>b, <1>d, <1>e DEF Crash, At, ChangesWhole, Final
  <2> QED BY <2>1, <2>2, <2>3, <2>4, <2>5, <2>6, <2>7
<1>3. CASE at = "install"
  <2>1. /\ host' = [host EXCEPT ![Final] = host[Staged], ![Staged] = Nothing]
        /\ host[Staged] = File(request.text) /\ request.op = "write"
    BY <1>3 DEF Next, Call, Act, ReadFile, Exists, IsFolder, AppendFile, StageText,
                MakeFolder, Remove, RemoveRefused, Rename, At, Install, CleanUp, Crash, Recover,
                RecoverNothing, RecoverStale, RecoverOrphan, DiskInv, RightStep, StagingDiscipline
  <2> QED BY <2>1, <1>b, <1>d, <1>e DEF ChangesWhole, Final
<1>4. CASE at = "clean"
  <2>1. host' = host \/ host' = [host EXCEPT ![Staged] = Nothing]
    BY <1>4 DEF Next, Call, Act, ReadFile, Exists, IsFolder, AppendFile, StageText,
                MakeFolder, Remove, RemoveRefused, Rename, At, Install, CleanUp, Crash, Recover,
                RecoverNothing, RecoverStale, RecoverOrphan, Refused
  <2>2. request.op = "write"
    BY <1>4 DEF DiskInv, RightStep
  <2> QED BY <2>1, <2>2, <1>b, <1>d, <1>e
<1> QED
  BY <1>1, <1>2, <1>3, <1>4, <1>c DEF DiskInv, TypeInv, TypeOK

\* Old or new, as a property of every behaviour.
THEOREM OldOrNewHolds ==
    ASSUME ShortWrites = FALSE, StagesAreHidden
    PROVE  Spec => OldOrNew
<1>1. DiskInv /\ [Next]_vars => DiskInv'
  BY StepDiskInv
<1>2. DiskInv /\ [Next]_vars => [FilesChangeWhole]_vars
  BY StepChangesWhole
<1> QED
  BY InitDiskInv, <1>1, <1>2, PTL DEF Spec, OldOrNew

-----------------------------------------------------------------------------
(* The disk layer implements Store. *)

\* The two modules use the same words.
LEMMA SameWords ==
    /\ Promise!Requests = Requests
    /\ Promise!Recovering = Recovering
    /\ Promise!Nothing = Nothing
    /\ Promise!Folder = Folder
    /\ \A text : Promise!File(text) = File(text)
    /\ \A text : Promise!Cuts(text) = Cuts(text)
    /\ \A node : Promise!IsFile(node) = IsFile(node)
    /\ \A node, text : Promise!Extended(node, text) = Extended(node, text)
BY DEF Promise!Requests, Requests, Promise!Recovering, Recovering, Promise!Nothing, Nothing,
       Promise!Folder, Folder, Promise!File, File, Promise!Cuts, Cuts, Promise!IsFile, IsFile,
       Promise!Extended, Extended, Promise!Writing, Writing, Promise!Direct, Direct,
       Promise!Ops, Ops, Promise!Request, Request

\* What the layers above see of a step that ends a request with a refusal.
LEMMA RefusedIsRefuse ==
    ASSUME DiskInv, at \in {"recover", "act"}, Refused, ~Promise!Denies
    PROVE  Promise!Refuse
BY RequestParts
   DEF DiskInv, TypeInv, Busy, Refused, Return, Promise!Refuse, Promise!Reply, Visible, Limbo,
       NoRequest, Promise!NoRequest, Request, Promise!Request, Returned, Promise!Returned

\* Every step of the disk layer is a step of its promise, or none at all.
LEMMA StepKeepsPromise ==
    ASSUME ShortWrites = FALSE, StagesAreHidden, DiskInv, [Next]_vars
    PROVE  [Promise!Next]_Promise!vars
<1> USE DEF Promise!NoRequest, NoRequest, Request, Promise!Request, Returned, Promise!Returned,
            Waiting, Promise!Waiting, Stopped, Promise!Stopped
<1>b. host \in [Places -> Node]
  BY DEF DiskInv, TypeInv, TypeOK
<1>d. ASSUME at # "idle"
      PROVE  /\ request \in Requests /\ request # NoRequest
             /\ Final \in Paths /\ Staged \in Places /\ Staged \notin Paths
             /\ request.to \in Paths /\ Promise!Here = host[Final]
             /\ \A q \in Paths : q # Final => Staging[q] # Staged
  BY <1>d, RequestParts, PlacesAssumption
     DEF DiskInv, TypeInv, Busy, Final, Staged, StagesAreHidden, Visible, Promise!Here
<1>p. Paths \subseteq Places /\ \A q \in Paths : Staging[q] \in Places /\ Staging[q] \notin Paths
  BY PlacesAssumption DEF StagesAreHidden
<1>s. UNCHANGED <<Visible, Limbo, request, answer>> => [Promise!Next]_Promise!vars
  BY DEF Promise!vars
<1>v. Promise!Serve \/ Promise!Stop => [Promise!Next]_Promise!vars
  BY DEF Promise!Next
<1>t. at \in {"act", "install", "clean"} => Promise!Settled
  BY <1>d, SameWords DEF Promise!Settled, Limbo, DiskInv, StagingDiscipline, Final, Staged
<1>f. ASSUME at \in {"recover", "act"}, Refused, ~Promise!Denies
      PROVE  [Promise!Next]_Promise!vars
  BY <1>f, <1>v, RefusedIsRefuse DEF Promise!Serve
<1>g. at = "act" /\ request.op \notin {"exists", "is_folder"} => ~Promise!Denies
  BY DEF Promise!Denies
<1>1. ASSUME NEW r \in Requests, Call(r) PROVE [Promise!Next]_Promise!vars
  <2>1. UNCHANGED <<Visible, Limbo>>
    BY <1>1 DEF Call, Visible, Limbo
  <2>2. request = NoRequest
    BY <1>1 DEF Call, DiskInv, TypeInv, TypeOK, Busy
  <2>3. Promise!Submit(r)
    BY <1>1, <2>1, <2>2 DEF Call, Promise!Submit
  <2> QED BY <2>3, SameWords DEF Promise!Next
<1>2. CASE RecoverNothing
  BY <1>2, <1>s DEF RecoverNothing, Goto, Visible, Limbo
<1>3. CASE RecoverStale
  <2>1. ASSUME at = "recover", host[Final] # Nothing, Goto("act"),
               host' = [host EXCEPT ![Staged] = Nothing]
        PROVE  Promise!Settle
    <3>1. Visible' = Visible
      BY <2>1, <1>b, <1>d, <1>p DEF Visible
    <3>2. Limbo' = [Limbo EXCEPT ![request.path] = Nothing]
      BY <2>1, <1>b, <1>d, <1>p DEF Limbo, Goto, Final, Staged
    <3>3. request.op \in Recovering
      BY <2>1 DEF DiskInv, RightStep
    <3> QED BY <2>1, <3>1, <3>2, <3>3, <1>d, SameWords DEF Promise!Settle, Goto
  <2>2. ~Promise!Denies
    <3>1. CASE IsFile(host[Final])
      BY <1>3, <3>1, <1>d DEF Promise!Denies, IsFile, RecoverStale
    <3>2. CASE ~IsFile(host[Final])
      <4>1. Limbo[request.path] # Nothing /\ request.op \in Recovering
        BY <1>3, <3>2, <1>d DEF RecoverStale, Limbo, Final, Staged, DiskInv, RightStep
      <4> QED BY <4>1, SameWords DEF Promise!Denies, Promise!Settled, Recovering, Writing
    <3> QED BY <3>1, <3>2
  <2> QED BY <1>3, <2>1, <2>2, <1>f, <1>v DEF RecoverStale, Promise!Serve
<1>4. CASE RecoverOrphan
  <2>1. ASSUME at = "recover", host[Final] = Nothing, Goto("act"),
               host' = [host EXCEPT ![Final] = host[Staged], ![Staged] = Nothing]
        PROVE  Promise!Settle
    <3>1. Visible' = [Visible EXCEPT ![request.path] = Limbo[request.path]]
      <4>1. Limbo[request.path] = host[Staged]
        BY <2>1, <1>d DEF Limbo, Final, Staged, IsFile, Nothing
      <4> QED BY <2>1, <4>1, <1>b, <1>d, <1>p DEF Visible, Final
    <3>2. Limbo' = [Limbo EXCEPT ![request.path] = Nothing]
      BY <2>1, <1>b, <1>d, <1>p DEF Limbo, Goto, Final, Staged
    <3>3. request.op \in Recovering
      BY <2>1 DEF DiskInv, RightStep
    <3> QED BY <2>1, <3>1, <3>2, <3>3, <1>d, SameWords DEF Promise!Settle, Goto
  <2>2. ~Promise!Denies
    BY <1>4, <1>d DEF RecoverOrphan, Promise!Denies, Nothing
  <2> QED BY <1>4, <2>1, <2>2, <1>f, <1>v DEF RecoverOrphan, Promise!Serve
<1>5. CASE ReadFile \/ Exists \/ IsFolder
  <2>1. UNCHANGED <<Visible, Limbo>>
    BY <1>5 DEF ReadFile, Exists, IsFolder, At, Return, Visible, Limbo
  <2>2. at = "act"
    BY <1>5 DEF ReadFile, Exists, IsFolder, At
  <2>3. CASE ReadFile
    BY <1>5, <2>1, <2>2, <2>3, <1>d, <1>t, <1>v, SameWords
       DEF ReadFile, At, Return, Promise!Reply, Promise!Read, Promise!Serve
  <2>4. CASE Exists
    <3>1. CASE host[Final] # Nothing
      BY <2>1, <2>2, <2>4, <3>1, <1>d, <1>t, <1>v, SameWords
         DEF Exists, At, Return, Promise!Reply, Promise!Look, Promise!Serve
    <3>2. CASE host[Final] = Nothing
      BY <2>1, <2>2, <2>4, <3>2, <1>d, <1>v, SameWords
         DEF Exists, At, Return, Promise!Reply, Promise!Refuse, Promise!Denies, Promise!Serve,
             Nothing
    <3> QED BY <3>1, <3>2
  <2>5. CASE IsFolder
    BY <2>1, <2>2, <2>5, <1>d, <1>t, <1>v, SameWords
       DEF IsFolder, At, Return, Promise!Reply, Promise!Look, Promise!Refuse, Promise!Denies,
           Promise!Serve
  <2> QED BY <1>5, <2>3, <2>4, <2>5
<1>6. CASE AppendFile
  <2>1. ASSUME At("append"), host[Final].kind # "folder", Return(1, <<>>),
               host' = [host EXCEPT ![Final] = Extended(host[Final], request.text)]
        PROVE  Promise!AppendText
    <3>1. Visible' = [Visible EXCEPT ![request.path] = Extended(host[Final], request.text)]
      BY <2>1, <1>b, <1>d, <1>p DEF Visible, At, Final
    <3>2. UNCHANGED Limbo
      <4>1. host[Staged] = Nothing
        BY <2>1 DEF At, DiskInv, StagingDiscipline, Recovering, Writing
      <4>2. IsFile(host'[Final])
        BY <2>1, <1>b, <1>d, <1>p DEF IsFile, Extended, File, At
      <4> QED BY <2>1, <4>1, <4>2, <1>b, <1>d, <1>p DEF Limbo, At, Return, Final, Staged
    <3> QED BY <2>1, <3>1, <3>2, <1>d, <1>t, SameWords
            DEF At, Return, Promise!AppendText, Promise!Put, Promise!Reply
  <2> QED BY <1>6, <2>1, <1>f, <1>g, <1>v DEF AppendFile, Accepted, At, Promise!Serve
<1>7. CASE StageText
  <2>1. ASSUME At("write"), Goto("install"),
               host' = [host EXCEPT ![Staged] = File(request.text)]
        PROVE  UNCHANGED <<Visible, Limbo, request, answer>>
    <3>1. host[Staged] = Nothing
      BY <2>1 DEF At, DiskInv, StagingDiscipline, Recovering, Writing
    <3> QED BY <2>1, <3>1, <1>b, <1>d, <1>p DEF Visible, Limbo, At, Goto, Final, Staged
  <2> QED BY <1>7, <2>1, <1>f, <1>g, <1>s DEF StageText, Accepted, At
<1>8. CASE Install
  <2>0. at = "install" /\ request.op = "write" /\ host[Staged] = File(request.text)
    BY <1>8 DEF Install, DiskInv, RightStep, StagingDiscipline
  <2>1. ASSUME host[Final].kind # "folder", Return(1, <<>>),
               host' = [host EXCEPT ![Final] = host[Staged], ![Staged] = Nothing]
        PROVE  Promise!Write
    <3>1. Visible' = [Visible EXCEPT ![request.path] = File(request.text)]
      BY <2>0, <2>1, <1>b, <1>d, <1>p DEF Visible, Final
    <3>2. UNCHANGED Limbo
      <4>1. IsFile(host'[Final])
        BY <2>0, <2>1, <1>b, <1>d, <1>p DEF IsFile, File
      <4> QED BY <2>0, <2>1, <4>1, <1>b, <1>d, <1>p DEF Limbo, Return, Final, Staged
    <3> QED BY <2>0, <2>1, <3>1, <3>2, <1>d, <1>t, SameWords
            DEF Return, Promise!Write, Promise!Put, Promise!Reply
  <2>2. ASSUME Goto("clean"), UNCHANGED host
        PROVE  UNCHANGED <<Visible, Limbo, request, answer>>
    BY <2>0, <2>2 DEF Visible, Limbo, Goto
  <2> QED BY <1>8, <2>1, <2>2, <1>s, <1>v DEF Install, Promise!Serve
<1>9. CASE CleanUp
  <2>0. at = "clean" /\ request.op = "write" /\ host[Staged] = File(request.text)
    BY <1>9 DEF CleanUp, DiskInv, RightStep, StagingDiscipline
  <2>1. ASSUME host' = [host EXCEPT ![Staged] = Nothing], Return(0, <<>>)
        PROVE  Promise!Refuse
    BY <2>0, <2>1, <1>b, <1>d, <1>p
       DEF Visible, Limbo, Return, Final, Staged, Promise!Refuse, Promise!Denies, Promise!Reply
  <2>2. ASSUME Refused
        PROVE  Promise!Refuse \/ Promise!RefuseIntoLimbo
    <3>1. UNCHANGED Visible
      BY <2>2 DEF Refused, Visible
    <3>2. CASE IsFile(host[Final])
      BY <2>0, <2>2, <3>1, <3>2, <1>d, <1>t
         DEF Refused, Return, Limbo, Final, Promise!Refuse, Promise!Denies, Promise!Reply
    <3>3. CASE ~IsFile(host[Final])
      <4>1. Limbo' = [Limbo EXCEPT ![request.path] = File(request.text)]
        BY <2>0, <2>2, <3>3, <1>d DEF Refused, Return, Limbo, Final, Staged
      <4> QED BY <2>0, <2>2, <3>1, <3>3, <4>1, <1>d, <1>t, SameWords
              DEF Refused, Return, Promise!RefuseIntoLimbo, Promise!Reply
    <3> QED BY <3>2, <3>3
  <2> QED BY <1>9, <2>1, <2>2, <1>v DEF CleanUp, Promise!Serve
<1>10. CASE MakeFolder
  <2>1. ASSUME At("make_folder"), host[Final] = Nothing, Return(1, <<>>),
               host' = [host EXCEPT ![Final] = Folder]
        PROVE  Promise!MakeFolder
    <3>1. Visible' = [Visible EXCEPT ![request.path] = Folder]
      BY <2>1, <1>b, <1>d, <1>p DEF Visible, Final
    <3>2. UNCHANGED Limbo
      BY <2>1, <1>b, <1>d, <1>p DEF Limbo, At, Return, Final, IsFile, Nothing, Folder
    <3> QED BY <2>1, <3>1, <3>2, <1>d, SameWords
            DEF At, Return, Promise!MakeFolder, Promise!Put, Promise!Reply
  <2> QED BY <1>10, <2>1, <1>f, <1>g, <1>v DEF MakeFolder, At, Promise!Serve
<1>11. CASE Remove
  <2>0. /\ at = "act" /\ host' = [host EXCEPT ![Final] = Nothing]
        /\ request' = NoRequest /\ at' = "idle"
    BY <1>11 DEF Remove, At, Return
  <2>1. Visible' = [Visible EXCEPT ![request.path] = Nothing]
    BY <2>0, <1>b, <1>d, <1>p DEF Visible, Final
  <2>2. UNCHANGED Limbo
    <3>1. host[Staged] = Nothing \/ ~IsFile(host[Final])
      BY <1>11 DEF Remove, At, IsFile, DiskInv, StagingDiscipline, Recovering
    <3>2. ~IsFile(Nothing)
      BY DEF IsFile, Nothing
    <3> QED BY <2>0, <3>1, <3>2, <1>b, <1>d, <1>p DEF Limbo, Final, Staged
  <2>3. Promise!Remove
    BY <1>11, <2>0, <2>1, <2>2, <1>d, <1>t, SameWords
       DEF Remove, At, Return, Promise!Remove, Promise!Put, Promise!Reply
  <2> QED BY <2>3, <1>v DEF Promise!Serve
<1>12. CASE RemoveRefused
  BY <1>12, <1>f, <1>g DEF RemoveRefused, At
<1>13. CASE Rename
  <2>0. at = "act"
    BY <1>13 DEF Rename, At
  <2>1. ASSUME At("rename"), host[Final] # Nothing, Return(1, <<>>),
               host[request.to].kind \in {"nothing", host[Final].kind},
               host' = IF request.to = Final
                       THEN host
                       ELSE [host EXCEPT ![request.to] = host[Final], ![Final] = Nothing]
        PROVE  Promise!Rename
    <3>0. host[Staged] = Nothing /\ Visible[request.to] = host[request.to]
      BY <2>1, <1>d DEF At, DiskInv, StagingDiscipline, Recovering, Visible
    <3>1. Visible' = IF request.to = request.path
                     THEN Visible
                     ELSE [Visible EXCEPT ![request.path] = Nothing, ![request.to] = host[Final]]
      BY <2>1, <1>b, <1>d, <1>p DEF Visible, At, Final
    <3>2. Limbo' = IF IsFile(host[Final])
                   THEN [Limbo EXCEPT ![request.to] = Nothing]
                   ELSE Limbo
      <4>n. ~IsFile(Nothing)
        BY DEF IsFile, Nothing
      <4>1. CASE request.to = Final
        BY <2>1, <4>1, <1>b, <1>d, <1>p DEF Limbo, At, Return, Final
      <4>2. CASE request.to # Final /\ IsFile(host[Final])
        BY <2>1, <3>0, <4>2, <4>n, <1>b, <1>d, <1>p DEF Limbo, At, Return, Final, Staged
      <4>3. CASE request.to # Final /\ ~IsFile(host[Final])
        <5>1. ~IsFile(host[request.to])
          BY <2>1, <4>3 DEF IsFile
        <5> QED
          BY <2>1, <3>0, <4>3, <5>1, <4>n, <1>b, <1>d, <1>p DEF Limbo, At, Return, Final, Staged
      <4> QED BY <4>1, <4>2, <4>3
    <3> QED BY <2>1, <3>0, <3>1, <3>2, <1>d, <1>t, SameWords
            DEF At, Return, Promise!Rename, Promise!Reply
  <2> QED BY <1>13, <2>0, <2>1, <1>f, <1>g, <1>v DEF Rename, At, Promise!Serve
<1>14. CASE Crash
  <2>0. at # "idle" /\ request' = NoRequest /\ at' = "idle" /\ answer' = Stopped
    BY <1>14 DEF Crash
  <2>1. CASE UNCHANGED host
    <3>1. UNCHANGED Visible
      BY <2>1 DEF Visible
    <3>2. CASE at \in {"install", "clean"} /\ ~IsFile(host[Final])
      <4>1. request.op = "write" /\ host[Staged] = File(request.text)
        BY <3>2 DEF DiskInv, RightStep, StagingDiscipline
      <4>2. Limbo' = [Limbo EXCEPT ![request.path] = File(request.text)]
        BY <2>0, <2>1, <3>2, <4>1, <1>d DEF Limbo, Final, Staged
      <4> QED BY <2>0, <3>1, <3>2, <4>1, <4>2, <1>d, <1>t, <1>v, SameWords DEF Promise!Stop
    <3>3. CASE ~(at \in {"install", "clean"} /\ ~IsFile(host[Final]))
      <4>1. UNCHANGED Limbo
        BY <2>0, <2>1, <3>3, <1>d DEF Limbo, Final
      <4> QED BY <2>0, <3>1, <4>1, <1>d, <1>v DEF Promise!Stop
    <3> QED BY <3>2, <3>3
  <2>2. ASSUME At("write"), NEW text \in Cuts(request.text),
               host' = [host EXCEPT ![Staged] = File(text)]
        PROVE  Promise!Stop
    <3>1. UNCHANGED Visible
      BY <2>2, <1>b, <1>d, <1>p DEF Visible, At
    <3>2. CASE IsFile(host[Final])
      <4>1. UNCHANGED Limbo
        BY <2>0, <2>2, <3>2, <1>b, <1>d, <1>p DEF Limbo, At, Final, Staged
      <4> QED BY <2>0, <3>1, <4>1, <1>d DEF Promise!Stop
    <3>3. CASE ~IsFile(host[Final])
      <4>1. Limbo' = [Limbo EXCEPT ![request.path] = File(text)]
        BY <2>0, <2>2, <3>3, <1>b, <1>d, <1>p DEF Limbo, At, Final, Staged
      <4> QED BY <2>0, <2>2, <3>1, <3>3, <4>1, <1>d, <1>t, SameWords DEF Promise!Stop, At
    <3> QED BY <3>2, <3>3
  <2>3. ASSUME At("append"), host[Final].kind # "folder", NEW text \in Cuts(request.text),
               host' = [host EXCEPT ![Final] = Extended(host[Final], text)]
        PROVE  Promise!Stop
    <3>1. Visible' = [Visible EXCEPT ![request.path] = Extended(host[Final], text)]
      BY <2>3, <1>b, <1>d, <1>p DEF Visible, At, Final
    <3>2. UNCHANGED Limbo
      <4>1. host[Staged] = Nothing
        BY <2>3 DEF At, DiskInv, StagingDiscipline, Recovering, Writing
      <4>2. IsFile(host'[Final])
        BY <2>3, <1>b, <1>d, <1>p DEF IsFile, Extended, File, At
      <4> QED BY <2>0, <2>3, <4>1, <4>2, <1>b, <1>d, <1>p DEF Limbo, At, Final, Staged
    <3> QED BY <2>0, <2>3, <3>1, <3>2, <1>d, <1>t, SameWords DEF Promise!Stop, At
  <2> QED BY <1>14, <2>1, <2>2, <2>3, <1>v DEF Crash
<1>15. CASE UNCHANGED vars
  BY <1>15, <1>s DEF vars, Visible, Limbo
<1> QED
  BY <1>1, <1>2, <1>3, <1>4, <1>5, <1>6, <1>7, <1>8, <1>9, <1>10, <1>11, <1>12, <1>13, <1>14,
     <1>15 DEF Next, Recover, Act

\* The disk layer implements Store: seen from above, every request is atomic.
\* An existing file is never lost or torn by a crash or a refusal; only a text
\* on its way to a path without a file can be left over, whole or cut.
THEOREM DiskImplementsStore ==
    ASSUME ShortWrites = FALSE, StagesAreHidden
    PROVE  Spec => KeepsPromise
<1>1. Init => Promise!Init
  BY PlacesAssumption, SameWords
     DEF Init, Promise!Init, Visible, Limbo, NoRequest, Promise!NoRequest, Request,
         Promise!Request, Waiting, Promise!Waiting
<1>2. DiskInv /\ [Next]_vars => DiskInv'
  BY StepDiskInv
<1>3. DiskInv /\ [Next]_vars => [Promise!Next]_Promise!vars
  BY StepKeepsPromise
<1> QED
  BY InitDiskInv, <1>1, <1>2, <1>3, PTL DEF Spec, KeepsPromise, Promise!Spec
=============================================================================
