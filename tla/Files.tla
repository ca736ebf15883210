------------------------------- MODULE Files -------------------------------
(***************************************************************************)
(* The folders and notes people see (system/kernel/virtual_files.ep, with  *)
(* session_may_write of sessions.ep and the recovery of the_disk.ep), on a *)
(* tree of the host's files.                                               *)
(*                                                                         *)
(* A command is one step: only one person is at the keyboard.  Inside it   *)
(* the disk calls follow one another as in the code, and each may be       *)
(* refused; the machine may stop in the middle of a write.  The staging    *)
(* file of a note is a name like any other, which people can type.         *)
(***************************************************************************)
EXTENDS Naturals, FiniteSets, SequencesExt

CONSTANTS
    Pieces,     \* what the names of files and people are put together from
    People,     \* the people with an account
    Admins,     \* the administrators among them
    Places,     \* bound: the paths the commands are about
    Texts,      \* what a note may say
    MaxThings,  \* bound: nothing is added while there are so many things
    Nobody

ASSUME PeopleAssumption == Admins \subseteq People /\ Nobody \notin People

VARIABLES
    tree,       \* the disk folder of the host: what lives at each path
    session,    \* who is at the keyboard
    saved       \* history: what people were told is there

fileVars == <<tree, session, saved>>

\* A name is the sequence of its pieces, a path the sequence of its names.
Stage(p) == Append(Front(p), Append(Last(p), ".ern-new"))
IsStaged(p) == \E i \in 1 .. Len(p) : Last(p[i]) = ".ern-new"
Parent(p) == Front(p)
Home(person) == <<<<"home">>, person>>

Homes == {<<<<"home">>>>} \cup {Home(person) : person \in People}
Paths == Homes \cup Places \cup {Stage(p) : p \in Places}

\* Names are made of pieces, paths of names; with a place the folders above it
\* are among the paths.
ASSUME PlacesAssumption ==
    /\ {"home", ".ern-new"} \subseteq Pieces
    /\ People \subseteq Seq(Pieces)
    /\ Places \subseteq Seq(Seq(Pieces)) \ {<<>>}
    /\ \A p \in Places : \A k \in 1 .. Len(p) - 1 : SubSeq(p, 1, k) \in Paths

Nothing == [kind |-> "nothing", text |-> "none"]
Folder == [kind |-> "folder", text |-> "none"]
File(text) == [kind |-> "file", text |-> text]
Cut == "cut"    \* the text of an interrupted write
Nodes == {Nothing, Folder} \cup {File(text) : text \in Texts \cup {Cut}}

IsFolder(t, p) == p # <<>> => t[p].kind = "folder"
Inside(t, p) == {q \in Paths : Parent(q) = p /\ t[q] # Nothing}

FileTypeOK ==
    /\ tree \in [Paths -> Nodes] /\ saved \in [Paths -> Nodes]
    /\ session \in People \cup {Nobody}
    /\ \A p \in Paths : tree[p] # Nothing => IsFolder(tree, Parent(p))

FileInit ==
    /\ tree = [p \in Paths |-> IF p \in Homes THEN Folder ELSE Nothing]
    /\ session = Nobody
    /\ saved = tree

-----------------------------------------------------------------------------
(* The host: remove and rename. *)

Without(t, p) == [t EXCEPT ![p] = Nothing]

\* remove() takes files and empty folders.
CanRemove(t, p) == t[p] # Nothing /\ Inside(t, p) = {}

\* A folder moves with everything below it.
Moved(t, p, q) ==
    [r \in Paths |->
        IF IsPrefix(q, r)
        THEN LET from == p \o SubSeq(r, Len(q) + 1, Len(r))
             IN  IF from \in Paths THEN t[from] ELSE Nothing
        ELSE IF IsPrefix(p, r) THEN Nothing ELSE t[r]]

\* The last conjunct keeps what is moved within the bound.
CanRename(t, p, q) ==
    /\ t[p] # Nothing
    /\ ~IsPrefix(p, q)
    /\ IsFolder(t, Parent(q))
    /\ \/ t[q] = Nothing
       \/ t[q].kind = t[p].kind /\ Inside(t, q) = {}
    /\ \A r \in Paths : IsPrefix(p, r) /\ t[r] # Nothing
          => q \o SubSeq(r, Len(p) + 1, Len(r)) \in Paths

Outcome(t, yes) == [tree |-> t, yes |-> yes]

-----------------------------------------------------------------------------
(* the_disk *)

HasStage(t, p) == p \in Places /\ t[Stage(p)] # Nothing

\* disk_recover: what the tree may be afterwards, and what is answered.
Recovered(t, p) ==
    IF ~HasStage(t, p) THEN {Outcome(t, TRUE)}
    ELSE {Outcome(t, FALSE)} \cup
         IF t[p] # Nothing /\ CanRemove(t, Stage(p)) THEN {Outcome(Without(t, Stage(p)), TRUE)}
         ELSE IF t[p] = Nothing /\ CanRename(t, Stage(p), p) THEN {Outcome(Moved(t, Stage(p), p), TRUE)}
         ELSE {}

\* disk_exists, which recovers first.
Exists(t, p) == {Outcome(r.tree, r.yes /\ r.tree[p] # Nothing) : r \in Recovered(t, p)}

-----------------------------------------------------------------------------
(* Who is there, and what they may change. *)

Login(person) == session = Nobody /\ session' = person /\ UNCHANGED <<tree, saved>>

\* Logging out, or the power going off between two disk calls.
Leave == session # Nobody /\ session' = Nobody /\ UNCHANGED <<tree, saved>>

\* Mutant: the fence is the name of the home without a "/" behind it.
MayWriteUnfenced(p) ==
    \/ session \in Admins
    \/ Len(p) > 1 /\ p[1] = <<"home">> /\ IsPrefix(session, p[2])

\* session_may_write: the home itself, or what its path and a "/" begin.
MayWrite(p) ==
    \/ session \in Admins
    \/ IsPrefix(Home(session), p)

\* What is still as people were told.
Kept == [p \in Paths |-> IF tree[p] = saved[p] THEN saved[p] ELSE Nothing]

\* The answers from 2 to 7: nothing was done but the recovery.
Answer(t) == tree' = t /\ saved' = Kept

Done(t, s) == tree' = t /\ saved' = s

Room == Cardinality({p \in Paths : tree[p] # Nothing}) < MaxThings

-----------------------------------------------------------------------------
(* The commands on a path, once vf_resolve has said which. *)

\* vf_exists and vf_read ask nobody for permission.
VfRead(p) == \E r \in Recovered(tree, p) : Answer(r.tree)

CanHoldNote(p) == MayWrite(p) /\ IsFolder(tree, Parent(p)) /\ ~IsFolder(tree, p)

\* vf_write.  A write that fails at its last move may leave its stage.
VfWrite(p, text) ==
    /\ CanHoldNote(p)
    /\ \E r \in Recovered(tree, p) :
          \/ Answer(r.tree)
          \/ /\ r.yes /\ ~IsFolder(r.tree, p)
             /\ Done([r.tree EXCEPT ![p] = File(text)], [Kept EXCEPT ![p] = File(text)])
          \/ r.yes /\ Answer([r.tree EXCEPT ![Stage(p)] = File(text)])

\* The machine stops while the stage is being written, or before it is moved.
VfWriteStopped(p, text) ==
    /\ CanHoldNote(p)
    /\ \E r \in Recovered(tree, p), left \in {Cut, text} :
          r.yes /\ Answer([r.tree EXCEPT ![Stage(p)] = File(left)])
    /\ session' = Nobody

VfMakeFolder(p) ==
    /\ MayWrite(p)
    /\ \E e \in Exists(tree, p) :
          \/ Answer(e.tree)
          \/ /\ ~e.yes /\ e.tree[p] = Nothing /\ IsFolder(e.tree, Parent(p))
             /\ Done([e.tree EXCEPT ![p] = Folder], [Kept EXCEPT ![p] = Folder])

\* vf_remove: a note, or a folder with nothing inside.
VfRemove(p) ==
    /\ MayWrite(p)
    /\ \E e \in Exists(tree, p) :
          \/ Answer(e.tree)
          \/ /\ e.yes
             /\ IsFolder(e.tree, p) => Inside(e.tree, p) = {}
             /\ Done(Without(e.tree, p), Without(Kept, p))

\* Mutant: nobody asks whether something has the new name already.
VfMoveOver(p, q) ==
    \E e \in Exists(tree, p) :
       \/ ~(e.yes /\ MayWrite(p) /\ MayWrite(q)) /\ Answer(e.tree)
       \/ /\ e.yes /\ MayWrite(p) /\ MayWrite(q)
          /\ IsFolder(e.tree, Parent(q)) /\ CanRename(e.tree, p, q)
          /\ Done(Moved(e.tree, p, q), Moved(Kept, p, q))

\* vf_move looks for both before it asks whether they may be changed.
VfMove(p, q) ==
    \E e \in Exists(tree, p) :
       \/ ~(e.yes /\ MayWrite(p) /\ MayWrite(q)) /\ Answer(e.tree)
       \/ /\ e.yes /\ MayWrite(p) /\ MayWrite(q)
          /\ \E f \in Exists(e.tree, q) :
                \/ Answer(f.tree)
                \/ /\ ~f.yes /\ IsFolder(f.tree, Parent(q))
                   /\ CanRename(f.tree, p, q)
                   /\ Done(Moved(f.tree, p, q), Moved(Kept, p, q))

Command(p) ==
    /\ session # Nobody
    /\ UNCHANGED session
    /\ \/ VfRead(p) \/ VfRemove(p)
       \/ Room /\ VfMakeFolder(p)
       \/ Room /\ \E text \in Texts : VfWrite(p, text)
       \/ \E q \in Places : VfMove(p, q)

FileNext ==
    \/ \E person \in People : Login(person)
    \/ Leave
    \/ \E p \in Places : Command(p)
    \/ session # Nobody /\ Room /\ \E p \in Places, text \in Texts : VfWriteStopped(p, text)

FileSpec == FileInit /\ [][FileNext]_fileVars

-----------------------------------------------------------------------------
(* Properties *)

\* Something has the name that the stage of p has, or the stage of that one.
StagesBeside(p) ==
    \E q \in Paths :
        /\ tree[q] # Nothing /\ Parent(q) = Parent(p)
        /\ IsPrefix(Append(Last(p), ".ern-new"), Last(q))

\* What people were told is there stays until a command that names it, or a
\* folder above it, has answered that it was done: no refused or interrupted
\* command and no recovery touches it.  This says nothing of a thing with a
\* staging name in its path, or beside whose name there is one.
SavedThingsStay ==
    [][\A p \in Paths :
          saved[p] # Nothing /\ saved[p] = tree[p] /\ tree'[p] # saved'[p]
          => IsStaged(p) \/ StagesBeside(p)]_fileVars

IsMember == session \in People \ Admins

\* Outside the home of the person, and not the stage of a note in its place.
Abroad(p) == ~IsPrefix(Home(session), p) /\ ~IsPrefix(Stage(Home(session)), p)

\* Whatever members do, abroad things change by recovery alone: a stage goes
\* away or comes up where there was nothing.
MembersChangeTheirHome ==
    [][IsMember =>
          \A p \in Paths : tree'[p] # tree[p] /\ Abroad(p)
              => \/ tree'[p] = Nothing /\ \E q \in Places : IsPrefix(Stage(q), p)
                 \/ tree[p] = Nothing /\ \E q \in Places : IsPrefix(q, p) /\ HasStage(tree, q)]_fileVars

\* "Members may change things only inside their own home folder": what others
\* have saved is not changed by them.  It does not hold: by looking for x a
\* member recovers a thing somebody saved as "x.ern-new".
MembersKeepOut ==
    [][IsMember =>
          \A p \in Paths : Abroad(p) /\ saved[p] # Nothing /\ saved[p] = tree[p]
              => tree'[p] = tree[p]]_fileVars
=============================================================================
