---------------------------- MODULE PersonProofs ----------------------------
(***************************************************************************)
(* Proofs about what a person does at the system: the note editor (Notes), *)
(* for any words and as many lines as MaxLines allows, the conversation    *)
(* (Conversation), for any names and faces, the folders and notes (Files), *)
(* for any people and any paths the folders above which are among the      *)
(* paths, and what sentences are understood as (Sentences), for any words  *)
(* and any length.                                                         *)
(***************************************************************************)
EXTENDS Notes, Conversation, Files, Sentences, SequenceTheorems, WellFoundedInduction, TLAPS

-----------------------------------------------------------------------------
(* The note editor: the invariant. *)

\* While a note is edited: what the count of changes says, what the disk holds,
\* and where the words of the note went.
EditorKnows ==
    place = "editing" =>
        /\ unsaved = 0 => lines = kept
        /\ unsaved = 2 => warned
        /\ IF misread THEN kept = <<>> ELSE note = Join(kept)
        /\ Range(kept) \subseteq Range(lines) \cup dropped

\* The disk holds no note of one blank line: it is saved as one without lines.
NoteHasWords == note # <<Blank>>

NoteInv == NoteTypeOK /\ NoteHasWords /\ EditorKnows

\* A note is never a single blank line.
LEMMA NotesAreJoined ==
    ASSUME NEW l \in Seq(Words)
    PROVE  /\ Join(l) \in Seq(Words) /\ Join(l) # <<Blank>>
           /\ Range(Join(l)) \subseteq Range(l)
           /\ Range(l) \subseteq Range(Join(l)) \cup {Blank}
<1>1. CASE l = <<Blank>>
  <2>1. Join(l) = <<>> /\ <<>> # <<Blank>> /\ <<>> \in Seq(Words)
    BY <1>1 DEF Join
  <2>2. Range(<<>>) = {} /\ Range(<<Blank>>) = {Blank}
    BY DEF Range
  <2> QED
    BY <1>1, <2>1, <2>2
<1>2. CASE l # <<Blank>>
  BY <1>2 DEF Join
<1> QED
  BY <1>1, <1>2

-----------------------------------------------------------------------------
(* What a change of the lines leaves. *)

\* A line at the end keeps the others.
LEMMA Appending ==
    ASSUME NEW l \in Seq(Words), NEW w \in Words
    PROVE  Append(l, w) \in Seq(Words) /\ Range(l) \subseteq Range(Append(l, w))
<1>1. /\ Append(l, w) \in Seq(Words)
      /\ DOMAIN l \subseteq DOMAIN Append(l, w)
      /\ \A j \in DOMAIN l : Append(l, w)[j] = l[j]
  OBVIOUS
<1> QED
  BY <1>1 DEF Range

\* A line that is replaced takes no other with it.
LEMMA Replacing ==
    ASSUME NEW l \in Seq(Words), NEW i \in DOMAIN l, NEW w \in Words
    PROVE  /\ [l EXCEPT ![i] = w] \in Seq(Words) /\ l[i] \in Words
           /\ Range(l) \subseteq Range([l EXCEPT ![i] = w]) \cup {l[i]}
<1> DEFINE r == [l EXCEPT ![i] = w]
<1>1. /\ r \in Seq(Words) /\ l[i] \in Words
      /\ DOMAIN r = DOMAIN l /\ \A j \in DOMAIN l \ {i} : r[j] = l[j]
  OBVIOUS
<1> HIDE DEF r
<1>2. Range(l) \subseteq Range(r) \cup {l[i]}
  BY <1>1 DEF Range
<1> QED
  BY <1>1, <1>2 DEF r

\* A line that is taken out takes no other with it: those before it stay, and
\* those behind it move up.
LEMMA TakingOut ==
    ASSUME NEW l \in Seq(Words), NEW i \in DOMAIN l
    PROVE  /\ RemoveAt(l, i) \in Seq(Words) /\ l[i] \in Words
           /\ Range(l) \subseteq Range(RemoveAt(l, i)) \cup {l[i]}
<1> DEFINE r == RemoveAt(l, i)
           a == SubSeq(l, 1, i - 1)
           b == SubSeq(l, i + 1, Len(l))
<1>1. /\ Len(l) \in Nat /\ DOMAIN l = 1 .. Len(l) /\ i \in 1 .. Len(l) /\ l[i] \in Words
  OBVIOUS
<1>2. /\ a \in Seq(Words) /\ Len(a) = i - 1 /\ \A j \in 1 .. i - 1 : a[j] = l[j]
  BY <1>1
<1>3. /\ b \in Seq(Words) /\ Len(b) = Len(l) - i
      /\ \A j \in 1 .. Len(l) - i : b[j] = l[i + j]
  BY <1>1
<1>4. r = a \o b
  BY DEF RemoveAt
<1> HIDE DEF a, b, r
<1>5. /\ r \in Seq(Words) /\ Len(r) = Len(l) - 1 /\ DOMAIN r = 1 .. Len(l) - 1
      /\ \A j \in 1 .. i - 1 : r[j] = a[j]
      /\ \A j \in i .. Len(l) - 1 : r[j] = b[j - (i - 1)]
  <2>1. /\ r \in Seq(Words) /\ Len(r) = Len(a) + Len(b)
        /\ \A j \in 1 .. Len(a) + Len(b) : r[j] = IF j <= Len(a) THEN a[j] ELSE b[j - Len(a)]
    BY <1>2, <1>3, <1>4, ConcatProperties
  <2>2. Len(a) + Len(b) = Len(l) - 1
    BY <1>1, <1>2, <1>3
  <2>3. DOMAIN r = 1 .. Len(l) - 1
    BY <2>1, <2>2
  <2>4. ASSUME NEW j \in 1 .. i - 1 PROVE r[j] = a[j]
    BY <1>1, <1>2, <2>1, <2>2
  <2>5. ASSUME NEW j \in i .. Len(l) - 1 PROVE r[j] = b[j - (i - 1)]
    BY <1>1, <1>2, <2>1, <2>2
  <2> QED
    BY <2>1, <2>2, <2>3, <2>4, <2>5
<1>6. ASSUME NEW j \in 1 .. Len(l), j # i PROVE l[j] \in Range(r)
  <2>1. CASE j < i
    <3>1. j \in 1 .. i - 1 /\ j \in 1 .. Len(l) - 1
      BY <1>1, <2>1
    <3> QED
      BY <1>2, <1>5, <3>1 DEF Range
  <2>2. CASE j > i
    <3>1. /\ j - 1 \in i .. Len(l) - 1 /\ j - 1 \in 1 .. Len(l) - 1
          /\ j - 1 - (i - 1) = j - i /\ j - i \in 1 .. Len(l) - i /\ i + (j - i) = j
      BY <1>1, <2>2
    <3>2. r[j - 1] = b[j - i] /\ b[j - i] = l[j]
      BY <1>3, <1>5, <3>1
    <3> QED
      BY <1>5, <3>1, <3>2 DEF Range
  <2> QED
    BY <1>1, <1>6, <2>1, <2>2
<1>7. Range(l) \subseteq Range(r) \cup {l[i]}
  BY <1>1, <1>6 DEF Range
<1> QED
  BY <1>1, <1>5, <1>7 DEF r

\* Any change that loses no more than it says keeps the invariant.
LEMMA ChangesKeep ==
    ASSUME NoteInv, NEW lost \in SUBSET Words, NEW new \in Seq(Words),
           Range(lines) \subseteq Range(new) \cup lost,
           Changed(lost), lines' = new
    PROVE  NoteInv'
<1>1. NoteTypeOK'
  <2>1. /\ place' \in {"notes", "editing", "left"} /\ note' \in Seq(Words) /\ lines' \in Seq(Words)
        /\ kept' \in Seq(Words) /\ dropped' \subseteq Words /\ closed' \in BOOLEAN
        /\ misread' \in BOOLEAN
    BY Zenon DEF NoteInv, NoteTypeOK, Changed
  <2>2. unsaved' \in 0 .. 2
    BY DEF Changed
  <2>3. warned' \in BOOLEAN
    BY Zenon DEF Changed
  <2> QED
    BY <2>1, <2>2, <2>3, Zenon DEF NoteTypeOK
<1>3. NoteHasWords'
  BY DEF NoteInv, NoteHasWords, Changed
<1>2. EditorKnows'
  BY DEF NoteInv, EditorKnows, Changed
<1> QED
  BY <1>1, <1>2, <1>3 DEF NoteInv

-----------------------------------------------------------------------------
(* The initial states, and the actions one by one. *)

LEMMA NotesStartRight == NoteInit => NoteInv
<1> SUFFICES ASSUME NoteInit PROVE NoteInv
  OBVIOUS
<1>1. note \in Seq(Words) /\ note # <<Blank>>
  <2>1. CASE note = <<>>
    <3>1. <<>> \in Seq(Words) /\ <<>> # <<Blank>>
      OBVIOUS
    <3> QED
      BY <2>1, <3>1
  <2>2. CASE \E w \in Words \ {Blank} : note = <<w>>
    <3>1. PICK w \in Words \ {Blank} : note = <<w>>
      BY <2>2
    <3>2. <<w>> \in Seq(Words) /\ <<w>> # <<Blank>>
      <4>1. <<w>>[1] = w /\ <<Blank>>[1] = Blank
        OBVIOUS
      <4> QED
        BY <4>1
    <3> QED
      BY <3>1, <3>2
  <2> QED
    BY <2>1, <2>2 DEF NoteInit
<1>2. /\ place = "notes" /\ lines = <<>> /\ kept = <<>> /\ unsaved = 0
      /\ closed = FALSE /\ warned = FALSE /\ dropped = {} /\ misread = FALSE
  BY DEF NoteInit
<1>3. <<>> \in Seq(Words)
  OBVIOUS
<1>4. NoteTypeOK
  <2>1. unsaved \in 0 .. 2
    BY <1>2
  <2> QED
    BY <1>1, <1>2, <1>3, <2>1, Zenon DEF NoteTypeOK
<1>5. NoteHasWords /\ EditorKnows
  BY <1>1, <1>2 DEF NoteHasWords, EditorKnows
<1> QED
  BY <1>4, <1>5 DEF NoteInv

LEMMA EditKeeps ==
    ASSUME NoteInv, Edit
    PROVE  NoteInv'
<1>1. /\ note \in Seq(Words) /\ note # <<Blank>>
      /\ lines' = note \/ lines' = <<>>
      /\ kept' = lines' /\ misread' = (lines' # note)
      /\ place' = "editing" /\ unsaved' = 0 /\ warned' = FALSE /\ dropped' = {}
      /\ note' = note /\ closed' = closed /\ closed \in BOOLEAN
  BY DEF Edit, NoteLines, NoteInv, NoteTypeOK, NoteHasWords
<1>2. NoteTypeOK'
  <2>1. unsaved' \in 0 .. 2
    BY <1>1
  <2>2. lines' \in Seq(Words)
    <3>1. <<>> \in Seq(Words)
      OBVIOUS
    <3> QED
      BY <1>1, <3>1, Zenon
  <2>3. misread' \in BOOLEAN
    BY <1>1, Zenon
  <2> QED
    BY <1>1, <2>1, <2>2, <2>3, Zenon DEF NoteTypeOK
<1>3. NoteHasWords'
  BY <1>1 DEF NoteHasWords
<1>4. EditorKnows'
  <2>0. unsaved' # 2
    BY <1>1
  <2>1. CASE misread'
    <3>1. kept' = <<>> /\ lines' = kept'
      BY <1>1, <2>1, Zenon
    <3> QED
      BY <1>1, <2>0, <2>1, <3>1, Zenon DEF EditorKnows
  <2>2. CASE ~misread'
    <3>1. kept' = note /\ lines' = kept'
      BY <1>1, <2>2, Zenon
    <3>2. note' = Join(kept')
      BY <1>1, <3>1, Zenon DEF Join
    <3> QED
      BY <1>1, <2>0, <2>2, <3>1, <3>2, Zenon DEF EditorKnows
  <2> QED
    BY <2>1, <2>2
<1> QED
  BY <1>2, <1>3, <1>4 DEF NoteInv

LEMMA SaveKeeps ==
    ASSUME NoteInv, Save
    PROVE  NoteInv'
<1>1. /\ lines \in Seq(Words) /\ note' = Join(lines) /\ lines' = lines /\ kept' = lines
      /\ place' = "editing" /\ unsaved' = 0 /\ warned' = warned /\ dropped' = {}
      /\ closed' = closed /\ warned \in BOOLEAN /\ closed \in BOOLEAN /\ misread' = FALSE
  BY DEF Save, Listening, NoteInv, NoteTypeOK
<1>2. Join(lines) \in Seq(Words) /\ Join(lines) # <<Blank>>
  BY <1>1, NotesAreJoined
<1>3. NoteTypeOK'
  <2>1. unsaved' \in 0 .. 2
    BY <1>1
  <2>2. misread' \in BOOLEAN
    BY <1>1, Zenon
  <2> QED
    BY <1>1, <1>2, <2>1, <2>2, Zenon DEF NoteTypeOK
<1>4. NoteHasWords' /\ EditorKnows'
  BY <1>1, <1>2 DEF NoteHasWords, EditorKnows
<1> QED
  BY <1>3, <1>4 DEF NoteInv

LEMMA LinesKeep ==
    ASSUME NoteInv,
           \/ \E w \in Words : AddLine(w)
           \/ \E i \in 1 .. Len(lines) : RemoveLine(i) \/ \E w \in Words : ChangeLine(i, w)
    PROVE  NoteInv'
<1>1. lines \in Seq(Words)
  BY DEF NoteInv, NoteTypeOK
<1>2. ASSUME NEW w \in Words, AddLine(w) PROVE NoteInv'
  <2>1. Append(lines, w) \in Seq(Words) /\ Range(lines) \subseteq Range(Append(lines, w)) \cup {}
    BY <1>1, Appending
  <2>2. lines' = Append(lines, w) /\ Changed({})
    BY <1>2 DEF AddLine
  <2> QED
    BY <2>1, <2>2, ChangesKeep
<1>3. ASSUME NEW i \in DOMAIN lines, RemoveLine(i) PROVE NoteInv'
  <2>1. lines' = RemoveAt(lines, i) /\ Changed({lines[i]})
    BY <1>3 DEF RemoveLine
  <2>2. /\ RemoveAt(lines, i) \in Seq(Words) /\ {lines[i]} \in SUBSET Words
        /\ Range(lines) \subseteq Range(RemoveAt(lines, i)) \cup {lines[i]}
    BY <1>1, TakingOut
  <2> QED
    BY <2>1, <2>2, ChangesKeep
<1>4. ASSUME NEW i \in DOMAIN lines, NEW w \in Words, ChangeLine(i, w) PROVE NoteInv'
  <2>1. lines' = [lines EXCEPT ![i] = w] /\ Changed({lines[i]})
    BY <1>4 DEF ChangeLine
  <2>2. /\ [lines EXCEPT ![i] = w] \in Seq(Words) /\ {lines[i]} \in SUBSET Words
        /\ Range(lines) \subseteq Range([lines EXCEPT ![i] = w]) \cup {lines[i]}
    BY <1>1, Replacing
  <2> QED
    BY <2>1, <2>2, ChangesKeep
<1>5. DOMAIN lines = 1 .. Len(lines)
  BY <1>1
<1> QED
  BY <1>2, <1>3, <1>4, <1>5

\* No other step touches the lines, the note or the count of saved changes.
LEMMA OthersKeep ==
    ASSUME NoteInv,
           \/ SaveRefused \/ Warn \/ DoneEditing \/ WindowCloses \/ Unwind \/ LeaveNotes
           \/ UNCHANGED noteVars
    PROVE  NoteInv'
<1>1. UNCHANGED <<note, lines, kept, dropped, misread>>
  BY DEF SaveRefused, Warn, DoneEditing, WindowCloses, Unwind, LeaveNotes, noteVars
<1>2. NoteTypeOK'
  <2>1. place' \in {"notes", "editing", "left"} /\ unsaved' \in 0 .. 2
    BY DEF NoteInv, NoteTypeOK, SaveRefused, Warn, DoneEditing, WindowCloses, Unwind, LeaveNotes, noteVars
  <2>2. closed' \in BOOLEAN /\ warned' \in BOOLEAN
    BY Zenon DEF NoteInv, NoteTypeOK, SaveRefused, Warn, DoneEditing, WindowCloses, Unwind, LeaveNotes, noteVars
  <2> QED
    BY <1>1, <2>1, <2>2, Zenon DEF NoteInv, NoteTypeOK
<1>3. NoteHasWords'
  BY <1>1 DEF NoteInv, NoteHasWords
<1>4. EditorKnows'
  <2> SUFFICES ASSUME place' = "editing" 
               PROVE  /\ place = "editing"
                      /\ (unsaved' = unsaved /\ warned' = warned) \/ (unsaved' = 2 /\ warned')
    BY <1>1 DEF NoteInv, EditorKnows
  <2> QED
    BY DEF SaveRefused, Warn, DoneEditing, WindowCloses, Unwind, LeaveNotes, noteVars, Listening
<1> QED
  BY <1>2, <1>3, <1>4 DEF NoteInv

-----------------------------------------------------------------------------
(* The theorems. *)

\* The invariant holds, whichever reads and writes the host refuses.
THEOREM NoteInvHolds == NoteSpec => []NoteInv
<1>1. NoteInv /\ [NoteNext]_noteVars => NoteInv'
  <2> SUFFICES ASSUME NoteInv, [NoteNext]_noteVars PROVE NoteInv'
    OBVIOUS
  <2>1. CASE Edit
    BY <2>1, EditKeeps
  <2>2. CASE Save
    BY <2>2, SaveKeeps
  <2>3. CASE \/ \E w \in Words : AddLine(w)
             \/ \E i \in 1 .. Len(lines) : RemoveLine(i) \/ \E w \in Words : ChangeLine(i, w)
    BY <2>3, LinesKeep
  <2>4. CASE SaveRefused \/ Warn \/ DoneEditing \/ WindowCloses \/ Unwind \/ LeaveNotes \/ UNCHANGED noteVars
    BY <2>4, OthersKeep
  <2> QED
    BY <2>1, <2>2, <2>3, <2>4 DEF NoteNext
<1> QED
  BY <1>1, NotesStartRight, PTL DEF NoteSpec

\* Whoever leaves the editor with lines that were never saved was warned after
\* the last change, however many lines there are (NothingIsLostUnwarned).
THEOREM NothingLostUnwarned == NoteSpec => NothingIsLostUnwarned
<1>1. NoteInv /\ [NoteNext]_noteVars => [place = "editing" /\ place' = "notes" /\ ~closed => lines = kept \/ warned]_noteVars
  <2> SUFFICES ASSUME NoteInv, NoteNext, place = "editing", place' = "notes", ~closed
               PROVE  lines = kept \/ warned
    OBVIOUS
  <2>1. DoneEditing
    BY DEF NoteNext, Edit, Save, SaveRefused, Warn, AddLine, ChangeLine, RemoveLine, Changed,
           WindowCloses, Unwind, LeaveNotes, Listening, noteVars
  <2>2. unsaved \in {0, 2}
    BY <2>1 DEF DoneEditing, NoteInv, NoteTypeOK
  <2> QED
    BY <2>2 DEF NoteInv, EditorKnows
<1> QED
  BY <1>1, NoteInvHolds, PTL DEF NoteSpec, NothingIsLostUnwarned

\* What the editor shows without counted changes is what the disk holds; after
\* a refused reading it shows no lines, until the first save (ShownIsStored).
THEOREM ScreenIsDisk == NoteSpec => []ShownIsStored
<1>1. NoteInv => ShownIsStored
  BY DEF NoteInv, EditorKnows, ShownIsStored, NoteLines, Join
<1> QED
  BY <1>1, NoteInvHolds, PTL

\* A save takes no word from the note that the person did not take out or
\* replace, unless the note's reading was refused (OthersLinesStay).
THEOREM NothingElseIsTaken == NoteSpec => OthersLinesStay
<1>1. NoteInv /\ [NoteNext]_noteVars
        => [note' # note /\ ~misread => Range(note) \subseteq Range(note') \cup dropped \cup {Blank}]_noteVars
  <2> SUFFICES ASSUME NoteInv, NoteNext, note' # note, ~misread
               PROVE  Range(note) \subseteq Range(note') \cup dropped \cup {Blank}
    OBVIOUS
  <2>1. Save
    BY DEF NoteNext, Edit, Save, SaveRefused, Warn, DoneEditing, AddLine, ChangeLine, RemoveLine, Changed,
           WindowCloses, Unwind, LeaveNotes, Listening, noteVars
  <2>2. /\ lines \in Seq(Words) /\ kept \in Seq(Words) /\ note = Join(kept)
        /\ note' = Join(lines) /\ Range(kept) \subseteq Range(lines) \cup dropped
    BY <2>1 DEF Save, Listening, NoteInv, NoteTypeOK, EditorKnows
  <2>3. Range(note) \subseteq Range(kept) /\ Range(lines) \subseteq Range(note') \cup {Blank}
    BY <2>2, NotesAreJoined
  <2> QED
    BY <2>2, <2>3
<1> QED
  BY <1>1, NoteInvHolds, PTL DEF NoteSpec, OthersLinesStay
-----------------------------------------------------------------------------
(* The conversation: the invariant. *)

\* The question says whose name and whose session there is, and what the face
\* draws; the transcript holds lines of the login or of the session.
AskedForWhom ==
    /\ at \in {"off", "meet", "choose"} => person = NoName /\ ~captured
    /\ at \in {"who", "password"} =>
          person = NoName /\ painter = NoName /\ captured = (face = "glass")
    /\ at = "who" => name = NoName
    /\ at \in {"password", "secret"} => name \in Names
    /\ at \in {"prompt", "secret", "notes", "editor", "files"} => person \in Names
    /\ captured => painter = person
    /\ captured => shown \subseteq {Notice, IF at \in {"who", "password"} THEN name ELSE person}

\* Only the glass has a window to close, and a first boot is without one.
OnlyWindowsClose == closing \/ quit => face = "glass" /\ at \notin {"meet", "choose"}

TalkInv == TalkTypeOK /\ AskedForWhom /\ OnlyWindowsClose

\* What the steps are put together from.
USE DEF Same, Goes, Stays, BeginLogin, PowerOff, LoginFailed, BeginSession, Return,
        Windowed, Silent, Hears, Says

\* The machine is off at first.
LEMMA TalkStartsRight == TalkInit => TalkInv
<1> SUFFICES ASSUME TalkInit PROVE TalkInv
  OBVIOUS
<1>1. /\ face \in Faces /\ at \in Questions \cup {"off"}
      /\ name \in Names \cup {NoName} /\ person \in Names \cup {NoName}
      /\ painter \in Names \cup {NoName}
      /\ tries \in 0 .. 2 /\ accounts \subseteq Names
      /\ shown \subseteq Names \cup {Notice}
  BY NamesAssumption DEF TalkInit
<1>2. /\ captured \in BOOLEAN /\ closing \in BOOLEAN /\ quit \in BOOLEAN
      /\ ended \in BOOLEAN /\ refused \in BOOLEAN
  BY Zenon DEF TalkInit
<1>3. TalkTypeOK
  BY <1>1, <1>2, Zenon DEF TalkTypeOK
<1>4. AskedForWhom /\ OnlyWindowsClose
  BY DEF TalkInit, AskedForWhom, OnlyWindowsClose
<1> QED
  BY <1>3, <1>4 DEF TalkInv

-----------------------------------------------------------------------------
(* The conversation: each step, by the question it answers. *)

\* Flags stay flags.
LEMMA FlagsAreFlags ==
    ASSUME TalkTypeOK, TalkNext
    PROVE  /\ captured' \in BOOLEAN /\ closing' \in BOOLEAN /\ quit' \in BOOLEAN
           /\ ended' \in BOOLEAN /\ refused' \in BOOLEAN
<1>1. CASE Meet \/ Choose
  BY <1>1, Zenon DEF TalkTypeOK, Meet, Choose
<1>2. CASE \E p \in Names \cup {NoName} : Who(p)
  BY <1>2, Zenon DEF TalkTypeOK, Who
<1>3. CASE \E right \in BOOLEAN : Password(right)
  BY <1>3, Zenon DEF TalkTypeOK, Password
<1>4. CASE Chat \/ LogOut \/ ShutDown
  BY <1>4, Zenon DEF TalkTypeOK, Chat, LogOut, ShutDown
<1>5. CASE \E app \in {"notes", "files"} : OpenApp(app)
  BY <1>5, Zenon DEF TalkTypeOK, OpenApp
<1>6. CASE \E p \in Names : RemovePerson(p) \/ AddPerson(p)
  BY <1>6, Zenon DEF TalkTypeOK, RemovePerson, AddPerson
<1>7. CASE Secret \/ NotesApp \/ EditorLine \/ FilesApp
  BY <1>7, Zenon DEF TalkTypeOK, Secret, NotesApp, EditorLine, FilesApp
<1>8. CASE Boot \/ CloseWindow \/ EndInput
  BY <1>8, Zenon DEF TalkTypeOK, Boot, CloseWindow, EndInput
<1> QED
  BY <1>1, <1>2, <1>3, <1>4, <1>5, <1>6, <1>7, <1>8 DEF TalkNext, Reply

\* A login counts no more than two wrong passwords.
LEMMA TriesStayFew ==
    ASSUME tries \in 0 .. 2, TalkNext
    PROVE  tries' \in 0 .. 2
<1>1. CASE Meet \/ Choose
  BY <1>1 DEF Same, Meet, Choose
<1>2. CASE \E p \in Names \cup {NoName} : Who(p)
  BY <1>2 DEF Same, Who
<1>3. CASE \E right \in BOOLEAN : Password(right)
  BY <1>3 DEF Same, Password
<1>4. CASE Chat \/ LogOut \/ ShutDown
  BY <1>4 DEF Same, Chat, LogOut, ShutDown
<1>5. CASE \E app \in {"notes", "files"} : OpenApp(app)
  BY <1>5 DEF Same, OpenApp
<1>6. CASE \E p \in Names : RemovePerson(p) \/ AddPerson(p)
  BY <1>6 DEF Same, RemovePerson, AddPerson
<1>7. CASE Secret \/ NotesApp \/ EditorLine \/ FilesApp
  BY <1>7 DEF Same, Secret, NotesApp, EditorLine, FilesApp
<1>8. CASE Boot \/ CloseWindow \/ EndInput
  BY <1>8 DEF Same, Boot, CloseWindow, EndInput
<1> QED
  BY <1>1, <1>2, <1>3, <1>4, <1>5, <1>6, <1>7, <1>8 DEF TalkNext, Reply

\* Names stay names, and questions questions.
LEMMA NamesAreNames ==
    ASSUME TalkTypeOK, AskedForWhom, TalkNext
    PROVE  /\ face' \in Faces /\ at' \in Questions \cup {"off"}
           /\ name' \in Names \cup {NoName} /\ person' \in Names \cup {NoName}
           /\ painter' \in Names \cup {NoName}
           /\ accounts' \subseteq Names
<1>1. CASE Meet \/ Choose
  BY <1>1, NamesAssumption DEF TalkTypeOK, AskedForWhom, Questions, Meet, Choose
<1>2. CASE \E p \in Names \cup {NoName} : Who(p)
  BY <1>2, NamesAssumption DEF TalkTypeOK, AskedForWhom, Questions, Who
<1>3. CASE \E right \in BOOLEAN : Password(right)
  BY <1>3, NamesAssumption DEF TalkTypeOK, AskedForWhom, Questions, Password
<1>4. CASE Chat \/ LogOut \/ ShutDown
  BY <1>4, NamesAssumption DEF TalkTypeOK, AskedForWhom, Questions, Chat, LogOut, ShutDown
<1>5. CASE \E app \in {"notes", "files"} : OpenApp(app)
  BY <1>5, NamesAssumption DEF TalkTypeOK, AskedForWhom, Questions, OpenApp
<1>6. CASE \E p \in Names : RemovePerson(p) \/ AddPerson(p)
  BY <1>6, NamesAssumption DEF TalkTypeOK, AskedForWhom, Questions, RemovePerson, AddPerson
<1>7. CASE Secret \/ NotesApp \/ EditorLine \/ FilesApp
  BY <1>7, NamesAssumption DEF TalkTypeOK, AskedForWhom, Questions, Secret, NotesApp, EditorLine, FilesApp
<1>8. CASE Boot \/ CloseWindow \/ EndInput
  BY <1>8, NamesAssumption DEF TalkTypeOK, AskedForWhom, Questions, Boot, CloseWindow, EndInput
<1> QED
  BY <1>1, <1>2, <1>3, <1>4, <1>5, <1>6, <1>7, <1>8 DEF TalkNext, Reply

\* The transcript holds lines of people and notices.
LEMMA LinesAreLines ==
    ASSUME TalkTypeOK, AskedForWhom, TalkNext
    PROVE  shown' \subseteq Names \cup {Notice}
<1>1. CASE Meet \/ Choose
  BY <1>1 DEF TalkTypeOK, AskedForWhom, Meet, Choose
<1>2. CASE \E p \in Names \cup {NoName} : Who(p)
  BY <1>2 DEF TalkTypeOK, AskedForWhom, Who
<1>3. CASE \E right \in BOOLEAN : Password(right)
  BY <1>3 DEF TalkTypeOK, AskedForWhom, Password
<1>4. CASE Chat \/ LogOut \/ ShutDown
  BY <1>4 DEF TalkTypeOK, AskedForWhom, Chat, LogOut, ShutDown
<1>5. CASE \E app \in {"notes", "files"} : OpenApp(app)
  BY <1>5 DEF TalkTypeOK, AskedForWhom, OpenApp
<1>6. CASE \E p \in Names : RemovePerson(p) \/ AddPerson(p)
  BY <1>6 DEF TalkTypeOK, AskedForWhom, RemovePerson, AddPerson
<1>7. CASE Secret \/ NotesApp \/ EditorLine \/ FilesApp
  BY <1>7 DEF TalkTypeOK, AskedForWhom, Secret, NotesApp, EditorLine, FilesApp
<1>8. CASE Boot \/ CloseWindow \/ EndInput
  BY <1>8 DEF TalkTypeOK, AskedForWhom, Boot, CloseWindow, EndInput
<1> QED
  BY <1>1, <1>2, <1>3, <1>4, <1>5, <1>6, <1>7, <1>8 DEF TalkNext, Reply

\* A request to end comes from a window, and no first boot follows it.
LEMMA WindowsOnly ==
    ASSUME OnlyWindowsClose, TalkTypeOK, TalkNext
    PROVE  OnlyWindowsClose'
<1>1. CASE Meet \/ Choose
  BY <1>1 DEF OnlyWindowsClose, TalkTypeOK, Meet, Choose
<1>2. CASE \E p \in Names \cup {NoName} : Who(p)
  BY <1>2 DEF OnlyWindowsClose, TalkTypeOK, Who
<1>3. CASE \E right \in BOOLEAN : Password(right)
  BY <1>3 DEF OnlyWindowsClose, TalkTypeOK, Password
<1>4. CASE Chat \/ LogOut \/ ShutDown
  BY <1>4 DEF OnlyWindowsClose, TalkTypeOK, Chat, LogOut, ShutDown
<1>5. CASE \E app \in {"notes", "files"} : OpenApp(app)
  BY <1>5 DEF OnlyWindowsClose, TalkTypeOK, OpenApp
<1>6. CASE \E p \in Names : RemovePerson(p) \/ AddPerson(p)
  BY <1>6 DEF OnlyWindowsClose, TalkTypeOK, RemovePerson, AddPerson
<1>7. CASE Secret \/ NotesApp \/ EditorLine \/ FilesApp
  BY <1>7 DEF OnlyWindowsClose, TalkTypeOK, Secret, NotesApp, EditorLine, FilesApp
<1>8. CASE Boot \/ CloseWindow \/ EndInput
  BY <1>8 DEF OnlyWindowsClose, TalkTypeOK, Boot, CloseWindow, EndInput
<1> QED
  BY <1>1, <1>2, <1>3, <1>4, <1>5, <1>6, <1>7, <1>8 DEF TalkNext, Reply

\* After each answer the next question knows whom it is about: a login starts
\* without a session, and a session with the name that gave the password.
LEMMA AskedKept ==
    ASSUME AskedForWhom, TalkTypeOK, OnlyWindowsClose, TalkNext
    PROVE  AskedForWhom'
<1>1. CASE Meet \/ Choose
  BY <1>1, NamesAssumption DEF OnlyWindowsClose, TalkTypeOK, AskedForWhom, Meet, Choose
<1>2. CASE \E p \in Names \cup {NoName} : Who(p)
  BY <1>2, NamesAssumption DEF OnlyWindowsClose, TalkTypeOK, AskedForWhom, Who
<1>3. CASE \E right \in BOOLEAN : Password(right)
  <2>1. CASE Password(TRUE)
    <3>1. CASE PowerOff
      BY <3>1 DEF AskedForWhom
    <3>2. CASE BeginSession(name)
      <4>1. /\ at = "password" /\ at' = "prompt" /\ person' = name /\ name \in Names
            /\ face' = face
        BY <2>1, <3>2 DEF AskedForWhom, Password
      <4>2. captured' => painter' = person' /\ shown' \subseteq {Notice, name}
        <5>1. CASE face = "glass"
          <6>1. captured /\ shown \subseteq {Notice, name}
            BY <4>1, <5>1 DEF AskedForWhom
          <6>2. painter' = name /\ shown' = shown \cup {name}
            BY <3>2, <5>1
          <6> QED
            BY <4>1, <6>1, <6>2
        <5>2. CASE face # "glass"
          <6>1. face \in {"desktop", "plain"}
            BY <5>2, FacesAssumption DEF TalkTypeOK
          <6> QED
            BY <3>2, <6>1
        <5> QED
          BY <5>1, <5>2
      <4> QED
        BY <4>1, <4>2 DEF AskedForWhom
    <3> QED
      BY <2>1, <3>1, <3>2 DEF Password
  <2>2. CASE Password(FALSE) /\ tries < 2
    BY <2>2, NamesAssumption DEF TalkTypeOK, AskedForWhom, Password
  <2>3. CASE Password(FALSE) /\ ~(tries < 2)
    BY <2>3, NamesAssumption DEF TalkTypeOK, AskedForWhom, Password
  <2> QED
    BY <1>3, <2>1, <2>2, <2>3
<1>4. CASE Chat \/ LogOut \/ ShutDown
  BY <1>4, NamesAssumption DEF OnlyWindowsClose, TalkTypeOK, AskedForWhom, Chat, LogOut, ShutDown
<1>5. CASE \E app \in {"notes", "files"} : OpenApp(app)
  BY <1>5, NamesAssumption DEF OnlyWindowsClose, TalkTypeOK, AskedForWhom, OpenApp
<1>6. CASE \E p \in Names : RemovePerson(p) \/ AddPerson(p)
  BY <1>6, NamesAssumption DEF OnlyWindowsClose, TalkTypeOK, AskedForWhom, RemovePerson, AddPerson
<1>7. CASE Secret \/ NotesApp \/ EditorLine \/ FilesApp
  BY <1>7, NamesAssumption DEF OnlyWindowsClose, TalkTypeOK, AskedForWhom, Secret, NotesApp, EditorLine, FilesApp
<1>8. CASE Boot \/ CloseWindow \/ EndInput
  BY <1>8, NamesAssumption DEF OnlyWindowsClose, TalkTypeOK, AskedForWhom, Boot, CloseWindow, EndInput
<1> QED
  BY <1>1, <1>2, <1>3, <1>4, <1>5, <1>6, <1>7, <1>8 DEF TalkNext, Reply

\* What a closing window and an input that ended leave as it was.
LEMMA SilentStep ==
    ASSUME TalkInv, TalkNext, at # "off"
    PROVE  /\ closing => /\ accounts' = accounts
                         /\ at' \in {at, "off"} \/ (at = "editor" /\ at' = "notes")
           /\ ended /\ ~Windowed => UNCHANGED <<accounts, person>>
<1>1. CASE Meet \/ Choose
  BY <1>1, NamesAssumption DEF TalkInv, TalkTypeOK, AskedForWhom, OnlyWindowsClose, Meet, Choose
<1>2. CASE \E p \in Names \cup {NoName} : Who(p)
  BY <1>2, NamesAssumption DEF TalkInv, TalkTypeOK, AskedForWhom, OnlyWindowsClose, Who
<1>3. CASE \E right \in BOOLEAN : Password(right)
  BY <1>3, NamesAssumption DEF TalkInv, TalkTypeOK, AskedForWhom, OnlyWindowsClose, Password
<1>4. CASE Chat \/ LogOut \/ ShutDown
  BY <1>4, NamesAssumption DEF TalkInv, TalkTypeOK, AskedForWhom, OnlyWindowsClose, Chat, LogOut, ShutDown
<1>5. CASE \E app \in {"notes", "files"} : OpenApp(app)
  BY <1>5, NamesAssumption DEF TalkInv, TalkTypeOK, AskedForWhom, OnlyWindowsClose, OpenApp
<1>6. CASE \E p \in Names : RemovePerson(p) \/ AddPerson(p)
  BY <1>6, NamesAssumption DEF TalkInv, TalkTypeOK, AskedForWhom, OnlyWindowsClose, RemovePerson, AddPerson
<1>7. CASE Secret \/ NotesApp \/ EditorLine \/ FilesApp
  BY <1>7, NamesAssumption DEF TalkInv, TalkTypeOK, AskedForWhom, OnlyWindowsClose, Secret, NotesApp, EditorLine, FilesApp
<1>8. CASE Boot \/ CloseWindow \/ EndInput
  BY <1>8, NamesAssumption DEF TalkInv, TalkTypeOK, AskedForWhom, OnlyWindowsClose, Boot, CloseWindow, EndInput
<1> QED
  BY <1>1, <1>2, <1>3, <1>4, <1>5, <1>6, <1>7, <1>8 DEF TalkNext, Reply
HIDE DEF Same, Goes, Stays, BeginLogin, PowerOff, LoginFailed, BeginSession, Return,
         Windowed, Silent, Hears, Says

-----------------------------------------------------------------------------
(* The conversation: the theorems. *)

\* The types of the conversation, whom a question is about and what may close
\* stay as TalkInv says, through logins, sessions, apps and restarts.
THEOREM TalkInvHolds == TalkSpec => []TalkInv
<1>1. TalkInv /\ [TalkNext]_talkVars => TalkInv'
  <2> SUFFICES ASSUME TalkInv, [TalkNext]_talkVars PROVE TalkInv'
    OBVIOUS
  <2>1. CASE TalkNext
    <3>1. TalkTypeOK /\ AskedForWhom /\ OnlyWindowsClose
      BY DEF TalkInv
    <3>2. tries \in 0 .. 2
      BY <3>1 DEF TalkTypeOK
    <3>3. TalkTypeOK'
      BY <2>1, <3>1, <3>2, FlagsAreFlags, TriesStayFew, NamesAreNames, LinesAreLines, Zenon
      DEF TalkTypeOK
    <3>4. AskedForWhom' /\ OnlyWindowsClose'
      BY <2>1, <3>1, AskedKept, WindowsOnly
    <3> QED
      BY <3>3, <3>4 DEF TalkInv
  <2>2. CASE UNCHANGED talkVars
    <3>1. /\ face' = face /\ at' = at /\ name' = name /\ tries' = tries /\ person' = person
          /\ accounts' = accounts /\ captured' = captured /\ shown' = shown
          /\ painter' = painter /\ closing' = closing /\ quit' = quit /\ ended' = ended
          /\ refused' = refused
      BY <2>2 DEF talkVars
    <3>2. TalkTypeOK' /\ OnlyWindowsClose'
      BY <3>1, Zenon DEF TalkInv, TalkTypeOK, OnlyWindowsClose
    <3>3. AskedForWhom'
      BY <3>1, Zenon DEF TalkInv, AskedForWhom
    <3> QED
      BY <3>2, <3>3 DEF TalkInv
  <2> QED
    BY <2>1, <2>2
<1> QED
  BY <1>1, TalkStartsRight, PTL DEF TalkSpec

\* While lines are filed for a desktop they are those of its session or of the
\* login under way, and the desktop is drawn for that session: the transcript
\* of one person is never on the next one's screen (ScreenIsTheirs).
THEOREM ScreensAreTheirs == TalkSpec => []ScreenIsTheirs
<1>1. TalkInv => ScreenIsTheirs
  BY DEF TalkInv, AskedForWhom, ScreenIsTheirs
<1> QED
  BY <1>1, TalkInvHolds, PTL

\* After the window is closed nothing is done but leaving, whatever question was
\* open; at the end of the input no session opens or ends and no account is
\* made (SilenceIsNoAnswer).
THEOREM SilenceAnswersNothing == TalkSpec => SilenceIsNoAnswer
<1> DEFINE Quiet ==
      at # "off" =>
          /\ closing => /\ accounts' = accounts
                        /\ at' \in {at, "off"} \/ (at = "editor" /\ at' = "notes")
          /\ ended /\ ~Windowed => UNCHANGED <<accounts, person>>
<1>1. TalkInv /\ [TalkNext]_talkVars => [Quiet]_talkVars
  BY SilentStep
<1> QED
  BY <1>1, TalkInvHolds, PTL DEF TalkSpec, SilenceIsNoAnswer

-----------------------------------------------------------------------------
(* Folders and notes: the invariant. *)

Below(q, p) == IsPrefix(q, p) /\ q # p

\* Above everything that is there, there are folders.
FoldersAbove(t) == \A p, q \in Paths : Below(q, p) /\ t[p] # Nothing => t[q].kind = "folder"

FileInv == FileTypeOK /\ FoldersAbove(tree)

-----------------------------------------------------------------------------
(* Paths. *)

LEMMA Beginning ==
    ASSUME NEW S, NEW p \in Seq(S), NEW n \in 0 .. Len(p)
    PROVE  /\ SubSeq(p, 1, n) \in Seq(S) /\ Len(SubSeq(p, 1, n)) = n
           /\ \A i \in 1 .. n : SubSeq(p, 1, n)[i] = p[i]
<1>1. n \in Int /\ \A i \in 1 .. n : p[i] \in S
  OBVIOUS
<1> QED
  BY <1>1, SubSeqProperties

LEMMA PrefixMeans ==
    ASSUME NEW S, NEW q \in Seq(S), NEW p \in Seq(S)
    PROVE  IsPrefix(q, p) <=> Len(q) <= Len(p) /\ \A i \in 1 .. Len(q) : q[i] = p[i]
<1>1. \A i \in 1 .. Len(q) : q[i] \in S
  OBVIOUS
<1>2. CASE Len(q) <= Len(p)
  <2>1. /\ SubSeq(q, 1, Len(q)) \in Seq(S) /\ Len(SubSeq(q, 1, Len(q))) = Len(q)
        /\ \A i \in 1 .. Len(q) : SubSeq(q, 1, Len(q))[i] = q[i]
    BY SubSeqProperties
  <2>2. /\ SubSeq(p, 1, Len(q)) \in Seq(S) /\ Len(SubSeq(p, 1, Len(q))) = Len(q)
        /\ \A i \in 1 .. Len(q) : SubSeq(p, 1, Len(q))[i] = p[i]
    BY <1>2, SubSeqProperties
  <2>3. SubSeq(q, 1, Len(q)) = SubSeq(p, 1, Len(q)) => \A i \in 1 .. Len(q) : q[i] = p[i]
    BY <2>1, <2>2
  <2>4. (\A i \in 1 .. Len(q) : q[i] = p[i]) => SubSeq(q, 1, Len(q)) = SubSeq(p, 1, Len(q))
    BY <2>1, <2>2, SeqEqual
  <2> QED
    BY <1>2, <2>3, <2>4 DEF IsPrefix
<1>3. CASE ~(Len(q) <= Len(p))
  BY <1>3 DEF IsPrefix
<1> QED
  BY <1>2, <1>3

\* Of two prefixes of one path the shorter is a prefix of the other.
LEMMA PrefixesCompare ==
    ASSUME NEW S, NEW q \in Seq(S), NEW r \in Seq(S), NEW p \in Seq(S), IsPrefix(q, p), IsPrefix(r, p)
    PROVE  /\ Len(q) <= Len(r) => IsPrefix(q, r)
           /\ Len(q) = Len(r) => q = r
           /\ Len(r) <= Len(q) => IsPrefix(r, q)
<1>1. /\ Len(q) <= Len(p) /\ \A i \in 1 .. Len(q) : q[i] = p[i]
      /\ Len(r) <= Len(p) /\ \A i \in 1 .. Len(r) : r[i] = p[i]
  BY PrefixMeans
<1>2. Len(q) <= Len(r) => \A i \in 1 .. Len(q) : q[i] = r[i]
  BY <1>1
<1>3. Len(r) <= Len(q) => \A i \in 1 .. Len(r) : r[i] = q[i]
  BY <1>1
<1>4. Len(q) = Len(r) => q = r
  BY <1>2, SeqEqual
<1> QED
  BY <1>2, <1>3, <1>4, PrefixMeans

LEMMA PrefixOfPrefix ==
    ASSUME NEW S, NEW q \in Seq(S), NEW r \in Seq(S), NEW p \in Seq(S), IsPrefix(q, r), IsPrefix(r, p)
    PROVE  IsPrefix(q, p)
BY PrefixMeans

LEMMA ShorterBelow ==
    ASSUME NEW S, NEW q \in Seq(S), NEW p \in Seq(S), IsPrefix(q, p)
    PROVE  IsPrefix(p, p) /\ Len(q) <= Len(p) /\ (q # p <=> Len(q) < Len(p))
<1>1. Len(q) <= Len(p) /\ \A i \in 1 .. Len(q) : q[i] = p[i]
  BY PrefixMeans
<1>2. Len(q) = Len(p) => q = p
  BY <1>1, SeqEqual
<1> QED
  BY <1>1, <1>2, PrefixMeans

\* What is in front of the last name.
LEMMA ParentMeans ==
    ASSUME NEW S, NEW p \in Seq(S), p # <<>>
    PROVE  /\ Parent(p) \in Seq(S) /\ Len(Parent(p)) = Len(p) - 1
           /\ IsPrefix(Parent(p), p) /\ Parent(p) # p
           /\ \A q \in Seq(S) : IsPrefix(q, p) /\ q # p => IsPrefix(q, Parent(p))
<1>0. Len(p) - 1 \in 0 .. Len(p)
  OBVIOUS
<1>1. /\ Parent(p) \in Seq(S) /\ Len(Parent(p)) = Len(p) - 1
      /\ \A i \in 1 .. Len(p) - 1 : Parent(p)[i] = p[i]
  BY <1>0, Beginning DEF Parent, Front
<1>2. IsPrefix(Parent(p), p)
  BY <1>1, PrefixMeans
<1>3. ASSUME NEW q \in Seq(S), IsPrefix(q, p), q # p
      PROVE  IsPrefix(q, Parent(p))
  <2>1. Len(q) < Len(p)
    BY <1>3, ShorterBelow
  <2> QED
    BY <1>1, <1>2, <1>3, <2>1, PrefixesCompare
<1> QED
  BY <1>1, <1>2, <1>3

\* The stage stands beside, under another name.
LEMMA StageMeans ==
    ASSUME NEW p \in Seq(Seq(Pieces)), p # <<>>
    PROVE  /\ Stage(p) \in Seq(Seq(Pieces)) /\ Len(Stage(p)) = Len(p) /\ Stage(p) # <<>>
           /\ Parent(Stage(p)) = Parent(p) /\ Stage(p) # p
           /\ Last(Stage(p)) = Append(Last(p), ".ern-new")
           /\ \A i \in 1 .. Len(p) - 1 : Stage(p)[i] = p[i]
<1>1. /\ Parent(p) \in Seq(Seq(Pieces)) /\ Len(Parent(p)) = Len(p) - 1
      /\ \A i \in 1 .. Len(p) - 1 : Parent(p)[i] = p[i]
  <2>1. Len(p) - 1 \in 0 .. Len(p)
    OBVIOUS
  <2> QED
    BY <2>1, Beginning DEF Parent, Front
<1>2. Len(p) \in Nat /\ Len(p) > 0 /\ Last(p) \in Seq(Pieces)
  BY DEF Last
<1>3. Append(Last(p), ".ern-new") \in Seq(Pieces) /\ Append(Last(p), ".ern-new") # Last(p)
  <2>1. ".ern-new" \in Pieces
    BY PlacesAssumption
  <2>2. /\ Append(Last(p), ".ern-new") \in Seq(Pieces)
        /\ Len(Append(Last(p), ".ern-new")) = Len(Last(p)) + 1
    BY <1>2, <2>1, AppendProperties
  <2>3. Len(Last(p)) \in Nat
    BY <1>2
  <2> QED
    BY <2>2, <2>3
<1>4. Stage(p) = Append(Parent(p), Append(Last(p), ".ern-new"))
  BY DEF Stage, Parent
<1>5. /\ Stage(p) \in Seq(Seq(Pieces)) /\ Len(Stage(p)) = Len(p)
      /\ Stage(p)[Len(p)] = Append(Last(p), ".ern-new")
      /\ \A i \in 1 .. Len(p) - 1 : Stage(p)[i] = p[i]
  BY <1>1, <1>2, <1>3, <1>4, AppendProperties
<1>6. Last(Stage(p)) = Append(Last(p), ".ern-new")
  BY <1>5 DEF Last
<1>7. Stage(p) # p
  BY <1>3, <1>6
<1>8. Parent(Stage(p)) = Parent(p)
  <2>2. /\ Parent(Stage(p)) \in Seq(Seq(Pieces)) /\ Len(Parent(Stage(p))) = Len(p) - 1
        /\ \A i \in 1 .. Len(p) - 1 : Parent(Stage(p))[i] = Stage(p)[i]
    <3>1. Len(Stage(p)) - 1 \in 0 .. Len(Stage(p))
      BY <1>2, <1>5
    <3> QED
      BY <1>5, <3>1, Beginning DEF Parent, Front
  <2>3. \A i \in 1 .. Len(p) - 1 : Parent(Stage(p))[i] = Parent(p)[i]
    BY <1>1, <1>5, <2>2
  <2> HIDE DEF Parent, Stage
  <2>4. Len(Parent(Stage(p))) = Len(Parent(p))
    BY <1>1, <2>2
  <2>5. \A i \in 1 .. Len(Parent(p)) : Parent(Stage(p))[i] = Parent(p)[i]
    BY <1>1, <2>3
  <2> QED
    BY <1>1, <2>2, <2>4, <2>5, SeqEqual
<1> QED
  BY <1>2, <1>5, <1>6, <1>7, <1>8

Path == Seq(Seq(Pieces))

\* The folders above a home are homes.
LEMMA HomesClosed ==
    ASSUME NEW p \in Homes, NEW q \in Path, IsPrefix(q, p), q # <<>>
    PROVE  q \in Homes
<1>01. /\ \A n \in People : Home(n) \in Path /\ Len(Home(n)) = 2 /\ Home(n)[1] = <<"home">>
      /\ <<<<"home">>>> \in Path /\ Len(<<<<"home">>>>) = 1
  BY PlacesAssumption DEF Home, Path
<1>02. p \in Path
  BY <1>01 DEF Homes
<1>1. p \in Path /\ Len(q) > 0
  BY <1>02 DEF Path
<1>2. Len(q) <= Len(p) /\ (q # p => Len(q) < Len(p)) /\ \A i \in 1 .. Len(q) : q[i] = p[i]
  BY <1>1, ShorterBelow, PrefixMeans DEF Path
<1>3. CASE q = p
  BY <1>3
<1>4. CASE q # p
  <2>1. Len(p) <= 2 /\ p[1] = <<"home">>
    <3>1. <<<<"home">>>>[1] = <<"home">>
      OBVIOUS
    <3>2. CASE p = <<<<"home">>>>
      BY <1>01, <3>1, <3>2
    <3>3. CASE \E n \in People : p = Home(n)
      <4>1. PICK n \in People : p = Home(n)
        BY <3>3
      <4>2. Len(p) = 2
        BY <1>01, <4>1
      <4>3. p[1] = <<"home">>
        BY <1>01, <4>1, Zenon
      <4> QED
        BY <4>2, <4>3
    <3> QED
      BY <3>2, <3>3 DEF Homes
  <2>2. Len(q) = 1 /\ q[1] = <<"home">>
    <3>1. Len(q) \in Nat /\ Len(p) \in Nat
      BY <1>1 DEF Path
    <3>3. Len(q) < Len(p)
      BY <1>2, <1>4, Zenon
    <3>4. Len(q) > 0 /\ Len(p) <= 2
      BY <1>1, <2>1
    <3>2. Len(q) = 1
      <4>1. \A m, n \in Nat : m < n /\ 0 < m /\ n <= 2 => m = 1
        OBVIOUS
      <4> QED
        BY <3>1, <3>3, <3>4, <4>1
    <3> QED
      BY <1>2, <2>1, <3>2
  <2>3. q = <<<<"home">>>>
    BY <2>2 DEF Path
  <2> QED
    BY <2>3 DEF Homes
<1> QED
  BY <1>3, <1>4

\* Paths are not empty, and the folders above one are paths.
LEMMA PathsClosed ==
    /\ Paths \subseteq Path /\ <<>> \notin Paths
    /\ \A p \in Places : p \in Paths /\ Stage(p) \in Paths
    /\ \A p \in Paths, q \in Path : IsPrefix(q, p) /\ q # <<>> => q \in Paths
<1>1. /\ \A p \in Places : p \in Path /\ p # <<>>
      /\ \A n \in People : n \in Seq(Pieces)
      /\ <<"home">> \in Seq(Pieces)
  BY PlacesAssumption DEF Path
<1>2. /\ \A n \in People : Home(n) \in Path /\ Len(Home(n)) = 2 /\ Home(n)[1] = <<"home">>
      /\ <<<<"home">>>> \in Path /\ Len(<<<<"home">>>>) = 1
  BY <1>1 DEF Home, Path
<1>3. \A p \in Places : Stage(p) \in Path /\ Stage(p) # <<>> /\ p \in Paths /\ Stage(p) \in Paths
  BY <1>1, StageMeans DEF Path, Paths
<1>4. \A p \in Homes : p \in Path /\ p # <<>>
  BY <1>2 DEF Homes
<1>5. Paths \subseteq Path /\ <<>> \notin Paths
  BY <1>1, <1>3, <1>4 DEF Paths
<1>6. ASSUME NEW p \in Homes, NEW q \in Path, IsPrefix(q, p), q # <<>>
      PROVE  q \in Paths
  BY <1>6, HomesClosed DEF Paths
<1>7. ASSUME NEW p \in Places, NEW q \in Path, IsPrefix(q, p), q # <<>>
      PROVE  q \in Paths
  <2>1. p \in Path /\ Len(q) > 0
    BY <1>1, <1>7 DEF Path
  <2>2. Len(q) <= Len(p) /\ (q # p => Len(q) < Len(p)) /\ \A i \in 1 .. Len(q) : q[i] = p[i]
    BY <1>7, <2>1, ShorterBelow, PrefixMeans DEF Path
  <2>3. CASE q = p
    BY <2>3 DEF Paths
  <2>4. CASE q # p
    <3>1. Len(q) \in 1 .. Len(p) - 1 /\ Len(q) \in 0 .. Len(p)
      BY <2>1, <2>2, <2>4 DEF Path
    <3>2. /\ SubSeq(p, 1, Len(q)) \in Path /\ Len(SubSeq(p, 1, Len(q))) = Len(q)
          /\ \A i \in 1 .. Len(q) : SubSeq(p, 1, Len(q))[i] = p[i]
      BY <2>1, <3>1, Beginning DEF Path
    <3>3. q = SubSeq(p, 1, Len(q))
      BY <2>2, <3>2, SeqEqual DEF Path
    <3> QED
      BY <3>1, <3>3, PlacesAssumption
  <2> QED
    BY <2>3, <2>4
<1>8. ASSUME NEW p \in Places, NEW q \in Path, IsPrefix(q, Stage(p)), q # <<>>
      PROVE  q \in Paths
  <2>1. p \in Path /\ p # <<>> /\ Stage(p) \in Path /\ Stage(p) # <<>> /\ Parent(Stage(p)) = Parent(p)
    BY <1>1, StageMeans DEF Path
  <2>2. CASE q = Stage(p)
    BY <1>3, <2>2
  <2>3. CASE q # Stage(p)
    <3>1. IsPrefix(q, Parent(p)) /\ Parent(p) \in Path
      BY <1>8, <2>1, <2>3, ParentMeans DEF Path
    <3>2. IsPrefix(Parent(p), p)
      BY <2>1, ParentMeans DEF Path
    <3>3. IsPrefix(q, p)
      BY <2>1, <3>1, <3>2, PrefixOfPrefix DEF Path
    <3> QED
      BY <1>7, <1>8, <3>3
  <2> QED
    BY <2>2, <2>3
<1>9. ASSUME NEW p \in Paths, NEW q \in Path, IsPrefix(q, p), q # <<>>
      PROVE  q \in Paths
  BY <1>6, <1>7, <1>8, <1>9 DEF Paths
<1> QED
  BY <1>3, <1>5, <1>9

\* Where a thing below b comes from when a is moved to b.
Source(a, b, r) == a \o SubSeq(r, Len(b) + 1, Len(r))

LEMMA SourceMeans ==
    ASSUME NEW a \in Path, NEW b \in Path, NEW r \in Path, IsPrefix(b, r)
    PROVE  /\ Source(a, b, r) \in Path /\ Len(Source(a, b, r)) = Len(a) + (Len(r) - Len(b))
           /\ IsPrefix(a, Source(a, b, r))
           /\ \A i \in 1 .. Len(r) - Len(b) : Source(a, b, r)[Len(a) + i] = r[Len(b) + i]
<1> DEFINE u == SubSeq(r, Len(b) + 1, Len(r))
<1>1. Len(b) <= Len(r) /\ Len(a) \in Nat /\ Len(b) \in Nat /\ Len(r) \in Nat
  BY PrefixMeans DEF Path
<1>2. \A i \in Len(b) + 1 .. Len(r) : r[i] \in Seq(Pieces)
  BY <1>1 DEF Path
<1>3. /\ u \in Path /\ Len(u) = Len(r) - Len(b)
      /\ \A i \in 1 .. Len(r) - Len(b) : u[i] = r[Len(b) + i]
  <2>1. /\ u \in Seq(Seq(Pieces)) /\ Len(u) = IF Len(b) + 1 <= Len(r) THEN Len(r) - (Len(b) + 1) + 1 ELSE 0
        /\ \A i \in 1 .. Len(r) - (Len(b) + 1) + 1 : u[i] = r[Len(b) + 1 + i - 1]
    BY <1>1, <1>2, SubSeqProperties
  <2> QED
    BY <1>1, <2>1 DEF Path
<1> HIDE DEF u
<1>4. /\ a \o u \in Path /\ Len(a \o u) = Len(a) + Len(u)
      /\ \A i \in 1 .. Len(a) + Len(u) : (a \o u)[i] = IF i <= Len(a) THEN a[i] ELSE u[i - Len(a)]
  BY <1>3, ConcatProperties DEF Path
<1>5. IsPrefix(a, a \o u)
  <2>1. Len(a) <= Len(a \o u) /\ \A i \in 1 .. Len(a) : (a \o u)[i] = a[i]
    BY <1>1, <1>3, <1>4
  <2> QED
    BY <1>4, <2>1, PrefixMeans DEF Path
<1>6. \A i \in 1 .. Len(r) - Len(b) : (a \o u)[Len(a) + i] = r[Len(b) + i]
  BY <1>1, <1>3, <1>4
<1> QED
  BY <1>3, <1>4, <1>5, <1>6 DEF Source, u

\* What is above a thing moves above it.
LEMMA SourcesFollow ==
    ASSUME NEW a \in Path, NEW b \in Path, NEW s \in Path, NEW r \in Path,
           IsPrefix(b, s), IsPrefix(s, r)
    PROVE  /\ IsPrefix(Source(a, b, s), Source(a, b, r))
           /\ s # r => Source(a, b, s) # Source(a, b, r)
<1> DEFINE x == Source(a, b, s)
           y == Source(a, b, r)
<1>1. IsPrefix(b, r)
  BY PrefixOfPrefix DEF Path
<1>2. /\ x \in Path /\ Len(x) = Len(a) + (Len(s) - Len(b)) /\ IsPrefix(a, x)
      /\ \A i \in 1 .. Len(s) - Len(b) : x[Len(a) + i] = s[Len(b) + i]
  BY SourceMeans
<1>3. /\ y \in Path /\ Len(y) = Len(a) + (Len(r) - Len(b)) /\ IsPrefix(a, y)
      /\ \A i \in 1 .. Len(r) - Len(b) : y[Len(a) + i] = r[Len(b) + i]
  BY <1>1, SourceMeans
<1>4. /\ Len(a) \in Nat /\ Len(b) \in Nat /\ Len(s) \in Nat /\ Len(r) \in Nat
      /\ Len(b) <= Len(s) /\ Len(s) <= Len(r) /\ \A i \in 1 .. Len(s) : s[i] = r[i]
      /\ s # r => Len(s) < Len(r)
  BY PrefixMeans, ShorterBelow DEF Path
<1>5. /\ \A i \in 1 .. Len(a) : x[i] = a[i]
      /\ \A i \in 1 .. Len(a) : y[i] = a[i]
  BY <1>2, <1>3, PrefixMeans DEF Path
<1> HIDE DEF x, y
<1>6. ASSUME NEW i \in 1 .. Len(x)
      PROVE  x[i] = y[i]
  <2>1. CASE i <= Len(a)
    BY <1>4, <1>5, <2>1
  <2>2. CASE i > Len(a)
    <3> DEFINE j == i - Len(a)
    <3>1. j \in 1 .. Len(s) - Len(b) /\ j \in 1 .. Len(r) - Len(b) /\ i = Len(a) + j
      BY <1>2, <1>4, <2>2
    <3>2. x[i] = s[Len(b) + j] /\ y[i] = r[Len(b) + j]
      BY <1>2, <1>3, <3>1
    <3>3. Len(b) + j \in 1 .. Len(s)
      BY <1>4, <3>1
    <3> QED
      BY <1>4, <3>2, <3>3
  <2> QED
    BY <1>4, <2>1, <2>2
<1>7. Len(x) <= Len(y) /\ (s # r => Len(x) # Len(y))
  BY <1>2, <1>3, <1>4
<1>8. IsPrefix(x, y)
  BY <1>2, <1>3, <1>6, <1>7, PrefixMeans DEF Path
<1> QED
  BY <1>7, <1>8 DEF x, y

-----------------------------------------------------------------------------
(* What the calls of the host make of a tree. *)

Treelike(t) == t \in [Paths -> Nodes] /\ FoldersAbove(t)

LEMMA Kinds ==
    /\ Nothing.kind = "nothing" /\ Folder.kind = "folder" /\ Nothing \in Nodes /\ Folder \in Nodes
    /\ \A x : File(x).kind = "file" /\ File(x) # Nothing
    /\ \A x \in Texts \cup {Cut} : File(x) \in Nodes
BY DEF Nothing, Folder, File, Nodes

\* Below what is no folder, or a folder with nothing inside, there is nothing.
LEMMA NothingBelow ==
    ASSUME NEW t, Treelike(t), NEW p \in Paths, NEW r \in Paths, Below(p, r),
           t[p].kind # "folder" \/ Inside(t, p) = {}
    PROVE  t[r] = Nothing
<1> SUFFICES ASSUME t[r] # Nothing
             PROVE  FALSE
  OBVIOUS
<1>1. p \in Path /\ r \in Path /\ p # <<>>
  BY PathsClosed
<1>2. t[p].kind = "folder"
  BY DEF Treelike, FoldersAbove
<1>3. Len(p) < Len(r) /\ Len(p) \in Nat /\ Len(r) \in Nat
  BY <1>1, ShorterBelow DEF Path, Below
<1> DEFINE c == SubSeq(r, 1, Len(p) + 1)
<1>4. /\ c \in Path /\ Len(c) = Len(p) + 1
      /\ \A i \in 1 .. Len(p) + 1 : c[i] = r[i]
  <2>1. Len(p) + 1 \in 0 .. Len(r)
    BY <1>3
  <2> QED
    BY <1>1, <2>1, Beginning DEF Path
<1> HIDE DEF c
<1>5. IsPrefix(c, r) /\ c # <<>>
  <2>1. Len(c) <= Len(r) /\ \A i \in 1 .. Len(c) : c[i] = r[i]
    BY <1>3, <1>4
  <2>2. c # <<>>
    BY <1>3, <1>4 DEF Path
  <2> QED
    BY <1>1, <1>4, <2>1, <2>2, PrefixMeans DEF Path
<1>6. c \in Paths
  BY <1>4, <1>5, PathsClosed
<1>7. t[c] # Nothing
  BY <1>5, <1>6, Kinds DEF Treelike, FoldersAbove, Below
<1>8. Parent(c) = p
  <2>1. Parent(c) \in Path /\ Len(Parent(c)) = Len(p) /\ IsPrefix(Parent(c), c)
    BY <1>3, <1>4, <1>5, ParentMeans DEF Path
  <2>2. IsPrefix(Parent(c), r)
    BY <1>1, <1>4, <1>5, <2>1, PrefixOfPrefix DEF Path
  <2> QED
    BY <1>1, <2>1, <2>2, PrefixesCompare DEF Path, Below
<1> QED
  BY <1>2, <1>6, <1>7, <1>8 DEF Inside

\* Above what has a folder as its parent, there are folders.
LEMMA FoldersUp ==
    ASSUME NEW t, Treelike(t), NEW p \in Paths, IsFolder(t, Parent(p)), NEW s \in Paths, Below(s, p)
    PROVE  t[s].kind = "folder"
<1>1. p \in Path /\ s \in Path /\ p # <<>> /\ s # <<>>
  BY PathsClosed
<1>2. Parent(p) \in Path /\ IsPrefix(s, Parent(p)) /\ IsPrefix(Parent(p), p)
  BY <1>1, ParentMeans DEF Path, Below
<1>3. Parent(p) # <<>>
  <2>1. Len(s) <= Len(Parent(p)) /\ Len(s) > 0
    BY <1>1, <1>2, ShorterBelow DEF Path
  <2> QED
    BY <1>2, <2>1 DEF Path
<1>4. Parent(p) \in Paths /\ t[Parent(p)].kind = "folder"
  BY <1>2, <1>3, PathsClosed DEF IsFolder
<1> QED
  BY <1>2, <1>4, Kinds DEF Treelike, FoldersAbove, Below

LEMMA WithoutKeeps ==
    ASSUME NEW t, Treelike(t), NEW p \in Paths, Inside(t, p) = {}
    PROVE  /\ Treelike(Without(t, p)) /\ Without(t, p)[p] = Nothing
           /\ \A r \in Paths : r # p => Without(t, p)[r] = t[r]
<1>1. /\ Without(t, p) \in [Paths -> Nodes] /\ Without(t, p)[p] = Nothing
      /\ \A r \in Paths : r # p => Without(t, p)[r] = t[r]
  BY Kinds DEF Treelike, Without
<1>2. ASSUME NEW r \in Paths, NEW s \in Paths, Below(s, r), Without(t, p)[r] # Nothing
      PROVE  Without(t, p)[s].kind = "folder"
  <2>1. r # p /\ t[r] # Nothing
    BY <1>1, <1>2
  <2>2. s # p
    BY <1>2, <2>1, NothingBelow
  <2> QED
    BY <1>1, <1>2, <2>1, <2>2 DEF Treelike, FoldersAbove
<1> QED
  BY <1>1, <1>2 DEF Treelike, FoldersAbove

LEMMA PutKeeps ==
    ASSUME NEW t, Treelike(t), NEW p \in Paths, NEW node \in Nodes, IsFolder(t, Parent(p)),
           t[p].kind # "folder"
    PROVE  /\ Treelike([t EXCEPT ![p] = node]) /\ [t EXCEPT ![p] = node][p] = node
           /\ \A r \in Paths : r # p => [t EXCEPT ![p] = node][r] = t[r]
<1> DEFINE u == [t EXCEPT ![p] = node]
<1>1. /\ u \in [Paths -> Nodes] /\ u[p] = node
      /\ \A r \in Paths : r # p => u[r] = t[r]
  BY DEF Treelike
<1> HIDE DEF u
<1>2. ASSUME NEW r \in Paths, NEW s \in Paths, Below(s, r), u[r] # Nothing
      PROVE  u[s].kind = "folder"
  <2>1. CASE r = p
    BY <1>1, <1>2, <2>1, FoldersUp DEF Below
  <2>2. CASE r # p
    <3>1. t[r] # Nothing
      BY <1>1, <1>2, <2>2
    <3>2. t[s].kind = "folder"
      BY <1>2, <3>1 DEF Treelike, FoldersAbove
    <3> QED
      BY <1>1, <3>2
  <2> QED
    BY <2>1, <2>2
<1>3. Treelike(u)
  BY <1>1, <1>2 DEF Treelike, FoldersAbove
<1> QED
  BY <1>1, <1>3 DEF u

LEMMA MovedMeans ==
    ASSUME NEW t, NEW a, NEW b, NEW r \in Paths
    PROVE  Moved(t, a, b)[r] =
             IF IsPrefix(b, r)
             THEN IF Source(a, b, r) \in Paths THEN t[Source(a, b, r)] ELSE Nothing
             ELSE IF IsPrefix(a, r) THEN Nothing ELSE t[r]
BY DEF Moved, Source

LEMMA MovedKeeps ==
    ASSUME NEW t, Treelike(t), NEW a \in Paths, NEW b \in Paths, ~IsPrefix(a, b), IsFolder(t, Parent(b))
    PROVE  Treelike(Moved(t, a, b))
<1>0. \A p \in Paths : p \in Path /\ p # <<>>
  BY PathsClosed
<1>1. Moved(t, a, b) \in [Paths -> Nodes]
  <2>1. \A r \in Paths : Moved(t, a, b)[r] \in Nodes
    BY MovedMeans, Kinds DEF Treelike
  <2>2. Moved(t, a, b) = [r \in Paths |-> Moved(t, a, b)[r]]
    BY DEF Moved
  <2> QED
    BY <2>1, <2>2
<1>2. ASSUME NEW r \in Paths, NEW s \in Paths, Below(s, r), Moved(t, a, b)[r] # Nothing
      PROVE  Moved(t, a, b)[s].kind = "folder"
  <2>0. /\ a \in Path /\ b \in Path /\ r \in Path /\ s \in Path /\ s # <<>> /\ a # <<>>
        /\ IsPrefix(s, r) /\ s # r
    BY <1>0, <1>2 DEF Below
  <2>1. CASE IsPrefix(b, r) /\ IsPrefix(b, s)
    <3>1. /\ Source(a, b, r) \in Paths /\ Moved(t, a, b)[r] = t[Source(a, b, r)]
      BY <1>2, <2>1, MovedMeans
    <3>2. Source(a, b, s) \in Path /\ IsPrefix(a, Source(a, b, s))
      BY <2>0, <2>1, SourceMeans
    <3>3. Source(a, b, s) # <<>>
      <4>1. Len(a) <= Len(Source(a, b, s)) /\ Len(a) > 0
        BY <2>0, <3>2, ShorterBelow DEF Path
      <4> QED
        BY <2>0, <4>1 DEF Path
    <3>4. Below(Source(a, b, s), Source(a, b, r))
      BY <2>0, <2>1, SourcesFollow DEF Below
    <3>5. Source(a, b, s) \in Paths
      BY <3>1, <3>2, <3>3, <3>4, PathsClosed DEF Below
    <3>6. t[Source(a, b, s)].kind = "folder"
      BY <1>2, <3>1, <3>4, <3>5 DEF Treelike, FoldersAbove
    <3> QED
      BY <2>1, <3>5, <3>6, MovedMeans
  <2>2. CASE IsPrefix(b, r) /\ ~IsPrefix(b, s)
    <3>1. Below(s, b)
      BY <2>0, <2>2, PrefixesCompare, ShorterBelow DEF Path, Below
    <3>2. ~IsPrefix(a, s)
      BY <2>0, <3>1, PrefixOfPrefix DEF Path, Below
    <3>3. t[s].kind = "folder"
      BY <3>1, FoldersUp
    <3> QED
      BY <2>2, <3>2, <3>3, MovedMeans
  <2>3. CASE ~IsPrefix(b, r)
    <3>1. ~IsPrefix(a, r) /\ t[r] # Nothing
      BY <1>2, <2>3, MovedMeans
    <3>2. ~IsPrefix(a, s) /\ ~IsPrefix(b, s)
      BY <2>0, <2>3, <3>1, PrefixOfPrefix DEF Path
    <3>3. t[s].kind = "folder"
      BY <1>2, <3>1 DEF Treelike, FoldersAbove
    <3> QED
      BY <3>2, <3>3, MovedMeans
  <2> QED
    BY <2>1, <2>2, <2>3
<1> QED
  BY <1>1, <1>2 DEF Treelike, FoldersAbove

LEMMA MovedTypes ==
    ASSUME NEW t \in [Paths -> Nodes], NEW a, NEW b
    PROVE  Moved(t, a, b) \in [Paths -> Nodes]
<1>1. \A r \in Paths : Moved(t, a, b)[r] \in Nodes
  BY MovedMeans, Kinds
<1>2. Moved(t, a, b) = [r \in Paths |-> Moved(t, a, b)[r]]
  BY DEF Moved
<1> QED
  BY <1>1, <1>2

\* A stage, and what is below it, has a staging name in its path.
LEMMA BelowStage ==
    ASSUME NEW q \in Path, q # <<>>, NEW p \in Path, IsPrefix(Stage(q), p)
    PROVE  IsStaged(p)
<1>1. /\ Stage(q) \in Path /\ Len(Stage(q)) = Len(q) /\ Stage(q) # <<>>
      /\ Last(Stage(q)) = Append(Last(q), ".ern-new")
  BY StageMeans DEF Path
<1>2. Len(q) \in Nat /\ Len(q) > 0 /\ Last(q) \in Seq(Pieces)
  BY DEF Path, Last
<1>3. p[Len(q)] = Stage(q)[Len(q)] /\ Len(q) \in 1 .. Len(p)
  <2>1. Len(Stage(q)) <= Len(p) /\ \A i \in 1 .. Len(Stage(q)) : Stage(q)[i] = p[i]
    BY <1>1, PrefixMeans DEF Path
  <2>2. Len(p) \in Nat
    BY DEF Path
  <2> QED
    BY <1>1, <1>2, <2>1, <2>2
<1>4. p[Len(q)] = Append(Last(q), ".ern-new")
  BY <1>1, <1>3 DEF Last
<1>5. Last(Append(Last(q), ".ern-new")) = ".ern-new"
  <2>1. ".ern-new" \in Pieces
    BY PlacesAssumption
  <2>2. /\ Append(Last(q), ".ern-new") \in Seq(Pieces)
        /\ Len(Append(Last(q), ".ern-new")) = Len(Last(q)) + 1
        /\ Append(Last(q), ".ern-new")[Len(Last(q)) + 1] = ".ern-new"
    BY <1>2, <2>1, AppendProperties
  <2> QED
    BY <2>2, Zenon DEF Last
<1> QED
  BY <1>3, <1>4, <1>5 DEF IsStaged

\* A recovery of q made u of t: a stage went away or came up to where there was
\* nothing.
Recovery(t, u, q) ==
    /\ Treelike(u)
    /\ \A p \in Paths : u[p] # t[p] =>
          \/ u[p] = Nothing /\ IsPrefix(Stage(q), p)
          \/ t[p] = Nothing /\ IsPrefix(q, p) /\ HasStage(t, q)

LEMMA Recovering ==
    ASSUME NEW t, Treelike(t), NEW q \in Places, NEW r \in Recovered(t, q)
    PROVE  /\ Recovery(t, r.tree, q)
           /\ r.yes => r.tree[Stage(q)] = Nothing
           /\ ~r.yes => HasStage(t, q) /\ r.tree = t
<1>0. /\ q \in Paths /\ Stage(q) \in Paths /\ q \in Path /\ q # <<>> /\ Stage(q) \in Path
      /\ Stage(q) # q /\ Len(Stage(q)) = Len(q)
  BY PathsClosed, StageMeans DEF Path
<1>1. ~IsPrefix(q, Stage(q)) /\ IsPrefix(Stage(q), Stage(q))
  <2>1. Len(q) \in Nat
    BY <1>0 DEF Path
  <2>2. \A i \in 1 .. Len(Stage(q)) : Stage(q)[i] = Stage(q)[i]
    OBVIOUS
  <2>3. IsPrefix(Stage(q), Stage(q))
    BY <1>0, <2>1, <2>2, PrefixMeans DEF Path
  <2>4. IsPrefix(q, Stage(q)) => Len(q) < Len(Stage(q))
    BY <1>0, ShorterBelow DEF Path
  <2> QED
    BY <1>0, <2>1, <2>3, <2>4
<1>2. CASE r = Outcome(t, TRUE) /\ ~HasStage(t, q)
  <2>1. r.tree = t /\ r.yes
    BY <1>2 DEF Outcome
  <2> QED
    BY <1>2, <2>1 DEF Recovery, HasStage
<1>3. CASE r = Outcome(t, FALSE) /\ HasStage(t, q)
  <2>1. r.tree = t /\ ~r.yes
    BY <1>3 DEF Outcome
  <2> QED
    BY <1>3, <2>1 DEF Recovery
<1>4. CASE r = Outcome(Without(t, Stage(q)), TRUE) /\ CanRemove(t, Stage(q))
  <2>1. r.tree = Without(t, Stage(q)) /\ r.yes
    BY <1>4 DEF Outcome
  <2>2. /\ Treelike(r.tree) /\ r.tree[Stage(q)] = Nothing
        /\ \A p \in Paths : p # Stage(q) => r.tree[p] = t[p]
    <3>1. Inside(t, Stage(q)) = {}
      BY <1>4 DEF CanRemove
    <3>2. /\ Treelike(Without(t, Stage(q))) /\ Without(t, Stage(q))[Stage(q)] = Nothing
          /\ \A p \in Paths : p # Stage(q) => Without(t, Stage(q))[p] = t[p]
      BY <1>0, <3>1, WithoutKeeps
    <3> QED
      BY <2>1, <3>2, Zenon
  <2>3. ASSUME NEW p \in Paths, r.tree[p] # t[p]
        PROVE  r.tree[p] = Nothing /\ IsPrefix(Stage(q), p)
    <3>1. p = Stage(q)
      BY <2>2, <2>3
    <3> QED
      BY <1>1, <2>2, <3>1
  <2>4. Recovery(t, r.tree, q)
    BY <2>2, <2>3, Zenon DEF Recovery
  <2> QED
    BY <2>1, <2>2, <2>4, Zenon
<1>5. CASE /\ r = Outcome(Moved(t, Stage(q), q), TRUE) /\ HasStage(t, q)
           /\ t[q] = Nothing /\ CanRename(t, Stage(q), q)
  <2>1. r.tree = Moved(t, Stage(q), q) /\ r.yes
    BY <1>5 DEF Outcome
  <2>2. Treelike(r.tree)
    BY <1>0, <1>5, <2>1, MovedKeeps DEF CanRename
  <2>3. r.tree[Stage(q)] = Nothing
    BY <1>0, <1>1, <2>1, MovedMeans
  <2>4. ASSUME NEW p \in Paths, r.tree[p] # t[p]
        PROVE  \/ r.tree[p] = Nothing /\ IsPrefix(Stage(q), p)
               \/ t[p] = Nothing /\ IsPrefix(q, p) /\ HasStage(t, q)
    <3>1. CASE IsPrefix(q, p)
      <4>1. t[p] = Nothing
        BY <1>0, <1>5, <3>1, NothingBelow, Kinds DEF Below
      <4> QED
        BY <1>5, <3>1, <4>1
    <3>2. CASE ~IsPrefix(q, p)
      BY <2>1, <2>4, <3>2, MovedMeans
    <3> QED
      BY <3>1, <3>2
  <2> QED
    BY <2>1, <2>2, <2>3, <2>4 DEF Recovery
<1> QED
  BY <1>2, <1>3, <1>4, <1>5 DEF Recovered

LEMMA Existing ==
    ASSUME NEW t, Treelike(t), NEW q \in Places, NEW e \in Exists(t, q)
    PROVE  /\ Recovery(t, e.tree, q)
           /\ e.yes => e.tree[q] # Nothing /\ e.tree[Stage(q)] = Nothing
           /\ ~e.yes => e.tree[q] = Nothing \/ (HasStage(t, q) /\ e.tree = t)
<1>1. PICK r \in Recovered(t, q) : e = Outcome(r.tree, r.yes /\ r.tree[q] # Nothing)
  BY DEF Exists
<1>2. e.tree = r.tree /\ e.yes = (r.yes /\ r.tree[q] # Nothing)
  BY <1>1 DEF Outcome
<1>3. /\ Recovery(t, r.tree, q)
      /\ r.yes => r.tree[Stage(q)] = Nothing
      /\ ~r.yes => HasStage(t, q) /\ r.tree = t
  BY Recovering
<1>4. e.yes => r.yes /\ e.tree[q] # Nothing
  BY <1>2
<1>5. ~e.yes => ~r.yes \/ e.tree[q] = Nothing
  BY <1>2
<1> QED
  BY <1>2, <1>3, <1>4, <1>5

LEMMA TreelikeParents ==
    ASSUME NEW t, Treelike(t), NEW p \in Paths, t[p] # Nothing
    PROVE  IsFolder(t, Parent(p))
<1>1. p \in Path /\ p # <<>>
  BY PathsClosed
<1>2. Parent(p) \in Path /\ IsPrefix(Parent(p), p) /\ Parent(p) # p
  BY <1>1, ParentMeans DEF Path
<1>3. Parent(p) # <<>> => Parent(p) \in Paths
  BY <1>2, PathsClosed
<1> QED
  BY <1>2, <1>3 DEF IsFolder, Treelike, FoldersAbove, Below

\* A recovery leaves alone what is above the thing and beside it.
LEMMA RecoveryKeepsAbove ==
    ASSUME NEW t, NEW u, NEW q \in Places, Recovery(t, u, q), NEW p \in Paths,
           ~IsPrefix(q, p), ~IsPrefix(Stage(q), p)
    PROVE  u[p] = t[p]
BY DEF Recovery

LEMMA RecoveryKeepsParent ==
    ASSUME NEW t, NEW u, NEW q \in Places, Recovery(t, u, q), IsFolder(t, Parent(q))
    PROVE  IsFolder(u, Parent(q))
<1>1. /\ q \in Path /\ q # <<>> /\ Stage(q) \in Path /\ Len(Stage(q)) = Len(q)
  BY PathsClosed, StageMeans DEF Path
<1>2. Parent(q) \in Path /\ IsPrefix(Parent(q), q) /\ Len(Parent(q)) = Len(q) - 1 /\ Len(q) \in Nat
  BY <1>1, ParentMeans DEF Path
<1>3. Parent(q) # <<>> => Parent(q) \in Paths
  BY <1>2, PathsClosed
<1>4. ~IsPrefix(q, Parent(q)) /\ ~IsPrefix(Stage(q), Parent(q))
  <2>1. IsPrefix(q, Parent(q)) => Len(q) <= Len(Parent(q))
    BY <1>1, <1>2, ShorterBelow DEF Path
  <2>2. IsPrefix(Stage(q), Parent(q)) => Len(Stage(q)) <= Len(Parent(q))
    BY <1>1, <1>2, ShorterBelow DEF Path
  <2> QED
    BY <1>1, <1>2, <2>1, <2>2
<1>5. Parent(q) # <<>> => u[Parent(q)] = t[Parent(q)]
  BY <1>3, <1>4, RecoveryKeepsAbove
<1> QED
  BY <1>5 DEF IsFolder

LEMMA NothingInside ==
    ASSUME NEW t, Treelike(t), NEW p \in Paths, ~IsFolder(t, p)
    PROVE  Inside(t, p) = {}
<1>1. SUFFICES ASSUME NEW r \in Inside(t, p)
               PROVE  FALSE
  OBVIOUS
<1>2. r \in Paths /\ Parent(r) = p /\ t[r] # Nothing
  BY DEF Inside
<1> QED
  BY <1>2, TreelikeParents

-----------------------------------------------------------------------------
(* The commands keep the invariant. *)

Steady == Treelike(tree) /\ saved \in [Paths -> Nodes]

LEMMA KeptTypes == Steady => Kept \in [Paths -> Nodes]
BY Kinds DEF Steady, Kept

LEMMA StagesKeep ==
    ASSUME Steady, NEW p \in Places, NEW node \in Nodes, IsFolder(tree, Parent(p)),
           NEW r \in Recovered(tree, p), r.yes
    PROVE  Treelike([r.tree EXCEPT ![Stage(p)] = node])
<1>1. Recovery(tree, r.tree, p) /\ r.tree[Stage(p)] = Nothing
  BY Recovering DEF Steady
<1>2. Stage(p) \in Paths /\ Parent(Stage(p)) = Parent(p)
  BY PathsClosed, StageMeans DEF Path
<1>3. IsFolder(r.tree, Parent(p))
  BY <1>1, RecoveryKeepsParent
<1> QED
  BY <1>1, <1>2, <1>3, PutKeeps, Kinds DEF Recovery

LEMMA AnswerKeeps ==
    ASSUME Steady, NEW t, Treelike(t), Answer(t)
    PROVE  Steady'
BY KeptTypes DEF Answer, Steady

LEMMA ReadKeeps ==
    ASSUME Steady, NEW p \in Places, VfRead(p)
    PROVE  Steady'
<1>1. PICK r \in Recovered(tree, p) : Answer(r.tree)
  BY DEF VfRead
<1>2. Treelike(r.tree)
  BY Recovering DEF Steady, Recovery
<1> QED
  BY <1>1, <1>2, AnswerKeeps

LEMMA WriteKeeps ==
    ASSUME Steady, NEW p \in Places, NEW text \in Texts, VfWrite(p, text)
    PROVE  Steady'
<1>0. CanHoldNote(p) /\ File(text) \in Nodes
  BY Kinds DEF VfWrite
<1>1. PICK r \in Recovered(tree, p) :
         \/ Answer(r.tree)
         \/ /\ r.yes /\ ~IsFolder(r.tree, p)
            /\ Done([r.tree EXCEPT ![p] = File(text)], [Kept EXCEPT ![p] = File(text)])
         \/ r.yes /\ Answer([r.tree EXCEPT ![Stage(p)] = File(text)])
  BY DEF VfWrite
<1>2. Recovery(tree, r.tree, p) /\ Treelike(r.tree)
  BY Recovering DEF Steady, Recovery
<1>3. CASE Answer(r.tree)
  BY <1>2, <1>3, AnswerKeeps
<1>4. CASE /\ r.yes /\ ~IsFolder(r.tree, p)
           /\ Done([r.tree EXCEPT ![p] = File(text)], [Kept EXCEPT ![p] = File(text)])
  <2>1. p \in Paths /\ IsFolder(r.tree, Parent(p)) /\ r.tree[p].kind # "folder"
    BY <1>0, <1>2, <1>4, RecoveryKeepsParent, PathsClosed DEF CanHoldNote, IsFolder
  <2>2. Treelike([r.tree EXCEPT ![p] = File(text)])
    BY <1>0, <1>2, <2>1, PutKeeps
  <2>3. [Kept EXCEPT ![p] = File(text)] \in [Paths -> Nodes]
    BY <1>0, KeptTypes
  <2> QED
    BY <1>4, <2>2, <2>3 DEF Done, Steady
<1>5. CASE r.yes /\ Answer([r.tree EXCEPT ![Stage(p)] = File(text)])
  BY <1>0, <1>5, StagesKeep, AnswerKeeps DEF CanHoldNote
<1> QED
  BY <1>1, <1>3, <1>4, <1>5

LEMMA StoppedKeeps ==
    ASSUME Steady, NEW p \in Places, NEW text \in Texts, VfWriteStopped(p, text)
    PROVE  Steady'
<1>1. PICK r \in Recovered(tree, p), left \in {Cut, text} :
         r.yes /\ Answer([r.tree EXCEPT ![Stage(p)] = File(left)])
  BY DEF VfWriteStopped
<1>2. CanHoldNote(p) /\ File(left) \in Nodes
  BY <1>1, Kinds DEF VfWriteStopped
<1> QED
  BY <1>1, <1>2, StagesKeep, AnswerKeeps DEF CanHoldNote

LEMMA MakeFolderKeeps ==
    ASSUME Steady, NEW p \in Places, VfMakeFolder(p)
    PROVE  Steady'
<1>1. PICK e \in Exists(tree, p) :
         \/ Answer(e.tree)
         \/ /\ ~e.yes /\ e.tree[p] = Nothing /\ IsFolder(e.tree, Parent(p))
            /\ Done([e.tree EXCEPT ![p] = Folder], [Kept EXCEPT ![p] = Folder])
  BY DEF VfMakeFolder
<1>2. Treelike(e.tree) /\ p \in Paths
  BY Existing, PathsClosed DEF Steady, Recovery
<1>3. CASE Answer(e.tree)
  BY <1>2, <1>3, AnswerKeeps
<1>4. CASE /\ ~e.yes /\ e.tree[p] = Nothing /\ IsFolder(e.tree, Parent(p))
           /\ Done([e.tree EXCEPT ![p] = Folder], [Kept EXCEPT ![p] = Folder])
  <2>1. Treelike([e.tree EXCEPT ![p] = Folder])
    BY <1>2, <1>4, Kinds, PutKeeps
  <2>2. [Kept EXCEPT ![p] = Folder] \in [Paths -> Nodes]
    BY Kinds, KeptTypes
  <2> QED
    BY <1>4, <2>1, <2>2 DEF Done, Steady
<1> QED
  BY <1>1, <1>3, <1>4

LEMMA RemoveKeeps ==
    ASSUME Steady, NEW p \in Places, VfRemove(p)
    PROVE  Steady'
<1>1. PICK e \in Exists(tree, p) :
         \/ Answer(e.tree)
         \/ /\ e.yes
            /\ IsFolder(e.tree, p) => Inside(e.tree, p) = {}
            /\ Done(Without(e.tree, p), Without(Kept, p))
  BY DEF VfRemove
<1>2. Treelike(e.tree) /\ p \in Paths
  BY Existing, PathsClosed DEF Steady, Recovery
<1>3. CASE Answer(e.tree)
  BY <1>2, <1>3, AnswerKeeps
<1>4. CASE /\ e.yes
           /\ IsFolder(e.tree, p) => Inside(e.tree, p) = {}
           /\ Done(Without(e.tree, p), Without(Kept, p))
  <2>1. Treelike(Without(e.tree, p))
    BY <1>2, <1>4, NothingInside, WithoutKeeps
  <2>2. Without(Kept, p) \in [Paths -> Nodes]
    BY Kinds, KeptTypes DEF Without
  <2> QED
    BY <1>4, <2>1, <2>2 DEF Done, Steady
<1> QED
  BY <1>1, <1>3, <1>4

LEMMA MoveKeeps ==
    ASSUME Steady, NEW p \in Places, NEW q \in Places, VfMove(p, q)
    PROVE  Steady'
<1>1. PICK e \in Exists(tree, p) :
         \/ ~(e.yes /\ MayWrite(p) /\ MayWrite(q)) /\ Answer(e.tree)
         \/ /\ e.yes /\ MayWrite(p) /\ MayWrite(q)
            /\ \E f \in Exists(e.tree, q) :
                  \/ Answer(f.tree)
                  \/ /\ ~f.yes /\ IsFolder(f.tree, Parent(q))
                     /\ CanRename(f.tree, p, q)
                     /\ Done(Moved(f.tree, p, q), Moved(Kept, p, q))
  BY DEF VfMove
<1>2. Treelike(e.tree) /\ p \in Paths /\ q \in Paths
  BY Existing, PathsClosed DEF Steady, Recovery
<1>3. CASE Answer(e.tree)
  BY <1>2, <1>3, AnswerKeeps
<1>4. CASE \E f \in Exists(e.tree, q) :
              \/ Answer(f.tree)
              \/ /\ ~f.yes /\ IsFolder(f.tree, Parent(q))
                 /\ CanRename(f.tree, p, q)
                 /\ Done(Moved(f.tree, p, q), Moved(Kept, p, q))
  <2>1. PICK f \in Exists(e.tree, q) :
              \/ Answer(f.tree)
              \/ /\ ~f.yes /\ IsFolder(f.tree, Parent(q))
                 /\ CanRename(f.tree, p, q)
                 /\ Done(Moved(f.tree, p, q), Moved(Kept, p, q))
    BY <1>4
  <2>2. Treelike(f.tree)
    BY <1>2, Existing DEF Recovery
  <2>3. CASE Answer(f.tree)
    BY <2>2, <2>3, AnswerKeeps
  <2>4. CASE CanRename(f.tree, p, q) /\ Done(Moved(f.tree, p, q), Moved(Kept, p, q))
    <3>1. Treelike(Moved(f.tree, p, q))
      BY <1>2, <2>2, <2>4, MovedKeeps DEF CanRename
    <3>2. Moved(Kept, p, q) \in [Paths -> Nodes]
      BY KeptTypes, MovedTypes
    <3> QED
      BY <2>4, <3>1, <3>2 DEF Done, Steady
  <2> QED
    BY <2>1, <2>3, <2>4
<1> QED
  BY <1>1, <1>3, <1>4

\* Every command of virtual_files.ep, and the machine stopping inside a write,
\* leaves folders above everything that is there, so that no path of the host
\* ends in the air; all is of its type.
THEOREM FileInvHolds == FileSpec => []FileInv
<1>0. FileInv <=> Steady /\ session \in People \cup {Nobody}
  BY TreelikeParents DEF FileInv, FileTypeOK, Steady, Treelike
<1>1. FileInit => FileInv
  <2> SUFFICES ASSUME FileInit
               PROVE  Steady /\ session \in People \cup {Nobody}
    BY <1>0
  <2>1. /\ tree \in [Paths -> Nodes] /\ saved \in [Paths -> Nodes]
        /\ \A p \in Paths : tree[p] = IF p \in Homes THEN Folder ELSE Nothing
    BY Kinds DEF FileInit
  <2>2. ASSUME NEW p \in Paths, NEW q \in Paths, Below(q, p), tree[p] # Nothing
        PROVE  tree[q].kind = "folder"
    <3>1. p \in Homes
      BY <2>1, <2>2
    <3>2. q \in Homes
      BY <2>2, <3>1, PathsClosed, HomesClosed DEF Below
    <3> QED
      BY <2>1, <3>2, Kinds
  <2> QED
    BY <2>1, <2>2 DEF Steady, Treelike, FoldersAbove, FileInit
<1>2. FileInv /\ [FileNext]_fileVars => FileInv'
  <2> SUFFICES ASSUME FileInv, [FileNext]_fileVars
               PROVE  Steady' /\ session' \in People \cup {Nobody}
    BY TreelikeParents DEF FileInv, FileTypeOK, Steady, Treelike
  <2>0. Steady /\ session \in People \cup {Nobody}
    BY <1>0
  <2>1. CASE UNCHANGED fileVars
    BY <2>0, <2>1 DEF fileVars, Steady
  <2>2. ASSUME NEW who \in People, Login(who)
        PROVE  Steady' /\ session' \in People \cup {Nobody}
    BY <2>0, <2>2 DEF Login, Steady
  <2>3. CASE Leave
    BY <2>0, <2>3 DEF Leave, Steady
  <2>4. ASSUME NEW p \in Places, Command(p)
        PROVE  Steady' /\ session' \in People \cup {Nobody}
    BY <2>0, <2>4, ReadKeeps, WriteKeeps, MakeFolderKeeps, RemoveKeeps, MoveKeeps DEF Command
  <2>5. ASSUME NEW p \in Places, NEW text \in Texts, VfWriteStopped(p, text)
        PROVE  Steady' /\ session' \in People \cup {Nobody}
    <3>1. session' = Nobody
      BY <2>5 DEF VfWriteStopped
    <3> QED
      BY <2>0, <2>5, <3>1, StoppedKeeps
  <2> QED
    BY <2>1, <2>2, <2>3, <2>4, <2>5 DEF FileNext
<1> QED
  BY <1>1, <1>2, PTL DEF FileSpec

-----------------------------------------------------------------------------
(* Members and what is abroad. *)

\* Whatever a member may write to, it and its stage are not above a thing abroad.
LEMMA OwnThings ==
    ASSUME IsMember, NEW q \in Places, MayWrite(q), NEW p \in Paths, Abroad(p)
    PROVE  ~IsPrefix(q, p) /\ ~IsPrefix(Stage(q), p)
<1> DEFINE home == Home(session)
<1>1. /\ q \in Path /\ q # <<>> /\ p \in Path
      /\ Stage(q) \in Path /\ Stage(q) # <<>> /\ Parent(Stage(q)) = Parent(q)
  BY PathsClosed, StageMeans DEF Path
<1>2. home \in Path
  BY PlacesAssumption DEF IsMember, Home, Path
<1>3. IsPrefix(home, q) /\ ~IsPrefix(home, p) /\ ~IsPrefix(Stage(home), p)
  BY DEF IsMember, MayWrite, Abroad
<1> HIDE DEF home
<1>4. ~IsPrefix(q, p)
  BY <1>1, <1>2, <1>3, PrefixOfPrefix DEF Path
<1>5. CASE q = home
  BY <1>3, <1>4, <1>5
<1>6. CASE q # home
  <2>1. IsPrefix(home, Parent(q)) /\ Parent(q) \in Path
    BY <1>1, <1>2, <1>3, <1>6, ParentMeans DEF Path
  <2>2. IsPrefix(Parent(q), Stage(q))
    BY <1>1, ParentMeans DEF Path
  <2>3. IsPrefix(home, Stage(q))
    BY <1>1, <1>2, <2>1, <2>2, PrefixOfPrefix DEF Path
  <2>4. ~IsPrefix(Stage(q), p)
    BY <1>1, <1>2, <1>3, <2>3, PrefixOfPrefix DEF Path
  <2> QED
    BY <1>4, <2>4
<1> QED
  BY <1>5, <1>6

\* p, abroad, is changed by a recovery alone.
ByRecovery(p) ==
    \/ tree'[p] = Nothing /\ \E q \in Places : IsPrefix(Stage(q), p)
    \/ tree[p] = Nothing /\ \E q \in Places : IsPrefix(q, p) /\ HasStage(tree, q)

LEMMA RecoveriesAreAllowed ==
    ASSUME NEW q \in Places, NEW u, Recovery(tree, u, q), tree' = u,
           NEW p \in Paths, tree'[p] # tree[p]
    PROVE  ByRecovery(p)
BY DEF Recovery, ByRecovery

LEMMA AbroadWrite ==
    ASSUME Steady, IsMember, NEW q \in Places, NEW text \in Texts,
           VfWrite(q, text) \/ VfWriteStopped(q, text), NEW p \in Paths, Abroad(p)
    PROVE  tree'[p] = tree[p]
<1>1. MayWrite(q)
  BY DEF VfWrite, VfWriteStopped, CanHoldNote
<1>2. ~IsPrefix(q, p) /\ ~IsPrefix(Stage(q), p)
  BY <1>1, OwnThings
<1>3. q # p /\ Stage(q) # p
  <2>1. q \in Path /\ Stage(q) \in Path
    BY PathsClosed
  <2>2. \A c \in Path : IsPrefix(c, c)
    BY PrefixMeans DEF Path
  <2> QED
    BY <1>2, <2>1, <2>2
<1>4. PICK r \in Recovered(tree, q) :
         \/ tree' = r.tree
         \/ tree' = [r.tree EXCEPT ![q] = File(text)]
         \/ \E left : tree' = [r.tree EXCEPT ![Stage(q)] = File(left)]
  BY DEF VfWrite, VfWriteStopped, Answer, Done
<1>5. r.tree[p] = tree[p] /\ r.tree \in [Paths -> Nodes]
  BY <1>2, Recovering, RecoveryKeepsAbove DEF Steady, Recovery, Treelike
<1> QED
  BY <1>3, <1>4, <1>5

LEMMA AbroadCommand ==
    ASSUME Steady, IsMember, NEW q \in Places, Command(q), NEW p \in Paths, Abroad(p),
           tree'[p] # tree[p]
    PROVE  ByRecovery(p)
<1>1. CASE VfRead(q)
  <2>1. PICK r \in Recovered(tree, q) : tree' = r.tree
    BY <1>1 DEF VfRead, Answer
  <2>2. Recovery(tree, r.tree, q)
    BY Recovering DEF Steady
  <2> QED
    BY <2>1, <2>2, RecoveriesAreAllowed
<1>2. CASE \E text \in Texts : VfWrite(q, text)
  BY <1>2, AbroadWrite
<1>3. CASE VfMakeFolder(q) \/ VfRemove(q)
  <2>1. MayWrite(q)
    BY <1>3 DEF VfMakeFolder, VfRemove
  <2>2. ~IsPrefix(q, p) /\ ~IsPrefix(Stage(q), p) /\ q # p
    <3>1. ~IsPrefix(q, p) /\ ~IsPrefix(Stage(q), p)
      BY <2>1, OwnThings
    <3>2. IsPrefix(q, q)
      BY PathsClosed, PrefixMeans DEF Path
    <3> QED
      BY <3>1, <3>2
  <2>3. PICK e \in Exists(tree, q) :
           \/ tree' = e.tree
           \/ tree' = [e.tree EXCEPT ![q] = Folder]
           \/ tree' = [e.tree EXCEPT ![q] = Nothing]
    BY <1>3 DEF VfMakeFolder, VfRemove, Answer, Done, Without
  <2>4. e.tree[p] = tree[p] /\ e.tree \in [Paths -> Nodes]
    BY <2>2, Existing, RecoveryKeepsAbove DEF Steady, Recovery, Treelike
  <2>5. tree'[p] = tree[p]
    BY <2>2, <2>3, <2>4
  <2> QED
    BY <2>5
<1>4. ASSUME NEW b \in Places, VfMove(q, b)
      PROVE  ByRecovery(p)
  <2>1. PICK e \in Exists(tree, q) :
           \/ tree' = e.tree
           \/ /\ MayWrite(q) /\ MayWrite(b)
              /\ \E f \in Exists(e.tree, b) :
                    tree' = f.tree \/ tree' = Moved(f.tree, q, b)
    BY <1>4 DEF VfMove, Answer, Done
  <2>2. Recovery(tree, e.tree, q) /\ Treelike(e.tree)
    BY Existing DEF Steady, Recovery
  <2>3. CASE tree' = e.tree
    BY <2>2, <2>3, RecoveriesAreAllowed
  <2>4. CASE /\ MayWrite(q) /\ MayWrite(b)
             /\ \E f \in Exists(e.tree, b) :
                   tree' = f.tree \/ tree' = Moved(f.tree, q, b)
    <3>1. /\ ~IsPrefix(q, p) /\ ~IsPrefix(Stage(q), p)
          /\ ~IsPrefix(b, p) /\ ~IsPrefix(Stage(b), p)
      BY <2>4, OwnThings
    <3>2. PICK f \in Exists(e.tree, b) : tree' = f.tree \/ tree' = Moved(f.tree, q, b)
      BY <2>4
    <3>3. Recovery(e.tree, f.tree, b)
      BY <2>2, Existing
    <3>4. e.tree[p] = tree[p] /\ f.tree[p] = e.tree[p]
      BY <2>2, <3>1, <3>3, RecoveryKeepsAbove
    <3>5. Moved(f.tree, q, b)[p] = f.tree[p]
      BY <3>1, MovedMeans
    <3>6. tree'[p] = tree[p]
      BY <3>2, <3>4, <3>5
    <3> QED
      BY <3>6
  <2> QED
    BY <2>1, <2>3, <2>4
<1> QED
  BY <1>1, <1>2, <1>3, <1>4 DEF Command

\* Whatever members do, what is outside their home changes by recovery alone:
\* session_may_write keeps every write of theirs, and the stage it goes through,
\* inside (virtual_files.ep, sessions.ep).
THEOREM MembersStayHome == FileSpec => MembersChangeTheirHome
<1>1. FileInv => Steady
  BY DEF FileInv, FileTypeOK, Steady, Treelike
<1>2. ASSUME FileInv, [FileNext]_fileVars, IsMember, NEW p \in Paths, tree'[p] # tree[p], Abroad(p)
      PROVE  ByRecovery(p)
  <2>1. CASE UNCHANGED tree
    BY <1>2, <2>1
  <2>2. CASE \E q \in Places : Command(q)
    BY <1>1, <1>2, <2>2, AbroadCommand
  <2>3. CASE \E q \in Places, text \in Texts : VfWriteStopped(q, text)
    BY <1>1, <1>2, <2>3, AbroadWrite
  <2> QED
    BY <1>2, <2>1, <2>2, <2>3 DEF FileNext, Login, Leave, fileVars
<1>3. FileInv /\ [FileNext]_fileVars =>
      [IsMember =>
          \A p \in Paths : tree'[p] # tree[p] /\ Abroad(p)
              => \/ tree'[p] = Nothing /\ \E q \in Places : IsPrefix(Stage(q), p)
                 \/ tree[p] = Nothing /\ \E q \in Places : IsPrefix(q, p) /\ HasStage(tree, q)]_fileVars
  BY <1>2 DEF ByRecovery
<1> QED
  BY <1>3, FileInvHolds, PTL DEF FileSpec, MembersChangeTheirHome

-----------------------------------------------------------------------------
(* What people were told is there. *)

\* p is as people were told, and not named as a stage is.
Told(p) == tree[p] # Nothing /\ saved[p] = tree[p] /\ ~IsStaged(p)

LEMMA ToldIsNoStage ==
    ASSUME NEW p \in Paths, ~IsStaged(p), NEW q \in Places
    PROVE  ~IsPrefix(Stage(q), p) /\ Stage(q) # p
<1>1. q \in Path /\ q # <<>> /\ Stage(q) \in Path /\ p \in Path
  BY PathsClosed
<1>2. ~IsPrefix(Stage(q), p)
  BY <1>1, BelowStage
<1>3. IsPrefix(p, p)
  BY <1>1, PrefixMeans DEF Path
<1> QED
  BY <1>2, <1>3

\* A recovery leaves alone what is there and not named as a stage.
LEMMA RecoverySpares ==
    ASSUME NEW t, NEW u, NEW q \in Places, Recovery(t, u, q),
           NEW p \in Paths, t[p] # Nothing, ~IsStaged(p)
    PROVE  u[p] = t[p]
BY ToldIsNoStage DEF Recovery

\* Where the stage beside b stands after a was looked for, there was one before.
LEMMA BesideBefore ==
    ASSUME Steady, NEW a \in Places, NEW b \in Places, ~IsPrefix(a, b),
           NEW u, Recovery(tree, u, a), u[Stage(b)] # Nothing
    PROVE  StagesBeside(b)
<1>1. /\ a \in Path /\ a # <<>> /\ b \in Path /\ b # <<>>
      /\ Stage(a) \in Paths /\ Stage(b) \in Paths
  BY PathsClosed
<1>2. /\ Stage(b) \in Path /\ Stage(b) # <<>> /\ Parent(Stage(b)) = Parent(b)
      /\ Last(Stage(b)) = Append(Last(b), ".ern-new")
  BY <1>1, StageMeans DEF Path
<1>3. Last(Stage(b)) \in Seq(Pieces)
  <2>1. \A c \in Path : c # <<>> => Last(c) \in Seq(Pieces)
    BY DEF Path, Last
  <2> QED
    BY <1>2, <2>1
<1>4. CASE tree[Stage(b)] # Nothing
  <2>1. IsPrefix(Append(Last(b), ".ern-new"), Last(Stage(b)))
    <3>1. IsPrefix(Last(Stage(b)), Last(Stage(b)))
      BY <1>3, PrefixMeans
    <3> QED
      BY <1>2, <3>1
  <2> QED
    BY <1>1, <1>2, <1>4, <2>1 DEF StagesBeside
<1>5. CASE tree[Stage(b)] = Nothing
  <2>1. IsPrefix(a, Stage(b)) /\ HasStage(tree, a)
    BY <1>1, <1>5 DEF Recovery
  <2>2. a = Stage(b)
    <3>1. SUFFICES ASSUME a # Stage(b)
                   PROVE  FALSE
      OBVIOUS
    <3>2. IsPrefix(a, Parent(b)) /\ Parent(b) \in Path /\ IsPrefix(Parent(b), b)
      BY <1>1, <1>2, <2>1, <3>1, ParentMeans DEF Path
    <3> QED
      BY <1>1, <3>2, PrefixOfPrefix DEF Path
  <2>3. /\ Parent(Stage(a)) = Parent(b) /\ tree[Stage(a)] # Nothing
        /\ Last(Stage(a)) = Append(Last(a), ".ern-new")
    BY <1>1, <1>2, <2>1, <2>2, StageMeans DEF Path, HasStage
  <2>4. IsPrefix(Append(Last(b), ".ern-new"), Last(Stage(a)))
    <3>1. \A n \in Seq(Pieces) : IsPrefix(n, Append(n, ".ern-new"))
      <4>1. ".ern-new" \in Pieces
        BY PlacesAssumption
      <4>2. ASSUME NEW n \in Seq(Pieces)
            PROVE  IsPrefix(n, Append(n, ".ern-new"))
        <5> DEFINE longer == Append(n, ".ern-new")
        <5>1. /\ longer \in Seq(Pieces) /\ Len(longer) = Len(n) + 1 /\ Len(n) \in Nat
              /\ \A i \in 1 .. Len(n) : longer[i] = n[i]
          BY <4>1, AppendProperties
        <5> HIDE DEF longer
        <5>2. IsPrefix(n, longer)
          BY <5>1, PrefixMeans
        <5> QED
          BY <5>2 DEF longer
      <4> QED
        BY <4>2
    <3>2. Last(a) = Append(Last(b), ".ern-new") /\ Last(a) \in Seq(Pieces)
      BY <1>2, <1>3, <2>2
    <3> QED
      BY <2>3, <3>1, <3>2, Zenon
  <2> QED
    BY <1>1, <2>3, <2>4 DEF StagesBeside
<1> QED
  BY <1>4, <1>5

LEMMA MoveTellsTrue ==
    ASSUME Steady, NEW a \in Places, NEW b \in Places, VfMove(a, b),
           NEW p \in Paths, Told(p), ~StagesBeside(p)
    PROVE  tree'[p] = saved'[p]
<1>0. Kept[p] = tree[p]
  BY DEF Kept, Told
<1>1. PICK e \in Exists(tree, a) :
         \/ Answer(e.tree)
         \/ \E f \in Exists(e.tree, b) :
               \/ Answer(f.tree)
               \/ /\ ~f.yes /\ CanRename(f.tree, a, b)
                  /\ Done(Moved(f.tree, a, b), Moved(Kept, a, b))
  BY DEF VfMove
<1>2. Recovery(tree, e.tree, a) /\ Treelike(e.tree)
  BY Existing DEF Steady, Recovery
<1>3. e.tree[p] = tree[p]
  BY <1>2, RecoverySpares DEF Told
<1>4. CASE Answer(e.tree)
  BY <1>0, <1>3, <1>4 DEF Answer
<1>5. CASE \E f \in Exists(e.tree, b) :
               \/ Answer(f.tree)
               \/ /\ ~f.yes /\ CanRename(f.tree, a, b)
                  /\ Done(Moved(f.tree, a, b), Moved(Kept, a, b))
  <2>1. PICK f \in Exists(e.tree, b) :
               \/ Answer(f.tree)
               \/ /\ ~f.yes /\ CanRename(f.tree, a, b)
                  /\ Done(Moved(f.tree, a, b), Moved(Kept, a, b))
    BY <1>5
  <2>2. /\ Recovery(e.tree, f.tree, b) /\ Treelike(f.tree)
        /\ ~f.yes => f.tree[b] = Nothing \/ (HasStage(e.tree, b) /\ f.tree = e.tree)
    BY <1>2, Existing DEF Recovery
  <2>3. f.tree[p] = tree[p] /\ f.tree[p] # Nothing
    BY <1>3, <2>2, RecoverySpares DEF Told
  <2>4. CASE Answer(f.tree)
    BY <1>0, <2>3, <2>4 DEF Answer
  <2>5. CASE /\ ~f.yes /\ CanRename(f.tree, a, b)
             /\ Done(Moved(f.tree, a, b), Moved(Kept, a, b))
    <3>1. tree' = Moved(f.tree, a, b) /\ saved' = Moved(Kept, a, b)
      BY <2>5 DEF Done
    <3>2. ~IsPrefix(b, p)
      <4>1. SUFFICES ASSUME IsPrefix(b, p)
                     PROVE  FALSE
        OBVIOUS
      <4>2. b \in Paths /\ (b = p \/ Below(b, p))
        BY <4>1, PathsClosed DEF Below
      <4>3. f.tree[b] # Nothing
        BY <2>2, <2>3, <4>2, NothingBelow, Kinds
      <4>4. Inside(f.tree, b) = {} /\ ~IsPrefix(a, b)
        BY <2>5, <4>3 DEF CanRename
      <4>5. b = p
        BY <2>2, <2>3, <4>2, <4>4, NothingBelow
      <4>6. e.tree[Stage(b)] # Nothing
        BY <2>2, <2>5, <4>3 DEF HasStage
      <4> QED
        BY <1>2, <4>4, <4>5, <4>6, BesideBefore
    <3>3. CASE IsPrefix(a, p)
      BY <3>1, <3>2, <3>3, MovedMeans
    <3>4. CASE ~IsPrefix(a, p)
      BY <1>0, <2>3, <3>1, <3>2, <3>4, MovedMeans
    <3> QED
      BY <3>3, <3>4
  <2> QED
    BY <2>1, <2>4, <2>5
<1> QED
  BY <1>1, <1>4, <1>5

LEMMA WriteTellsTrue ==
    ASSUME Steady, NEW q \in Places, NEW text \in Texts,
           VfWrite(q, text) \/ VfWriteStopped(q, text), NEW p \in Paths, Told(p)
    PROVE  tree'[p] = saved'[p]
<1>0. Kept[p] = tree[p] /\ Kept \in [Paths -> Nodes] /\ Stage(q) # p
  BY KeptTypes, ToldIsNoStage DEF Kept, Told
<1>1. PICK r \in Recovered(tree, q) :
         \/ Answer(r.tree)
         \/ Done([r.tree EXCEPT ![q] = File(text)], [Kept EXCEPT ![q] = File(text)])
         \/ \E left : Answer([r.tree EXCEPT ![Stage(q)] = File(left)])
  BY DEF VfWrite, VfWriteStopped
<1>2. r.tree[p] = tree[p] /\ r.tree \in [Paths -> Nodes]
  <2>1. Recovery(tree, r.tree, q)
    BY Recovering DEF Steady
  <2>2. r.tree[p] = tree[p]
    BY <2>1, RecoverySpares DEF Told
  <2> QED
    BY <2>1, <2>2 DEF Recovery, Treelike
<1>3. CASE Answer(r.tree)
  BY <1>0, <1>2, <1>3 DEF Answer
<1>4. CASE Done([r.tree EXCEPT ![q] = File(text)], [Kept EXCEPT ![q] = File(text)])
  <2>1. /\ tree' = [r.tree EXCEPT ![q] = File(text)]
        /\ saved' = [Kept EXCEPT ![q] = File(text)]
    BY <1>4 DEF Done
  <2>2. CASE p = q
    BY <1>0, <1>2, <2>1, <2>2
  <2>3. CASE p # q
    BY <1>0, <1>2, <2>1, <2>3
  <2> QED
    BY <2>2, <2>3
<1>5. ASSUME NEW left, Answer([r.tree EXCEPT ![Stage(q)] = File(left)])
      PROVE  tree'[p] = saved'[p]
  <2>1. tree' = [r.tree EXCEPT ![Stage(q)] = File(left)] /\ saved' = Kept
    BY <1>5 DEF Answer
  <2> QED
    BY <1>0, <1>2, <2>1
<1> QED
  BY <1>1, <1>3, <1>4, <1>5

LEMMA CommandTellsTrue ==
    ASSUME Steady, NEW q \in Places, Command(q), NEW p \in Paths, Told(p), ~StagesBeside(p)
    PROVE  tree'[p] = saved'[p]
<1>0. Kept[p] = tree[p] /\ Kept \in [Paths -> Nodes]
  BY KeptTypes DEF Kept, Told
<1>1. CASE VfRead(q)
  <2>1. PICK r \in Recovered(tree, q) : Answer(r.tree)
    BY <1>1 DEF VfRead
  <2>2. r.tree[p] = tree[p]
    BY Recovering, RecoverySpares DEF Steady, Told
  <2> QED
    BY <1>0, <2>1, <2>2 DEF Answer
<1>2. CASE \E text \in Texts : VfWrite(q, text)
  BY <1>2, WriteTellsTrue
<1>3. CASE VfMakeFolder(q) \/ VfRemove(q)
  <2>1. PICK e \in Exists(tree, q) :
           \/ Answer(e.tree)
           \/ \E node \in Nodes : Done([e.tree EXCEPT ![q] = node], [Kept EXCEPT ![q] = node])
    BY <1>3, Kinds DEF VfMakeFolder, VfRemove, Without
  <2>2. e.tree[p] = tree[p] /\ e.tree \in [Paths -> Nodes]
    <3>1. Recovery(tree, e.tree, q)
      BY Existing DEF Steady
    <3>2. e.tree[p] = tree[p]
      BY <3>1, RecoverySpares DEF Told
    <3> QED
      BY <3>1, <3>2 DEF Recovery, Treelike
  <2> QED
    BY <1>0, <2>1, <2>2 DEF Answer, Done
<1>4. CASE \E b \in Places : VfMove(q, b)
  BY <1>4, MoveTellsTrue
<1> QED
  BY <1>1, <1>2, <1>3, <1>4 DEF Command

\* What people were told is there stays until a command about it, or about a
\* folder above it, was answered as done; but for what is named as a stage, or
\* beside one (the_disk.ep's disk_recover under every command of virtual_files.ep).
THEOREM ToldStays == FileSpec => SavedThingsStay
<1>1. FileInv => Steady
  BY DEF FileInv, FileTypeOK, Steady, Treelike
<1>2. ASSUME FileInv, [FileNext]_fileVars, NEW p \in Paths, saved[p] # Nothing, saved[p] = tree[p],
             tree'[p] # saved'[p]
      PROVE  IsStaged(p) \/ StagesBeside(p)
  <2>1. SUFFICES ASSUME Told(p), ~StagesBeside(p)
                 PROVE  tree'[p] = saved'[p]
    BY <1>2 DEF Told
  <2>2. CASE UNCHANGED <<tree, saved>>
    BY <1>2, <2>2
  <2>3. CASE \E q \in Places : Command(q)
    BY <1>1, <1>2, <2>1, <2>3, CommandTellsTrue
  <2>4. CASE \E q \in Places, text \in Texts : VfWriteStopped(q, text)
    BY <1>1, <1>2, <2>1, <2>4, WriteTellsTrue
  <2> QED
    BY <1>2, <2>2, <2>3, <2>4 DEF FileNext, Login, Leave, fileVars
<1>3. FileInv /\ [FileNext]_fileVars =>
      [\A p \in Paths :
          saved[p] # Nothing /\ saved[p] = tree[p] /\ tree'[p] # saved'[p]
          => IsStaged(p) \/ StagesBeside(p)]_fileVars
  BY <1>2
<1> QED
  BY <1>3, FileInvHolds, PTL DEF FileSpec, SavedThingsStay

-----------------------------------------------------------------------------
(* Induction, through the least element of a set of numbers. *)

\* A set of numbers that is not empty has a least one.
LEMMA LeastNumber ==
    ASSUME NEW T, T \subseteq Nat, T # {}
    PROVE  \E n \in T : \A m \in T : n <= m
<1> DEFINE Lesser == OpToRel(<, Nat)
<1>1. \A m, n \in Nat : m < n => <<m, n>> \in Lesser
  BY DEF OpToRel
<1>2. IsWellFoundedOn(Lesser, Nat)
  BY NatLessThanWellFounded
<1> HIDE DEF Lesser
<1>3. PICK n \in T : \A m \in T : ~(<<m, n>> \in Lesser)
  BY <1>2, WFMin
<1>4. ASSUME NEW m \in T PROVE n <= m
  <2>1. m \in Nat /\ n \in Nat /\ ~(<<m, n>> \in Lesser)
    BY <1>3
  <2>2. ~(m < n)
    BY <2>1, <1>1
  <2> QED
    BY <2>1, <2>2
<1> QED
  BY <1>4, Zenon

\* A set of numbers with 0 and the successor of each of its members is all of them.
LEMMA CountedUp ==
    ASSUME NEW T, T \subseteq Nat, 0 \in T, \A n \in T : n + 1 \in T
    PROVE  T = Nat
<1> DEFINE Missing == Nat \ T
<1>1. CASE Missing # {}
  <2>1. PICK n \in Missing : \A m \in Missing : n <= m
    BY <1>1, LeastNumber
  <2>2. n # 0 /\ n \in Nat
    BY <2>1
  <2>3. n - 1 \in Nat /\ n - 1 \notin Missing
    BY <2>1, <2>2
  <2> QED
    BY <2>1, <2>2, <2>3
<1> QED
  BY <1>1

\* Sequences are counted up by their lengths.
LEMMA SequencesCountedUp ==
    ASSUME NEW S, NEW P,
           <<>> \in P,
           \A s \in Seq(S) : s \in P => \A e \in S : Append(s, e) \in P
    PROVE  Seq(S) \subseteq P
<1> DEFINE T == {n \in Nat : \A s \in Seq(S) : Len(s) = n => s \in P}
<1>1. 0 \in T
  <2>1. \A s \in Seq(S) : Len(s) = 0 => s = <<>>
    BY EmptySeq
  <2> QED
    BY <2>1
<1>2. ASSUME NEW n \in T PROVE n + 1 \in T
  <2>1. ASSUME NEW s \in Seq(S), Len(s) = n + 1 PROVE s \in P
    <3>1. s # <<>> /\ n \in Nat
      BY <2>1
    <3>2. PICK r \in Seq(S), e \in S : s = Append(r, e)
      BY <3>1, SequenceEmptyOrAppend
    <3>3. Len(s) = Len(r) + 1 /\ Len(r) \in Nat
      BY <3>2, AppendProperties, LenProperties
    <3>4. Len(r) = n
      BY <3>1, <3>3, <2>1
    <3> QED
      BY <3>2, <3>4
  <2> QED
    BY <2>1
<1>3. T = Nat
  <2> HIDE DEF T
  <2>1. T \subseteq Nat
    BY DEF T
  <2> QED
    BY <1>1, <1>2, <2>1, CountedUp
<1>4. \A s \in Seq(S) : Len(s) \in Nat
  BY LenProperties
<1> QED
  BY <1>3, <1>4

-----------------------------------------------------------------------------
(* The words that are not skipped. *)

PickedUpTo(words, skipped, m, f) ==
    f = [n \in 0 .. m |-> IF n = 0 THEN <<>>
                          ELSE IF words[n] \in skipped THEN f[n - 1]
                          ELSE Append(f[n - 1], words[n])]

\* What is picked so far, and one word more.
LEMMA PickedUpToGrows ==
    ASSUME NEW words, NEW skipped, NEW m \in Nat, NEW f, PickedUpTo(words, skipped, m, f)
    PROVE  \E g : PickedUpTo(words, skipped, m + 1, g)
<1> DEFINE more == IF words[m + 1] \in skipped THEN f[m] ELSE Append(f[m], words[m + 1])
           g == [n \in 0 .. m + 1 |-> IF n = m + 1 THEN more ELSE f[n]]
           h == [n \in 0 .. m + 1 |-> IF n = 0 THEN <<>>
                          ELSE IF words[n] \in skipped THEN g[n - 1]
                          ELSE Append(g[n - 1], words[n])]
<1>1. \A n \in 0 .. m : g[n] = f[n]
  OBVIOUS
<1>2. g[m + 1] = more
  OBVIOUS
<1>3. \A n \in 0 .. m : f[n] = IF n = 0 THEN <<>>
                          ELSE IF words[n] \in skipped THEN f[n - 1]
                          ELSE Append(f[n - 1], words[n])
  BY DEF PickedUpTo
<1>4. ASSUME NEW n \in 0 .. m + 1 PROVE g[n] = h[n]
  <2>1. CASE n = m + 1
    <3>1. n # 0 /\ n - 1 = m /\ m \in 0 .. m
      BY <2>1
    <3>2. h[n] = IF words[n] \in skipped THEN g[n - 1] ELSE Append(g[n - 1], words[n])
      BY <3>1
    <3>3. g[n - 1] = f[m]
      BY <3>1, <1>1
    <3> QED
      BY <3>2, <3>3, <1>2, <2>1
  <2>2. CASE n # m + 1
    <3>1. n \in 0 .. m
      BY <2>2
    <3>2. CASE n = 0
      <4>1. h[n] = <<>> /\ f[n] = <<>>
        BY <3>2, <1>3, <3>1
      <4> QED
        BY <4>1, <1>1, <3>1
    <3>3. CASE n # 0
      <4>1. n - 1 \in 0 .. m
        BY <3>1, <3>3
      <4>2. g[n - 1] = f[n - 1]
        BY <4>1, <1>1
      <4>3. h[n] = IF words[n] \in skipped THEN g[n - 1] ELSE Append(g[n - 1], words[n])
        BY <3>3
      <4>4. f[n] = IF words[n] \in skipped THEN f[n - 1] ELSE Append(f[n - 1], words[n])
        BY <3>1, <3>3, <1>3
      <4> QED
        BY <4>2, <4>3, <4>4, <3>1, <1>1
    <3> QED
      BY <3>2, <3>3
  <2> QED
    BY <2>1, <2>2
<1> HIDE DEF more
<1>5. g = h
  BY <1>4
<1>6. PickedUpTo(words, skipped, m + 1, g)
  BY <1>5 DEF PickedUpTo
<1> QED
  BY <1>6

\* The picking is defined up to every word.
LEMMA PickedIsDefined ==
    ASSUME NEW words, NEW skipped, NEW m \in Nat
    PROVE  \E f : PickedUpTo(words, skipped, m, f)
<1> DEFINE T == {n \in Nat : \E f : PickedUpTo(words, skipped, n, f)}
<1>1. 0 \in T
  <2>1. PickedUpTo(words, skipped, 0, [n \in 0 .. 0 |-> <<>>])
    BY DEF PickedUpTo
  <2> QED
    BY <2>1
<1>2. ASSUME NEW n \in T PROVE n + 1 \in T
  BY PickedUpToGrows
<1>3. T = Nat
  <2> HIDE DEF T
  <2>1. T \subseteq Nat
    BY DEF T
  <2> QED
    BY <1>1, <1>2, <2>1, CountedUp
<1> QED
  BY <1>3

\* What is picked is the last step of such a picking.
LEMMA PickedEquation ==
    ASSUME NEW W, NEW words \in Seq(W), NEW skipped
    PROVE  \E f : /\ PickedUpTo(words, skipped, Len(words), f)
                  /\ Picked(words, skipped) = f[Len(words)]
<1>1. Len(words) \in Nat
  BY LenProperties
<1>2. \E f : PickedUpTo(words, skipped, Len(words), f)
  BY <1>1, PickedIsDefined
<1> DEFINE f == CHOOSE f : PickedUpTo(words, skipped, Len(words), f)
<1>3. PickedUpTo(words, skipped, Len(words), f)
  BY <1>2
<1>4. Picked(words, skipped) = f[Len(words)]
  BY DEF Picked, PickedUpTo
<1> QED
  BY <1>3, <1>4

\* Sequences that begin alike are picked from alike, so far.
LEMMA PickedAgrees ==
    ASSUME NEW words, NEW others, NEW skipped, NEW k \in Nat, NEW m \in Nat, k <= m,
           NEW f, PickedUpTo(words, skipped, k, f),
           NEW g, PickedUpTo(others, skipped, m, g),
           \A i \in 1 .. k : words[i] = others[i]
    PROVE  f[k] = g[k]
<1> DEFINE T == {n \in Nat : n <= k => f[n] = g[n]}
<1>a. \A n \in 0 .. k : f[n] = IF n = 0 THEN <<>>
                          ELSE IF words[n] \in skipped THEN f[n - 1]
                          ELSE Append(f[n - 1], words[n])
  BY DEF PickedUpTo
<1>b. \A n \in 0 .. m : g[n] = IF n = 0 THEN <<>>
                          ELSE IF others[n] \in skipped THEN g[n - 1]
                          ELSE Append(g[n - 1], others[n])
  BY DEF PickedUpTo
<1>1. 0 \in T
  <2>1. f[0] = <<>> /\ g[0] = <<>>
    BY <1>a, <1>b
  <2> QED
    BY <2>1
<1>2. ASSUME NEW n \in T PROVE n + 1 \in T
  <2>1. CASE n + 1 <= k
    <3>1. n \in Nat /\ n + 1 \in 0 .. k /\ n + 1 \in 0 .. m /\ n + 1 # 0 /\ (n + 1) - 1 = n
      BY <2>1
    <3>2. f[n] = g[n]
      BY <2>1, <3>1
    <3>3. words[n + 1] = others[n + 1]
      BY <3>1
    <3>4. f[n + 1] = IF words[n + 1] \in skipped THEN f[n] ELSE Append(f[n], words[n + 1])
      BY <3>1, <1>a
    <3>5. g[n + 1] = IF others[n + 1] \in skipped THEN g[n] ELSE Append(g[n], others[n + 1])
      BY <3>1, <1>b
    <3>6. f[n + 1] = g[n + 1]
      BY <3>2, <3>3, <3>4, <3>5, Zenon
    <3> QED
      BY <3>1, <3>6
  <2>2. CASE ~(n + 1 <= k)
    BY <2>2
  <2> QED
    BY <2>1, <2>2
<1>3. T = Nat
  <2> HIDE DEF T
  <2>1. T \subseteq Nat
    BY DEF T
  <2> QED
    BY <1>1, <1>2, <2>1, CountedUp
<1> QED
  BY <1>3

\* Nothing is picked from nothing.
LEMMA PickedOfNone ==
    ASSUME NEW skipped
    PROVE  Picked(<<>>, skipped) = <<>>
<1>1. <<>> \in Seq({}) /\ Len(<<>>) = 0
  OBVIOUS
<1>2. PICK f : PickedUpTo(<<>>, skipped, 0, f) /\ Picked(<<>>, skipped) = f[0]
  BY <1>1, PickedEquation
<1>3. f[0] = <<>>
  BY <1>2 DEF PickedUpTo
<1> QED
  BY <1>2, <1>3

\* One word more is picked last, or skipped.
LEMMA PickedOfMore ==
    ASSUME NEW W, NEW words \in Seq(W), NEW w \in W, NEW skipped
    PROVE  Picked(Append(words, w), skipped) =
             IF w \in skipped THEN Picked(words, skipped) ELSE Append(Picked(words, skipped), w)
<1> DEFINE more == Append(words, w)
           n == Len(words)
<1>1. /\ more \in Seq(W) /\ n \in Nat /\ Len(more) = n + 1 /\ more[n + 1] = w
      /\ \A i \in 1 .. n : words[i] = more[i]
  BY AppendProperties, LenProperties
<1>2. PICK f : PickedUpTo(words, skipped, n, f) /\ Picked(words, skipped) = f[n]
  BY PickedEquation
<1>3. PICK g : PickedUpTo(more, skipped, Len(more), g) /\ Picked(more, skipped) = g[Len(more)]
  BY <1>1, PickedEquation
<1> HIDE DEF more, n
<1>4. PickedUpTo(more, skipped, n + 1, g) /\ Picked(more, skipped) = g[n + 1]
  BY <1>1, <1>3
<1>5. f[n] = g[n]
  BY <1>1, <1>2, <1>4, PickedAgrees
<1>6. g[n + 1] = IF more[n + 1] \in skipped THEN g[n] ELSE Append(g[n], more[n + 1])
  <2>1. n + 1 \in 0 .. n + 1 /\ n + 1 # 0 /\ (n + 1) - 1 = n
    BY <1>1
  <2> QED
    BY <2>1, <1>4 DEF PickedUpTo
<1>7. Picked(more, skipped) = IF w \in skipped THEN f[n] ELSE Append(f[n], w)
  BY <1>1, <1>4, <1>5, <1>6
<1> QED
  BY <1>2, <1>7 DEF more

\* The words of a sequence with one more at its end.
LEMMA RangeOfMore ==
    ASSUME NEW W, NEW r \in Seq(W), NEW e \in W
    PROVE  Range(Append(r, e)) = Range(r) \cup {e}
<1>1. /\ DOMAIN r = 1 .. Len(r) /\ Len(r) \in Nat
      /\ DOMAIN Append(r, e) = 1 .. Len(r) + 1
      /\ Append(r, e)[Len(r) + 1] = e
      /\ \A j \in 1 .. Len(r) : Append(r, e)[j] = r[j]
  BY AppendProperties, LenProperties
<1>2. \A j \in 1 .. Len(r) + 1 : j \in 1 .. Len(r) \/ j = Len(r) + 1
  BY <1>1
<1>3. Len(r) + 1 \in 1 .. Len(r) + 1 /\ 1 .. Len(r) \subseteq 1 .. Len(r) + 1
  BY <1>1
<1> QED
  BY <1>1, <1>2, <1>3 DEF Range

\* What is picked is a sequence of the words that are not skipped, all of them.
LEMMA PickedWords ==
    ASSUME NEW W, NEW words \in Seq(W), NEW skipped
    PROVE  /\ Picked(words, skipped) \in Seq(W)
           /\ Range(Picked(words, skipped)) = Range(words) \ skipped
<1> DEFINE P == {s \in Seq(W) : /\ Picked(s, skipped) \in Seq(W)
                                /\ Range(Picked(s, skipped)) = Range(s) \ skipped}
<1>1. <<>> \in P
  <2>1. Range(<<>>) = {} /\ <<>> \in Seq(W)
    BY DEF Range
  <2>2. Picked(<<>>, skipped) = <<>>
    BY PickedOfNone
  <2> HIDE DEF Picked
  <2>3. Range(Picked(<<>>, skipped)) = Range(<<>>) \ skipped
    BY <2>1, <2>2, Zenon
  <2> QED
    BY <2>1, <2>2, <2>3
<1>2. ASSUME NEW s \in Seq(W), s \in P, NEW e \in W PROVE Append(s, e) \in P
  <2>1. Append(s, e) \in Seq(W)
    OBVIOUS
  <2>2. Picked(Append(s, e), skipped) =
             IF e \in skipped THEN Picked(s, skipped) ELSE Append(Picked(s, skipped), e)
    BY PickedOfMore
  <2>3. ASSUME NEW r \in Seq(W) PROVE Range(Append(r, e)) = Range(r) \cup {e}
    BY RangeOfMore
  <2>4. Range(Append(s, e)) = Range(s) \cup {e}
    BY <2>3
  <2>5. CASE e \in skipped
    <3>1. Picked(Append(s, e), skipped) = Picked(s, skipped)
      BY <2>2, <2>5
    <3>2. /\ Picked(Append(s, e), skipped) \in Seq(W)
          /\ Range(Picked(Append(s, e), skipped)) = Range(s) \ skipped
      BY <1>2, <3>1, Zenon
    <3>3. Range(s) \ skipped = Range(Append(s, e)) \ skipped
      BY <2>4, <2>5
    <3> QED
      BY <2>1, <3>2, <3>3
  <2>6. CASE e \notin skipped
    <3>1. Picked(s, skipped) \in Seq(W) /\ Range(Picked(s, skipped)) = Range(s) \ skipped
      BY <1>2
    <3>2. Range(Append(Picked(s, skipped), e)) = Range(Picked(s, skipped)) \cup {e}
      BY <3>1, <2>3
    <3>3. Append(Picked(s, skipped), e) \in Seq(W)
      BY <3>1
    <3>4. Picked(Append(s, e), skipped) = Append(Picked(s, skipped), e)
      BY <2>2, <2>6
    <3>5. Range(Picked(s, skipped)) \cup {e} = Range(Append(s, e)) \ skipped
      BY <2>4, <2>6, <3>1
    <3>6. /\ Picked(Append(s, e), skipped) \in Seq(W)
          /\ Range(Picked(Append(s, e), skipped)) = Range(Append(s, e)) \ skipped
      BY <3>2, <3>3, <3>4, <3>5, Zenon
    <3> QED
      BY <2>1, <3>6
  <2> QED
    BY <2>5, <2>6, Zenon
<1>3. Seq(W) \subseteq P
  <2> HIDE DEF P
  <2> QED
    BY <1>1, <1>2, SequencesCountedUp
<1> QED
  BY <1>3

\* It is picked from one part after another.
LEMMA PickedInParts ==
    ASSUME NEW W, NEW a \in Seq(W), NEW b \in Seq(W), NEW skipped
    PROVE  Picked(a \o b, skipped) = Picked(a, skipped) \o Picked(b, skipped)
<1> DEFINE P == {s \in Seq(W) :
                   Picked(a \o s, skipped) = Picked(a, skipped) \o Picked(s, skipped)}
<1>1. <<>> \in P
  <2>1. a \o <<>> = a /\ Picked(a, skipped) \o <<>> = Picked(a, skipped)
    BY PickedWords, ConcatEmptySeq
  <2>2. Picked(<<>>, skipped) = <<>> /\ <<>> \in Seq(W)
    BY PickedOfNone
  <2>3. Picked(a \o <<>>, skipped) = Picked(a, skipped) \o Picked(<<>>, skipped)
    BY <2>1, <2>2, Zenon
  <2> QED
    BY <2>2, <2>3
<1>2. ASSUME NEW s \in Seq(W), s \in P, NEW e \in W PROVE Append(s, e) \in P
  <2>1. Append(s, e) \in Seq(W)
    OBVIOUS
  <2>2. a \o Append(s, e) = Append(a \o s, e) /\ a \o s \in Seq(W)
    OBVIOUS
  <2>3. Picked(Append(s, e), skipped) =
             IF e \in skipped THEN Picked(s, skipped) ELSE Append(Picked(s, skipped), e)
    BY PickedOfMore
  <2>4. Picked(Append(a \o s, e), skipped) =
             IF e \in skipped THEN Picked(a \o s, skipped)
             ELSE Append(Picked(a \o s, skipped), e)
    <3>1. PICK t \in Seq(W) : t = a \o s
      BY <2>2
    <3>2. Picked(Append(t, e), skipped) =
             IF e \in skipped THEN Picked(t, skipped) ELSE Append(Picked(t, skipped), e)
      BY PickedOfMore
    <3> QED
      BY <3>1, <3>2
  <2>5. Picked(a \o s, skipped) = Picked(a, skipped) \o Picked(s, skipped)
    BY <1>2
  <2>6. Picked(a, skipped) \o Append(Picked(s, skipped), e)
          = Append(Picked(a, skipped) \o Picked(s, skipped), e)
    <3>1. Picked(a, skipped) \in Seq(W) /\ Picked(s, skipped) \in Seq(W)
      BY PickedWords
    <3> QED
      BY <3>1
  <2>7. Picked(a \o Append(s, e), skipped) = Picked(a, skipped) \o Picked(Append(s, e), skipped)
    BY <2>2, <2>3, <2>4, <2>5, <2>6
  <2> QED
    BY <2>1, <2>7
<1>3. Seq(W) \subseteq P
  <2> HIDE DEF P
  <2> QED
    BY <1>1, <1>2, SequencesCountedUp
<1> QED
  BY <1>3

\* Skipping some and then others skips them all.
LEMMA PickedTwice ==
    ASSUME NEW W, NEW words \in Seq(W), NEW some, NEW others
    PROVE  Picked(Picked(words, some), others) = Picked(words, some \cup others)
<1> DEFINE P == {s \in Seq(W) : Picked(Picked(s, some), others) = Picked(s, some \cup others)}
<1>1. <<>> \in P
  BY PickedOfNone
<1>2. ASSUME NEW s \in Seq(W), s \in P, NEW e \in W PROVE Append(s, e) \in P
  <2>1. Append(s, e) \in Seq(W)
    OBVIOUS
  <2>2. Picked(Append(s, e), some) =
             IF e \in some THEN Picked(s, some) ELSE Append(Picked(s, some), e)
    BY PickedOfMore
  <2>3. Picked(Append(s, e), some \cup others) =
             IF e \in some \cup others THEN Picked(s, some \cup others)
             ELSE Append(Picked(s, some \cup others), e)
    BY PickedOfMore
  <2>4. Picked(s, some) \in Seq(W)
    BY PickedWords
  <2>5. Picked(Append(Picked(s, some), e), others) =
             IF e \in others THEN Picked(Picked(s, some), others)
             ELSE Append(Picked(Picked(s, some), others), e)
    BY <2>4, PickedOfMore
  <2>6. Picked(Picked(s, some), others) = Picked(s, some \cup others)
    BY <1>2
  <2>7. Picked(Picked(Append(s, e), some), others) = Picked(Append(s, e), some \cup others)
    <3>1. CASE e \in some
      BY <3>1, <2>2, <2>3, <2>6, Zenon
    <3>2. CASE e \notin some
      BY <3>2, <2>2, <2>3, <2>5, <2>6, Zenon
    <3> QED
      BY <3>1, <3>2
  <2> QED
    BY <2>1, <2>7
<1>3. Seq(W) \subseteq P
  <2> HIDE DEF P
  <2> QED
    BY <1>1, <1>2, SequencesCountedUp
<1> QED
  BY <1>3

\* Words none of which is skipped are all picked.
LEMMA PickedAll ==
    ASSUME NEW W, NEW words \in Seq(W), NEW skipped, Range(words) \cap skipped = {}
    PROVE  Picked(words, skipped) = words
<1> DEFINE S == Range(words)
           P == {s \in Seq(S) : Picked(s, skipped) = s}
<1>1. <<>> \in P
  BY PickedOfNone
<1>2. ASSUME NEW s \in Seq(S), s \in P, NEW e \in S PROVE Append(s, e) \in P
  <2>1. Append(s, e) \in Seq(S)
    OBVIOUS
  <2>2. Picked(Append(s, e), skipped) = Append(Picked(s, skipped), e)
    BY PickedOfMore
  <2> QED
    BY <1>2, <2>1, <2>2
<1>3. Seq(S) \subseteq P
  <2> HIDE DEF P, S
  <2> QED
    BY <1>1, <1>2, SequencesCountedUp
<1>4. words \in Seq(S)
  <2>1. Len(words) \in Nat /\ DOMAIN words = 1 .. Len(words)
        /\ words = [i \in 1 .. Len(words) |-> words[i]]
    BY LenProperties
  <2>2. \A i \in 1 .. Len(words) : words[i] \in S
    BY <2>1 DEF Range
  <2> HIDE DEF S
  <2> QED
    BY <2>1, <2>2
<1> QED
  BY <1>3, <1>4

\* Padding that starts a sequence is not picked.
LEMMA PickedPadding ==
    ASSUME NEW W, NEW words \in Seq(W), NEW skipped, Range(words) \subseteq skipped
    PROVE  Picked(words, skipped) = <<>>
<1>1. Picked(words, skipped) \in Seq(W) /\ Range(Picked(words, skipped)) = {}
  BY PickedWords
<1> HIDE DEF Picked
<1>2. DOMAIN Picked(words, skipped) = {}
  BY <1>1 DEF Range
<1> QED
  BY <1>1, <1>2

-----------------------------------------------------------------------------
(* Sequences around one of their words. *)

Around(s, a, w, b) == s = Append(a, w) \o b

\* Where the words of the two parts stand.
LEMMA PartsAround ==
    ASSUME NEW W, NEW a \in Seq(W), NEW w \in W, NEW b \in Seq(W), NEW s, Around(s, a, w, b)
    PROVE  /\ s \in Seq(W) /\ Len(a) \in Nat /\ Len(b) \in Nat
           /\ DOMAIN s = 1 .. Len(s)
           /\ Len(s) = Len(a) + 1 + Len(b)
           /\ s[Len(a) + 1] = w
           /\ \A j \in 1 .. Len(a) : s[j] = a[j]
           /\ \A j \in 1 .. Len(b) : s[Len(a) + 1 + j] = b[j]
<1>0. Append(a, w) \in Seq(W)
  BY AppendProperties
<1>1. PICK c \in Seq(W) : c = Append(a, w)
  BY <1>0
<1>2. Len(c) = Len(a) + 1 /\ c[Len(a) + 1] = w /\ \A j \in 1 .. Len(a) : c[j] = a[j]
  BY <1>1, AppendProperties
<1>a. c \o b \in Seq(W)
  BY ConcatProperties
<1>3. PICK t \in Seq(W) : t = c \o b
  BY <1>a
<1>4. /\ Len(t) = Len(c) + Len(b)
      /\ \A i \in 1 .. Len(c) + Len(b) : t[i] = IF i <= Len(c) THEN c[i] ELSE b[i - Len(c)]
  BY <1>3, ConcatProperties
<1>5. t = s
  BY <1>1, <1>3 DEF Around
<1>6. Len(a) \in Nat /\ Len(b) \in Nat /\ Len(c) \in Nat /\ DOMAIN t = 1 .. Len(t)
  BY LenProperties
<1>7. ASSUME NEW j \in 1 .. Len(a) + 1 PROVE t[j] = c[j]
  <2>1. j \in 1 .. Len(c) + Len(b) /\ j <= Len(c)
    BY <1>2, <1>6
  <2> QED
    BY <2>1, <1>4
<1>8. ASSUME NEW j \in 1 .. Len(b) PROVE t[Len(a) + 1 + j] = b[j]
  <2>1. /\ Len(a) + 1 + j \in 1 .. Len(c) + Len(b)
        /\ ~(Len(a) + 1 + j <= Len(c))
        /\ (Len(a) + 1 + j) - Len(c) = j
    BY <1>2, <1>6
  <2> QED
    BY <2>1, <1>4
<1>9. /\ t[Len(a) + 1] = w /\ \A j \in 1 .. Len(a) : t[j] = a[j]
  <2>1. Len(a) + 1 \in 1 .. Len(a) + 1 /\ \A j \in 1 .. Len(a) : j \in 1 .. Len(a) + 1
    BY <1>6
  <2> QED
    BY <2>1, <1>2, <1>7
<1>10. Len(t) = Len(a) + 1 + Len(b)
  BY <1>2, <1>4, <1>6
<1> QED
  BY <1>5, <1>6, <1>8, <1>9, <1>10

\* The parts are what is cut out before and behind the word.
LEMMA PartsTaken ==
    ASSUME NEW W, NEW a \in Seq(W), NEW w \in W, NEW b \in Seq(W), NEW s, Around(s, a, w, b)
    PROVE  /\ SubSeq(s, 1, Len(a)) = a
           /\ SubSeq(s, Len(a) + 2, Len(s)) = b
           /\ Range(s) = Range(a) \cup {w} \cup Range(b)
<1>1. /\ s \in Seq(W) /\ Len(a) \in Nat /\ Len(b) \in Nat
      /\ DOMAIN s = 1 .. Len(s)
      /\ Len(s) = Len(a) + 1 + Len(b)
      /\ s[Len(a) + 1] = w
      /\ \A j \in 1 .. Len(a) : s[j] = a[j]
      /\ \A j \in 1 .. Len(b) : s[Len(a) + 1 + j] = b[j]
  BY PartsAround
<1>2. SubSeq(s, 1, Len(a)) = a
  <2>1. SubSeq(s, 1, Len(a)) \in Seq(W) /\ Len(SubSeq(s, 1, Len(a))) = Len(a)
        /\ \A j \in 1 .. Len(a) : SubSeq(s, 1, Len(a))[j] = s[j]
    BY <1>1
  <2> QED
    BY <2>1, <1>1, SeqEqual
<1>3. SubSeq(s, Len(a) + 2, Len(s)) = b
  <2> DEFINE r == SubSeq(s, Len(a) + 2, Len(s))
  <2>1. r \in Seq(W) /\ Len(r) = Len(b)
        /\ \A j \in 1 .. Len(b) : r[j] = s[Len(a) + 1 + j]
    BY <1>1
  <2> HIDE DEF r
  <2>2. r = b
    BY <2>1, <1>1, SeqEqual
  <2> QED
    BY <2>2 DEF r
<1>4. Range(s) = Range(a) \cup {w} \cup Range(b)
  <2>1. Append(a, w) \in Seq(W)
    OBVIOUS
  <2>2. Range(Append(a, w) \o b) = Range(Append(a, w)) \cup Range(b)
    BY <2>1, RangeConcatenation
  <2>3. Range(Append(a, w)) = Range(a) \cup {w}
    BY RangeOfMore
  <2> QED
    BY <2>2, <2>3 DEF Around
<1> QED
  BY <1>2, <1>3, <1>4

\* A sequence parts around each of its words.
LEMMA PartsAt ==
    ASSUME NEW W, NEW s \in Seq(W), NEW i \in DOMAIN s
    PROVE  /\ s[i] \in W
           /\ SubSeq(s, 1, i - 1) \in Seq(W) /\ SubSeq(s, i + 1, Len(s)) \in Seq(W)
           /\ i = Len(SubSeq(s, 1, i - 1)) + 1
           /\ Around(s, SubSeq(s, 1, i - 1), s[i], SubSeq(s, i + 1, Len(s)))
<1>1. Len(s) \in Nat /\ i \in 1 .. Len(s) /\ DOMAIN s = 1 .. Len(s)
  BY LenProperties
<1>2. PICK w \in W : w = s[i]
  BY <1>1
<1>a. SubSeq(s, 1, i - 1) \in Seq(W) /\ SubSeq(s, i + 1, Len(s)) \in Seq(W)
  BY <1>1
<1>3. PICK a \in Seq(W) : a = SubSeq(s, 1, i - 1)
  BY <1>a
<1>4. Len(a) = i - 1 /\ \A j \in 1 .. i - 1 : a[j] = s[j]
  BY <1>1, <1>3
<1>5. PICK b \in Seq(W) : b = SubSeq(s, i + 1, Len(s))
  BY <1>a
<1>6. Len(b) = Len(s) - i /\ \A j \in 1 .. Len(s) - i : b[j] = s[i + j]
  BY <1>1, <1>5
<1>7. PICK t : Around(t, a, w, b)
  BY DEF Around
<1>8. /\ t \in Seq(W)
      /\ Len(t) = Len(a) + 1 + Len(b)
      /\ t[Len(a) + 1] = w
      /\ \A j \in 1 .. Len(a) : t[j] = a[j]
      /\ \A j \in 1 .. Len(b) : t[Len(a) + 1 + j] = b[j]
  BY <1>7, PartsAround
<1>9. ASSUME NEW j \in 1 .. Len(s) PROVE s[j] = t[j]
  <2>1. CASE j < i
    <3>1. j \in 1 .. i - 1 /\ j \in 1 .. Len(a)
      BY <2>1, <1>1, <1>4
    <3> QED
      BY <3>1, <1>4, <1>8
  <2>2. CASE j = i
    BY <2>2, <1>1, <1>2, <1>4, <1>8
  <2>3. CASE j > i
    <3>1. j - i \in 1 .. Len(b) /\ Len(a) + 1 + (j - i) = j
      BY <2>3, <1>1, <1>4, <1>6
    <3>2. t[j] = b[j - i]
      BY <3>1, <1>8
    <3>3. j - i \in 1 .. Len(s) - i /\ i + (j - i) = j
      BY <3>1, <1>1, <1>6
    <3>4. b[j - i] = s[j]
      BY <3>3, <1>6
    <3> QED
      BY <3>2, <3>4
  <2> QED
    BY <2>1, <2>2, <2>3, <1>1
<1>10. s = t
  <2>1. Len(s) = Len(t)
    BY <1>1, <1>4, <1>6, <1>8
  <2> QED
    BY <2>1, <1>8, <1>9, SeqEqual
<1>11. Around(s, SubSeq(s, 1, i - 1), s[i], SubSeq(s, i + 1, Len(s)))
  BY <1>2, <1>3, <1>5, <1>7, <1>10
<1>12. i = Len(SubSeq(s, 1, i - 1)) + 1
  BY <1>1, <1>3, <1>4
<1>13. s[i] \in W
  BY <1>2
<1> QED
  BY <1>a, <1>11, <1>12, <1>13, Zenon

\* The first place of a word, in a sequence that parts around it.
LEMMA SpotAfter ==
    ASSUME NEW W, NEW a \in Seq(W), NEW w \in W, NEW b \in Seq(W), w \notin Range(a),
           NEW s, Around(s, a, w, b)
    PROVE  Spot(s, w) = Len(a) + 1
<1>1. /\ s \in Seq(W) /\ Len(a) \in Nat /\ Len(b) \in Nat
      /\ DOMAIN s = 1 .. Len(s)
      /\ Len(s) = Len(a) + 1 + Len(b)
      /\ s[Len(a) + 1] = w
      /\ \A j \in 1 .. Len(a) : s[j] = a[j]
  BY PartsAround
<1>2. \A j \in 1 .. Len(a) : a[j] # w
  <2>1. DOMAIN a = 1 .. Len(a)
    BY LenProperties
  <2> QED
    BY <2>1 DEF Range
<1>3. \A j \in DOMAIN s : s[j] = w => Len(a) + 1 <= j
  BY <1>1, <1>2
<1>4. Len(a) + 1 \in DOMAIN s
  BY <1>1
<1>5. \A i \in DOMAIN s : (s[i] = w /\ \A j \in DOMAIN s : s[j] = w => i <= j)
                            => i = Len(a) + 1
  <2>1. ASSUME NEW i \in DOMAIN s, s[i] = w, \A j \in DOMAIN s : s[j] = w => i <= j
        PROVE  i = Len(a) + 1
    <3>1. i <= Len(a) + 1 /\ Len(a) + 1 <= i /\ i \in Nat
      BY <2>1, <1>1, <1>3, <1>4
    <3> QED
      BY <3>1, <1>1
  <2> QED
    BY <2>1
<1>6. \E i \in DOMAIN s : s[i] = w /\ \A j \in DOMAIN s : s[j] = w => i <= j
  BY <1>1, <1>3, <1>4
<1> HIDE DEF Range
<1> DEFINE Q(i) == s[i] = w /\ \A j \in DOMAIN s : s[j] = w => i <= j
<1>7. Spot(s, w) \in DOMAIN s /\ Q(Spot(s, w))
  BY <1>6 DEF Spot
<1> QED
  BY <1>5, <1>7

\* A sequence parts around the first place of each of its words.
LEMMA PartsAtSpot ==
    ASSUME NEW W, NEW s \in Seq(W), NEW w, Has(s, w)
    PROVE  w \in W /\ \E a, b \in Seq(W) : Around(s, a, w, b) /\ w \notin Range(a)
<1>1. Len(s) \in Nat /\ DOMAIN s = 1 .. Len(s)
  BY LenProperties
<1> DEFINE places == {i \in DOMAIN s : s[i] = w}
<1>2. places # {} /\ places \subseteq Nat
  BY <1>1 DEF Has, Range
<1> HIDE DEF places
<1>3. PICK i \in places : \A j \in places : i <= j
  BY <1>2, LeastNumber
<1>4. i \in DOMAIN s /\ s[i] = w
  BY <1>3 DEF places
<1>a. /\ s[i] \in W
      /\ SubSeq(s, 1, i - 1) \in Seq(W) /\ SubSeq(s, i + 1, Len(s)) \in Seq(W)
      /\ i = Len(SubSeq(s, 1, i - 1)) + 1
      /\ Around(s, SubSeq(s, 1, i - 1), s[i], SubSeq(s, i + 1, Len(s)))
  BY <1>4, PartsAt
<1>b. PICK a \in Seq(W) : a = SubSeq(s, 1, i - 1)
  BY <1>a
<1>c. PICK b \in Seq(W) : b = SubSeq(s, i + 1, Len(s))
  BY <1>a
<1>5. i = Len(a) + 1
  BY <1>a, <1>b
<1>6. w \in W /\ Around(s, a, w, b)
  BY <1>4, <1>a, <1>b, <1>c
<1>7. ASSUME w \in Range(a) PROVE FALSE
  <2>1. DOMAIN a = 1 .. Len(a) /\ Len(a) \in Nat
    BY LenProperties
  <2>2. PICK j \in 1 .. Len(a) : a[j] = w
    BY <1>7, <2>1 DEF Range
  <2>3. Len(s) = Len(a) + 1 + Len(b) /\ s[j] = a[j] /\ Len(b) \in Nat
    BY <1>6, PartsAround
  <2>4. j \in places
    BY <2>1, <2>2, <2>3, <1>1 DEF places
  <2>5. i <= j
    BY <2>4, <1>3
  <2> QED
    BY <2>5, <1>5, <2>1
<1> QED
  BY <1>6, <1>7

\* What is picked from a sequence that parts around a word.
LEMMA PickedAround ==
    ASSUME NEW W, NEW a \in Seq(W), NEW w \in W, NEW b \in Seq(W), NEW skipped, w \notin skipped,
           NEW s, Around(s, a, w, b)
    PROVE  Around(Picked(s, skipped), Picked(a, skipped), w, Picked(b, skipped))
<1>0. Append(a, w) \in Seq(W)
  BY AppendProperties
<1>1. PICK c \in Seq(W) : c = Append(a, w)
  BY <1>0
<1>2. Picked(c \o b, skipped) = Picked(c, skipped) \o Picked(b, skipped)
  BY PickedInParts
<1>3. Picked(Append(a, w), skipped) = Append(Picked(a, skipped), w)
  BY PickedOfMore
<1>4. s = c \o b
  BY <1>1 DEF Around
<1>5. Picked(s, skipped) = Append(Picked(a, skipped), w) \o Picked(b, skipped)
  BY <1>1, <1>2, <1>3, <1>4, Zenon
<1> QED
  BY <1>5 DEF Around

-----------------------------------------------------------------------------
(* A head h with its padding, and bare of it. *)

Bare(h) == Picked(h, Fillers)

\* Without the padding, the other words are left, and once is enough.
LEMMA BareWords ==
    ASSUME NEW W, NEW h \in Seq(W)
    PROVE  /\ Bare(h) \in Seq(W)
           /\ Range(Bare(h)) = Range(h) \ Fillers
           /\ Bare(Bare(h)) = Bare(h)
<1>1. Bare(h) \in Seq(W) /\ Range(Bare(h)) = Range(h) \ Fillers
  BY PickedWords DEF Bare
<1>2. Picked(Picked(h, Fillers), Fillers) = Picked(h, Fillers \cup Fillers)
  BY PickedTwice
<1>3. Fillers \cup Fillers = Fillers
  OBVIOUS
<1>4. Bare(Bare(h)) = Bare(h)
  BY <1>2, <1>3 DEF Bare
<1> QED
  BY <1>1, <1>4

\* A word that is no padding is there without the padding too.
LEMMA HasKept ==
    ASSUME NEW W, NEW h \in Seq(W), NEW x, x \notin Fillers
    PROVE  Has(Bare(h), x) <=> Has(h, x)
<1>1. Range(Bare(h)) = Range(h) \ Fillers
  BY BareWords
<1> QED
  BY <1>1 DEF Has

\* The padding is left out of each part.
LEMMA BareAround ==
    ASSUME NEW W, NEW a \in Seq(W), NEW w \in W, NEW b \in Seq(W), w \notin Fillers,
           NEW s, Around(s, a, w, b)
    PROVE  Around(Bare(s), Bare(a), w, Bare(b))
BY PickedAround DEF Bare

\* WordsFrom the place behind a word is the part behind it, bare.
LEMMA WordsFromAfter ==
    ASSUME NEW W, NEW a \in Seq(W), NEW w \in W, NEW b \in Seq(W), NEW s, Around(s, a, w, b)
    PROVE  WordsFrom(s, Len(a) + 2) = Bare(b)
<1>1. SubSeq(s, Len(a) + 2, Len(s)) = b /\ s \in Seq(W)
  BY PartsTaken, PartsAround
<1>2. Len(s) + 1 - 1 = Len(s)
  BY <1>1
<1>3. SubSeq(s, Len(a) + 2, Len(s) + 1 - 1) = b
  BY <1>1, <1>2
<1>4. WordsFrom(s, Len(a) + 2) = Picked(SubSeq(s, Len(a) + 2, Len(s) + 1 - 1), Fillers)
  BY DEF WordsFrom, WordsBetween
<1> QED
  BY <1>3, <1>4 DEF Bare

\* What stands after a word is the same without the padding.
LEMMA AroundKept ==
    ASSUME NEW W, NEW h \in Seq(W), NEW x, x \notin Fillers, Has(h, x)
    PROVE  WordsFrom(Bare(h), Spot(Bare(h), x) + 1) = WordsFrom(h, Spot(h, x) + 1)
<1>1. x \in W /\ \E a, b \in Seq(W) : Around(h, a, x, b) /\ x \notin Range(a)
  BY PartsAtSpot
<1>2. PICK a \in Seq(W), b \in Seq(W) : Around(h, a, x, b) /\ x \notin Range(a)
  BY <1>1
<1>3. Around(Bare(h), Bare(a), x, Bare(b))
  BY <1>1, <1>2, BareAround
<1>4. Bare(a) \in Seq(W) /\ Bare(b) \in Seq(W) /\ Bare(Bare(b)) = Bare(b) /\ x \notin Range(Bare(a))
  BY <1>2, BareWords
<1>5. Spot(h, x) = Len(a) + 1
  BY <1>1, <1>2, SpotAfter
<1>6. Spot(Bare(h), x) = Len(Bare(a)) + 1
  BY <1>1, <1>3, <1>4, SpotAfter
<1>7. Len(a) + 1 + 1 = Len(a) + 2
  BY LenProperties
<1>8. Len(Bare(a)) + 1 + 1 = Len(Bare(a)) + 2
  BY <1>4, LenProperties
<1>9. WordsFrom(h, Len(a) + 2) = Bare(b)
  BY <1>1, <1>2, WordsFromAfter
<1>10. WordsFrom(Bare(h), Len(Bare(a)) + 2) = Bare(Bare(b))
  BY <1>1, <1>3, <1>4, WordsFromAfter
<1> QED
  BY <1>4, <1>5, <1>6, <1>7, <1>8, <1>9, <1>10

\* The head, its verb, the padding before it and what follows.
SaidWith(W, a, w, b, h) ==
    /\ a \in Seq(W) /\ w \in W /\ b \in Seq(W)
    /\ Range(a) \subseteq Fillers /\ w \notin Fillers
    /\ Around(h, a, w, b)

\* Without the padding the verb is the first word.
LEMMA VerbFirst ==
    ASSUME NEW W, NEW a, NEW w, NEW b, NEW h, SaidWith(W, a, w, b, h)
    PROVE  /\ h \in Seq(W) /\ Bare(h) \in Seq(W) /\ Bare(b) \in Seq(W)
           /\ Around(Bare(h), <<>>, w, Bare(b))
           /\ SubSeq(h, Len(a) + 2, Len(h)) = b
           /\ SubSeq(Bare(h), 2, Len(Bare(h))) = Bare(b)
<1>1. a \in Seq(W) /\ w \in W /\ b \in Seq(W) /\ Around(h, a, w, b) /\ w \notin Fillers
  BY DEF SaidWith
<1>2. h \in Seq(W) /\ SubSeq(h, Len(a) + 2, Len(h)) = b
  BY <1>1, PartsAround, PartsTaken
<1>3. Around(Bare(h), Bare(a), w, Bare(b))
  BY <1>1, BareAround
<1>4. Bare(a) = <<>>
  BY <1>1, PickedPadding DEF SaidWith, Bare
<1>5. Around(Bare(h), <<>>, w, Bare(b))
  BY <1>3, <1>4
<1>6. Bare(h) \in Seq(W) /\ Bare(b) \in Seq(W)
  BY <1>1, <1>2, BareWords
<1>e. <<>> \in Seq(W)
  OBVIOUS
<1>7. PICK e \in Seq(W) : e = <<>>
  BY <1>e
<1>f. Len(e) + 2 = 2
  BY <1>7
<1>8. Around(Bare(h), e, w, Bare(b))
  BY <1>5, <1>7
<1>9. SubSeq(Bare(h), Len(e) + 2, Len(Bare(h))) = Bare(b)
  BY <1>1, <1>6, <1>8, PartsTaken
<1>10. SubSeq(Bare(h), 2, Len(Bare(h))) = Bare(b)
  BY <1>f, <1>9
<1> QED
  BY <1>2, <1>5, <1>6, <1>10, Zenon

\* pick_target picks the same name with and without the padding.
LEMMA TargetKept ==
    ASSUME NEW W, NEW a, NEW w, NEW b, NEW h, SaidWith(W, a, w, b, h)
    PROVE  PickTarget(Bare(h), 1) = PickTarget(h, Len(a) + 1)
<1>1. b \in Seq(W) /\ a \in Seq(W)
  BY DEF SaidWith
<1>2. /\ h \in Seq(W)
      /\ SubSeq(h, Len(a) + 2, Len(h)) = b
      /\ SubSeq(Bare(h), 2, Len(Bare(h))) = Bare(b)
  BY VerbFirst
<1>3. "called" \notin Fillers /\ "named" \notin Fillers
  BY DEF Fillers
<1>4. Picked(Bare(b), NameNoThing) = Picked(b, NameNoThing)
  <2>1. Picked(Picked(b, Fillers), NameNoThing) = Picked(b, Fillers \cup NameNoThing)
    BY <1>1, PickedTwice
  <2>2. Fillers \cup NameNoThing = NameNoThing
    BY DEF NameNoThing
  <2> QED
    BY <2>1, <2>2 DEF Bare
<1>5. Has(Bare(h), "called") <=> Has(h, "called")
  BY <1>2, <1>3, HasKept
<1>6. Has(Bare(h), "named") <=> Has(h, "named")
  BY <1>2, <1>3, HasKept
<1>7. CASE Has(h, "called")
  <2>1. WordsFrom(Bare(h), Spot(Bare(h), "called") + 1) = WordsFrom(h, Spot(h, "called") + 1)
    BY <1>2, <1>3, <1>7, AroundKept
  <2> QED
    BY <2>1, <1>5, <1>7 DEF PickTarget
<1>8. CASE ~Has(h, "called") /\ Has(h, "named")
  <2>1. WordsFrom(Bare(h), Spot(Bare(h), "named") + 1) = WordsFrom(h, Spot(h, "named") + 1)
    BY <1>2, <1>3, <1>8, AroundKept
  <2> QED
    BY <2>1, <1>5, <1>6, <1>8 DEF PickTarget
<1>9. CASE ~Has(h, "called") /\ ~Has(h, "named")
  <2>1. (Len(a) + 1) + 1 = Len(a) + 2 /\ 1 + 1 = 2
    BY <1>1
  <2>2. PickTarget(Bare(h), 1) = Picked(SubSeq(Bare(h), 2, Len(Bare(h))), NameNoThing)
    BY <2>1, <1>5, <1>6, <1>9 DEF PickTarget
  <2>3. PickTarget(h, Len(a) + 1) = Picked(SubSeq(h, Len(a) + 2, Len(h)), NameNoThing)
    BY <2>1, <1>9 DEF PickTarget
  <2> QED
    BY <2>2, <2>3, <1>2, <1>4
<1> QED
  BY <1>7, <1>8, <1>9

\* Words that are not all padding part around the first that is none.
LEMMA FirstWord ==
    ASSUME NEW W, NEW h \in Seq(W), ~(Range(h) \subseteq Fillers)
    PROVE  \E a \in Seq(W), w \in W, b \in Seq(W) : SaidWith(W, a, w, b, h)
<1>1. Len(h) \in Nat /\ DOMAIN h = 1 .. Len(h)
  BY LenProperties
<1> DEFINE places == {i \in DOMAIN h : h[i] \notin Fillers}
<1>2. places # {} /\ places \subseteq Nat
  BY <1>1 DEF Range
<1> HIDE DEF places
<1>3. PICK i \in places : \A j \in places : i <= j
  BY <1>2, LeastNumber
<1>4. i \in DOMAIN h /\ h[i] \notin Fillers /\ \A j \in DOMAIN h : j < i => h[j] \in Fillers
  BY <1>1, <1>3 DEF places
<1>5. /\ h[i] \in W
      /\ SubSeq(h, 1, i - 1) \in Seq(W) /\ SubSeq(h, i + 1, Len(h)) \in Seq(W)
      /\ i = Len(SubSeq(h, 1, i - 1)) + 1
      /\ Around(h, SubSeq(h, 1, i - 1), h[i], SubSeq(h, i + 1, Len(h)))
  BY <1>4, PartsAt
<1>6. PICK a \in Seq(W) : a = SubSeq(h, 1, i - 1)
  BY <1>5
<1>7. PICK b \in Seq(W) : b = SubSeq(h, i + 1, Len(h))
  BY <1>5
<1>8. PICK w \in W : w = h[i]
  BY <1>5
<1>9. Around(h, a, w, b) /\ i = Len(a) + 1
  BY <1>5, <1>6, <1>7, <1>8
<1>10. Len(a) \in Nat /\ DOMAIN a = 1 .. Len(a) /\ Len(h) = Len(a) + 1 + Len(b) /\ Len(b) \in Nat
       /\ \A j \in 1 .. Len(a) : h[j] = a[j]
  BY <1>9, PartsAround, LenProperties
<1>11. ASSUME NEW j \in 1 .. Len(a) PROVE a[j] \in Fillers
  <2>1. j \in DOMAIN h /\ j < i /\ h[j] = a[j]
    BY <1>1, <1>9, <1>10
  <2> QED
    BY <2>1, <1>4
<1>12. Range(a) \subseteq Fillers
  BY <1>10, <1>11 DEF Range
<1>13. w \notin Fillers
  BY <1>4, <1>8
<1> QED
  BY <1>9, <1>12, <1>13 DEF SaidWith

\* A part of a sequence, place by place.
LEMMA PartFrom ==
    ASSUME NEW W, NEW h \in Seq(W), NEW k \in Nat, NEW n \in Nat, k + n <= Len(h)
    PROVE  /\ SubSeq(h, k + 1, k + n) \in Seq(W)
           /\ Len(SubSeq(h, k + 1, k + n)) = n
           /\ \A j \in 1 .. n : SubSeq(h, k + 1, k + n)[j] = h[k + j]
<1>1. Len(h) \in Nat /\ (k + n) - (k + 1) + 1 = n
  BY LenProperties
<1>2. \A j \in 1 .. n : (k + 1) + j - 1 = k + j /\ k + j \in 1 .. Len(h)
  BY <1>1
<1> QED
  BY <1>1, <1>2, LenProperties

\* A part of what follows a word, and what stands before it.
LEMMA PartsTwice ==
    ASSUME NEW W, NEW a \in Seq(W), NEW w \in W, NEW b \in Seq(W), NEW h, Around(h, a, w, b),
           NEW u \in Seq(W), NEW x \in W, NEW v \in Seq(W), Around(b, u, x, v)
    PROVE  \E t \in Seq(W) : /\ Around(t, a, w, u) /\ Around(h, t, x, v)
                             /\ Len(t) = Len(a) + 1 + Len(u)
                             /\ SubSeq(h, Len(a) + 2, Len(t)) = u
<1>0. Append(a, w) \in Seq(W)
  BY AppendProperties
<1>1. PICK c \in Seq(W) : c = Append(a, w)
  BY <1>0
<1>2. c \o u \in Seq(W)
  BY ConcatProperties
<1>3. PICK t \in Seq(W) : t = c \o u
  BY <1>2
<1>4. Append(u, x) \in Seq(W)
  BY AppendProperties
<1>5. PICK e \in Seq(W) : e = Append(u, x)
  BY <1>4
<1>6. (c \o e) \o v = c \o (e \o v)
  BY ConcatAssociative, SMTT(20)
<1>7. c \o e = Append(t, x)
  BY <1>3, <1>5
<1>8. h = Append(t, x) \o v
  BY <1>1, <1>5, <1>6, <1>7, Zenon DEF Around
<1>9. Around(t, a, w, u)
  BY <1>1, <1>3 DEF Around
<1>10. Around(h, t, x, v)
  BY <1>8 DEF Around
<1>11. /\ Len(t) = Len(a) + 1 + Len(u) /\ Len(a) \in Nat /\ Len(u) \in Nat
       /\ SubSeq(t, Len(a) + 2, Len(t)) = u
  BY <1>9, PartsAround, PartsTaken
<1>12. h \in Seq(W) /\ Len(h) = Len(t) + 1 + Len(v) /\ Len(v) \in Nat
       /\ \A j \in 1 .. Len(t) : h[j] = t[j]
  BY <1>10, PartsAround
<1>13. SubSeq(h, Len(a) + 2, Len(t)) = SubSeq(t, Len(a) + 2, Len(t))
  <2>1. /\ SubSeq(h, Len(a) + 2, Len(t)) \in Seq(W)
        /\ Len(SubSeq(h, Len(a) + 2, Len(t))) = Len(u)
        /\ \A j \in 1 .. Len(u) : SubSeq(h, Len(a) + 2, Len(t))[j] = h[Len(a) + 1 + j]
    <3>1. PICK k \in Nat : k = Len(a) + 1
      BY <1>11
    <3>2. PICK n \in Nat : n = Len(u)
      BY <1>11
    <3>3. h \in Seq(W) /\ k + n <= Len(h) /\ k + 1 = Len(a) + 2 /\ k + n = Len(t)
      BY <1>11, <1>12, <3>1, <3>2
    <3>4. /\ SubSeq(h, k + 1, k + n) \in Seq(W) /\ Len(SubSeq(h, k + 1, k + n)) = n
          /\ \A j \in 1 .. n : SubSeq(h, k + 1, k + n)[j] = h[k + j]
      BY <3>3, PartFrom
    <3> QED
      BY <3>1, <3>2, <3>3, <3>4
  <2>2. /\ SubSeq(t, Len(a) + 2, Len(t)) \in Seq(W)
        /\ Len(SubSeq(t, Len(a) + 2, Len(t))) = Len(u)
        /\ \A j \in 1 .. Len(u) : SubSeq(t, Len(a) + 2, Len(t))[j] = t[Len(a) + 1 + j]
    BY <1>11
  <2>3. \A j \in 1 .. Len(u) : h[Len(a) + 1 + j] = t[Len(a) + 1 + j]
    BY <1>11, <1>12
  <2>4. PICK q \in Seq(W) : q = SubSeq(h, Len(a) + 2, Len(t))
    BY <2>1
  <2>5. PICK r \in Seq(W) : r = SubSeq(t, Len(a) + 2, Len(t))
    BY <2>2
  <2>6. Len(q) = Len(u) /\ \A j \in 1 .. Len(u) : q[j] = h[Len(a) + 1 + j]
    BY <2>1, <2>4
  <2>7. Len(r) = Len(u) /\ \A j \in 1 .. Len(u) : r[j] = t[Len(a) + 1 + j]
    BY <2>2, <2>5
  <2>8. q = r
    BY <2>3, <2>6, <2>7, SeqEqual
  <2> QED
    BY <2>4, <2>5, <2>8, Zenon
<1> QED
  BY <1>9, <1>10, <1>11, <1>13

\* What stands between the verb and a later word.
LEMMA BetweenVerbAnd ==
    ASSUME NEW W, NEW a \in Seq(W), NEW w \in W, NEW b \in Seq(W), NEW h, Around(h, a, w, b),
           NEW u \in Seq(W), NEW x \in W, NEW v \in Seq(W), Around(b, u, x, v),
           x # w, x \notin Range(a), x \notin Range(u)
    PROVE  WordsBetween(h, Len(a) + 2, Spot(h, x)) = Bare(u)
<1>1. PICK t \in Seq(W) : /\ Around(t, a, w, u) /\ Around(h, t, x, v)
                          /\ Len(t) = Len(a) + 1 + Len(u)
                          /\ SubSeq(h, Len(a) + 2, Len(t)) = u
  BY PartsTwice
<1>2. Range(t) = Range(a) \cup {w} \cup Range(u)
  BY <1>1, PartsTaken
<1>3. Spot(h, x) = Len(t) + 1
  BY <1>1, <1>2, SpotAfter
<1>4. Len(t) \in Nat
  BY LenProperties
<1>5. Spot(h, x) - 1 = Len(t)
  BY <1>3, <1>4
<1>6. WordsBetween(h, Len(a) + 2, Spot(h, x))
        = Picked(SubSeq(h, Len(a) + 2, Spot(h, x) - 1), Fillers)
  BY DEF WordsBetween
<1> QED
  BY <1>1, <1>5, <1>6 DEF Bare

\* "move", with and without the padding.
LEMMA MoveKept ==
    ASSUME NEW W, NEW a, NEW w, NEW b, NEW h, SaidWith(W, a, w, b, h), w # "to"
    PROVE  Move(Bare(h), 1) = Move(h, Len(a) + 1)
<1>1. /\ a \in Seq(W) /\ w \in W /\ b \in Seq(W)
      /\ Range(a) \subseteq Fillers /\ w \notin Fillers
      /\ Around(h, a, w, b)
  BY DEF SaidWith
<1>2. /\ h \in Seq(W) /\ Bare(h) \in Seq(W) /\ Bare(b) \in Seq(W)
      /\ Around(Bare(h), <<>>, w, Bare(b))
  BY VerbFirst
<1>3. "to" \notin Fillers
  BY DEF Fillers
<1>4. Has(Bare(h), "to") <=> Has(h, "to")
  BY <1>2, <1>3, HasKept
<1>5. PICK e \in Seq(W) : e = <<>>
  <2>1. <<>> \in Seq(W)
    OBVIOUS
  <2> QED
    BY <2>1
<1>6. Around(Bare(h), e, w, Bare(b))
  BY <1>2, <1>5
<1>7. Len(a) \in Nat /\ (Len(a) + 1) + 1 = Len(a) + 2
  BY <1>1
<1>8. Len(e) = 0 /\ Len(e) + 2 = 1 + 1 /\ Range(e) = {}
  BY <1>5 DEF Range
<1>9. CASE Has(h, "to")
  <2>1. WordsFrom(Bare(h), Spot(Bare(h), "to") + 1) = WordsFrom(h, Spot(h, "to") + 1)
    BY <1>2, <1>3, <1>9, AroundKept
  <2>2. "to" \in Range(b)
    <3>1. Range(h) = Range(a) \cup {w} \cup Range(b)
      BY <1>1, PartsTaken
    <3> QED
      BY <3>1, <1>1, <1>3, <1>9 DEF Has
  <2>3. "to" \in W /\ \E u, v \in Seq(W) : Around(b, u, "to", v) /\ "to" \notin Range(u)
    BY <1>1, <2>2, PartsAtSpot DEF Has
  <2>4. PICK u \in Seq(W), v \in Seq(W) : Around(b, u, "to", v) /\ "to" \notin Range(u)
    BY <2>3
  <2>5. "to" \notin Range(a)
    BY <1>1, <1>3
  <2>6. WordsBetween(h, Len(a) + 2, Spot(h, "to")) = Bare(u)
    BY <1>1, <2>3, <2>4, <2>5, BetweenVerbAnd
  <2>7. Around(Bare(b), Bare(u), "to", Bare(v))
    BY <1>1, <1>3, <2>3, <2>4, BareAround
  <2>8. Bare(u) \in Seq(W) /\ Bare(v) \in Seq(W) /\ Bare(Bare(u)) = Bare(u)
        /\ Range(Bare(u)) = Range(u) \ Fillers
    BY BareWords
  <2>9. WordsBetween(Bare(h), Len(e) + 2, Spot(Bare(h), "to")) = Bare(Bare(u))
    <3>1. "to" \notin Range(e) /\ "to" \notin Range(Bare(u))
      BY <1>8, <2>4, <2>8
    <3> HIDE DEF Bare
    <3> QED
      BY <1>1, <1>2, <1>6, <2>3, <2>7, <2>8, <3>1, BetweenVerbAnd
  <2>10. WordsBetween(Bare(h), 1 + 1, Spot(Bare(h), "to"))
           = WordsBetween(h, (Len(a) + 1) + 1, Spot(h, "to"))
    BY <1>7, <1>8, <2>6, <2>8, <2>9
  <2> QED
    BY <1>4, <1>9, <2>1, <2>10 DEF Move
<1>10. CASE ~Has(h, "to")
  <2>1. WordsFrom(h, Len(a) + 2) = Bare(b)
    BY <1>1, WordsFromAfter
  <2>2. WordsFrom(Bare(h), Len(e) + 2) = Bare(Bare(b))
    BY <1>1, <1>2, <1>6, WordsFromAfter
  <2>3. Bare(Bare(b)) = Bare(b)
    BY <1>1, BareWords
  <2>4. WordsFrom(Bare(h), 1 + 1) = WordsFrom(h, (Len(a) + 1) + 1)
    BY <1>7, <1>8, <2>1, <2>2, <2>3
  <2> QED
    BY <1>4, <1>10, <2>4 DEF Move
<1> QED
  BY <1>9, <1>10

\* Nothing but padding stands before "to" or "into": no such word is hidden.
NoHiddenTo(b) ==
    \A i \in DOMAIN b : i > 1 /\ b[i] \in {"to", "into"} => \E k \in 1 .. i - 1 : b[k] \notin Fillers

\* Whether "to" or "into" follows the verb.
SaysTo(b) == Len(b) > 0 /\ b[1] \in {"to", "into"}

\* What "go" looks at: whether the next word is "to" or "into".
LEMMA SaidTo ==
    ASSUME NEW W, NEW a \in Seq(W), NEW w \in W, NEW b \in Seq(W), NEW h, Around(h, a, w, b)
    PROVE  (Len(a) + 1 < Len(h) /\ h[(Len(a) + 1) + 1] \in {"to", "into"}) <=> SaysTo(b)
<1>1. /\ Len(a) \in Nat /\ Len(b) \in Nat /\ Len(h) = Len(a) + 1 + Len(b)
      /\ \A j \in 1 .. Len(b) : h[Len(a) + 1 + j] = b[j]
  BY PartsAround
<1>2. Len(a) + 1 < Len(h) <=> Len(b) > 0
  BY <1>1
<1>3. CASE Len(b) > 0
  <2>1. 1 \in 1 .. Len(b)
    BY <1>1, <1>3
  <2>2. h[(Len(a) + 1) + 1] = b[1]
    BY <1>1, <2>1
  <2> QED
    BY <1>2, <1>3, <2>2 DEF SaysTo
<1>4. CASE ~(Len(b) > 0)
  BY <1>2, <1>4 DEF SaysTo
<1> QED
  BY <1>3, <1>4

\* The word that follows the verb, if it is no padding, is the first of the bare ones.
LEMMA SaysToKept ==
    ASSUME NEW W, NEW b \in Seq(W), NoHiddenTo(b)
    PROVE  SaysTo(Bare(b)) <=> SaysTo(b)
<1>1. CASE Range(b) \subseteq Fillers
  <2>1. Bare(b) = <<>>
    BY <1>1, PickedPadding DEF Bare
  <2>2. Len(Bare(b)) = 0
    BY <2>1
  <2>3. ~SaysTo(Bare(b))
    BY <2>2 DEF SaysTo
  <2>4. ASSUME SaysTo(b) PROVE FALSE
    <3>1. Len(b) \in Nat /\ DOMAIN b = 1 .. Len(b)
      BY LenProperties
    <3>2. 1 \in DOMAIN b /\ b[1] \in {"to", "into"}
      BY <2>4, <3>1 DEF SaysTo
    <3>3. b[1] \in Fillers
      BY <3>2, <1>1 DEF Range
    <3>4. b[1] \notin Fillers
      BY <3>2 DEF Fillers
    <3> QED
      BY <3>3, <3>4
  <2> QED
    BY <2>3, <2>4
<1>2. CASE ~(Range(b) \subseteq Fillers)
  <2>1. PICK x \in Seq(W), w \in W, y \in Seq(W) : SaidWith(W, x, w, y, b)
    BY <1>2, FirstWord
  <2>2. Around(b, x, w, y) /\ Range(x) \subseteq Fillers /\ w \notin Fillers
    BY <2>1 DEF SaidWith
  <2>3. /\ Len(x) \in Nat /\ Len(y) \in Nat /\ Len(b) = Len(x) + 1 + Len(y)
        /\ b[Len(x) + 1] = w /\ \A j \in 1 .. Len(x) : b[j] = x[j]
        /\ DOMAIN b = 1 .. Len(b)
    BY <2>2, PartsAround
  <2>4. \A j \in 1 .. Len(x) : b[j] \in Fillers
    <3>1. DOMAIN x = 1 .. Len(x)
      BY LenProperties
    <3> QED
      BY <2>2, <2>3, <3>1 DEF Range
  <2>5. Around(Bare(b), <<>>, w, Bare(y)) /\ Bare(y) \in Seq(W)
    BY <2>1, VerbFirst
  <2>6. PICK e \in Seq(W) : e = <<>>
    <3>1. <<>> \in Seq(W)
      OBVIOUS
    <3> QED
      BY <3>1
  <2>7. Len(e) = 0
    BY <2>6
  <2>8. Around(Bare(b), e, w, Bare(y))
    BY <2>5, <2>6
  <2>9. /\ Len(Bare(b)) = Len(e) + 1 + Len(Bare(y)) /\ Bare(b)[Len(e) + 1] = w
        /\ Len(Bare(y)) \in Nat
    BY <2>5, <2>8, PartsAround
  <2>10. Len(e) + 1 = 1
    BY <2>7
  <2>11. Len(Bare(b)) > 0 /\ Bare(b)[1] = w
    BY <2>7, <2>9, <2>10
  <2>12. CASE Len(x) = 0
    <3>1. Len(b) > 0 /\ b[1] = w
      BY <2>3, <2>12
    <3> QED
      BY <2>11, <3>1 DEF SaysTo
  <2>13. CASE Len(x) # 0
    <3>1. 1 \in 1 .. Len(x) /\ b[1] \in Fillers
      BY <2>3, <2>4, <2>13
    <3>2. ~SaysTo(b)
      BY <3>1 DEF SaysTo, Fillers
    <3>3. ASSUME w \in {"to", "into"} PROVE FALSE
      <4>1. Len(x) + 1 \in DOMAIN b /\ Len(x) + 1 > 1 /\ (Len(x) + 1) - 1 = Len(x)
        BY <2>3, <2>13
      <4>2. \E k \in 1 .. Len(x) : b[k] \notin Fillers
        BY <4>1, <2>3, <3>3 DEF NoHiddenTo
      <4> QED
        BY <4>2, <2>4
    <3>4. ~SaysTo(Bare(b))
      BY <3>3, <2>11 DEF SaysTo
    <3> QED
      BY <3>2, <3>4
  <2> QED
    BY <2>12, <2>13, <2>3
<1> QED
  BY <1>1, <1>2

\* The words from the second after the verb, where one follows it.
LEMMA WordsFromNext ==
    ASSUME NEW W, NEW a \in Seq(W), NEW w \in W, NEW b \in Seq(W), NEW h, Around(h, a, w, b),
           NEW x \in W, NEW d \in Seq(W), Around(b, <<>>, x, d)
    PROVE  WordsFrom(h, (Len(a) + 1) + 2) = Bare(d)
<1>1. PICK e \in Seq(W) : e = <<>>
  <2>1. <<>> \in Seq(W)
    OBVIOUS
  <2> QED
    BY <2>1
<1>2. Around(b, e, x, d)
  BY <1>1
<1>3. Len(e) = 0
  BY <1>1
<1>4. PICK t \in Seq(W) : Around(h, t, x, d) /\ Len(t) = Len(a) + 1 + Len(e)
  BY <1>2, PartsTwice
<1>5. WordsFrom(h, Len(t) + 2) = Bare(d)
  BY <1>4, WordsFromAfter
<1>6. Len(t) + 2 = (Len(a) + 1) + 2
  <2>1. Len(a) \in Nat
    BY LenProperties
  <2> QED
    BY <2>1, <1>3, <1>4
<1> QED
  BY <1>5, <1>6

\* "go", with and without the padding, where padding hides no "to".
LEMMA GoKept ==
    ASSUME NEW W, NEW a, NEW w, NEW b, NEW h, SaidWith(W, a, w, b, h), NoHiddenTo(b)
    PROVE  Go(Bare(h), 1) = Go(h, Len(a) + 1)
<1>1. a \in Seq(W) /\ w \in W /\ b \in Seq(W) /\ Around(h, a, w, b)
  BY DEF SaidWith
<1>2. /\ h \in Seq(W) /\ Bare(h) \in Seq(W) /\ Bare(b) \in Seq(W)
      /\ Around(Bare(h), <<>>, w, Bare(b))
  BY VerbFirst
<1>3. PICK e \in Seq(W) : e = <<>>
  <2>1. <<>> \in Seq(W)
    OBVIOUS
  <2> QED
    BY <2>1
<1>4. Around(Bare(h), e, w, Bare(b))
  BY <1>2, <1>3
<1>5. Len(e) = 0 /\ Len(e) + 1 = 1
  BY <1>3
<1>6. SaysTo(Bare(b)) <=> SaysTo(b)
  BY <1>1, SaysToKept
<1>7. (Len(a) + 1 < Len(h) /\ h[(Len(a) + 1) + 1] \in {"to", "into"}) <=> SaysTo(b)
  BY <1>1, SaidTo
<1>8. (1 < Len(Bare(h)) /\ Bare(h)[1 + 1] \in {"to", "into"}) <=> SaysTo(Bare(b))
  <2>1. (Len(e) + 1 < Len(Bare(h)) /\ Bare(h)[(Len(e) + 1) + 1] \in {"to", "into"})
            <=> SaysTo(Bare(b))
    BY <1>1, <1>2, <1>4, SaidTo
  <2> QED
    BY <2>1, <1>5
<1>9. CASE SaysTo(b)
  <2>1. Len(b) \in Nat /\ DOMAIN b = 1 .. Len(b) /\ 1 \in DOMAIN b
    BY <1>1, <1>9, LenProperties DEF SaysTo
  <2>2. /\ b[1] \in W
        /\ SubSeq(b, 1, 1 - 1) \in Seq(W) /\ SubSeq(b, 1 + 1, Len(b)) \in Seq(W)
        /\ Around(b, SubSeq(b, 1, 1 - 1), b[1], SubSeq(b, 1 + 1, Len(b)))
    BY <1>1, <2>1, PartsAt
  <2>3. SubSeq(b, 1, 1 - 1) = <<>>
    BY <1>1
  <2>4. PICK d \in Seq(W) : d = SubSeq(b, 1 + 1, Len(b))
    BY <2>2
  <2>5. PICK x \in W : x = b[1]
    BY <2>2
  <2>6. Around(b, <<>>, x, d)
    BY <2>2, <2>3, <2>4, <2>5
  <2>7. x \notin Fillers
    BY <1>9, <2>5 DEF SaysTo, Fillers
  <2>8. Around(b, e, x, d)
    BY <2>6, <1>3
  <2>9. Around(Bare(b), Bare(e), x, Bare(d))
    BY <2>7, <2>8, BareAround
  <2>10. Bare(e) = <<>>
    BY <1>3, PickedOfNone DEF Bare
  <2>11. Around(Bare(b), <<>>, x, Bare(d))
    BY <2>9, <2>10
  <2>12. Bare(d) \in Seq(W) /\ Bare(Bare(d)) = Bare(d)
    BY BareWords
  <2>13. WordsFrom(h, (Len(a) + 1) + 2) = Bare(d)
    BY <1>1, <2>6, WordsFromNext
  <2>14. WordsFrom(Bare(h), (Len(e) + 1) + 2) = Bare(Bare(d))
    BY <1>1, <1>2, <1>4, <2>11, <2>12, WordsFromNext
  <2>15. WordsFrom(Bare(h), 1 + 2) = WordsFrom(h, (Len(a) + 1) + 2)
    BY <1>5, <2>12, <2>13, <2>14
  <2> QED
    BY <1>6, <1>7, <1>8, <1>9, <2>15 DEF Go
<1>10. CASE ~SaysTo(b)
  <2>1. WordsFrom(h, Len(a) + 2) = Bare(b)
    BY <1>1, WordsFromAfter
  <2>2. WordsFrom(Bare(h), Len(e) + 2) = Bare(Bare(b))
    BY <1>1, <1>2, <1>4, WordsFromAfter
  <2>3. Bare(Bare(b)) = Bare(b)
    BY <1>1, BareWords
  <2>4. Len(e) + 2 = 1 + 1 /\ Len(a) + 2 = (Len(a) + 1) + 1
    <3>1. Len(a) \in Nat
      BY <1>1, LenProperties
    <3> QED
      BY <3>1, <1>5
  <2>5. WordsFrom(Bare(h), 1 + 1) = WordsFrom(h, (Len(a) + 1) + 1)
    BY <2>1, <2>2, <2>3, <2>4
  <2> QED
    BY <1>6, <1>7, <1>8, <1>10, <2>5 DEF Go
<1> QED
  BY <1>9, <1>10

\* "look", with and without the padding.
LEMMA LookKept ==
    ASSUME NEW W, NEW a, NEW w, NEW b, NEW h, SaidWith(W, a, w, b, h)
    PROVE  Look(Bare(h), 1) = Look(h, Len(a) + 1)
<1>1. h \in Seq(W)
  BY VerbFirst
<1>2. "in" \notin Fillers
  BY DEF Fillers
<1>3. Has(Bare(h), "in") <=> Has(h, "in")
  BY <1>1, <1>2, HasKept
<1>4. PickTarget(Bare(h), 1) = PickTarget(h, Len(a) + 1)
  BY TargetKept
<1>5. CASE Has(h, "in")
  <2>1. WordsFrom(Bare(h), Spot(Bare(h), "in") + 1) = WordsFrom(h, Spot(h, "in") + 1)
    BY <1>1, <1>2, <1>5, AroundKept
  <2> QED
    BY <1>3, <1>5, <2>1 DEF Look
<1>6. CASE ~Has(h, "in")
  BY <1>3, <1>4, <1>6 DEF Look
<1> QED
  BY <1>5, <1>6

\* "read", with and without the padding.
LEMMA ReadKept ==
    ASSUME NEW W, NEW a, NEW w, NEW b, NEW h, SaidWith(W, a, w, b, h)
    PROVE  Read(Bare(h), 1) = Read(h, Len(a) + 1)
<1>1. h \in Seq(W)
  BY VerbFirst
<1>2. "notes" \notin Fillers /\ "files" \notin Fillers
  BY DEF Fillers
<1>3. Has(Bare(h), "notes") <=> Has(h, "notes")
  BY <1>1, <1>2, HasKept
<1>4. Has(Bare(h), "files") <=> Has(h, "files")
  BY <1>1, <1>2, HasKept
<1>5. PickTarget(Bare(h), 1) = PickTarget(h, Len(a) + 1)
  BY TargetKept
<1> QED
  BY <1>3, <1>4, <1>5 DEF Read

\* "what" and "rebuild" only ask whether words are there.
LEMMA WhatAndRebuildKept ==
    ASSUME NEW W, NEW h \in Seq(W)
    PROVE  What(Bare(h)) = What(h) /\ Rebuild(Bare(h)) = Rebuild(h)
<1>1. "time" \notin Fillers /\ "running" \notin Fillers
      /\ "toolchain" \notin Fillers /\ "compiler" \notin Fillers
  BY DEF Fillers
<1>2. Has(Bare(h), "time") <=> Has(h, "time")
  BY <1>1, HasKept
<1>3. Has(Bare(h), "running") <=> Has(h, "running")
  BY <1>1, HasKept
<1>4. Has(Bare(h), "toolchain") <=> Has(h, "toolchain")
  BY <1>1, HasKept
<1>5. Has(Bare(h), "compiler") <=> Has(h, "compiler")
  BY <1>1, HasKept
<1>6. What(Bare(h)) = What(h)
  BY <1>2, <1>3 DEF What
<1>7. Rebuild(Bare(h)) = Rebuild(h)
  BY <1>4, <1>5 DEF Rebuild
<1> QED
  BY <1>6, <1>7

\* So does the question whether people are spoken of.
LEMMA PeopleKept ==
    ASSUME NEW W, NEW h \in Seq(W)
    PROVE  SpeaksOfPeople(Bare(h)) <=> SpeaksOfPeople(h)
<1>1. \A x \in PeopleWords : x \notin Fillers
  BY DEF Fillers, PeopleWords
<1>2. \A x \in PeopleWords : Has(Bare(h), x) <=> Has(h, x)
  BY <1>1, HasKept
<1> QED
  BY <1>2 DEF SpeaksOfPeople

\* What a verb asks for that does not speak of people.
LEMMA CommandOfVerb ==
    ASSUME NEW verb, NEW h, NEW spot, NEW text, ~AboutPeople(verb, h)
    PROVE  LET command == VerbCommand(verb, h, spot, text)
           IN  /\ verb \in {"help", "where", "who", "time", "logout", "shutdown", "restart"}
                      => command = Plain(verb)
               /\ verb = "what"    => command = What(h)
               /\ verb = "rebuild" => command = Rebuild(h)
               /\ verb = "start"   => command = MakeCommand("start_service", PickTarget(h, spot), <<>>)
               /\ verb = "stop"    => command = MakeCommand("stop_service", PickTarget(h, spot), <<>>)
               /\ verb = "look"    => command = Look(h, spot)
               /\ verb = "go"      => command = Go(h, spot)
               /\ verb = "make"    =>
                     command = IF Has(h, "note")
                               THEN MakeCommand("write", PickTarget(h, spot), text)
                               ELSE MakeCommand("make_folder", PickTarget(h, spot), <<>>)
               /\ verb = "write"   => command = MakeCommand("write", PickTarget(h, spot), text)
               /\ verb = "read"    => command = Read(h, spot)
               /\ verb = "remove"  => command = MakeCommand("remove", PickTarget(h, spot), <<>>)
               /\ verb = "move"    => command = Move(h, spot)
<1> DEFINE command == VerbCommand(verb, h, spot, text)
<1>1. verb \in {"help", "where", "who", "time", "logout", "shutdown", "restart"}
        => command = Plain(verb)
  BY DEF VerbCommand
<1>2. verb = "what" => command = What(h)
  BY DEF VerbCommand
<1>3. verb = "rebuild" => command = Rebuild(h)
  BY DEF VerbCommand
<1>4. verb = "start" => command = MakeCommand("start_service", PickTarget(h, spot), <<>>)
  BY DEF VerbCommand
<1>5. verb = "stop" => command = MakeCommand("stop_service", PickTarget(h, spot), <<>>)
  BY DEF VerbCommand
<1>6. verb = "look" => command = Look(h, spot)
  BY DEF VerbCommand
<1>7. verb = "go" => command = Go(h, spot)
  BY DEF VerbCommand
<1>8. verb = "make" => command = IF Has(h, "note")
                             THEN MakeCommand("write", PickTarget(h, spot), text)
                             ELSE MakeCommand("make_folder", PickTarget(h, spot), <<>>)
  BY DEF VerbCommand
<1>9. verb = "write" => command = MakeCommand("write", PickTarget(h, spot), text)
  BY DEF VerbCommand
<1>10. verb = "read" => command = Read(h, spot)
  BY DEF VerbCommand
<1>11. verb = "remove" => command = MakeCommand("remove", PickTarget(h, spot), <<>>)
  BY DEF VerbCommand
<1>12. verb = "move" => command = Move(h, spot)
  BY DEF VerbCommand
<1> HIDE DEF command
<1> QED
  BY <1>1, <1>2, <1>3, <1>4, <1>5, <1>6, <1>7, <1>8, <1>9, <1>10, <1>11, <1>12 DEF command

\* The verb finds the same command without the padding.
LEMMA CommandKept ==
    ASSUME NEW W, NEW a, NEW w, NEW b, NEW h, SaidWith(W, a, w, b, h), NEW text,
           IsVerb(w), w \in Verbs["go"] => NoHiddenTo(b)
    PROVE  VerbCommand(VerbOf(w), Bare(h), 1, text) = VerbCommand(VerbOf(w), h, Len(a) + 1, text)
<1> DEFINE verb == VerbOf(w)
           spot == Len(a) + 1
<1>1. h \in Seq(W)
  BY VerbFirst
<1>2. verb \in DOMAIN Verbs /\ w \in Verbs[verb]
  BY DEF IsVerb, VerbOf
<1>3. PickTarget(Bare(h), 1) = PickTarget(h, spot)
  BY TargetKept
<1>4. Has(Bare(h), "note") <=> Has(h, "note")
  <2>1. "note" \notin Fillers
    BY DEF Fillers
  <2> QED
    BY <1>1, <2>1, HasKept
<1>5. AboutPeople(verb, Bare(h)) <=> AboutPeople(verb, h)
  BY <1>1, PeopleKept DEF AboutPeople
<1>6. PeopleCommand(verb, Bare(h), 1) = PeopleCommand(verb, h, spot)
  BY <1>3 DEF PeopleCommand
<1>7. What(Bare(h)) = What(h) /\ Rebuild(Bare(h)) = Rebuild(h)
  BY <1>1, WhatAndRebuildKept
<1>8. Look(Bare(h), 1) = Look(h, spot) /\ Read(Bare(h), 1) = Read(h, spot)
  BY LookKept, ReadKept
<1>9. verb = "go" => Go(Bare(h), 1) = Go(h, spot)
  BY <1>2, GoKept
<1>10. verb = "move" => Move(Bare(h), 1) = Move(h, spot)
  <2>1. verb = "move" => w # "to"
    BY <1>2 DEF Verbs
  <2> QED
    BY <2>1, MoveKept
<1> HIDE DEF verb, spot
<1>11. CASE AboutPeople(verb, h)
  <2>1. VerbCommand(verb, h, spot, text) = PeopleCommand(verb, h, spot)
    BY <1>11 DEF VerbCommand
  <2>2. VerbCommand(verb, Bare(h), 1, text) = PeopleCommand(verb, Bare(h), 1)
    BY <1>5, <1>11 DEF VerbCommand
  <2> QED
    BY <1>6, <2>1, <2>2 DEF verb, spot
<1>12. CASE ~AboutPeople(verb, h)
  <2>1. ~AboutPeople(verb, Bare(h))
    BY <1>5, <1>12
  <2> DEFINE bare == VerbCommand(verb, Bare(h), 1, text)
             command == VerbCommand(verb, h, spot, text)
  <2>2. ASSUME verb \in {"help", "where", "who", "time", "logout", "shutdown", "restart"} PROVE bare = command
    <3>1. command = Plain(verb)
      BY <1>12, <2>2, CommandOfVerb
    <3>2. bare = Plain(verb)
      BY <2>1, <2>2, CommandOfVerb
    <3> QED
      BY <3>1, <3>2, Zenon
  <2>3. ASSUME verb = "what" PROVE bare = command
    <3>1. command = What(h)
      BY <1>12, <2>3, CommandOfVerb
    <3>2. bare = What(Bare(h))
      BY <2>1, <2>3, CommandOfVerb
    <3> QED
      BY <1>7, <3>1, <3>2, Zenon
  <2>4. ASSUME verb = "rebuild" PROVE bare = command
    <3>1. command = Rebuild(h)
      BY <1>12, <2>4, CommandOfVerb
    <3>2. bare = Rebuild(Bare(h))
      BY <2>1, <2>4, CommandOfVerb
    <3> QED
      BY <1>7, <3>1, <3>2, Zenon
  <2>5. ASSUME verb = "start" PROVE bare = command
    <3>1. command = MakeCommand("start_service", PickTarget(h, spot), <<>>)
      BY <1>12, <2>5, CommandOfVerb
    <3>2. bare = MakeCommand("start_service", PickTarget(Bare(h), 1), <<>>)
      BY <2>1, <2>5, CommandOfVerb
    <3> QED
      BY <1>3, <3>1, <3>2, Zenon
  <2>6. ASSUME verb = "stop" PROVE bare = command
    <3>1. command = MakeCommand("stop_service", PickTarget(h, spot), <<>>)
      BY <1>12, <2>6, CommandOfVerb
    <3>2. bare = MakeCommand("stop_service", PickTarget(Bare(h), 1), <<>>)
      BY <2>1, <2>6, CommandOfVerb
    <3> QED
      BY <1>3, <3>1, <3>2, Zenon
  <2>7. ASSUME verb = "look" PROVE bare = command
    <3>1. command = Look(h, spot)
      BY <1>12, <2>7, CommandOfVerb
    <3>2. bare = Look(Bare(h), 1)
      BY <2>1, <2>7, CommandOfVerb
    <3> QED
      BY <1>8, <3>1, <3>2, Zenon
  <2>8. ASSUME verb = "go" PROVE bare = command
    <3>1. command = Go(h, spot)
      BY <1>12, <2>8, CommandOfVerb
    <3>2. bare = Go(Bare(h), 1)
      BY <2>1, <2>8, CommandOfVerb
    <3> QED
      BY <1>9, <2>8, <3>1, <3>2
  <2>9. ASSUME verb = "make" PROVE bare = command
    <3>1. command = IF Has(h, "note")
                             THEN MakeCommand("write", PickTarget(h, spot), text)
                             ELSE MakeCommand("make_folder", PickTarget(h, spot), <<>>)
      BY <1>12, <2>9, CommandOfVerb
    <3>2. bare = IF Has(Bare(h), "note")
                              THEN MakeCommand("write", PickTarget(Bare(h), 1), text)
                              ELSE MakeCommand("make_folder", PickTarget(Bare(h), 1), <<>>)
      BY <2>1, <2>9, CommandOfVerb
    <3> QED
      BY <1>3, <1>4, <3>1, <3>2
  <2>10. ASSUME verb = "write" PROVE bare = command
    <3>1. command = MakeCommand("write", PickTarget(h, spot), text)
      BY <1>12, <2>10, CommandOfVerb
    <3>2. bare = MakeCommand("write", PickTarget(Bare(h), 1), text)
      BY <2>1, <2>10, CommandOfVerb
    <3> QED
      BY <1>3, <3>1, <3>2, Zenon
  <2>11. ASSUME verb = "read" PROVE bare = command
    <3>1. command = Read(h, spot)
      BY <1>12, <2>11, CommandOfVerb
    <3>2. bare = Read(Bare(h), 1)
      BY <2>1, <2>11, CommandOfVerb
    <3> QED
      BY <1>8, <3>1, <3>2, Zenon
  <2>12. ASSUME verb = "remove" PROVE bare = command
    <3>1. command = MakeCommand("remove", PickTarget(h, spot), <<>>)
      BY <1>12, <2>12, CommandOfVerb
    <3>2. bare = MakeCommand("remove", PickTarget(Bare(h), 1), <<>>)
      BY <2>1, <2>12, CommandOfVerb
    <3> QED
      BY <1>3, <3>1, <3>2, Zenon
  <2>13. ASSUME verb = "move" PROVE bare = command
    <3>1. command = Move(h, spot)
      BY <1>12, <2>13, CommandOfVerb
    <3>2. bare = Move(Bare(h), 1)
      BY <2>1, <2>13, CommandOfVerb
    <3> QED
      BY <1>10, <2>13, <3>1, <3>2
  <2>14. \/ verb \in {"help", "where", "who", "time", "logout", "shutdown", "restart"}
         \/ verb = "what" \/ verb = "rebuild" \/ verb = "start" \/ verb = "stop" \/ verb = "look"
         \/ verb = "go" \/ verb = "make" \/ verb = "write" \/ verb = "read" \/ verb = "remove"
         \/ verb = "move" \/ verb = "add"
    BY <1>2 DEF Verbs
  <2>15. verb # "add"
    BY <1>12 DEF AboutPeople
  <2>16. bare = command
    BY <2>2, <2>3, <2>4, <2>5, <2>6, <2>7, <2>8, <2>9, <2>10, <2>11, <2>12, <2>13, <2>14, <2>15
  <2> QED
    BY <2>16 DEF verb, spot
<1> QED
  BY <1>11, <1>12

-----------------------------------------------------------------------------
(* A whole sentence with its padding, and without. *)

\* A word that is picked has a place from which at least as many words stand on
\* either side.
LEMMA PickedPlaces ==
    ASSUME NEW W, NEW words \in Seq(W), NEW skipped
    PROVE  /\ Len(Picked(words, skipped)) <= Len(words)
           /\ \A i \in 1 .. Len(Picked(words, skipped)) :
                 \E j \in 1 .. Len(words) :
                    /\ words[j] = Picked(words, skipped)[i] /\ i <= j
                    /\ Len(Picked(words, skipped)) - i <= Len(words) - j
<1> DEFINE Placed(s, p) == /\ Len(p) <= Len(s)
                           /\ \A i \in 1 .. Len(p) :
                                 \E j \in 1 .. Len(s) :
                                    s[j] = p[i] /\ i <= j /\ Len(p) - i <= Len(s) - j
           P == {s \in Seq(W) : Placed(s, Picked(s, skipped))}
<1>1. <<>> \in P
  <2>1. <<>> \in Seq(W) /\ Placed(<<>>, <<>>)
    OBVIOUS
  <2> HIDE DEF Placed
  <2>2. Placed(<<>>, Picked(<<>>, skipped))
    BY <2>1, PickedOfNone
  <2> QED
    BY <2>1, <2>2
<1>2. ASSUME NEW s \in Seq(W), s \in P, NEW e \in W PROVE Append(s, e) \in P
  <2>1. Picked(s, skipped) \in Seq(W)
    BY PickedWords
  <2>2. PICK p \in Seq(W) : p = Picked(s, skipped)
    BY <2>1
  <2>3. Placed(s, p)
    BY <1>2, <2>2
  <2>4. /\ Len(s) \in Nat /\ Len(p) \in Nat
        /\ Len(Append(s, e)) = Len(s) + 1 /\ Append(s, e)[Len(s) + 1] = e
        /\ \A j \in 1 .. Len(s) : Append(s, e)[j] = s[j]
        /\ Append(s, e) \in Seq(W)
    BY AppendProperties, LenProperties
  <2>5. Picked(Append(s, e), skipped) = IF e \in skipped THEN p ELSE Append(p, e)
    BY <2>2, PickedOfMore
  <2>6. Placed(Append(s, e), p)
    <3>1. ASSUME NEW i \in 1 .. Len(p)
          PROVE  \E j \in 1 .. Len(Append(s, e)) :
                    /\ Append(s, e)[j] = p[i] /\ i <= j
                    /\ Len(p) - i <= Len(Append(s, e)) - j
      <4>1. PICK j \in 1 .. Len(s) : s[j] = p[i] /\ i <= j /\ Len(p) - i <= Len(s) - j
        BY <2>3
      <4>2. /\ j \in 1 .. Len(Append(s, e)) /\ Append(s, e)[j] = p[i]
            /\ Len(p) - i <= Len(Append(s, e)) - j
        BY <4>1, <2>4
      <4> QED
        BY <4>1, <4>2
    <3>2. Len(p) <= Len(Append(s, e))
      BY <2>3, <2>4
    <3> QED
      BY <3>1, <3>2
  <2>7. Placed(Append(s, e), Append(p, e))
    <3>1. /\ Len(Append(p, e)) = Len(p) + 1 /\ Append(p, e)[Len(p) + 1] = e
          /\ \A j \in 1 .. Len(p) : Append(p, e)[j] = p[j]
      BY AppendProperties
    <3>2. Len(Append(p, e)) <= Len(Append(s, e))
      BY <2>3, <2>4, <3>1
    <3>3. ASSUME NEW i \in 1 .. Len(Append(p, e))
          PROVE  \E j \in 1 .. Len(Append(s, e)) :
                    /\ Append(s, e)[j] = Append(p, e)[i] /\ i <= j
                    /\ Len(Append(p, e)) - i <= Len(Append(s, e)) - j
      <4>1. CASE i \in 1 .. Len(p)
        <5>1. PICK j \in 1 .. Len(s) : s[j] = p[i] /\ i <= j /\ Len(p) - i <= Len(s) - j
          BY <2>3, <4>1
        <5>2. /\ j \in 1 .. Len(Append(s, e)) /\ Append(s, e)[j] = Append(p, e)[i]
          BY <4>1, <5>1, <2>4, <3>1
        <5>3. Len(Append(p, e)) - i <= Len(Append(s, e)) - j
          BY <4>1, <5>1, <2>4, <3>1
        <5> QED
          BY <5>1, <5>2, <5>3
      <4>2. CASE i = Len(p) + 1
        <5>1. Len(s) + 1 \in 1 .. Len(Append(s, e)) /\ i <= Len(s) + 1
          BY <4>2, <2>3, <2>4
        <5>2. Append(s, e)[Len(s) + 1] = Append(p, e)[i]
          BY <4>2, <2>4, <3>1
        <5>3. Len(Append(p, e)) - i <= Len(Append(s, e)) - (Len(s) + 1)
          BY <4>2, <2>4, <3>1
        <5> QED
          BY <5>1, <5>2, <5>3
      <4>3. i \in 1 .. Len(p) \/ i = Len(p) + 1
        <5>1. Len(Append(p, e)) = Len(p) + 1 /\ Len(p) \in Nat
          BY <3>1, LenProperties
        <5> QED
          BY <5>1
      <4> QED
        BY <4>1, <4>2, <4>3
    <3> QED
      BY <3>2, <3>3
  <2> HIDE DEF Placed
  <2>8. Placed(Append(s, e), Picked(Append(s, e), skipped))
    BY <2>5, <2>6, <2>7
  <2> QED
    BY <2>4, <2>8
<1>3. Seq(W) \subseteq P
  <2> HIDE DEF P
  <2> QED
    BY <1>1, <1>2, SequencesCountedUp
<1> QED
  BY <1>3

\* A sentence that says something parts around its first "saying".
LEMMA PartsAtSaying ==
    ASSUME NEW W, NEW s \in Seq(W), SayingSpots(s) # {}
    PROVE  /\ HeadOf(s) \in Seq(W) /\ TextOf(s) \in Seq(W) /\ "saying" \in W
           /\ Around(s, HeadOf(s), "saying", TextOf(s))
           /\ Len(HeadOf(s)) > 0 /\ Len(TextOf(s)) > 0
           /\ \A j \in 2 .. Len(HeadOf(s)) : HeadOf(s)[j] # "saying"
<1>1. Len(s) \in Nat /\ DOMAIN s = 1 .. Len(s)
  BY LenProperties
<1>2. SayingSpots(s) \subseteq Nat
  BY DEF SayingSpots
<1>3. \E i \in SayingSpots(s) : \A j \in SayingSpots(s) : i <= j
  BY <1>2, LeastNumber
<1>4. FirstSaying(s) \in SayingSpots(s) /\ \A j \in SayingSpots(s) : FirstSaying(s) <= j
  BY <1>3 DEF FirstSaying
<1>5. PICK k : k = FirstSaying(s)
  OBVIOUS
<1>6. /\ k \in 2 .. Len(s) - 1 /\ s[k] = "saying"
      /\ \A j \in 2 .. Len(s) - 1 : s[j] = "saying" => k <= j
  BY <1>4, <1>5 DEF SayingSpots
<1>7. k \in DOMAIN s
  BY <1>1, <1>6
<1>8. /\ s[k] \in W
      /\ SubSeq(s, 1, k - 1) \in Seq(W) /\ SubSeq(s, k + 1, Len(s)) \in Seq(W)
      /\ k = Len(SubSeq(s, 1, k - 1)) + 1
      /\ Around(s, SubSeq(s, 1, k - 1), s[k], SubSeq(s, k + 1, Len(s)))
  BY <1>7, PartsAt
<1>9. HeadOf(s) = SubSeq(s, 1, k - 1) /\ TextOf(s) = SubSeq(s, k + 1, Len(s))
  BY <1>5 DEF HeadOf, TextOf
<1>10. /\ HeadOf(s) \in Seq(W) /\ TextOf(s) \in Seq(W) /\ "saying" \in W
       /\ Around(s, HeadOf(s), "saying", TextOf(s)) /\ k = Len(HeadOf(s)) + 1
  BY <1>6, <1>8, <1>9
<1>11. /\ Len(s) = Len(HeadOf(s)) + 1 + Len(TextOf(s))
       /\ Len(HeadOf(s)) \in Nat /\ Len(TextOf(s)) \in Nat
       /\ \A j \in 1 .. Len(HeadOf(s)) : s[j] = HeadOf(s)[j]
  BY <1>10, PartsAround
<1>12. Len(HeadOf(s)) > 0 /\ Len(TextOf(s)) > 0
  BY <1>1, <1>6, <1>10, <1>11
<1>13. ASSUME NEW j \in 2 .. Len(HeadOf(s)), HeadOf(s)[j] = "saying" PROVE FALSE
  <2>1. j \in 2 .. Len(s) - 1 /\ s[j] = "saying" /\ j < k
    BY <1>1, <1>6, <1>10, <1>11, <1>13
  <2> QED
    BY <2>1, <1>6
<1> QED
  BY <1>10, <1>12, <1>13

\* A word between two parts belongs to either.
LEMMA OneBetween ==
    ASSUME NEW W, NEW a \in Seq(W), NEW x \in W, NEW b \in Seq(W)
    PROVE  a \o (<<x>> \o b) = Append(a, x) \o b
OBVIOUS

\* A sentence that parts around a "saying" that is its first.
LEMMA HeadAndText ==
    ASSUME NEW W, NEW h \in Seq(W), NEW t \in Seq(W), "saying" \in W, NEW u,
           Around(u, h, "saying", t), Len(h) > 0, Len(t) > 0,
           \A j \in 2 .. Len(h) : h[j] # "saying"
    PROVE  HeadOf(u) = h /\ TextOf(u) = t
<1>1. /\ u \in Seq(W) /\ Len(h) \in Nat /\ Len(t) \in Nat
      /\ Len(u) = Len(h) + 1 + Len(t) /\ u[Len(h) + 1] = "saying"
      /\ \A j \in 1 .. Len(h) : u[j] = h[j]
  BY PartsAround
<1>2. SubSeq(u, 1, Len(h)) = h /\ SubSeq(u, Len(h) + 2, Len(u)) = t
  BY PartsTaken
<1>3. Len(h) + 1 \in SayingSpots(u)
  BY <1>1 DEF SayingSpots
<1>4. ASSUME NEW j \in SayingSpots(u) PROVE Len(h) + 1 <= j
  <2>1. j \in 2 .. Len(u) - 1 /\ u[j] = "saying"
    BY DEF SayingSpots
  <2>2. CASE j <= Len(h)
    <3>1. j \in 2 .. Len(h) /\ u[j] = h[j]
      BY <1>1, <2>1, <2>2
    <3> QED
      BY <2>1, <3>1
  <2> QED
    BY <1>1, <2>1, <2>2
<1>5. FirstSaying(u) \in SayingSpots(u) /\ \A j \in SayingSpots(u) : FirstSaying(u) <= j
  <2>1. \E i \in SayingSpots(u) : \A j \in SayingSpots(u) : i <= j
    BY <1>3, <1>4
  <2> QED
    BY <2>1 DEF FirstSaying
<1>6. FirstSaying(u) = Len(h) + 1
  <2>1. FirstSaying(u) \in Nat /\ FirstSaying(u) <= Len(h) + 1 /\ Len(h) + 1 <= FirstSaying(u)
    BY <1>3, <1>4, <1>5 DEF SayingSpots
  <2> QED
    BY <1>1, <2>1
<1>7. (Len(h) + 1) - 1 = Len(h) /\ (Len(h) + 1) + 1 = Len(h) + 2
  BY <1>1
<1>8. HeadOf(u) = SubSeq(u, 1, FirstSaying(u) - 1)
      /\ TextOf(u) = SubSeq(u, FirstSaying(u) + 1, Len(u))
  BY <1>3 DEF HeadOf, TextOf
<1> QED
  BY <1>2, <1>6, <1>7, <1>8

\* Without the padding the sentence has its head bare, and the same text.
LEMMA HeadKept ==
    ASSUME NEW W, NEW s \in Seq(W), SaysSomething(s)
    PROVE  /\ HeadOf(s) \in Seq(W)
           /\ ~(Range(HeadOf(s)) \subseteq Fillers)
           /\ HeadOf(Unpadded(s)) = Bare(HeadOf(s))
           /\ TextOf(Unpadded(s)) = TextOf(s)
<1>1. ~(Range(HeadOf(s)) \subseteq Fillers)
  BY DEF SaysSomething, NotFiller, Range
<1>2. CASE SayingSpots(s) = {}
  <2>1. HeadOf(s) = s /\ TextOf(s) = <<>>
    BY <1>2 DEF HeadOf, TextOf
  <2>2. Bare(s) \in Seq(W)
    BY BareWords
  <2>3. Unpadded(s) = Bare(s) \o <<>>
    BY <1>2, <2>1 DEF Unpadded, Bare
  <2>4. Unpadded(s) = Bare(s)
    BY <2>2, <2>3, ConcatEmptySeq
  <2>5. ASSUME NEW i \in SayingSpots(Bare(s)) PROVE FALSE
    <3>1. i \in 2 .. Len(Bare(s)) - 1 /\ Bare(s)[i] = "saying"
      BY DEF SayingSpots
    <3>2. Len(Bare(s)) \in Nat /\ Len(s) \in Nat
      BY <2>2, LenProperties
    <3>3. i \in 1 .. Len(Bare(s))
      BY <3>1, <3>2
    <3>4. \E j \in 1 .. Len(s) : /\ s[j] = Bare(s)[i] /\ i <= j
                                 /\ Len(Bare(s)) - i <= Len(s) - j
      BY <3>3, PickedPlaces DEF Bare
    <3>5. PICK j \in 1 .. Len(s) : /\ s[j] = Bare(s)[i] /\ i <= j
                                   /\ Len(Bare(s)) - i <= Len(s) - j
      BY <3>4
    <3>6. j \in 2 .. Len(s) - 1
      BY <3>1, <3>2, <3>5
    <3>7. j \in SayingSpots(s)
      BY <3>1, <3>5, <3>6 DEF SayingSpots
    <3> QED
      BY <1>2, <3>7
  <2>6. SayingSpots(Bare(s)) = {}
    BY <2>5
  <2>7. HeadOf(Bare(s)) = Bare(s) /\ TextOf(Bare(s)) = <<>>
    BY <2>6 DEF HeadOf, TextOf
  <2> QED
    BY <1>1, <2>1, <2>4, <2>7
<1>3. CASE SayingSpots(s) # {}
  <2>1. /\ HeadOf(s) \in Seq(W) /\ TextOf(s) \in Seq(W) /\ "saying" \in W
        /\ Len(HeadOf(s)) > 0 /\ Len(TextOf(s)) > 0
        /\ \A j \in 2 .. Len(HeadOf(s)) : HeadOf(s)[j] # "saying"
    BY <1>3, PartsAtSaying
  <2>2. PICK h \in Seq(W) : h = HeadOf(s)
    BY <2>1
  <2>3. PICK t \in Seq(W) : t = TextOf(s)
    BY <2>1
  <2>4. Len(h) \in Nat /\ Len(t) > 0 /\ \A j \in 2 .. Len(h) : h[j] # "saying"
    BY <2>1, <2>2, <2>3, LenProperties
  <2>5. Bare(h) \in Seq(W) /\ Range(Bare(h)) = Range(h) \ Fillers
    BY BareWords
  <2>6. PICK p \in Seq(W) : p = Bare(h)
    BY <2>5
  <2>7. Len(p) > 0
    <3>1. Range(p) # {}
      BY <1>1, <2>2, <2>5, <2>6
    <3>2. DOMAIN p = 1 .. Len(p) /\ Len(p) \in Nat
      BY LenProperties
    <3> QED
      BY <3>1, <3>2 DEF Range
  <2>8. ASSUME NEW i \in 2 .. Len(p), p[i] = "saying" PROVE FALSE
    <3>1. i \in 1 .. Len(p)
      BY <2>7
    <3>2. \A n \in 1 .. Len(Picked(h, Fillers)) :
              \E j \in 1 .. Len(h) : h[j] = Picked(h, Fillers)[n] /\ n <= j
      BY PickedPlaces
    <3>3. PICK j \in 1 .. Len(h) : h[j] = p[i] /\ i <= j
      BY <3>1, <3>2, <2>6 DEF Bare
    <3>4. j \in 2 .. Len(h)
      BY <3>3, <2>4
    <3> QED
      BY <3>3, <3>4, <2>4, <2>8
  <2>9. Unpadded(s) = p \o (<<"saying">> \o t)
    BY <1>3, <2>2, <2>3, <2>6 DEF Unpadded, Bare
  <2>10. p \o (<<"saying">> \o t) = Append(p, "saying") \o t
    <3>1. PICK x \in W : x = "saying"
      BY <2>1
    <3>2. p \o (<<x>> \o t) = Append(p, x) \o t
      BY OneBetween
    <3> QED
      BY <3>1, <3>2
  <2>11. Around(Unpadded(s), p, "saying", t)
    BY <2>9, <2>10 DEF Around
  <2>12. HeadOf(Unpadded(s)) = p /\ TextOf(Unpadded(s)) = t
    BY <2>1, <2>4, <2>7, <2>8, <2>11, HeadAndText
  <2> QED
    BY <1>1, <2>1, <2>2, <2>3, <2>6, <2>12, Zenon
<1> QED
  BY <1>2, <1>3

\* A sentence is understood from this word of its head.
AskedBy(s, h, w, spot) ==
    Understand(s) = IF ~IsVerb(w) THEN MakeCommand("unknown", <<w>>, <<>>)
                    ELSE VerbCommand(VerbOf(w), h, spot, TextOf(s))

\* A sentence is understood from the first word that is no padding.
LEMMA UnderstoodFrom ==
    ASSUME NEW W, NEW a, NEW w, NEW b, NEW h, SaidWith(W, a, w, b, h), NEW s, HeadOf(s) = h
    PROVE  AskedBy(s, h, w, Len(a) + 1)
<1>1. /\ a \in Seq(W) /\ w \in W /\ b \in Seq(W)
      /\ Range(a) \subseteq Fillers /\ w \notin Fillers
      /\ Around(h, a, w, b)
  BY DEF SaidWith
<1>2. /\ Len(a) \in Nat /\ Len(b) \in Nat /\ DOMAIN h = 1 .. Len(h)
      /\ Len(h) = Len(a) + 1 + Len(b) /\ h[Len(a) + 1] = w
      /\ \A j \in 1 .. Len(a) : h[j] = a[j]
  BY <1>1, PartsAround
<1> DEFINE spots == {i \in DOMAIN h : NotFiller(h[i])}
           spot == CHOOSE i \in spots : \A j \in spots : i <= j
<1>3. Len(a) + 1 \in spots
  BY <1>1, <1>2 DEF NotFiller
<1>4. ASSUME NEW j \in spots PROVE Len(a) + 1 <= j
  <2>1. CASE j \in 1 .. Len(a)
    <3>1. h[j] \in Range(a)
      <4>1. DOMAIN a = 1 .. Len(a)
        BY <1>1, LenProperties
      <4> QED
        BY <4>1, <2>1, <1>2 DEF Range
    <3> QED
      BY <3>1, <1>1 DEF NotFiller
  <2> QED
    BY <1>2, <2>1
<1>5. spots \subseteq Nat
  BY <1>2
<1>6. Understand(s) = IF spots = {} THEN Plain("nothing")
                      ELSE IF ~IsVerb(h[spot]) THEN MakeCommand("unknown", <<h[spot]>>, <<>>)
                      ELSE VerbCommand(VerbOf(h[spot]), h, spot, TextOf(s))
  BY DEF Understand
<1> HIDE DEF spots
<1>7. spot = Len(a) + 1
  <2>1. spot \in spots /\ \A j \in spots : spot <= j
    BY <1>3, <1>4
  <2> HIDE DEF spot
  <2>2. spot \in Nat /\ spot <= Len(a) + 1 /\ Len(a) + 1 <= spot
    BY <2>1, <1>3, <1>4, <1>5
  <2> QED
    BY <2>2, <1>2
<1> HIDE DEF spot
<1>8. h[spot] = w /\ spots # {}
  BY <1>2, <1>3, <1>7
<1> QED
  BY <1>6, <1>7, <1>8 DEF AskedBy

\* Where "go" and "to" are not parted by padding, none stands before a later "to".
LEMMA NothingHidden ==
    ASSUME NEW W, NEW s \in Seq(W), NEW a, NEW w, NEW b, SaidWith(W, a, w, b, HeadOf(s)),
           w \in Verbs["go"], ~GoesAround(s)
    PROVE  NoHiddenTo(b)
<1>1. a \in Seq(W) /\ w \in W /\ b \in Seq(W) /\ Around(HeadOf(s), a, w, b)
  BY DEF SaidWith
<1>2. PICK h : h = HeadOf(s)
  OBVIOUS
<1>3. Around(h, a, w, b)
  BY <1>1, <1>2
<1>4. /\ h \in Seq(W) /\ Len(a) \in Nat /\ Len(b) \in Nat
      /\ Len(h) = Len(a) + 1 + Len(b) /\ h[Len(a) + 1] = w
      /\ \A j \in 1 .. Len(b) : h[Len(a) + 1 + j] = b[j]
  BY <1>1, <1>3, PartsAround
<1>5. Len(s) \in Nat /\ DOMAIN s = 1 .. Len(s) /\ DOMAIN b = 1 .. Len(b)
  BY <1>1, LenProperties
<1>6. Len(h) <= Len(s) /\ \A j \in 1 .. Len(h) : s[j] = h[j]
  <2>1. CASE SayingSpots(s) = {}
    BY <1>2, <1>5, <2>1 DEF HeadOf
  <2>2. CASE SayingSpots(s) # {}
    <3>1. /\ HeadOf(s) \in Seq(W) /\ TextOf(s) \in Seq(W) /\ "saying" \in W
          /\ Around(s, HeadOf(s), "saying", TextOf(s))
      BY <2>2, PartsAtSaying
    <3>2. PICK t \in Seq(W) : t = TextOf(s)
      BY <3>1
    <3>3. PICK x \in W : x = "saying"
      BY <3>1
    <3>4. Around(s, h, x, t)
      BY <3>1, <3>2, <3>3, <1>2
    <3>5. h \in Seq(W)
      BY <1>4
    <3>6. /\ Len(s) = Len(h) + 1 + Len(t) /\ Len(t) \in Nat
          /\ \A j \in 1 .. Len(h) : s[j] = h[j]
      BY <3>4, <3>5, PartsAround
    <3> QED
      BY <3>6, <1>4
  <2> QED
    BY <2>1, <2>2
<1>7. ASSUME NEW i \in DOMAIN b, i > 1, b[i] \in {"to", "into"},
             \A k \in 1 .. i - 1 : b[k] \in Fillers
      PROVE  FALSE
  <2> DEFINE m == Len(a) + 1
             n == Len(a) + 1 + i
  <2>1. m \in DOMAIN s /\ n \in DOMAIN s /\ m + 1 < n
    BY <1>4, <1>5, <1>6, <1>7
  <2>2. s[m] \in Verbs["go"] /\ s[n] \in {"to", "into"}
    <3>1. m \in 1 .. Len(h) /\ n \in 1 .. Len(h)
      BY <1>4, <1>5
    <3>2. s[m] = w /\ s[n] = b[i]
      BY <3>1, <1>4, <1>5, <1>6
    <3> QED
      BY <3>2, <1>7
  <2>3. ASSUME NEW k \in m + 1 .. n - 1 PROVE s[k] \in Fillers
    <3>1. k - m \in 1 .. i - 1 /\ k - m \in 1 .. Len(b) /\ m + (k - m) = k /\ k \in 1 .. Len(h)
      BY <1>4, <1>5
    <3>2. h[Len(a) + 1 + (k - m)] = b[k - m]
      BY <3>1, <1>4
    <3>3. s[k] = b[k - m]
      BY <3>1, <3>2, <1>6
    <3> QED
      BY <3>1, <3>3, <1>7
  <2> HIDE DEF m, n
  <2>4. GoesAround(s)
    BY <2>1, <2>2, <2>3 DEF GoesAround
  <2> QED
    BY <2>4
<1> QED
  BY <1>7 DEF NoHiddenTo

\* Padding changes nothing in any sentence of any words.
LEMMA UnderstoodBare ==
    ASSUME NEW W, NEW s \in Seq(W), SaysSomething(s), ~GoesAround(s)
    PROVE  Understand(Unpadded(s)) = Understand(s)
<1>1. /\ HeadOf(s) \in Seq(W)
      /\ ~(Range(HeadOf(s)) \subseteq Fillers)
      /\ HeadOf(Unpadded(s)) = Bare(HeadOf(s))
      /\ TextOf(Unpadded(s)) = TextOf(s)
  BY HeadKept
<1>2. PICK h \in Seq(W) : h = HeadOf(s)
  BY <1>1
<1>3. ~(Range(h) \subseteq Fillers) /\ HeadOf(Unpadded(s)) = Bare(h)
  BY <1>1, <1>2
<1>4. PICK a \in Seq(W), w \in W, b \in Seq(W) : SaidWith(W, a, w, b, h)
  BY <1>3, FirstWord
<1>5. /\ Bare(h) \in Seq(W) /\ Bare(b) \in Seq(W)
      /\ Around(Bare(h), <<>>, w, Bare(b))
  BY <1>4, VerbFirst
<1>6. <<>> \in Seq(W) /\ Range(<<>>) = {} /\ Len(<<>>) = 0
  BY DEF Range
<1>7. PICK e \in Seq(W) : e = <<>>
  BY <1>6
<1>8. SaidWith(W, e, w, Bare(b), Bare(h))
  <2>1. Around(Bare(h), e, w, Bare(b)) /\ Range(e) = {}
    BY <1>5, <1>6, <1>7
  <2>2. w \notin Fillers
    BY <1>4 DEF SaidWith
  <2> QED
    BY <1>5, <2>1, <2>2 DEF SaidWith
<1>9. Len(e) + 1 = 1
  BY <1>6, <1>7
<1>10. AskedBy(s, h, w, Len(a) + 1)
  BY <1>2, <1>4, UnderstoodFrom
<1>11. AskedBy(Unpadded(s), Bare(h), w, Len(e) + 1)
  BY <1>3, <1>8, UnderstoodFrom
<1>12. w \in Verbs["go"] => NoHiddenTo(b)
  <2>1. SaidWith(W, a, w, b, HeadOf(s))
    BY <1>2, <1>4
  <2> QED
    BY <2>1, NothingHidden
<1>13. CASE ~IsVerb(w)
  BY <1>10, <1>11, <1>13 DEF AskedBy
<1>14. CASE IsVerb(w)
  <2>1. VerbCommand(VerbOf(w), Bare(h), 1, TextOf(s))
          = VerbCommand(VerbOf(w), h, Len(a) + 1, TextOf(s))
    BY <1>4, <1>12, <1>14, CommandKept
  <2> QED
    BY <1>1, <1>9, <1>10, <1>11, <1>14, <2>1 DEF AskedBy
<1> QED
  BY <1>13, <1>14

\* What is typed is a sequence of words of the vocabulary.
SentenceTypeOK == sentence \in Seq(Vocabulary)

\* A sentence is a sequence of the words of the vocabulary.
LEMMA SentenceTypes == SentenceSpec => []SentenceTypeOK
<1>1. SentenceInit => SentenceTypeOK
  BY DEF SentenceInit, SentenceTypeOK
<1>2. SentenceTypeOK /\ [SentenceNext]_sentence => SentenceTypeOK'
  <2> SUFFICES ASSUME SentenceTypeOK, [SentenceNext]_sentence
               PROVE  SentenceTypeOK'
    OBVIOUS
  <2>1. ASSUME NEW w \in Vocabulary, Type(w) PROVE SentenceTypeOK'
    BY <2>1, AppendProperties DEF Type, SentenceTypeOK
  <2>2. CASE UNCHANGED sentence
    BY <2>2 DEF SentenceTypeOK
  <2> QED
    BY <2>1, <2>2 DEF SentenceNext
<1> QED
  BY <1>1, <1>2, PTL DEF SentenceSpec

\* Words that pad a sentence out do not change what it asks for, in sentences of
\* any words and any length: pick_target, words_between and understand_command
\* skip them at every place but between "go" and "to".
THEOREM PaddingTheorem == SentenceSpec => []PaddingIsPadding
<1>1. SentenceTypeOK => PaddingIsPadding
  BY UnderstoodBare DEF PaddingIsPadding, SentenceTypeOK
<1> QED
  BY <1>1, SentenceTypes, PTL

-----------------------------------------------------------------------------
(* A name after each of the verbs. *)

NamingVerbs == {"make", "write", "read", "remove", "look", "go", "move"}

\* These verbs are words of their own action, and of no other.
LEMMA VerbsAreTheirOwn ==
    ASSUME NEW v \in NamingVerbs
    PROVE  IsVerb(v) /\ VerbOf(v) = v /\ v \notin Fillers /\ v # "saying"
<1>1. v \in DOMAIN Verbs /\ v \in Verbs[v]
  BY DEF Verbs, NamingVerbs
<1>2. ASSUME NEW u \in DOMAIN Verbs, v \in Verbs[u] PROVE u = v
  BY <1>2 DEF Verbs, NamingVerbs
<1>3. VerbOf(v) = v
  BY <1>1, <1>2 DEF VerbOf
<1> QED
  BY <1>1, <1>3 DEF IsVerb, Fillers, NamingVerbs

\* A name is all of itself, whatever is left out of it.
LEMMA NamesKept ==
    ASSUME NEW V, NEW s \in Seq(V), IsAName(s)
    PROVE  /\ s # <<>>
           /\ Bare(s) = s
           /\ Picked(s, NameNoThing) = s
           /\ Range(s) \cap (PeopleWords \cup NameNoThing \cup {"called", "named", "saying"}) = {}
<1>1. s # <<>> /\ Range(s) \cap (PeopleWords \cup NameNoThing \cup {"called", "named", "saying"}) = {}
  BY DEF IsAName, NameNoThing
<1>2. Range(s) \cap NameNoThing = {} /\ Range(s) \cap Fillers = {}
  BY <1>1 DEF NameNoThing
<1> QED
  BY <1>1, <1>2, PickedAll DEF Bare

\* A head that opens with a verb and does not speak of people.
LEMMA Opened ==
    ASSUME NEW V, NEW v \in NamingVerbs, v \in V, NEW b \in Seq(V), Range(b) \cap PeopleWords = {},
           NEW h, Around(h, <<>>, v, b), NEW s, HeadOf(s) = h
    PROVE  /\ h \in Seq(V) /\ SubSeq(h, 1 + 1, Len(h)) = b
           /\ Range(h) = {v} \cup Range(b)
           /\ ~AboutPeople(v, h)
           /\ Understand(s) = VerbCommand(v, h, 1, TextOf(s))
<1>1. PICK e \in Seq(V) : e = <<>>
  <2>1. <<>> \in Seq(V)
    OBVIOUS
  <2> QED
    BY <2>1
<1>2. Len(e) + 1 = 1 /\ Len(e) + 2 = 1 + 1 /\ Range(e) = {}
  BY <1>1 DEF Range
<1>3. Around(h, e, v, b)
  BY <1>1
<1>4. v \notin Fillers /\ IsVerb(v) /\ VerbOf(v) = v
  BY VerbsAreTheirOwn
<1>5. SaidWith(V, e, v, b, h)
  BY <1>2, <1>3, <1>4 DEF SaidWith
<1>6. AskedBy(s, h, v, Len(e) + 1)
  BY <1>5, UnderstoodFrom
<1>7. Understand(s) = VerbCommand(v, h, 1, TextOf(s))
  BY <1>2, <1>4, <1>6 DEF AskedBy
<1>8. /\ h \in Seq(V) /\ SubSeq(h, Len(e) + 2, Len(h)) = b
      /\ Range(h) = Range(e) \cup {v} \cup Range(b)
  BY <1>3, PartsAround, PartsTaken
<1>9. SubSeq(h, 1 + 1, Len(h)) = b /\ Range(h) = {v} \cup Range(b)
  BY <1>2, <1>8
<1>10. ~AboutPeople(v, h)
  <2>1. v \notin PeopleWords /\ v # "add"
    BY DEF NamingVerbs, PeopleWords
  <2>2. ~SpeaksOfPeople(h)
    BY <1>9, <2>1 DEF SpeaksOfPeople, Has
  <2> QED
    BY <2>1, <2>2 DEF AboutPeople
<1> QED
  BY <1>7, <1>8, <1>9, <1>10

\* Without a "saying" all of the sentence is its head.
LEMMA AllIsHead ==
    ASSUME NEW V, NEW s \in Seq(V), "saying" \notin Range(s)
    PROVE  HeadOf(s) = s /\ TextOf(s) = <<>>
<1>1. Len(s) \in Nat /\ DOMAIN s = 1 .. Len(s)
  BY LenProperties
<1>2. ASSUME NEW i \in SayingSpots(s) PROVE FALSE
  <2>1. i \in DOMAIN s /\ s[i] = "saying"
    BY <1>1 DEF SayingSpots
  <2> QED
    BY <2>1 DEF Range
<1>3. SayingSpots(s) = {}
  BY <1>2
<1> QED
  BY <1>3 DEF HeadOf, TextOf

\* A name after a word that no word before it is.
LEMMA NameAfter ==
    ASSUME NEW V, NEW s \in Seq(V), IsAName(s), NEW a \in Seq(V), NEW w \in V, w \notin Range(a),
           NEW h, Around(h, a, w, s)
    PROVE  Has(h, w) /\ WordsFrom(h, Spot(h, w) + 1) = s
<1>1. Range(h) = Range(a) \cup {w} \cup Range(s)
  BY PartsTaken
<1>2. Spot(h, w) = Len(a) + 1
  BY SpotAfter
<1>3. WordsFrom(h, Len(a) + 2) = Bare(s)
  BY WordsFromAfter
<1>4. Bare(s) = s
  BY NamesKept
<1>5. (Len(a) + 1) + 1 = Len(a) + 2
  <2>1. Len(a) \in Nat
    BY LenProperties
  <2> QED
    BY <2>1
<1>6. WordsFrom(h, Spot(h, w) + 1) = s
  BY <1>2, <1>3, <1>4, <1>5
<1> QED
  BY <1>1, <1>6 DEF Has

\* A name after kind words and padding.
LEMMA NameAfterKinds ==
    ASSUME NEW V, NEW s \in Seq(V), IsAName(s), NEW k \in Seq(V), Range(k) \subseteq NameNoThing,
           NEW h, SubSeq(h, 1 + 1, Len(h)) = k \o s, ~Has(h, "called"), ~Has(h, "named")
    PROVE  PickTarget(h, 1) = s
<1>1. Picked(k \o s, NameNoThing) = Picked(k, NameNoThing) \o Picked(s, NameNoThing)
  BY PickedInParts
<1>2. Picked(k, NameNoThing) = <<>>
  BY PickedPadding
<1>3. Picked(s, NameNoThing) = s
  BY NamesKept
<1>4. <<>> \o s = s
  BY ConcatEmptySeq
<1>5. Picked(k \o s, NameNoThing) = s
  BY <1>1, <1>2, <1>3, <1>4
<1>6. PickTarget(h, 1) = Picked(SubSeq(h, 1 + 1, Len(h)), NameNoThing)
  BY DEF PickTarget
<1> QED
  BY <1>5, <1>6

\* A word, or the last of a few words, before others.
LEMMA FirstOfFew ==
    ASSUME NEW V, NEW a \in V, NEW k \in Seq(V), NEW s \in Seq(V)
    PROVE  Around((<<a>> \o k) \o s, <<>>, a, k \o s)
<1>1. (<<a>> \o k) \o s = <<a>> \o (k \o s)
  OBVIOUS
<1>2. <<a>> = Append(<<>>, a)
  OBVIOUS
<1> QED
  BY <1>1, <1>2 DEF Around

\* The last word of those that lead in a name stands right before it.
LEMMA LastOfFew ==
    ASSUME NEW V, NEW k \in Seq(V), NEW a \in V, NEW s \in Seq(V)
    PROVE  Around((k \o <<a>>) \o s, k, a, s)
<1>1. k \o <<a>> = Append(k, a)
  OBVIOUS
<1> QED
  BY <1>1 DEF Around

\* The words of two parts are the words of both.
LEMMA RangeOfParts ==
    ASSUME NEW V, NEW k \in Seq(V), NEW s \in Seq(V)
    PROVE  k \o s \in Seq(V) /\ Range(k \o s) = Range(k) \cup Range(s)
BY ConcatProperties, RangeConcatenation

\* The words that the sentences with a name are made of.
Spoken == {"make", "a", "folder", "called", "write", "note", "saying", "yes", "read", "remove",
           "the", "look", "in", "go", "to", "move", "x"}

\* Words and their last; a verb, some words and others.
Ending(k, j, w) == k = j \o <<w>>
Opening(u, v, k, s) == u = (<<v>> \o k) \o s

\* A sentence that opens with a verb, speaks of no people and says nothing.
LEMMA OpenedWith ==
    ASSUME NEW V, NEW v \in NamingVerbs, v \in V, NEW k \in Seq(V), NEW s \in Seq(V),
           (Range(k) \cup Range(s)) \cap (PeopleWords \cup {"saying"}) = {},
           NEW u, Opening(u, v, k, s)
    PROVE  /\ u \in Seq(V) /\ SubSeq(u, 1 + 1, Len(u)) = k \o s
           /\ Around(u, <<>>, v, k \o s) /\ k \o s \in Seq(V)
           /\ Range(u) = {v} \cup Range(k) \cup Range(s)
           /\ ~AboutPeople(v, u)
           /\ Understand(u) = VerbCommand(v, u, 1, <<>>)
<1>1. Around((<<v>> \o k) \o s, <<>>, v, k \o s)
  BY FirstOfFew
<1>2. k \o s \in Seq(V) /\ Range(k \o s) = Range(k) \cup Range(s)
  BY RangeOfParts
<1>3. PICK b \in Seq(V) : b = k \o s
  BY <1>2
<1>4. Around(u, <<>>, v, b)
  BY <1>1, <1>3 DEF Opening
<1>5. Range(b) = Range(k) \cup Range(s)
  BY <1>2, <1>3
<1>6. Range(b) \cap PeopleWords = {} /\ "saying" \notin Range(b)
  BY <1>5
<1>7. PICK e \in Seq(V) : e = <<>>
  <2>1. <<>> \in Seq(V)
    OBVIOUS
  <2> QED
    BY <2>1
<1>8. Around(u, e, v, b) /\ Range(e) = {}
  BY <1>4, <1>7 DEF Range
<1>9. u \in Seq(V) /\ Range(u) = Range(e) \cup {v} \cup Range(b)
  BY <1>8, PartsAround, PartsTaken
<1>10. "saying" \notin Range(u)
  BY <1>6, <1>8, <1>9, VerbsAreTheirOwn
<1>11. HeadOf(u) = u /\ TextOf(u) = <<>>
  BY <1>9, <1>10, AllIsHead
<1>12. /\ SubSeq(u, 1 + 1, Len(u)) = b
       /\ ~AboutPeople(v, u)
       /\ Understand(u) = VerbCommand(v, u, 1, TextOf(u))
  BY <1>4, <1>6, <1>11, Opened
<1>13. Understand(u) = VerbCommand(v, u, 1, <<>>)
  BY <1>11, <1>12
<1>14. SubSeq(u, 1 + 1, Len(u)) = k \o s /\ Around(u, <<>>, v, k \o s)
  BY <1>3, <1>4, <1>12
<1>15. Range(u) = {v} \cup Range(k) \cup Range(s)
  BY <1>5, <1>8, <1>9
<1> QED
  BY <1>2, <1>9, <1>12, <1>13, <1>14, <1>15, Zenon

\* A name after the last of the words that follow the verb.
LEMMA NameAtLast ==
    ASSUME NEW V, NEW s \in Seq(V), IsAName(s), NEW v \in V, NEW j \in Seq(V), NEW w \in V,
           w # v, w \notin Range(j), NEW k \in Seq(V), Ending(k, j, w),
           NEW u, Opening(u, v, k, s)
    PROVE  Has(u, w) /\ WordsFrom(u, Spot(u, w) + 1) = s
<1>1. <<v>> \in Seq(V) /\ Range(<<v>>) = {v}
  BY DEF Range
<1>2. PICK f \in Seq(V) : f = <<v>>
  BY <1>1
<1>3. f \o j \in Seq(V) /\ Range(f \o j) = Range(f) \cup Range(j)
  BY RangeOfParts
<1>4. PICK a \in Seq(V) : a = f \o j
  BY <1>3
<1>5. w \notin Range(a)
  BY <1>1, <1>2, <1>3, <1>4
<1>6. (f \o (j \o <<w>>)) \o s = ((f \o j) \o <<w>>) \o s
  OBVIOUS
<1>7. u = (a \o <<w>>) \o s
  BY <1>2, <1>4, <1>6, Zenon DEF Opening, Ending
<1>8. Around((a \o <<w>>) \o s, a, w, s)
  BY LastOfFew
<1>9. Around(u, a, w, s)
  BY <1>7, <1>8
<1> QED
  BY <1>5, <1>9, NameAfter

\* The words that a name has none of.
LEMMA NamesSpeakPlainly ==
    ASSUME NEW V, NEW s \in Seq(V), IsAName(s)
    PROVE  /\ Range(s) \cap (PeopleWords \cup {"saying", "called", "named", "in", "to", "into",
                                               "note", "notes", "files"}) = {}
           /\ s # <<>>
<1>1. Range(s) \cap (PeopleWords \cup NameNoThing \cup {"called", "named", "saying"}) = {}
      /\ s # <<>>
  BY NamesKept
<1> QED
  BY <1>1 DEF NameNoThing, KindWords

\* "make a folder called ..." makes it under the name.
LEMMA MadeAsCalled ==
    ASSUME NEW V, Spoken \subseteq V, NEW s \in Seq(V), IsAName(s)
    PROVE  Understand(<<"make", "a", "folder", "called">> \o s \o <<>>).target = s
<1>1. "make" \in V /\ "a" \in V /\ "folder" \in V /\ "called" \in V /\ "make" \in NamingVerbs
  BY DEF Spoken, NamingVerbs
<1>2. <<"a", "folder", "called">> \in Seq(V) /\ <<"a", "folder">> \in Seq(V)
  BY <1>1
<1>3. PICK k \in Seq(V) : k = <<"a", "folder", "called">>
  BY <1>2
<1>4. PICK j \in Seq(V) : j = <<"a", "folder">>
  BY <1>2
<1>5. Range(k) = {"a", "folder", "called"}
  BY <1>3 DEF Range
<1>6. Range(j) = {"a", "folder"}
  BY <1>4 DEF Range
<1>7. Ending(k, j, "called")
  BY <1>3, <1>4 DEF Ending
<1>8. PICK u : u = <<"make", "a", "folder", "called">> \o s \o <<>>
  OBVIOUS
<1>9. Opening(u, "make", k, s)
  <2>1. <<"make", "a", "folder", "called">> \o s \o <<>> = <<"make", "a", "folder", "called">> \o s
    OBVIOUS
  <2>2. <<"make", "a", "folder", "called">> = <<"make">> \o k
    BY <1>3
  <2> QED
    BY <2>1, <2>2, <1>8, Zenon DEF Opening
<1>10. (Range(k) \cup Range(s)) \cap (PeopleWords \cup {"saying"}) = {}
  BY <1>5, NamesSpeakPlainly DEF PeopleWords
<1>11. /\ ~AboutPeople("make", u)
       /\ Range(u) = {"make"} \cup Range(k) \cup Range(s)
       /\ Understand(u) = VerbCommand("make", u, 1, <<>>)
  BY <1>1, <1>9, <1>10, OpenedWith
<1>12. "called" # "make" /\ "called" \notin Range(j)
  BY <1>6
<1>13. Has(u, "called") /\ WordsFrom(u, Spot(u, "called") + 1) = s
  BY <1>1, <1>7, <1>9, <1>12, NameAtLast
<1>14. PickTarget(u, 1) = s
  BY <1>13 DEF PickTarget
<1>15. ~Has(u, "note")
  <2>1. "note" \notin Range(s)
    BY NamesSpeakPlainly
  <2> QED
    BY <2>1, <1>5, <1>11 DEF Has
<1>16. Understand(u) = MakeCommand("make_folder", s, <<>>)
  BY <1>11, <1>14, <1>15, CommandOfVerb
<1> QED
  BY <1>8, <1>16 DEF MakeCommand

\* So does "make folder ...".
LEMMA MadeAsFolder ==
    ASSUME NEW V, Spoken \subseteq V, NEW s \in Seq(V), IsAName(s)
    PROVE  Understand(<<"make", "folder">> \o s \o <<>>).target = s
<1>1. "make" \in V /\ "folder" \in V /\ "make" \in NamingVerbs
  BY DEF Spoken, NamingVerbs
<1>2. <<"folder">> \in Seq(V)
  BY <1>1
<1>3. PICK k \in Seq(V) : k = <<"folder">>
  BY <1>2
<1>4. Range(k) = {"folder"}
  BY <1>3 DEF Range
<1>5. PICK u : u = <<"make", "folder">> \o s \o <<>>
  OBVIOUS
<1>6. Opening(u, "make", k, s)
  <2>1. <<"make", "folder">> \o s \o <<>> = <<"make", "folder">> \o s
    OBVIOUS
  <2>2. <<"make", "folder">> = <<"make">> \o k
    BY <1>3
  <2> QED
    BY <2>1, <2>2, <1>5, Zenon DEF Opening
<1>7. /\ Range(s) \cap (PeopleWords \cup {"saying", "called", "named", "in", "to", "into",
                                          "note", "notes", "files"}) = {}
  BY NamesSpeakPlainly
<1>8. (Range(k) \cup Range(s)) \cap (PeopleWords \cup {"saying"}) = {}
  BY <1>4, <1>7 DEF PeopleWords
<1>9. /\ ~AboutPeople("make", u) /\ SubSeq(u, 1 + 1, Len(u)) = k \o s
      /\ Range(u) = {"make"} \cup Range(k) \cup Range(s)
      /\ Understand(u) = VerbCommand("make", u, 1, <<>>)
  BY <1>1, <1>6, <1>8, OpenedWith
<1>10. ~Has(u, "called") /\ ~Has(u, "named") /\ ~Has(u, "note")
  BY <1>4, <1>7, <1>9 DEF Has
<1>11. Range(k) \subseteq NameNoThing
  BY <1>4 DEF NameNoThing, KindWords
<1>12. PickTarget(u, 1) = s
  BY <1>9, <1>10, <1>11, NameAfterKinds
<1>13. Understand(u) = MakeCommand("make_folder", s, <<>>)
  BY <1>9, <1>10, <1>12, CommandOfVerb
<1> QED
  BY <1>5, <1>13 DEF MakeCommand

\* "read ..." is about the name.
LEMMA ReadByName ==
    ASSUME NEW V, Spoken \subseteq V, NEW s \in Seq(V), IsAName(s)
    PROVE  Understand(<<"read">> \o s \o <<>>).target = s
<1>1. "read" \in V /\ "read" \in NamingVerbs
  BY DEF Spoken, NamingVerbs
<1>2. <<>> \in Seq(V)
  OBVIOUS
<1>3. PICK k \in Seq(V) : k = <<>>
  BY <1>2
<1>4. Range(k) = {}
  BY <1>3 DEF Range
<1>5. PICK u : u = <<"read">> \o s \o <<>>
  OBVIOUS
<1>6. Opening(u, "read", k, s)
  <2>1. <<"read">> \o s \o <<>> = <<"read">> \o s
    OBVIOUS
  <2>2. <<"read">> = <<"read">> \o k
    BY <1>3
  <2> QED
    BY <2>1, <2>2, <1>5, Zenon DEF Opening
<1>7. /\ Range(s) \cap (PeopleWords \cup {"saying", "called", "named", "in", "to", "into",
                                          "note", "notes", "files"}) = {}
      /\ s # <<>>
  BY NamesSpeakPlainly
<1>8. (Range(k) \cup Range(s)) \cap (PeopleWords \cup {"saying"}) = {}
  BY <1>4, <1>7
<1>9. /\ ~AboutPeople("read", u) /\ SubSeq(u, 1 + 1, Len(u)) = k \o s
      /\ Range(u) = {"read"} \cup Range(k) \cup Range(s)
      /\ Understand(u) = VerbCommand("read", u, 1, <<>>)
  BY <1>1, <1>6, <1>8, OpenedWith
<1>10. ~Has(u, "called") /\ ~Has(u, "named")
  BY <1>4, <1>7, <1>9 DEF Has
<1>11. Range(k) \subseteq NameNoThing
  BY <1>4
<1>12. PickTarget(u, 1) = s
  BY <1>9, <1>10, <1>11, NameAfterKinds
<1>13. Understand(u) = Read(u, 1)
  BY <1>9, CommandOfVerb
<1>14. Read(u, 1) = MakeCommand("read", s, <<>>)
  BY <1>7, <1>12 DEF Read
<1> QED
  BY <1>5, <1>13, <1>14 DEF MakeCommand

\* "remove the note ..." is about the name.
LEMMA RemovedAsNote ==
    ASSUME NEW V, Spoken \subseteq V, NEW s \in Seq(V), IsAName(s)
    PROVE  Understand(<<"remove", "the", "note">> \o s \o <<>>).target = s
<1>1. "remove" \in V /\ "the" \in V /\ "note" \in V /\ "remove" \in NamingVerbs
  BY DEF Spoken, NamingVerbs
<1>2. <<"the", "note">> \in Seq(V)
  BY <1>1
<1>3. PICK k \in Seq(V) : k = <<"the", "note">>
  BY <1>2
<1>4. Range(k) = {"the", "note"}
  BY <1>3 DEF Range
<1>5. PICK u : u = <<"remove", "the", "note">> \o s \o <<>>
  OBVIOUS
<1>6. Opening(u, "remove", k, s)
  <2>1. <<"remove", "the", "note">> \o s \o <<>> = <<"remove", "the", "note">> \o s
    OBVIOUS
  <2>2. <<"remove", "the", "note">> = <<"remove">> \o k
    BY <1>3
  <2> QED
    BY <2>1, <2>2, <1>5, Zenon DEF Opening
<1>7. /\ Range(s) \cap (PeopleWords \cup {"saying", "called", "named", "in", "to", "into",
                                          "note", "notes", "files"}) = {}
  BY NamesSpeakPlainly
<1>8. (Range(k) \cup Range(s)) \cap (PeopleWords \cup {"saying"}) = {}
  BY <1>4, <1>7 DEF PeopleWords
<1>9. /\ ~AboutPeople("remove", u) /\ SubSeq(u, 1 + 1, Len(u)) = k \o s
      /\ Range(u) = {"remove"} \cup Range(k) \cup Range(s)
      /\ Understand(u) = VerbCommand("remove", u, 1, <<>>)
  BY <1>1, <1>6, <1>8, OpenedWith
<1>10. ~Has(u, "called") /\ ~Has(u, "named")
  BY <1>4, <1>7, <1>9 DEF Has
<1>11. Range(k) \subseteq NameNoThing
  BY <1>4 DEF NameNoThing, KindWords, Fillers
<1>12. PickTarget(u, 1) = s
  BY <1>9, <1>10, <1>11, NameAfterKinds
<1>13. Understand(u) = MakeCommand("remove", s, <<>>)
  BY <1>9, <1>12, CommandOfVerb
<1> QED
  BY <1>5, <1>13 DEF MakeCommand

\* "look in ..." is about the name.
LEMMA LookedIn ==
    ASSUME NEW V, Spoken \subseteq V, NEW s \in Seq(V), IsAName(s)
    PROVE  Understand(<<"look", "in">> \o s \o <<>>).target = s
<1>1. "look" \in V /\ "in" \in V /\ "look" \in NamingVerbs
  BY DEF Spoken, NamingVerbs
<1>2. <<"in">> \in Seq(V) /\ <<>> \in Seq(V)
  BY <1>1
<1>3. PICK k \in Seq(V) : k = <<"in">>
  BY <1>2
<1>4. PICK j \in Seq(V) : j = <<>>
  BY <1>2
<1>5. Range(k) = {"in"}
  BY <1>3 DEF Range
<1>6. Range(j) = {}
  BY <1>4 DEF Range
<1>7. Ending(k, j, "in")
  BY <1>3, <1>4 DEF Ending
<1>8. PICK u : u = <<"look", "in">> \o s \o <<>>
  OBVIOUS
<1>9. Opening(u, "look", k, s)
  <2>1. <<"look", "in">> \o s \o <<>> = <<"look", "in">> \o s
    OBVIOUS
  <2>2. <<"look", "in">> = <<"look">> \o k
    BY <1>3
  <2> QED
    BY <2>1, <2>2, <1>8, Zenon DEF Opening
<1>10. (Range(k) \cup Range(s)) \cap (PeopleWords \cup {"saying"}) = {}
  BY <1>5, NamesSpeakPlainly DEF PeopleWords
<1>11. ~AboutPeople("look", u) /\ Understand(u) = VerbCommand("look", u, 1, <<>>)
  BY <1>1, <1>9, <1>10, OpenedWith
<1>12. "in" # "look" /\ "in" \notin Range(j)
  BY <1>6
<1>13. Has(u, "in") /\ WordsFrom(u, Spot(u, "in") + 1) = s
  BY <1>1, <1>7, <1>9, <1>12, NameAtLast
<1>14. Understand(u) = Look(u, 1)
  BY <1>11, CommandOfVerb
<1>15. Look(u, 1) = MakeCommand("look", s, <<>>)
  BY <1>13 DEF Look
<1> QED
  BY <1>8, <1>14, <1>15 DEF MakeCommand

\* "look ..." is about the name.
LEMMA LookedAt ==
    ASSUME NEW V, Spoken \subseteq V, NEW s \in Seq(V), IsAName(s)
    PROVE  Understand(<<"look">> \o s \o <<>>).target = s
<1>1. "look" \in V /\ "look" \in NamingVerbs
  BY DEF Spoken, NamingVerbs
<1>2. <<>> \in Seq(V)
  OBVIOUS
<1>3. PICK k \in Seq(V) : k = <<>>
  BY <1>2
<1>4. Range(k) = {}
  BY <1>3 DEF Range
<1>5. PICK u : u = <<"look">> \o s \o <<>>
  OBVIOUS
<1>6. Opening(u, "look", k, s)
  <2>1. <<"look">> \o s \o <<>> = <<"look">> \o s
    OBVIOUS
  <2>2. <<"look">> = <<"look">> \o k
    BY <1>3
  <2> QED
    BY <2>1, <2>2, <1>5, Zenon DEF Opening
<1>7. /\ Range(s) \cap (PeopleWords \cup {"saying", "called", "named", "in", "to", "into",
                                          "note", "notes", "files"}) = {}
  BY NamesSpeakPlainly
<1>8. (Range(k) \cup Range(s)) \cap (PeopleWords \cup {"saying"}) = {}
  BY <1>4, <1>7
<1>9. /\ ~AboutPeople("look", u) /\ SubSeq(u, 1 + 1, Len(u)) = k \o s
      /\ Range(u) = {"look"} \cup Range(k) \cup Range(s)
      /\ Understand(u) = VerbCommand("look", u, 1, <<>>)
  BY <1>1, <1>6, <1>8, OpenedWith
<1>10. ~Has(u, "called") /\ ~Has(u, "named") /\ ~Has(u, "in")
  BY <1>4, <1>7, <1>9 DEF Has
<1>11. Range(k) \subseteq NameNoThing
  BY <1>4
<1>12. PickTarget(u, 1) = s
  BY <1>9, <1>10, <1>11, NameAfterKinds
<1>13. Understand(u) = Look(u, 1)
  BY <1>9, CommandOfVerb
<1>14. Look(u, 1) = MakeCommand("look", s, <<>>)
  BY <1>10, <1>12 DEF Look
<1> QED
  BY <1>5, <1>13, <1>14 DEF MakeCommand

\* "go to ..." is about the name.
LEMMA WentTo ==
    ASSUME NEW V, Spoken \subseteq V, NEW s \in Seq(V), IsAName(s)
    PROVE  Understand(<<"go", "to">> \o s \o <<>>).target = s
<1>1. "go" \in V /\ "to" \in V /\ "go" \in NamingVerbs
  BY DEF Spoken, NamingVerbs
<1>2. <<"to">> \in Seq(V) /\ <<>> \in Seq(V)
  BY <1>1
<1>3. PICK k \in Seq(V) : k = <<"to">>
  BY <1>2
<1>4. PICK e \in Seq(V) : e = <<>>
  BY <1>2
<1>5. Range(k) = {"to"}
  BY <1>3 DEF Range
<1>6. Len(e) = 0
  BY <1>4
<1>7. PICK u : u = <<"go", "to">> \o s \o <<>>
  OBVIOUS
<1>8. Opening(u, "go", k, s)
  <2>1. <<"go", "to">> \o s \o <<>> = <<"go", "to">> \o s
    OBVIOUS
  <2>2. <<"go", "to">> = <<"go">> \o k
    BY <1>3
  <2> QED
    BY <2>1, <2>2, <1>7, Zenon DEF Opening
<1>9. (Range(k) \cup Range(s)) \cap (PeopleWords \cup {"saying"}) = {}
  BY <1>5, NamesSpeakPlainly DEF PeopleWords
<1>10. /\ ~AboutPeople("go", u) /\ Understand(u) = VerbCommand("go", u, 1, <<>>)
       /\ Around(u, <<>>, "go", k \o s) /\ k \o s \in Seq(V)
  BY <1>1, <1>8, <1>9, OpenedWith
<1>11. PICK b \in Seq(V) : b = k \o s
  BY <1>10
<1>12. Around(u, e, "go", b)
  BY <1>4, <1>10, <1>11
<1>13. Around(b, <<>>, "to", s)
  <2>1. Around((<<"to">> \o e) \o s, <<>>, "to", e \o s)
    BY <1>1, FirstOfFew
  <2>2. <<"to">> \o e = k /\ e \o s = s
    BY <1>3, <1>4
  <2> QED
    BY <2>1, <2>2, <1>11
<1>14. WordsFrom(u, (Len(e) + 1) + 2) = Bare(s)
  BY <1>1, <1>12, <1>13, WordsFromNext
<1>15. Bare(s) = s
  BY NamesKept
<1>16. WordsFrom(u, 1 + 2) = s
  BY <1>6, <1>14, <1>15
<1>17. (Len(e) + 1 < Len(u) /\ u[(Len(e) + 1) + 1] \in {"to", "into"}) <=> SaysTo(b)
  BY <1>1, <1>12, SaidTo
<1>18. SaysTo(b)
  <2>1. Around(b, e, "to", s)
    BY <1>4, <1>13
  <2>2. b[Len(e) + 1] = "to" /\ Len(b) = Len(e) + 1 + Len(s) /\ Len(s) \in Nat
    BY <1>1, <2>1, PartsAround
  <2>3. b[1] = "to" /\ Len(b) > 0
    BY <1>6, <2>2
  <2> QED
    BY <2>3 DEF SaysTo
<1>19. 1 < Len(u) /\ u[1 + 1] \in {"to", "into"}
  BY <1>6, <1>17, <1>18
<1>20. Understand(u) = Go(u, 1)
  BY <1>10, CommandOfVerb
<1>21. Go(u, 1) = MakeCommand("go", s, <<>>)
  BY <1>16, <1>19 DEF Go
<1> QED
  BY <1>7, <1>20, <1>21 DEF MakeCommand

\* "move x to ..." moves under the name.
LEMMA MovedTo ==
    ASSUME NEW V, Spoken \subseteq V, NEW s \in Seq(V), IsAName(s)
    PROVE  Understand(<<"move", "x", "to">> \o s).extra = s
<1>1. "move" \in V /\ "x" \in V /\ "to" \in V /\ "move" \in NamingVerbs
  BY DEF Spoken, NamingVerbs
<1>2. <<"x", "to">> \in Seq(V) /\ <<"x">> \in Seq(V)
  BY <1>1
<1>3. PICK k \in Seq(V) : k = <<"x", "to">>
  BY <1>2
<1>4. PICK j \in Seq(V) : j = <<"x">>
  BY <1>2
<1>5. Range(k) = {"x", "to"}
  BY <1>3 DEF Range
<1>6. Range(j) = {"x"}
  BY <1>4 DEF Range
<1>7. Ending(k, j, "to")
  BY <1>3, <1>4 DEF Ending
<1>8. PICK u : u = <<"move", "x", "to">> \o s
  OBVIOUS
<1>9. Opening(u, "move", k, s)
  <2>1. <<"move", "x", "to">> = <<"move">> \o k
    BY <1>3
  <2> QED
    BY <2>1, <1>8, Zenon DEF Opening
<1>10. (Range(k) \cup Range(s)) \cap (PeopleWords \cup {"saying"}) = {}
  BY <1>5, NamesSpeakPlainly DEF PeopleWords
<1>11. ~AboutPeople("move", u) /\ Understand(u) = VerbCommand("move", u, 1, <<>>)
  BY <1>1, <1>9, <1>10, OpenedWith
<1>12. "to" # "move" /\ "to" \notin Range(j)
  BY <1>6
<1>13. Has(u, "to") /\ WordsFrom(u, Spot(u, "to") + 1) = s
  BY <1>1, <1>7, <1>9, <1>12, NameAtLast
<1>14. Understand(u) = Move(u, 1)
  BY <1>11, CommandOfVerb
<1>15. Move(u, 1).extra = s
  BY <1>13 DEF Move, MakeCommand
<1> QED
  BY <1>8, <1>14, <1>15

\* "move ... to x" moves what has the name.
LEMMA MovedByName ==
    ASSUME NEW V, Spoken \subseteq V, NEW s \in Seq(V), IsAName(s)
    PROVE  Understand(<<"move">> \o s \o <<"to", "x">>).target = s
<1>1. "move" \in V /\ "x" \in V /\ "to" \in V /\ "move" \in NamingVerbs
  BY DEF Spoken, NamingVerbs
<1>2. <<"to", "x">> \in Seq(V) /\ <<"x">> \in Seq(V) /\ <<>> \in Seq(V)
  BY <1>1
<1>3. PICK t \in Seq(V) : t = <<"to", "x">>
  BY <1>2
<1>4. PICK y \in Seq(V) : y = <<"x">>
  BY <1>2
<1>5. PICK e \in Seq(V) : e = <<>>
  BY <1>2
<1>6. Range(t) = {"to", "x"}
  BY <1>3 DEF Range
<1>7. Len(e) + 2 = 1 + 1 /\ Range(e) = {}
  BY <1>5 DEF Range
<1>8. PICK u : u = <<"move">> \o s \o <<"to", "x">>
  OBVIOUS
<1>9. Opening(u, "move", s, t)
  BY <1>3, <1>8, Zenon DEF Opening
<1>10. Range(s) \cap (PeopleWords \cup {"saying", "called", "named", "in", "to", "into",
                                         "note", "notes", "files"}) = {}
  BY NamesSpeakPlainly
<1>11. (Range(s) \cup Range(t)) \cap (PeopleWords \cup {"saying"}) = {}
  BY <1>6, <1>10 DEF PeopleWords
<1>12. /\ ~AboutPeople("move", u) /\ Understand(u) = VerbCommand("move", u, 1, <<>>)
       /\ Around(u, <<>>, "move", s \o t) /\ s \o t \in Seq(V)
       /\ Range(u) = {"move"} \cup Range(s) \cup Range(t)
  <2>1. "move" \in NamingVerbs /\ "move" \in V
    BY <1>1
  <2>2. /\ Range(u) = {"move"} \cup Range(s) \cup Range(t)
        /\ ~AboutPeople("move", u)
        /\ Understand(u) = VerbCommand("move", u, 1, <<>>)
    <3>1. PICK v \in NamingVerbs : v = "move"
      BY <2>1
    <3>2. v \in V /\ Opening(u, v, s, t)
      BY <2>1, <3>1, <1>9
    <3>3. Range(u) = {v} \cup Range(s) \cup Range(t)
      BY <3>2, <1>11, OpenedWith
    <3>4. ~AboutPeople(v, u) /\ Understand(u) = VerbCommand(v, u, 1, <<>>)
      BY <3>2, <1>11, OpenedWith
    <3> QED
      BY <3>1, <3>3, <3>4
  <2>3. Around(u, <<>>, "move", s \o t)
    BY <2>1, <1>9, <1>11, OpenedWith
  <2>4. s \o t \in Seq(V)
    BY ConcatProperties
  <2> QED
    BY <2>2, <2>3, <2>4
<1>13. PICK b \in Seq(V) : b = s \o t
  BY <1>12
<1>14. Around(u, e, "move", b)
  BY <1>5, <1>12, <1>13
<1>15. Around(b, s, "to", y)
  <2>1. PICK x \in V : x = "to"
    BY <1>1
  <2>2. s \o (<<x>> \o y) = Append(s, x) \o y
    BY OneBetween
  <2>3. t = <<"to">> \o y
    BY <1>3, <1>4
  <2>4. b = s \o (<<x>> \o y)
    BY <2>1, <2>3, <1>13, Zenon
  <2> QED
    BY <2>1, <2>2, <2>4, Zenon DEF Around
<1>16. "to" # "move" /\ "to" \notin Range(e) /\ "to" \notin Range(s)
  BY <1>7, <1>10
<1>17. WordsBetween(u, Len(e) + 2, Spot(u, "to")) = Bare(s)
  BY <1>1, <1>14, <1>15, <1>16, BetweenVerbAnd
<1>18. Bare(s) = s
  BY NamesKept
<1>19. WordsBetween(u, 1 + 1, Spot(u, "to")) = s
  BY <1>7, <1>17, <1>18
<1>20. Has(u, "to")
  BY <1>6, <1>12 DEF Has
<1>21. Understand(u) = Move(u, 1)
  BY <1>12, CommandOfVerb
<1>22. Move(u, 1).target = s
  BY <1>19, <1>20 DEF Move, MakeCommand
<1> QED
  BY <1>8, <1>21, <1>22

\* "write a note called ... saying yes" writes under the name, and the text apart.
LEMMA WrittenAsCalled ==
    ASSUME NEW V, Spoken \subseteq V, NEW s \in Seq(V), IsAName(s)
    PROVE  Understand(<<"write", "a", "note", "called">> \o s \o <<"saying", "yes">>).target = s
<1>1. /\ "write" \in V /\ "a" \in V /\ "note" \in V /\ "called" \in V /\ "saying" \in V /\ "yes" \in V
      /\ "write" \in NamingVerbs
  BY DEF Spoken, NamingVerbs
<1>2. /\ <<"a", "note", "called">> \in Seq(V) /\ <<"a", "note">> \in Seq(V) /\ <<"yes">> \in Seq(V)
      /\ <<"write", "a", "note", "called">> \in Seq(V)
  BY <1>1
<1>3. PICK k \in Seq(V) : k = <<"a", "note", "called">>
  BY <1>2
<1>4. PICK j \in Seq(V) : j = <<"a", "note">>
  BY <1>2
<1>5. PICK t \in Seq(V) : t = <<"yes">>
  BY <1>2
<1>6. PICK f \in Seq(V) : f = <<"write", "a", "note", "called">>
  BY <1>2
<1>7. Range(k) = {"a", "note", "called"}
  BY <1>3 DEF Range
<1>8. Range(j) = {"a", "note"}
  BY <1>4 DEF Range
<1>9. Ending(k, j, "called")
  BY <1>3, <1>4 DEF Ending
<1>10. f \o s \in Seq(V)
  BY ConcatProperties
<1>11. PICK h : h = f \o s
  OBVIOUS
<1>12. Opening(h, "write", k, s)
  <2>1. <<"write", "a", "note", "called">> = <<"write">> \o k
    BY <1>3
  <2> QED
    BY <2>1, <1>6, <1>11, Zenon DEF Opening
<1>13. Range(s) \cap (PeopleWords \cup {"saying", "called", "named", "in", "to", "into",
                                         "note", "notes", "files"}) = {}
  BY NamesSpeakPlainly
<1>14. (Range(k) \cup Range(s)) \cap (PeopleWords \cup {"saying"}) = {}
  BY <1>7, <1>13 DEF PeopleWords
<1>15. /\ Around(h, <<>>, "write", k \o s) /\ k \o s \in Seq(V)
       /\ Range(h) = {"write"} \cup Range(k) \cup Range(s)
       /\ ~AboutPeople("write", h) /\ h \in Seq(V)
  <2>1. h \in Seq(V)
    BY <1>10, <1>11, Zenon
  <2>2. "write" \in NamingVerbs /\ "write" \in V
    BY <1>1
  <2>3. /\ Range(h) = {"write"} \cup Range(k) \cup Range(s)
        /\ ~AboutPeople("write", h)
        /\ Understand(h) = VerbCommand("write", h, 1, <<>>)
    BY <2>2, <1>12, <1>14, OpenedWith
  <2>4. k \o s \in Seq(V)
    BY ConcatProperties
  <2>5. Around(h, <<>>, "write", k \o s)
    BY <1>1, <1>12, <1>14, OpenedWith
  <2> QED
    BY <2>1, <2>3, <2>4, <2>5
<1>16. PICK u : u = <<"write", "a", "note", "called">> \o s \o <<"saying", "yes">>
  OBVIOUS
<1>17. Around(u, h, "saying", t)
  <2>1. PICK x \in V : x = "saying"
    BY <1>1
  <2>0. h \in Seq(V)
    BY <1>15
  <2>2. h \o (<<x>> \o t) = Append(h, x) \o t
    BY <2>0, OneBetween
  <2>3. <<"saying", "yes">> = <<"saying">> \o t
    BY <1>5
  <2>4. u = h \o (<<x>> \o t)
    BY <2>1, <2>3, <1>6, <1>11, <1>16, Zenon
  <2> QED
    BY <2>1, <2>2, <2>4, Zenon DEF Around
<1>18. Len(h) \in Nat /\ DOMAIN h = 1 .. Len(h) /\ Len(t) > 0
  BY <1>5, <1>15, LenProperties
<1>19. Len(h) > 0
  <2>1. Range(h) # {}
    BY <1>15
  <2> QED
    BY <2>1, <1>18 DEF Range
<1>20. \A i \in 2 .. Len(h) : h[i] # "saying"
  <2>1. "saying" \notin Range(h)
    BY <1>14, <1>15
  <2>2. \A i \in DOMAIN h : h[i] # "saying"
    BY <2>1 DEF Range
  <2>3. ASSUME NEW i \in 2 .. Len(h) PROVE i \in DOMAIN h
    BY <1>18
  <2> QED
    BY <2>2, <2>3, Zenon
<1>21. HeadOf(u) = h
  BY <1>1, <1>15, <1>17, <1>18, <1>19, <1>20, HeadAndText
<1>22. PICK b \in Seq(V) : b = k \o s
  BY <1>15
<1>23. Around(h, <<>>, "write", b) /\ Range(b) \cap PeopleWords = {}
  <2>1. Range(k \o s) = Range(k) \cup Range(s)
    BY RangeOfParts
  <2> QED
    BY <2>1, <1>14, <1>15, <1>22
<1>24. Understand(u) = VerbCommand("write", h, 1, TextOf(u))
  BY <1>1, <1>21, <1>23, Opened
<1>25. "called" # "write" /\ "called" \notin Range(j)
  BY <1>8
<1>26. Has(h, "called") /\ WordsFrom(h, Spot(h, "called") + 1) = s
  BY <1>1, <1>9, <1>12, <1>25, NameAtLast
<1>27. PickTarget(h, 1) = s
  BY <1>26 DEF PickTarget
<1>28. Understand(u) = MakeCommand("write", s, TextOf(u))
  BY <1>15, <1>24, <1>27, CommandOfVerb
<1> QED
  BY <1>16, <1>28 DEF MakeCommand

\* What is made or written under a name of any words is found under it by each of
\* the verbs: pick_target after padding and kind words, what stands after
\* "called", "in" and "to", and what stands before "to" are all of the name.
THEOREM NamesTheorem == SentenceSpec => []NamesAreReached
<1>1. SentenceTypeOK => NamesAreReached
  <2> SUFFICES ASSUME sentence \in Seq(Vocabulary), IsAName(sentence)
               PROVE  LET Target(before, after) == Understand(before \o sentence \o after).target
                      IN  {sentence} =
              {Target(<<"make", "a", "folder", "called">>, <<>>), Target(<<"make", "folder">>, <<>>),
               Target(<<"write", "a", "note", "called">>, <<"saying", "yes">>),
               Target(<<"read">>, <<>>), Target(<<"remove", "the", "note">>, <<>>),
               Target(<<"look", "in">>, <<>>), Target(<<"look">>, <<>>),
               Target(<<"go", "to">>, <<>>), Target(<<"move">>, <<"to", "x">>),
               Understand(<<"move", "x", "to">> \o sentence).extra}
    BY DEF NamesAreReached, SentenceTypeOK
  <2> DEFINE V == Vocabulary \cup Spoken
             Target(before, after) == Understand(before \o sentence \o after).target
  <2>1. Spoken \subseteq V /\ sentence \in Seq(V)
    BY SeqMonotonic
  <2> HIDE DEF V
  <2>2. /\ Target(<<"make", "a", "folder", "called">>, <<>>) = sentence
        /\ Target(<<"make", "folder">>, <<>>) = sentence
        /\ Target(<<"write", "a", "note", "called">>, <<"saying", "yes">>) = sentence
    BY <2>1, MadeAsCalled, MadeAsFolder, WrittenAsCalled
  <2>3. /\ Target(<<"read">>, <<>>) = sentence
        /\ Target(<<"remove", "the", "note">>, <<>>) = sentence
        /\ Target(<<"look", "in">>, <<>>) = sentence /\ Target(<<"look">>, <<>>) = sentence
    BY <2>1, ReadByName, RemovedAsNote, LookedIn, LookedAt
  <2>4. /\ Target(<<"go", "to">>, <<>>) = sentence /\ Target(<<"move">>, <<"to", "x">>) = sentence
        /\ Understand(<<"move", "x", "to">> \o sentence).extra = sentence
    BY <2>1, WentTo, MovedByName, MovedTo
  <2> QED
    BY <2>2, <2>3, <2>4, Zenon
<1> QED
  BY <1>1, SentenceTypes, PTL

=============================================================================
