------------------------------- MODULE Notes -------------------------------
(***************************************************************************)
(* The note editor (system/apps/notes.ep): the lines being edited beside   *)
(* the note on the disk.  vf_write replaces a note as a whole or refuses   *)
(* and leaves it, which module Files is about.  Only the person in the     *)
(* editor changes the note.  The window of the desktop may be closed at    *)
(* any time; module Conversation is about what that does further out.      *)
(***************************************************************************)
EXTENDS Naturals, SequencesExt

CONSTANTS
    Words,          \* what people put in a line
    Blank,          \* a line without words
    MaxLines        \* bound: no line is added to so many

ASSUME WordsAssumption == Blank \in Words

VARIABLES
    place,      \* "notes", "editing" or "left"
    note,       \* what the note on the disk says; <<>> also where there is none
    lines,      \* the lines being edited
    unsaved,    \* 0, 1, or 2 after the warning
    closed,     \* the window was closed
    kept,       \* history: the lines that were read or saved last
    warned,     \* history: there was a warning since the last change
    dropped,    \* history: the words the person removed or replaced since
    misread     \* history: the host refused to read the note, until the next save

noteVars == <<place, note, lines, unsaved, closed, kept, warned, dropped, misread>>

\* join and note_lines: a text without characters is a note without lines.
Join(l) == IF l = <<Blank>> THEN <<>> ELSE l
NoteLines(text) == text

NoteTypeOK ==
    /\ place \in {"notes", "editing", "left"}
    /\ note \in Seq(Words) /\ lines \in Seq(Words) /\ kept \in Seq(Words)
    /\ unsaved \in 0 .. 2 /\ closed \in BOOLEAN /\ warned \in BOOLEAN
    /\ dropped \subseteq Words /\ misread \in BOOLEAN

NoteInit ==
    /\ place = "notes" /\ note \in {<<>>} \cup {<<w>> : w \in Words \ {Blank}}
    /\ lines = <<>> /\ kept = <<>>
    /\ unsaved = 0 /\ closed = FALSE /\ warned = FALSE /\ dropped = {}
    /\ misread = FALSE

-----------------------------------------------------------------------------
(* The editor. *)

\* A refused read gives no text, as a note without lines does.
Edit ==
    /\ place = "notes" /\ ~closed
    /\ lines' = NoteLines(note) \/ lines' = <<>>
    /\ misread' = (lines' # NoteLines(note))
    /\ place' = "editing" /\ unsaved' = 0
    /\ kept' = lines' /\ warned' = FALSE /\ dropped' = {}
    /\ UNCHANGED <<note, closed>>

Listening == place = "editing" /\ ~closed

\* Mutant: a change after the warning is not counted.
ChangedUnseen(lost) ==
    /\ unsaved' = IF unsaved = 0 THEN 1 ELSE unsaved
    /\ warned' = FALSE
    /\ dropped' = dropped \cup lost
    /\ UNCHANGED <<place, note, closed, kept, misread>>

\* What every change of the lines does besides.
Changed(lost) ==
    /\ unsaved' = 1
    /\ warned' = FALSE
    /\ dropped' = dropped \cup lost
    /\ UNCHANGED <<place, note, closed, kept, misread>>

AddLine(w) ==
    /\ Listening /\ Len(lines) < MaxLines
    /\ lines' = Append(lines, w)
    /\ Changed({})

ChangeLine(i, w) ==
    /\ Listening /\ i \in DOMAIN lines
    /\ lines' = [lines EXCEPT ![i] = w]
    /\ Changed({lines[i]})

RemoveLine(i) ==
    /\ Listening /\ i \in DOMAIN lines
    /\ lines' = RemoveAt(lines, i)
    /\ Changed({lines[i]})

\* save: the count goes back only when the write was not refused.
Save ==
    /\ Listening
    /\ note' = Join(lines)
    /\ kept' = lines /\ unsaved' = 0 /\ dropped' = {} /\ misread' = FALSE
    /\ UNCHANGED <<place, lines, closed, warned>>

\* Mutant: a refused save counts as one.
SaveForgotten == Listening /\ unsaved' = 0 /\ UNCHANGED <<place, note, lines, closed, kept, warned, dropped, misread>>

SaveRefused == Listening /\ UNCHANGED noteVars

\* done: the first time with changes, the editor warns and stays.
Warn ==
    /\ Listening /\ unsaved = 1
    /\ unsaved' = 2 /\ warned' = TRUE
    /\ UNCHANGED <<place, note, lines, closed, kept, dropped, misread>>

DoneEditing ==
    /\ Listening /\ unsaved # 1
    /\ place' = "notes"
    /\ UNCHANGED <<note, lines, unsaved, closed, kept, warned, dropped, misread>>

-----------------------------------------------------------------------------
\* Any question is answered with nothing when the window is closed, and the
\* app sees the request to end before it looks at the answer.
WindowCloses ==
    /\ ~closed /\ place # "left"
    /\ closed' = TRUE
    /\ UNCHANGED <<place, note, lines, unsaved, kept, warned, dropped, misread>>

Unwind ==
    /\ closed /\ place # "left"
    /\ place' = IF place = "editing" THEN "notes" ELSE "left"
    /\ UNCHANGED <<note, lines, unsaved, closed, kept, warned, dropped, misread>>

\* done, at the question of the app.
LeaveNotes ==
    /\ place = "notes" /\ ~closed
    /\ place' = "left"
    /\ UNCHANGED <<note, lines, unsaved, closed, kept, warned, dropped, misread>>

NoteNext ==
    \/ Edit \/ Save \/ SaveRefused \/ Warn \/ DoneEditing
    \/ \E w \in Words : AddLine(w)
    \/ \E i \in 1 .. Len(lines) : RemoveLine(i) \/ \E w \in Words : ChangeLine(i, w)
    \/ WindowCloses \/ Unwind \/ LeaveNotes

NoteSpec == NoteInit /\ [][NoteNext]_noteVars

-----------------------------------------------------------------------------
(* Properties *)

\* Nobody talks the editor into losing lines: who says done with lines that
\* were never saved was warned after the last change of them.
NothingIsLostUnwarned ==
    [][place = "editing" /\ place' = "notes" /\ ~closed => lines = kept \/ warned]_noteVars

\* While the editor counts no changes, the lines on the screen are those a new
\* visit would show; only a note of one blank line comes back without it, and
\* the lines of a note whose reading was refused are shown by the next visit.
ShownIsStored ==
    place = "editing" /\ unsaved = 0 =>
        NoteLines(note) = lines \/ lines = <<Blank>> \/ (misread /\ lines = <<>>)

\* A save takes nothing from the note but what the person took out; only the
\* first one after a refused reading replaces the note as a whole.
OthersLinesStay ==
    [][note' # note /\ ~misread => Range(note) \subseteq Range(note') \cup dropped \cup {Blank}]_noteVars

\* "Gives back "" when there is no such note": an editor that starts without
\* lines, at a note nobody touched, is at an empty one.  It does not hold when
\* the host refuses the read.
EmptyMeansNoNote == place = "editing" /\ kept = <<>> => note = <<>>
=============================================================================
