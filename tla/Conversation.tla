---------------------------- MODULE Conversation ----------------------------
(***************************************************************************)
(* The conversation between a person and Ern-OS, question by question:     *)
(* main (start_ern_os.ep), the loops of the three faces (the_shell.ep,     *)
(* the_desktop.ep, glass_desktop.ep), login_flow, the loops of the apps    *)
(* (notes.ep, files.ep), and what the terminal (the_terminal.ep) keeps     *)
(* for the face: the transcript, the way to draw a question, and the       *)
(* request to end.  The window may be closed, and the typed input may      *)
(* end, at any moment; both are noticed at the next question only.         *)
(*                                                                         *)
(* What a sentence means is in module Sentences, what a command does to    *)
(* the disk in Files and Accounts, what the editor keeps in Notes.         *)
(***************************************************************************)
EXTENDS Naturals

CONSTANTS
    Faces,      \* how the system may be started: glass, desktop or plain
    Names,      \* the names that will do
    First,      \* who is met at the first boot
    NoName      \* no name, and an answer without words

ASSUME FacesAssumption == Faces \subseteq {"glass", "desktop", "plain"}
ASSUME NamesAssumption == First \in Names /\ NoName \notin Names

VARIABLES
    face,       \* the face of this run of the system
    at,         \* the question that is asked, or "off"
    name,       \* whom the question is about
    tries,      \* wrong passwords in this login
    person,     \* whose session it is
    accounts,   \* who has an account
    captured,   \* are said lines filed into the transcript?
    shown,      \* whose lines, and which notices, are in the transcript
    painter,    \* whose desktop the face draws
    closing,    \* the window of the glass was told to close
    quit,       \* the request to end the conversation
    ended,      \* the typed input is at its end
    refused     \* history: the login before this question was refused

talkVars == <<face, at, name, tries, person, accounts, captured, shown, painter,
          closing, quit, ended, refused>>

Questions == {"meet", "choose", "who", "password", "prompt", "secret", "notes", "editor", "files"}

\* The line that tells of a refused login.
Notice == "notice"

TalkTypeOK ==
    /\ face \in Faces /\ at \in Questions \cup {"off"}
    /\ name \in Names \cup {NoName} /\ person \in Names \cup {NoName}
    /\ painter \in Names \cup {NoName}
    /\ tries \in 0 .. 2 /\ accounts \subseteq Names
    /\ shown \subseteq Names \cup {Notice}
    /\ captured \in BOOLEAN /\ closing \in BOOLEAN /\ quit \in BOOLEAN
    /\ ended \in BOOLEAN /\ refused \in BOOLEAN

-----------------------------------------------------------------------------
(* The loops around the questions. *)

\* The next question, in the same session and on the same screen.
Same == UNCHANGED <<tries, person, captured, painter, refused>>
Goes(question) == at' = question /\ UNCHANGED name /\ Same
Stays == Goes(at)

\* Mutant: the transcript goes on.
BeginLoginOnTop(failed) ==
    /\ at' = "who" /\ name' = NoName /\ tries' = 0 /\ person' = NoName
    /\ refused' = failed
    /\ painter' = NoName
    /\ captured' = (face' = "glass")
    /\ UNCHANGED shown

\* A turn of the login loop.  The glass clears the session it draws and starts
\* the transcript over, with whatever was said of the last login; the other
\* faces ask on the plain screen.
BeginLogin(failed) ==
    /\ at' = "who" /\ name' = NoName /\ tries' = 0 /\ person' = NoName
    /\ refused' = failed
    /\ painter' = NoName
    /\ captured' = (face' = "glass")
    /\ shown' = IF face' = "glass" THEN {} ELSE shown

\* The loop of the face is left, and with it the system.
PowerOff ==
    /\ at' = "off" /\ name' = NoName /\ tries' = 0 /\ person' = NoName
    /\ captured' = FALSE /\ painter' = NoName /\ refused' = FALSE
    /\ UNCHANGED shown

\* login_flow gave back nobody's session.
LoginFailed == IF face = "glass" /\ quit' THEN PowerOff ELSE BeginLogin(TRUE)

\* The loop of the session starts; the desktop starts its transcript with it.
BeginSession(p) ==
    /\ at' = "prompt" /\ person' = p /\ name' = NoName /\ tries' = 0 /\ refused' = FALSE
    /\ captured' = (face # "plain")
    /\ painter' = IF face = "plain" THEN NoName ELSE p
    /\ shown' = CASE face = "glass" -> shown \cup {p}
                  [] face = "desktop" -> {}
                  [] OTHER -> shown

\* Back at the loop of the session, which only the glass may be asked to end.
Return ==
    IF quit' THEN PowerOff
    ELSE /\ at' = "prompt" /\ name' = NoName
         /\ Same

-----------------------------------------------------------------------------
(* Questions and answers. *)

Windowed == face = "glass" /\ at \notin {"meet", "choose", "off"}

\* ask and ask_secret have no words to give back: the window is closing, or the
\* typed input is at its end.
Silent == closing \/ (ended /\ ~Windowed)

\* A question is answered; a closing window asks for the end besides.
Hears(question) ==
    /\ at = question
    /\ quit' = (quit \/ closing)
    /\ UNCHANGED <<face, closing, ended>>

\* The lines said in answer join the transcript, where one is kept.
Says(lines) == shown' = IF captured THEN shown \cup lines ELSE shown

\* first_boot: a name and a password for the administrator.
Meet ==
    /\ Hears("meet") /\ UNCHANGED <<accounts, shown>>
    /\ \/ ~Silent /\ Goes("choose")
       \/ Stays

Choose ==
    /\ Hears("choose")
    /\ \/ Goes("meet") /\ UNCHANGED <<accounts, shown>>
       \/ ~Silent /\ accounts' = {First} /\ BeginLogin(FALSE)

\* login_flow: only a name with an account is asked for a password.
Who(p) ==
    /\ Hears("who") /\ UNCHANGED accounts
    /\ Silent => p = NoName
    /\ IF p \in accounts
       THEN at' = "password" /\ name' = p /\ Says({p}) /\ Same
       ELSE LoginFailed

Password(right) ==
    /\ Hears("password") /\ UNCHANGED accounts
    /\ Silent => ~right
    /\ IF right THEN IF face = "glass" /\ quit' THEN PowerOff ELSE BeginSession(name)
       ELSE IF tries < 2
       THEN /\ tries' = tries + 1 /\ Says({name, Notice})
            /\ UNCHANGED <<at, name, person, captured, painter, refused>>
       ELSE LoginFailed

\* A sentence that changes nothing here, and the one without words.
Chat == Hears("prompt") /\ Says({person}) /\ Return /\ UNCHANGED accounts

LogOut == Hears("prompt") /\ ~Silent /\ BeginLogin(FALSE) /\ UNCHANGED accounts

\* "shut down" and "restart", typed or from the dock.
ShutDown == Hears("prompt") /\ ~Silent /\ PowerOff /\ UNCHANGED accounts

\* "read notes" and "open notes" alike.
OpenApp(app) ==
    /\ Hears("prompt") /\ ~Silent
    /\ Goes(app) /\ Says({person}) /\ UNCHANGED accounts

RemovePerson(p) ==
    /\ Hears("prompt") /\ ~Silent
    /\ person = First /\ p # person
    /\ accounts' = accounts \ {p}
    /\ Says({person}) /\ Return

AddPerson(p) ==
    /\ Hears("prompt") /\ ~Silent
    /\ person = First /\ p \notin accounts
    /\ at' = "secret" /\ name' = p /\ Says({person})
    /\ Same /\ UNCHANGED accounts

\* Mutant: a password without characters will do.
SecretOfAnyLength ==
    /\ Hears("secret")
    /\ \/ UNCHANGED accounts
       \/ accounts' = accounts \cup {name}
    /\ Says({person}) /\ Return

\* The password for somebody new; create_account refuses a short one, and the
\* host may refuse any.
Secret ==
    /\ Hears("secret")
    /\ \/ UNCHANGED accounts
       \/ ~Silent /\ accounts' = accounts \cup {name}
    /\ Says({person}) /\ Return

-----------------------------------------------------------------------------
(* The apps: each looks at the request to end before it looks at the answer. *)

NotesApp ==
    /\ Hears("notes") /\ Says({person}) /\ UNCHANGED accounts
    /\ \/ (~Silent \/ quit') /\ Return
       \/ ~quit' /\ ~Silent /\ Goes("editor")
       \/ ~quit' /\ Stays

\* Mutant: the editor takes the empty answer for words it does not follow.
EditorLineThatStays ==
    /\ Hears("editor") /\ Says({person}) /\ UNCHANGED accounts
    /\ \/ ~Silent /\ Goes("notes")
       \/ Stays

EditorLine ==
    /\ Hears("editor") /\ Says({person}) /\ UNCHANGED accounts
    /\ \/ (~Silent \/ quit') /\ Goes("notes")
       \/ ~quit' /\ Stays

FilesApp ==
    /\ Hears("files") /\ Says({person}) /\ UNCHANGED accounts
    /\ \/ (~Silent \/ quit') /\ Return
       \/ ~quit' /\ Stays

-----------------------------------------------------------------------------
(* The machine, and what happens around it. *)

\* main, with nothing in memory: the first person is met, or the login starts.
Boot ==
    /\ at = "off"
    /\ face' \in Faces /\ closing' = FALSE /\ quit' = FALSE /\ ended' = FALSE
    /\ IF accounts = {}
       THEN Goes("meet") /\ shown' = {}
       ELSE BeginLogin(FALSE)
    /\ UNCHANGED accounts

CloseWindow ==
    /\ Windowed /\ ~closing /\ closing' = TRUE
    /\ Stays /\ UNCHANGED <<face, accounts, shown, quit, ended>>

EndInput ==
    /\ at # "off" /\ ~ended /\ ended' = TRUE
    /\ Stays /\ UNCHANGED <<face, accounts, shown, closing, quit>>

TalkInit ==
    /\ face \in Faces /\ at = "off" /\ name = NoName /\ tries = 0 /\ person = NoName
    /\ accounts \in {{}, {First}}
    /\ captured = FALSE /\ shown = {} /\ painter = NoName
    /\ closing = FALSE /\ quit = FALSE /\ ended = FALSE /\ refused = FALSE

Reply ==
    \/ Meet \/ Choose
    \/ \E p \in Names \cup {NoName} : Who(p)
    \/ \E right \in BOOLEAN : Password(right)
    \/ Chat \/ LogOut \/ ShutDown
    \/ \E app \in {"notes", "files"} : OpenApp(app)
    \/ \E p \in Names : RemovePerson(p) \/ AddPerson(p)
    \/ Secret \/ NotesApp \/ EditorLine \/ FilesApp

TalkNext == Reply \/ Boot \/ CloseWindow \/ EndInput

\* A closing window waits for nobody: its questions are answered at once.
TalkFairness == WF_talkVars(closing /\ Reply)

TalkSpec == TalkInit /\ [][TalkNext]_talkVars /\ TalkFairness

-----------------------------------------------------------------------------
(* Properties *)

\* "One person's visible conversation cannot leak to the next"
\* (docs/stabilization.md:49): while lines are filed for a desktop, they are
\* those of its session or of the login under way, and the desktop is drawn
\* for that session.
ScreenIsTheirs ==
    captured => painter = person /\ shown \subseteq {person, name, Notice}

\* "A graphical window close must not masquerade as words typed into an app"
\* (the_terminal.ep:30): after it, whatever question was open, nothing is done
\* but leaving; no login is offered and no account made.  The end of the typed
\* input is no answer either: it opens and ends no session and makes no
\* account, however often it is asked.
SilenceIsNoAnswer ==
    [][at # "off" =>
          /\ closing => /\ accounts' = accounts
                        /\ at' \in {at, "off"} \/ (at = "editor" /\ at' = "notes")
          /\ ended /\ ~Windowed => UNCHANGED <<accounts, person>>]_talkVars

\* "... nested notes/files input checks and propagates" (stabilization.md:51):
\* the system goes to sleep after its window is closed, from wherever it was.
CloseEnds == closing /\ at # "off" ~> at = "off"

\* "... yet their words land in the right place" (the_terminal.ep:12): who is
\* asked again after a refusal has been told.  It holds between two passwords,
\* and not for the name: the glass starts the transcript over before it draws.
RefusalsAreSeen ==
    captured /\ (tries > 0 \/ (at = "who" /\ refused)) => Notice \in shown
=============================================================================
