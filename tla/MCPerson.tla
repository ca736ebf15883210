------------------------------ MODULE MCPerson ------------------------------
(***************************************************************************)
(* What a person does at the system, for TLC, one part at a time: the      *)
(* questions of the conversation, the words of a sentence, the lines of a  *)
(* note, and the commands on files.  The parts meet in a value that one    *)
(* hands to the next (a command, a note, a path), and each is looked at    *)
(* with every such value; so a behaviour stays in the part it begins with. *)
(***************************************************************************)
EXTENDS Conversation, Sentences, Notes, MCFiles

VARIABLE part

personVars == <<part, talkVars, sentence, noteVars, fileVars>>

PersonInit ==
    /\ part \in {"talk", "sentence", "note", "files"}
    /\ TalkInit /\ (part # "talk" => face = "plain" /\ accounts = {})
    /\ SentenceInit
    /\ NoteInit /\ (part # "note" => note = <<>>)
    /\ FileInit

PersonNext ==
    /\ UNCHANGED part
    /\ \/ part = "talk"     /\ TalkNext     /\ UNCHANGED <<sentence, noteVars, fileVars>>
       \/ part = "sentence" /\ SentenceNext /\ UNCHANGED <<talkVars, noteVars, fileVars>>
       \/ part = "note"     /\ NoteNext     /\ UNCHANGED <<talkVars, sentence, fileVars>>
       \/ part = "files"    /\ FileNext     /\ UNCHANGED <<talkVars, sentence, noteVars>>

PersonSpec ==
    PersonInit /\ [][PersonNext]_personVars /\ TalkFairness
=============================================================================
