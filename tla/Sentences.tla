----------------------------- MODULE Sentences -----------------------------
(***************************************************************************)
(* How a typed sentence becomes a command (system/shell/                   *)
(* understand_command.ep).  A sentence is a sequence of words in small     *)
(* letters; a target and an extra are sequences of words too, joined by    *)
(* single spaces in the code.  The state is the sentence being typed.      *)
(***************************************************************************)
EXTENDS Naturals, SequencesExt

CONSTANTS
    Vocabulary,     \* bound: the words that are typed
    MaxWords        \* bound: the words of a sentence

VARIABLE sentence

Fillers == {"please", "kindly", "just", "the", "a", "an", "my", "me", "some", "you", "can",
            "could", "would"}
KindWords == {"note", "notes", "file", "files", "folder", "folders", "everything",
              "service", "services", "app", "apps"}
PeopleWords == {"person", "people", "account", "accounts", "user", "users"}

\* verb_action: the words for each canonical action.
Verbs == [look     |-> {"look", "show", "list", "see", "ls"},
          make     |-> {"make", "create", "new"},
          go       |-> {"go", "enter", "cd", "visit"},
          write    |-> {"write", "save"},
          read     |-> {"read", "open"},
          remove   |-> {"remove", "delete", "erase", "trash"},
          move     |-> {"move", "rename"},
          help     |-> {"help"},
          where    |-> {"where"},
          who      |-> {"who"},
          what     |-> {"what"},
          time     |-> {"time"},
          start    |-> {"start"},
          stop     |-> {"stop"},
          rebuild  |-> {"rebuild"},
          restart  |-> {"restart", "reboot"},
          add      |-> {"add", "invite"},
          logout   |-> {"log", "logout", "sign"},
          shutdown |-> {"shut", "shutdown", "quit", "exit", "power"}]

IsVerb(w) == \E v \in DOMAIN Verbs : w \in Verbs[v]
VerbOf(w) == CHOOSE v \in DOMAIN Verbs : w \in Verbs[v]

MakeCommand(action, target, extra) == [action |-> action, target |-> target, extra |-> extra]
Plain(action) == MakeCommand(action, <<>>, <<>>)

-----------------------------------------------------------------------------
(* Words. *)

Has(words, w) == w \in Range(words)

\* index_of_word, where the word is there: the first of its places.
Spot(words, w) == CHOOSE i \in DOMAIN words :
                      words[i] = w /\ \A j \in DOMAIN words : words[j] = w => i <= j

NotFiller(w) == w \notin Fillers

\* The words that are not skipped, in their order.
Picked(words, skipped) ==
    LET picked[n \in 0 .. Len(words)] ==
            IF n = 0 THEN <<>>
            ELSE IF words[n] \in skipped THEN picked[n - 1]
            ELSE Append(picked[n - 1], words[n])
    IN  picked[Len(words)]

\* Mutant: padding stays in a name.
WordsAndFillersBetween(words, start, stop) == SubSeq(words, start, stop - 1)

\* words_between: from one spot up to another, without the padding.
WordsBetween(words, start, stop) == Picked(SubSeq(words, start, stop - 1), Fillers)
WordsFrom(words, start) == WordsBetween(words, start, Len(words) + 1)

NameNoThing == Fillers \cup KindWords \cup {"in", "to", "into"}

\* Mutant: the word after the verb is taken for a kind word unseen.
PickTargetLate(words, verb) ==
    IF Has(words, "called") THEN WordsFrom(words, Spot(words, "called") + 1)
    ELSE Picked(SubSeq(words, verb + 2, Len(words)), NameNoThing)

\* pick_target: what is called or named, or else what follows the verb and is
\* neither padding nor a kind word.
PickTarget(words, verb) ==
    IF Has(words, "called") THEN WordsFrom(words, Spot(words, "called") + 1)
    ELSE IF Has(words, "named") THEN WordsFrom(words, Spot(words, "named") + 1)
    ELSE Picked(SubSeq(words, verb + 1, Len(words)), NameNoThing)

\* The first " saying " with words on both sides of it.
SayingSpots(s) == {i \in 2 .. Len(s) - 1 : s[i] = "saying"}
FirstSaying(s) == CHOOSE i \in SayingSpots(s) : \A j \in SayingSpots(s) : i <= j

HeadOf(s) == IF SayingSpots(s) = {} THEN s ELSE SubSeq(s, 1, FirstSaying(s) - 1)
TextOf(s) == IF SayingSpots(s) = {} THEN <<>> ELSE SubSeq(s, FirstSaying(s) + 1, Len(s))

-----------------------------------------------------------------------------
(* Commands: what a verb at a spot of the head asks for. *)

SpeaksOfPeople(words) == \E w \in PeopleWords : Has(words, w)

AboutPeople(verb, words) ==
    \/ verb = "add"
    \/ verb \in {"make", "look", "remove"} /\ SpeaksOfPeople(words)

PeopleCommand(verb, words, spot) ==
    CASE verb \in {"add", "make"} -> MakeCommand("add_person", PickTarget(words, spot), <<>>)
      [] verb = "look"            -> Plain("people")
      [] verb = "remove"          -> MakeCommand("remove_person", PickTarget(words, spot), <<>>)

What(words) ==
    IF Has(words, "time") THEN Plain("time")
    ELSE IF Has(words, "running") THEN Plain("running")
    ELSE MakeCommand("unknown", <<"what">>, <<>>)

Rebuild(words) ==
    Plain(IF Has(words, "toolchain") \/ Has(words, "compiler")
          THEN "rebuild_toolchain" ELSE "rebuild_system")

Look(words, spot) ==
    MakeCommand("look", IF Has(words, "in") THEN WordsFrom(words, Spot(words, "in") + 1)
                    ELSE PickTarget(words, spot), <<>>)

Go(words, spot) ==
    LET said == spot < Len(words) /\ words[spot + 1] \in {"to", "into"}
        place == WordsFrom(words, IF said THEN spot + 2 ELSE spot + 1)
    IN  IF said THEN MakeCommand("go", place, <<>>)
        ELSE IF place = <<"home">> THEN Plain("go_home")
        ELSE IF place \in {<<"up">>, <<"back">>} THEN Plain("go_up")
        ELSE MakeCommand("go", place, <<>>)

Read(words, spot) ==
    LET target == PickTarget(words, spot)
    IN  IF target = <<>> /\ Has(words, "notes") THEN MakeCommand("read", <<"notes">>, <<>>)
        ELSE IF target = <<>> /\ Has(words, "files") THEN MakeCommand("read", <<"files">>, <<>>)
        ELSE MakeCommand("read", target, <<>>)

Move(words, spot) ==
    IF Has(words, "to")
    THEN MakeCommand("move", WordsBetween(words, spot + 1, Spot(words, "to")),
                 WordsFrom(words, Spot(words, "to") + 1))
    ELSE MakeCommand("move", WordsFrom(words, spot + 1), <<>>)

VerbCommand(verb, words, spot, text) ==
    CASE AboutPeople(verb, words) -> PeopleCommand(verb, words, spot)
      [] ~AboutPeople(verb, words) ->
        CASE verb \in {"help", "where", "who", "time", "logout", "shutdown", "restart"} -> Plain(verb)
          [] verb = "what"    -> What(words)
          [] verb = "rebuild" -> Rebuild(words)
          [] verb = "start"   -> MakeCommand("start_service", PickTarget(words, spot), <<>>)
          [] verb = "stop"    -> MakeCommand("stop_service", PickTarget(words, spot), <<>>)
          [] verb = "look"    -> Look(words, spot)
          [] verb = "go"      -> Go(words, spot)
          [] verb = "make"    -> IF Has(words, "note")
                                 THEN MakeCommand("write", PickTarget(words, spot), text)
                                 ELSE MakeCommand("make_folder", PickTarget(words, spot), <<>>)
          [] verb = "write"   -> MakeCommand("write", PickTarget(words, spot), text)
          [] verb = "read"    -> Read(words, spot)
          [] verb = "remove"  -> MakeCommand("remove", PickTarget(words, spot), <<>>)
          [] verb = "move"    -> Move(words, spot)

\* understand_command: the first word that is not padding has to be a verb.
Understand(s) ==
    LET words == HeadOf(s)
        spots == {i \in DOMAIN words : NotFiller(words[i])}
        spot == CHOOSE i \in spots : \A j \in spots : i <= j
    IN  IF spots = {} THEN Plain("nothing")
        ELSE IF ~IsVerb(words[spot]) THEN MakeCommand("unknown", <<words[spot]>>, <<>>)
        ELSE VerbCommand(VerbOf(words[spot]), words, spot, TextOf(s))

-----------------------------------------------------------------------------
SentenceInit == sentence = <<>>

Type(w) == Len(sentence) < MaxWords /\ sentence' = Append(sentence, w)

SentenceNext == \E w \in Vocabulary : Type(w)

SentenceSpec == SentenceInit /\ [][SentenceNext]_sentence

-----------------------------------------------------------------------------
(* Properties *)

\* The sentence without its padding; what follows "saying" is kept as typed.
Unpadded(s) ==
    Picked(HeadOf(s), Fillers)
        \o (IF SayingSpots(s) = {} THEN <<>> ELSE <<"saying">> \o TextOf(s))

SaysSomething(s) == \E i \in DOMAIN HeadOf(s) : NotFiller(HeadOf(s)[i])

\* "go just to letters": padding between go and to hides the to.
GoesAround(s) ==
    \E i, j \in DOMAIN s : /\ i + 1 < j /\ s[i] \in Verbs["go"] /\ s[j] \in {"to", "into"}
                           /\ \A k \in i + 1 .. j - 1 : s[k] \in Fillers

\* Words that pad a sentence out do not change what it asks for, wherever they
\* stand and however many there are, except between "go" and "to".
PaddingIsPadding ==
    SaysSomething(sentence) /\ ~GoesAround(sentence)
        => Understand(Unpadded(sentence)) = Understand(sentence)

\* What is_filler is documented to be: "Words that pad a sentence out without
\* changing what it asks for".  It does not hold for "go".
PaddingNeverMatters ==
    SaysSomething(sentence) => Understand(Unpadded(sentence)) = Understand(sentence)

\* Names that no rule gives another meaning to: without padding, words for
\* kinds and people, and the words that name, place or quote.
IsAName(s) ==
    s # <<>> /\ Range(s) \cap (Fillers \cup KindWords \cup PeopleWords
                    \cup {"in", "to", "into", "called", "named", "saying"}) = {}

\* What is made or written under a name is found under it by each of the verbs,
\* though they pick the name out in five different ways.  (A folder made as
\* "called file box" is not: "remove file box" is about "box".)
NamesAreReached ==
    IsAName(sentence) =>
        LET Target(before, after) == Understand(before \o sentence \o after).target
        IN  {sentence} =
              {Target(<<"make", "a", "folder", "called">>, <<>>), Target(<<"make", "folder">>, <<>>),
               Target(<<"write", "a", "note", "called">>, <<"saying", "yes">>),
               Target(<<"read">>, <<>>), Target(<<"remove", "the", "note">>, <<>>),
               Target(<<"look", "in">>, <<>>), Target(<<"look">>, <<>>),
               Target(<<"go", "to">>, <<>>), Target(<<"move">>, <<"to", "x">>),
               Understand(<<"move", "x", "to">> \o sentence).extra}

=============================================================================
