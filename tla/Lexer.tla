-------------------------------- MODULE Lexer --------------------------------
(***************************************************************************)
(* tokenize_source of epc_bootstrap.c: from lines of words to tokens.      *)
(*                                                                         *)
(* A source is a sequence of lines [indent, words].  The scan over         *)
(* characters is abstracted to its words: <<"word", w>>, <<"num", n>>,     *)
(* <<"float", x>>, <<"sym", s>>, <<"str", parts>> with the pieces between  *)
(* the quotes, <<"text", s>> or <<"hole", words>> in braces, and           *)
(* <<"open">>, a string without its closing quote.  A line without words   *)
(* is blank or holds a comment.  A token is <<type, value>> with the       *)
(* numbers of the code, since two of them are the same.                    *)
(***************************************************************************)
EXTENDS Integers, SequencesExt

T == [define |-> 1, set |-> 2, to |-> 3, if |-> 4, else |-> 5, return |-> 6,
      display |-> 7, repeat |-> 8, while |-> 9, with |-> 10, and |-> 11,
      plus |-> 12, minus |-> 13, times |-> 14, divided |-> 15, less |-> 16,
      greater |-> 17, equal |-> 18, differs |-> 19, also |-> 20, orelse |-> 21,
      colon |-> 22, lparen |-> 23, rparen |-> 24, num |-> 25, str |-> 26,
      ident |-> 27, newline |-> 28, indent |-> 29, dedent |-> 30, eof |-> 31,
      import |-> 32, spawn |-> 33, channel |-> 34, send |-> 35, receive |-> 36,
      from |-> 37, external |-> 38, borrow |-> 39, dot |-> 40, modulo |-> 41,
      as |-> 42, returning |-> 43, structure |-> 44, field |-> 45,
      create |-> 46, choice |-> 47, variant |-> 48, check |-> 49,
      given |-> 50, try |-> 51, not |-> 52, for |-> 53, each |-> 54, in |-> 55,
      on |-> 56, trait |-> 57, implement |-> 58, of |-> 59, range |-> 60,
      break |-> 61, continue |-> 62, true |-> 63, false |-> 64, async |-> 65,
      await |-> 66, atmost |-> 67, atleast |-> 68, lbracket |-> 69,
      rbracket |-> 70, float |-> 70, comma |-> 71, is |-> 72]

\* Phrases of several words, in the order in which the code looks for them.
ProductPhrases == << <<<<"multiplied", "by">>, T.times>>, <<<<"divided", "by">>, T.divided>> >>
ComparisonPhrases == <<
  <<<<"is", "not", "equal", "to">>, T.differs>>, <<<<"is", "less", "than">>, T.less>>,
  <<<<"is", "greater", "than">>, T.greater>>, <<<<"is", "equal", "to">>, T.equal>>,
  <<<<"is", "more", "than">>, T.greater>>, <<<<"is", "fewer", "than">>, T.less>>,
  <<<<"is", "smaller", "than">>, T.less>>, <<<<"is", "bigger", "than">>, T.greater>>,
  <<<<"is", "larger", "than">>, T.greater>>, <<<<"is", "at", "least">>, T.atleast>>,
  <<<<"is", "at", "most">>, T.atmost>>, <<<<"is", "different", "from">>, T.differs>>,
  <<<<"is", "the", "same", "as">>, T.equal>>, <<<<"is">>, T.is>> >>
OtherPhrases == <<
  <<<<"does", "not", "equal">>, T.differs>>, <<<<"and", "also">>, T.also>>,
  <<<<"give", "back">>, T.return>>, <<<<"or", "else">>, T.orelse>> >>
Phrases == ProductPhrases \o ComparisonPhrases \o OtherPhrases

\* Words that are keywords under their own name, and those under another.
Keywords ==
  [w \in {"define", "set", "to", "if", "else", "return", "display", "repeat",
          "while", "with", "and", "plus", "minus", "import", "spawn", "channel",
          "send", "receive", "from", "external", "borrow", "structure", "field",
          "create", "as", "returning", "for", "each", "in", "range", "choice",
          "variant", "check", "on", "trait", "implement", "not", "break",
          "continue", "of", "try", "given", "true", "false", "async", "await",
          "modulo"} |-> T[w]]
Synonyms ==
  [equals |-> T.equal, describe |-> T.define, let |-> T.set, be |-> T.to,
   show |-> T.display, print |-> T.display, loop |-> T.repeat, every |-> T.each,
   returns |-> T.returning, stop |-> T.break, skip |-> T.continue,
   times |-> T.times]

\* One and two characters that stand for themselves; 0 is a symbol that is
\* reported and skipped.
SymbolType(s) ==
  CASE s = "==" -> T.equal    [] s = "!=" -> T.differs [] s = "&&" -> T.also
    [] s = "||" -> T.orelse   [] s = "<=" -> T.atmost  [] s = ">=" -> T.atleast
    [] s = ":" -> T.colon     [] s = "(" -> T.lparen   [] s = ")" -> T.rparen
    [] s = "+" -> T.plus      [] s = "-" -> T.minus    [] s = "*" -> T.times
    [] s = "/" -> T.divided   [] s = "<" -> T.less     [] s = ">" -> T.greater
    [] s = "." -> T.dot       [] s = "%" -> T.modulo   [] s = "[" -> T.lbracket
    [] s = "]" -> T.rbracket  [] s = "," -> T.comma    [] OTHER -> 0

\* Do the next words spell the phrase?
StartsPhrase(words, phrase) ==
  /\ Len(phrase) <= Len(words)
  /\ \A i \in DOMAIN phrase : words[i] = <<"word", phrase[i]>>

\* The first phrase of the table that the words begin with, 0 if none does.
PhraseAt(words) ==
  SelectInSeq(Phrases, LAMBDA p : StartsPhrase(words, p[1]))

WordType(w) ==
  CASE w \in DOMAIN Keywords -> Keywords[w]
    [] w \in DOMAIN Synonyms -> Synonyms[w]
    [] OTHER -> T.ident

Open(name) == << <<T.ident, name>>, <<T.lparen, "(">> >>
Close      == << <<T.rparen, ")">> >>
And        == << <<T.and, "and">> >>
Layout     == {T.newline, T.indent, T.dedent, T.eof}

\* Both give the tokens so far, and ok = FALSE when lexing failed.
RECURSIVE Words(_, _), FString(_, _, _)

(***************************************************************************)
(* lex_string_body of an f-string: the pieces become nested calls of       *)
(* concat, `opens` of which are closed at its end.  `text` is the literal  *)
(* read since the last hole.                                               *)
(***************************************************************************)
FString(parts, text, opens) ==
  IF parts = <<>>
  THEN [ok |-> TRUE,
        toks |-> << <<T.str, text>> >> \o [i \in 1..opens |-> Close[1]]]
  ELSE IF Head(parts)[1] = "hole"
  THEN LET inner == Words(Head(parts)[2], <<>>)
           rest == FString(Tail(parts), <<>>, opens + 1 + (IF text = <<>> THEN 0 ELSE 1))
       IN [ok |-> inner.ok /\ rest.ok,
           toks |-> (IF text = <<>> THEN <<>>
                     ELSE Open("concat") \o << <<T.str, text>> >> \o And)
                    \o Open("concat") \o Open("ep_auto_to_string")
                    \o SelectSeq(inner.toks, LAMBDA t : t[1] \notin Layout)
                    \o Close \o And \o rest.toks]
  ELSE FString(Tail(parts), Append(text, Head(parts)[2]), opens)

IsFString(toks) == toks # <<>> /\ Last(toks) = <<T.ident, "f">>

(***************************************************************************)
(* The words of one line, behind the tokens before them: an identifier f   *)
(* in front of a string is taken back.                                     *)
(***************************************************************************)
Words(words, toks) ==
  IF words = <<>> THEN [ok |-> TRUE, toks |-> toks]
  ELSE LET w == Head(words) p == PhraseAt(words) IN
  CASE w[1] = "open" -> [ok |-> FALSE, toks |-> toks]
    [] w[1] = "num" -> Words(Tail(words), Append(toks, <<T.num, w[2]>>))
    [] w[1] = "float" -> Words(Tail(words), Append(toks, <<T.float, w[2]>>))
    [] w[1] = "sym" /\ SymbolType(w[2]) # 0 ->
         Words(Tail(words), Append(toks, <<SymbolType(w[2]), w[2]>>))
    [] w[1] = "sym" -> Words(Tail(words), toks)
    [] w[1] = "str" /\ IsFString(toks) ->
         LET f == FString(w[2], <<>>, 0) IN
         IF f.ok THEN Words(Tail(words), Front(toks) \o f.toks) ELSE f
    [] w[1] = "str" -> Words(Tail(words), Append(toks, <<T.str, [i \in DOMAIN w[2] |-> w[2][i][2]]>>))
    [] w[1] = "word" /\ p # 0 ->
         Words(SubSeq(words, Len(Phrases[p][1]) + 1, Len(words)),
               Append(toks, <<Phrases[p][2], Phrases[p][1][1]>>))
    [] OTHER -> Words(Tail(words), Append(toks, <<WordType(w[2]), w[2]>>))

(***************************************************************************)
(* Layout: a deeper line opens a block, a shallower one closes all blocks  *)
(* that are deeper than it, and lines without words do not count.          *)
(***************************************************************************)
Indented(st, line) ==
  LET keep == SelectSeq(st.stack, LAMBDA d : d <= line.indent)
      closed == Len(st.stack) - Len(keep)
  IN IF line.indent > Last(st.stack)
     THEN [st EXCEPT !.stack = Append(@, line.indent),
                     !.toks = Append(@, <<T.indent, "INDENT">>)]
     ELSE [st EXCEPT !.stack = keep,
                     !.toks = @ \o [i \in 1..closed |-> <<T.dedent, "DEDENT">>]]

NewLine(st) ==
  IF st.toks = <<>> \/ Last(st.toks)[1] = T.newline THEN st
  ELSE [st EXCEPT !.toks = Append(@, <<T.newline, "\n">>)]

Line(st, line) ==
  IF ~st.ok THEN st
  ELSE IF line.words = <<>> THEN NewLine(st)
  ELSE LET opened == Indented(st, line)
           read == Words(line.words, opened.toks)
       IN NewLine([opened EXCEPT !.ok = read.ok, !.toks = read.toks])

\* tokenize_source: all blocks are closed at the end.
Tokenize(lines) ==
  LET st == FoldLeft(Line, [ok |-> TRUE, toks |-> <<>>, stack |-> <<0>>], lines) IN
  [ok |-> st.ok,
   toks |-> st.toks \o [i \in 1..Len(st.stack) - 1 |-> <<T.dedent, "DEDENT">>]
            \o << <<T.eof, "EOF">> >>]
=============================================================================
