---------------------------- MODULE RuztaTokenizer ----------------------------
(***************************************************************************)
(* RuztaTokenizerText: the layout of a script as tokens.  A source is a    *)
(* sequence of lexemes: blanks, line ends, comments, backslashes and words *)
(* (an identifier, a number, an operator, ...); how characters make a word *)
(* is left out, but for the sign of a number, which depends on the token   *)
(* before it.  A tokenizer is a record; each operator returns the next.    *)
(***************************************************************************)
EXTENDS Integers, Sequences, SequencesExt

CONSTANTS Names,    \* words that are identifiers
          Numbers,  \* words that are number literals
          Strings,  \* words that are string literals
          AtWords,  \* words that are annotations
          TabSize   \* columns of a tab

Space == " "
Tab == "\t"
LineEnd == "\n"
Comment == "#"
Backslash == "\\"
Blanks == {Space, Tab}

TypeOf(word) == IF word \in Names THEN "identifier"
                ELSE IF word \in Numbers \cup Strings \cup {"true", "false", "null"} THEN "literal"
                ELSE IF word \in AtWords THEN "annotation" ELSE word

Token(type, text, t) ==
    [type |-> type, text |-> text, start_line |-> t.line, end_line |-> t.line,
     start_column |-> t.column]

can_precede_bin_op(type) == type \in {"identifier", "literal", "self", "]", "}", ")"}

(* set_source_code *)
TextTokenizer(source) ==
    [kind |-> "text", source |-> source, position |-> 0, line |-> 1, column |-> 1,
     line_continuation |-> FALSE, multiline_mode |-> FALSE, pending_newline |-> FALSE,
     pending_indents |-> 0, indent_stack |-> <<>>, indent_stack_stack |-> <<>>,
     paren_stack |-> <<>>, indent_char |-> "none", error_stack |-> <<>>,
     last_token |-> "none", last_newline |-> <<1, 1>>, continuation_lines |-> {}]

set_multiline_mode(t, state) == [t EXCEPT !.multiline_mode = state]

push_expression_indented_block(t) ==
    [t EXCEPT !.indent_stack_stack = Append(@, t.indent_stack)]

pop_expression_indented_block(t) ==
    [t EXCEPT !.indent_stack = Last(t.indent_stack_stack),
              !.indent_stack_stack = Front(@)]

IsAtEnd(t) == t.position >= Len(t.source)
Peek(t) == IF IsAtEnd(t) THEN "end" ELSE t.source[t.position + 1]

push_error(t) == [t EXCEPT !.error_stack = Append(@, Token("error", "", t))]

(* A line end is noted once, and not at all in a continued line. *)
newline(t, makes_token) ==
    LET noted == makes_token /\ ~t.pending_newline /\ ~t.line_continuation
    IN  [t EXCEPT !.pending_newline = @ \/ noted,
                  !.last_newline = IF noted THEN <<t.line, t.column - 1>> ELSE @,
                  !.last_token = IF noted THEN "newline" ELSE @,
                  !.line = @ + 1,
                  !.column = 1]

DedentAll(t) ==
    [t EXCEPT !.pending_indents = @ - Len(t.indent_stack), !.indent_stack = <<>>]

(* _advance: the end of the source ends its line and all its blocks. *)
Advance(t) ==
    LET n == [t EXCEPT !.position = @ + 1, !.column = @ + 1]
    IN  IF IsAtEnd(t) THEN t
        ELSE IF IsAtEnd(n) THEN DedentAll(newline(n, TRUE))
        ELSE n

RECURSIVE SkipBlanks(_)
SkipBlanks(t) ==
    IF Peek(t) \notin Blanks THEN t
    ELSE SkipBlanks(Advance([t EXCEPT !.column = @ + (IF Peek(t) = Tab THEN TabSize ELSE 1) - 1]))

(* The levels an indentation closes. *)
Closed(stack, count) == {i \in DOMAIN stack : stack[i] > count}

(* The indentation of a line of code against the levels that are open. *)
Levels(t, count) ==
    LET stack == t.indent_stack
        closed == Len(stack) - (IF \E i \in DOMAIN stack : i \notin Closed(stack, count)
                                THEN CHOOSE i \in DOMAIN stack :
                                        /\ i \notin Closed(stack, count)
                                        /\ \A j \in DOMAIN stack : j > i => j \in Closed(stack, count)
                                ELSE 0)
        kept == SubSeq(stack, 1, Len(stack) - closed)
        level == IF kept = <<>> THEN 0 ELSE Last(kept)
        previous == IF stack = <<>> THEN 0 ELSE Last(stack)
    IN  IF count = previous THEN t
        ELSE IF count > previous
        THEN [t EXCEPT !.indent_stack = Append(@, count), !.pending_indents = @ + 1]
        ELSE LET d == [t EXCEPT !.indent_stack = kept, !.pending_indents = @ - closed]
             IN  IF level = count THEN d
                 ELSE [push_error(d) EXCEPT !.indent_stack = Append(@, count)]

(* The start of a line: empty lines and comments are skipped, the blanks of
   a line of code are its indentation.  Inside an expression, or after a
   backslash, a line has none. *)
Joined(t) == t.line_continuation \/ t.multiline_mode

RECURSIVE check_indent(_)
check_indent(t) ==
    LET char == Peek(t)
        s == SkipBlanks(t)
        mixed == \E i \in (t.position + 1)..s.position : t.source[i] # char
        c == Advance(s)
        m == IF mixed THEN push_error(s) ELSE s
        foreign == m.indent_char # "none" /\ m.indent_char # char
        f == IF foreign THEN push_error(m)
             ELSE IF m.indent_char = "none" THEN [m EXCEPT !.indent_char = char] ELSE m
    IN  IF IsAtEnd(t) THEN DedentAll(t)
        ELSE IF char \notin Blanks \cup {LineEnd, Comment}
        THEN IF Joined(t) THEN t ELSE DedentAll(t)
        ELSE IF IsAtEnd(s) THEN DedentAll(s)
        ELSE IF Peek(s) = LineEnd THEN check_indent(newline(c, FALSE))
        ELSE IF Peek(s) = Comment
        THEN IF IsAtEnd(c) THEN DedentAll(c) ELSE check_indent(newline(Advance(c), FALSE))
        ELSE IF Joined(s) THEN s
        ELSE Levels(f, s.column - 1)

RECURSIVE SkipInLine(_)
SkipInLine(t) ==
    LET a == Advance(t)
        n == Advance(a)
    IN  CASE Peek(t) = Space -> SkipInLine(a)
          [] Peek(t) = Tab -> SkipInLine([a EXCEPT !.column = @ + TabSize - 1])
          [] Peek(t) = LineEnd -> SkipInLine(check_indent(newline(a, TRUE)))
          [] Peek(t) = Comment ->
                IF IsAtEnd(a) THEN a ELSE SkipInLine(check_indent(newline(n, TRUE)))
          [] OTHER -> t

_skip_whitespace(t) ==
    IF t.pending_indents # 0 THEN t
    ELSE IF t.column = 1 THEN check_indent(t)
    ELSE SkipInLine(t)

(* A closing bracket takes the last opening one with it, matching or not. *)
Closes(word) == CASE word = ")" -> "(" [] word = "]" -> "[" [] OTHER -> "{"

(* The word at hand as a token. *)
Word(t) ==
    LET word == Peek(t)
        a == [Advance(t) EXCEPT !.line_continuation = FALSE]
        signed == word \in {"+", "-"} /\ Peek(a) \in Numbers /\ ~can_precede_bin_op(t.last_token)
        unmatched == /\ word \in {")", "]", "}"}
                     /\ t.paren_stack = <<>> \/ Last(t.paren_stack) # Closes(word)
        parens == IF word \in {"(", "[", "{"} THEN Append(t.paren_stack, word)
                  ELSE IF word \in {")", "]", "}"} /\ t.paren_stack # <<>>
                  THEN Front(t.paren_stack) ELSE t.paren_stack
        token == IF unmatched THEN Token("error", "", t)
                 ELSE IF signed THEN Token("literal", word \o Peek(a), t)
                 ELSE Token(TypeOf(word), word, t)
        after == IF signed THEN Advance(a) ELSE a
    IN  [t |-> [after EXCEPT !.paren_stack = parens,
                             !.last_token = IF IsAtEnd(after) /\ after.pending_newline
                                            THEN "newline" ELSE token.type],
         token |-> token]

RECURSIVE ScanText(_)
ScanText(t) ==
    LET s == _skip_whitespace(t)
        q == [s EXCEPT !.pending_newline = FALSE]
        Gives(type, n) == [t |-> [n EXCEPT !.last_token = type], token |-> Token(type, "", q)]
        Failed(n) == [t |-> [n EXCEPT !.error_stack = Front(@)], token |-> Last(n.error_stack)]
        b == Advance(q)
        joined == _skip_whitespace([newline(Advance(b), FALSE) EXCEPT !.line_continuation = TRUE])
    IN  IF t.error_stack # <<>> THEN Failed(t)
        ELSE IF s.pending_newline /\ ~s.multiline_mode
        THEN [t |-> q, token |-> [Token("newline", "", s) EXCEPT
                                     !.start_line = s.last_newline[1], !.end_line = s.last_newline[1],
                                     !.start_column = s.last_newline[2]]]
        ELSE IF q.error_stack # <<>> THEN Failed(q)
        ELSE IF q.pending_indents > 0
        THEN Gives("indent", [q EXCEPT !.pending_indents = @ - 1])
        ELSE IF q.pending_indents < 0
        THEN Gives("dedent", [q EXCEPT !.pending_indents = @ + 1])
        ELSE IF IsAtEnd(q) THEN Gives("eof", q)
        ELSE IF Peek(q) = Backslash
        THEN IF Peek(b) # LineEnd THEN [t |-> b, token |-> Token("error", "", q)]
             ELSE ScanText([joined EXCEPT !.continuation_lines = @ \cup {joined.line}])
        ELSE Word(q)
=============================================================================
