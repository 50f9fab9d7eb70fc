------------------------- MODULE RuztaTokenizerBuffer -------------------------
(***************************************************************************)
(* RuztaTokenizerBuffer: a script as exported, its tokens without layout   *)
(* and, for every line, the first token and its column.  Scanning makes    *)
(* line ends and blocks again out of the columns.                          *)
(***************************************************************************)
EXTENDS RuztaTokenizer, FiniteSets

(* The tokens of a source, scanned as inside an expression. *)
RECURSIVE TokensFrom(_, _)
TokensFrom(t, tokens) ==
    LET scanned == ScanText(t)
    IN  IF scanned.token.type = "eof" THEN [tokens |-> tokens, t |-> scanned.t]
        ELSE TokensFrom(scanned.t, Append(tokens, scanned.token))

(* Tokens that begin a line, but for the first one; a slip keeps those of
   lines a backslash continues. *)
FirstInLine(tokens) ==
    {i \in DOMAIN tokens : i > 1 /\ tokens[i].start_line > tokens[i - 1].end_line}
LineTokensIfContinued(tokens, continued) == FirstInLine(tokens)
LineTokens(tokens, continued) ==
    {i \in FirstInLine(tokens) : tokens[i].start_line \notin continued}

parse_code_string(source) ==
    LET all == TokensFrom(set_multiline_mode(TextTokenizer(source), TRUE), <<>>)
    IN  [tokens |-> all.tokens,
         token_columns |-> [i \in LineTokens(all.tokens, all.t.continuation_lines)
                                |-> all.tokens[i].start_column],
         token_lines |-> [i \in LineTokens(all.tokens, all.t.continuation_lines)
                              |-> all.tokens[i].start_line]]

(* set_code_buffer; token_lines is indexed by the position of a token. *)
BufferTokenizer(code) ==
    [kind |-> "buffer", tokens |-> code.tokens, token_columns |-> code.token_columns,
     token_lines |-> code.token_lines, current |-> 0, current_line |-> 1,
     multiline_mode |-> FALSE, indent_stack |-> <<>>, indent_stack_stack |-> <<>>,
     pending_indents |-> 0, last_token_was_newline |-> FALSE]

(* Levels that a line at this indentation leaves.  An indentation between
   two levels closes the deeper one and opens none. *)
LinedUp(t, indent) ==
    LET previous == IF t.indent_stack = <<>> THEN 0 ELSE Last(t.indent_stack)
        kept == SelectSeq(t.indent_stack, LAMBDA level : level <= indent)
    IN  IF indent > previous
        THEN [t EXCEPT !.indent_stack = Append(@, indent), !.pending_indents = @ + 1]
        ELSE [t EXCEPT !.indent_stack = kept,
                       !.pending_indents = @ - (Len(t.indent_stack) - Len(kept))]

RECURSIVE ScanBuffer(_)
ScanBuffer(t) ==
    LET Gives(type, n) ==
            [t |-> n,
             token |-> [type |-> type, text |-> "", start_line |-> t.current_line,
                        end_line |-> t.current_line, start_column |-> 0]]
        ends == t.current >= Len(t.tokens)
        begins == ~t.last_token_was_newline /\ (t.current + 1) \in DOMAIN t.token_lines
        lined == IF begins THEN [t EXCEPT !.current_line = t.token_lines[t.current + 1]] ELSE t
        NewLine(n) == [t |-> [n EXCEPT !.last_token_was_newline = TRUE],
                       token |-> [type |-> "newline", text |-> "", start_line |-> n.current_line,
                                  end_line |-> n.current_line, start_column |-> 0]]
    IN  IF ends /\ ~t.last_token_was_newline THEN NewLine(t)
        ELSE IF t.pending_indents > 0
        THEN Gives("indent", [t EXCEPT !.pending_indents = @ - 1])
        ELSE IF t.pending_indents < 0
        THEN Gives("dedent", [t EXCEPT !.pending_indents = @ + 1])
        ELSE IF ends
        THEN IF t.indent_stack # <<>>
             THEN ScanBuffer([t EXCEPT !.pending_indents = @ - Len(t.indent_stack),
                                       !.indent_stack = <<>>])
             ELSE Gives("eof", t)
        ELSE IF begins /\ ~t.multiline_mode
        THEN NewLine(LinedUp(lined, t.token_columns[t.current + 1] - 1))
        ELSE [t |-> [lined EXCEPT !.current = @ + 1, !.last_token_was_newline = FALSE],
              token |-> t.tokens[t.current + 1]]

(* RuztaTokenizer::scan *)
scan(t) == IF t.kind = "text" THEN ScanText(t) ELSE ScanBuffer(t)
=============================================================================
