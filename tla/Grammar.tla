------------------------------- MODULE Grammar -------------------------------
(***************************************************************************)
(* What a source text means: a reference for the reader that works on      *)
(* tokens, without a cursor, buffers or pools.  A token is a piece of text *)
(* with the object it denotes, or a parenthesis, a quote or a blank.       *)
(***************************************************************************)
EXTENDS Numerals

\* Parse(tokens, levels, most) is the expression the tokens begin with, and
\* ParseItems(tokens, levels, most, items) the list whose first items are read.
\* They are the operators that put the tokens together as ParseByParts and
\* ParseItemsByParts say.
CONSTANTS
    Parse(_, _, _),
    ParseItems(_, _, _, _)

Token(text, obj) == [text |-> text, obj |-> obj]
Mark(text) == Token(text, LispNil)

OpenParen == Mark("(")
CloseParen == Mark(")")
QuoteMark == Mark("'")
Blanks == {Mark("\n "), Mark(";x\n")}

\* A source as the reader gets it; other chars may follow its NUL.
SourceOf(tokens, behind) ==
    [tokens |-> tokens, text |-> FoldStep(LAMBDA s, t : s \o t.text, "", tokens), behind |-> behind]

OpenParens(tokens) == Cardinality({i \in DOMAIN tokens : tokens[i] = OpenParen})

Parsed(obj, rest) == [obj |-> obj, rest |-> rest]

\* One expression, at most so many parentheses opened in all and fewer than
\* "most" items in a list.  A parenthesis closed where an expression should be
\* is read as a symbol without a name.
ParseByParts(tokens, levels, most) ==
    IF tokens = <<>> THEN Parsed(ReaderError, <<>>)
    ELSE IF Head(tokens) \in Blanks THEN Parse(Tail(tokens), levels, most)
    ELSE IF Head(tokens) = CloseParen THEN Parsed(LispSymbol(""), tokens)
    ELSE IF Head(tokens) = QuoteMark
    THEN LET quoted == Parse(Tail(tokens), levels, most)
         IN  IF IsError(quoted.obj) THEN quoted
             ELSE Parsed(LispCList(<<LispSymbol("quote"), quoted.obj>>), quoted.rest)
    ELSE IF Head(tokens) = OpenParen
    THEN IF levels = 0 THEN Parsed(ReaderError, <<>>)
         ELSE ParseItems(Tail(tokens), levels - 1, most, <<>>)
    ELSE Parsed(Head(tokens).obj, Tail(tokens))

\* The items of a list and its end.
ParseItemsByParts(tokens, levels, most, items) ==
    LET starts == SelectInSeq(tokens, LAMBDA t : t \notin Blanks)
        item == Parse(tokens, levels, most)
        opened == OpenParens(tokens) - OpenParens(item.rest)
    IN  IF Len(items) = most THEN Parsed(ReaderError, <<>>)
        ELSE IF starts # 0 /\ tokens[starts] = CloseParen
        THEN Parsed(LispCList(items), SubSeq(tokens, starts + 1, Len(tokens)))
        ELSE IF IsError(item.obj) THEN item
        ELSE ParseItems(item.rest, levels - opened, most, Append(items, item.obj))

\* What makes Parse the parser, of what these tokens begin with.
ParsedByParts(tokens, most) ==
    \A levels \in Nat :
        /\ Parse(tokens, levels, most) = ParseByParts(tokens, levels, most)
        /\ \A items : ParseItems(tokens, levels, most, items) = ParseItemsByParts(tokens, levels, most, items)

\* How deep the lists of an expression without quotes are nested.
Nesting(tokens) ==
    LET depth[n \in 0 .. Len(tokens)] ==
            IF n = 0 THEN 0
            ELSE depth[n - 1] + (IF tokens[n] = OpenParen THEN 1 ELSE IF tokens[n] = CloseParen THEN -1 ELSE 0)
    IN  Max({depth[n] : n \in 0 .. Len(tokens)})
=============================================================================
