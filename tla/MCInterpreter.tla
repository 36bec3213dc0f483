---------------------------- MODULE MCInterpreter ----------------------------
(***************************************************************************)
(* Source texts for checking the reader and the evaluator together.        *)
(***************************************************************************)
EXTENDS InterpreterMeaning, MCEvaluator

\* The recursion of the grammar (in a LET, see MCEvaluator).
MCParse(tokens, levels, most) == LET parsed == ParseByParts(tokens, levels, most) IN parsed
MCParseItems(tokens, levels, most, items) ==
    LET parsed == ParseItemsByParts(tokens, levels, most, items) IN parsed

Identifier(text) == Token(text \o " ", LispSymbol(text))
Literal(text) == Token("\"" \o text \o "\"", LispString(Chars(text)))

Vocabulary == {OpenParen, CloseParen, QuoteMark, Identifier("concat"), Identifier("car"), Literal("ab")}

\* Calls with a nested call, a lambda, numbers, escapes, comments; and lists
\* that denote no string.
Texts == {
    <<OpenParen, Identifier("concat"), Literal("a"), OpenParen, Identifier("substring"), Literal("abcd"),
      Token("1 ", LispInt(1)), Token("3", LispInt(3)), CloseParen, Token("\"\\x41\\ b\"", Str("Ab")), CloseParen>>,
    <<OpenParen, Identifier("make-string"), Token("3 ", LispInt(3)), Token("?B", LispInt(66)), CloseParen>>,
    <<OpenParen, Identifier("skk-current-date"), OpenParen, Identifier("lambda"), OpenParen, Identifier("d"), Identifier("f"), Identifier("g"),
      Identifier("a"), CloseParen, OpenParen, Identifier("concat"), OpenParen, Identifier("car"), Identifier("d"), CloseParen,
      Literal("!"), CloseParen, CloseParen, CloseParen>>,
    <<OpenParen, Identifier("string-to-char"), Literal("A"), CloseParen>>,
    <<OpenParen, Identifier("symbol-value"), QuoteMark, Identifier("comment-start"), CloseParen>>,
    <<Token(";x\n", LispNil), OpenParen, Identifier("pwd"), CloseParen>>,
    <<OpenParen, Identifier("car"), QuoteMark, OpenParen, Literal("abcdefg"), Identifier("b"), CloseParen, CloseParen>>,
    <<OpenParen, Identifier("lol"), Literal("a"), CloseParen>>,
    <<Identifier("unbound")>>,
    <<Token("\"aaaaaaaaaaaaaaaaaaaaaaaa\"", MemoryError)>> }

MCSources == {SourceOf(tokens, "") :
                  tokens \in Texts \cup {<<OpenParen>> \o t : t \in UNION {[1 .. n -> Vocabulary] : n \in 0 .. 4}}}

\* Read one by one, the tokens are what they say.
ASSUME TextsStand == \A s \in MCSources : R!TokensStand(s)

\* What the texts denote and what stands in it.
MCTextObjects == PartsOf(TextObjects)

Ample == [lispobject |-> 48, string |-> 160, float |-> 0, narray |-> 16, symbol |-> 8]
MCInterpreterBudgets == {Ample, [Ample EXCEPT !.string = 8], [Ample EXCEPT !.narray = 3],
                         [Ample EXCEPT !.symbol = 2]}

MCReservedSymbols == {"quote", "lambda", "concat", "car", "comment-start"}
=============================================================================
