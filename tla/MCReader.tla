------------------------------- MODULE MCReader -------------------------------
(***************************************************************************)
(* Source texts and memory budgets for checking the reader.  The limits    *)
(* are small: a buffer of six chars, arrays of three, two levels.          *)
(***************************************************************************)
EXTENDS ReaderMeaning

\* The recursion of the grammar (in a LET, see MCEvaluator).
MCParse(tokens, levels, most) == LET parsed == ParseByParts(tokens, levels, most) IN parsed
MCParseItems(tokens, levels, most, items) ==
    LET parsed == ParseItemsByParts(tokens, levels, most, items) IN parsed

Str(bytes) == LispString(bytes)

\* Structure, and one atom of each kind.
Structure == {OpenParen, CloseParen, QuoteMark, Token("a ", LispSymbol("a"))}

Atoms == {
    Token("nil\t", LispNil),
    Token("-12 ", LispInt(-12)),
    Token("40000\n", LispInt(40000 - 65536)),        \* fits a long and is cut to an int
    Token("99999 ", ReaderError),                    \* fits no long
    Token("1.5 ", LispFloat(15)),
    Token("abcde ", LispSymbol("abcde")),
    Token("abcdef ", ReaderError),                   \* fills the buffer
    Token("?(", LispInt(40)),
    Token("? ", LispInt(32)),
    Token("#x7fFF ", LispInt(32767)),
    Token("#x1F000 ", LispInt(-4096)),               \* wraps around
    Token("#o17 ", LispInt(15)),
    Token("#o ", LispInt(0)),
    Token("#o8 ", ReaderError),
    Token("#b1 ", ReaderError) }

Strings == {
    Token("\"\"", Str(<<>>)),
    Token("\"(;'\"", Str(Chars("(;'"))),
    Token("\"\\x41\\ b\"", Str(Chars("Ab"))),        \* \x41, \ and b
    Token("\"\\x414\"", Str(Chars("A4"))),
    Token("\"\\1015\"", Str(Chars("A5"))),
    Token("\"\\777\"", Str(<<-1>>)),
    Token("\"\\n\\\nW\\\"\\\\\"", Str(Chars("\nW\"\\"))),
    Token("\"a\\0b\"", Str(Chars("a"))),             \* cut at the NUL
    Token("\"\\x\"", Str(<<>>)),
    Token("\"abcde\"", Str(Chars("abcde"))),
    Token("\"abcdef\"", MemoryError),
    Token("\"abcdefg\"", MemoryError) }

Tokens == Structure \cup Blanks \cup Atoms \cup Strings

\* What a text can break off in.
Endings == {Token(text, ReaderError) :
               text \in {"?", "#", "#x1G", "\"abcde", "\"abcdef", "\"a\\", "#x\\"}}

SeqsOf(tokens, lengths) == UNION {[1 .. n -> tokens] : n \in lengths}

MCSources ==
    {SourceOf(tokens, "") : tokens \in SeqsOf(Tokens, 0 .. 2) \cup SeqsOf(Structure, 3 .. 5)}
    \cup {SourceOf(tokens \o <<ending>>, "") : tokens \in SeqsOf(Structure, 0 .. 2), ending \in Endings}
    \cup {SourceOf(<<OpenParen>> \o tokens \o <<CloseParen>>, "") : tokens \in SeqsOf(Tokens, {2})}

\* Side by side, too, the atoms are what their tokens say (strings: module
\* MCInterpreter).
ASSUME AtomsStand ==
    \A tokens \in SeqsOf(Structure \cup Blanks \cup Atoms, 0 .. 2) : TokensStand(SourceOf(tokens, ""))

\* A broken text in a memory with a closing quote further on.
BrokenSources == {SourceOf(tokens \o <<ending>>, "b\"") : tokens \in SeqsOf(Structure, 0 .. 2), ending \in Endings}

\* Lists of four tokens.
ListSources == {SourceOf(<<OpenParen>> \o tokens \o <<CloseParen>>, "") : tokens \in SeqsOf(Structure, {4})}

Plenty == [lispobject |-> 16, string |-> 32, float |-> 2, narray |-> 8, symbol |-> 4]
MCBudgets == {Plenty, [Plenty EXCEPT !.symbol = 1], [Plenty EXCEPT !.string = 5],
              [Plenty EXCEPT !.narray = 1], [Plenty EXCEPT !.lispobject = 2], [Plenty EXCEPT !.float = 0]}
PlentyOnly == {Plenty}

MCReservedSymbols == {"quote", "lambda"}

\* Ten times the value of the one float.
MCStrToD == [str \in {Chars("1.5")} |-> 15]
=============================================================================
