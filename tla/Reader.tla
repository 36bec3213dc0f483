------------------------------- MODULE Reader -------------------------------
(***************************************************************************)
(* The reader (reader.c): from the source text to an expression.           *)
(*                                                                         *)
(* The C stack is written out: a frame for every reader_list that waits    *)
(* for an item and one for every reader_quoted.  An action is the code     *)
(* between two calls or returns of reader_sexp.                            *)
(***************************************************************************)
EXTENDS Numerals

CONSTANTS
    Sources,                     \* records with the text to read, and what the
                                 \* memory behind its NUL holds
    Budgets,                     \* what is free before anything is read
    ReservedSymbols,             \* the symbols interned by then
    READER_BUFSIZE,
    READER_ARRAY_BUFSIZE,
    READER_MAX_NESTING_LEVEL,
    StrToD                       \* strtod on the floats in the texts, a function

\* The limit is 32 in reader.h.
ASSUME NestingAssumption == READER_MAX_NESTING_LEVEL \in Nat

\* A text ends with a NUL, and so does what is behind it.
ASSUME SourceAssumption ==
    /\ READER_BUFSIZE \in Nat
    /\ \A s \in Sources : Len(s.text) \in Nat /\ Len(s.behind) \in Nat

VARIABLES
    source,
    cursor,                      \* the index in the memory the next char is at
    nesting_level,
    reading,                     \* what reader_sexp or reader_list does next
    open,                        \* the calls waiting, innermost last
    mem                          \* see LispData

vars == <<source, cursor, nesting_level, reading, open, mem>>

Sexp == [step |-> "sexp"]
Loop == [step |-> "loop"]
Return(x) == [step |-> "return", obj |-> x]

ListFrame(buffer) == [kind |-> "list", buffer |-> buffer]
QuoteFrame == [kind |-> "quote"]
-----------------------------------------------------------------------------
(* The memory: text, NUL, what is behind, and NULs.  A char is a string of   *)
(* length one, as in the text.  Here and below, s is the source that is read *)
(* and m the memory left.                                                    *)

NUL == "NUL"
TextEnd(s) == Len(s.text) + 1
MemoryEnd(s) == TextEnd(s) + Len(s.behind) + 2
Places(s) == 1 .. MemoryEnd(s)

At(s, p) ==
    CASE p < TextEnd(s) -> SubSeq(s.text, p, p)
      [] p - TextEnd(s) \in 1 .. Len(s.behind) -> SubSeq(s.behind, p - TextEnd(s), p - TextEnd(s))
      [] OTHER -> NUL

\* The chars from p to q - 1, none of them NUL.
Slice(s, p, q) ==
    IF p = q THEN ""
    ELSE IF p < TextEnd(s) THEN SubSeq(s.text, p, q - 1)
    ELSE SubSeq(s.behind, p - TextEnd(s), q - 1 - TextEnd(s))

\* Where the first char from p on is that ends a run of others.
FirstFrom(s, p, Ends(_)) == CHOOSE q \in p .. MemoryEnd(s) :
    Ends(At(s, q)) /\ \A r \in p .. q - 1 : ~ Ends(At(s, r))

IsSpace(c) == c \in {" ", "\t", "\n", "\f", "\r"}
IsStartToken(c) == IsSpace(c) \/ c \in {"(", ")", "\"", "'", ";", NUL}

OctDigits == Chars("01234567")
HexDigits == Chars("0123456789abcdefABCDEF")
IsIn(digits, c) == c # NUL /\ SelectInSeq(digits, LAMBDA d : d = Code[c]) # 0
DigitValue(c) ==
    LET i == SelectInSeq(HexDigits, LAMBDA d : d = Code[c]) IN IF i > 16 THEN i - 7 ELSE i - 1

\* The number the digits from p to q - 1 are in a base, wrapping around.
ValueOfDigits(s, p, q, base) ==
    FoldStep(LAMBDA n, i : ToInt(base * n + DigitValue(At(s, p + i - 1))), 0, [i \in 1 .. q - p |-> i])

\* The end of the digits from p on, at most so many.
DigitsEnd(s, p, digits, most) ==
    With(FirstFrom(s, p, LAMBDA c : ~ IsIn(digits, c)), LAMBDA q : IF q > p + most THEN p + most ELSE q)

\* reader_skip_spaces_and_comment
Skip(s, from) ==
    LET skip[p \in Places(s)] ==
            IF IsSpace(At(s, p)) THEN skip[p + 1]
            ELSE IF At(s, p) = ";" THEN skip[FirstFrom(s, p, LAMBDA c : c \in {"\n", NUL})]
            ELSE p
    IN  skip[from]
-----------------------------------------------------------------------------
(* Atoms: the object read, the memory left and the cursor behind it.         *)

Atom(result, next) == [val |-> result.val, mem |-> result.mem, next |-> next]

\* str2symbol with a copy of the name; a full table refuses what it has, too.
InternCopy(m, name) ==
    IF m.free["symbol"] = 0 THEN Refused(MemoryError, m)
    ELSE IF name \in m.symbols THEN Result(LispSymbol(name), m)
    ELSE IF ~ HasFree(m, "string", Len(name) + 1) THEN Refused(MemoryError, m)
    ELSE Result(LispSymbol(name),
                [Spend(Spend(m, "string", Len(name) + 1), "symbol", 1) EXCEPT !.symbols = @ \cup {name}])

\* What a token is that fits the buffer.
AtomOf(m, token, str) ==
    LET kind == CheckNumStr(str, TRUE)
    IN  CASE kind = "R_INT" ->
                IF InRange(str) THEN Result(LispInt(StrToL(str)), m) ELSE Result(ReaderError, m)
          [] kind = "R_FLOAT" -> NewFloat(m, StrToD[str])
          [] kind = "R_NOTNUM" -> IF token = "nil" THEN Result(LispNil, m) ELSE InternCopy(m, token)

\* reader_maybe_symbol.  The token may be empty.
MaybeSymbol(s, m, p) ==
    With(FirstFrom(s, p, IsStartToken), LAMBDA q :
        IF q - p >= READER_BUFSIZE THEN Atom(Result(ReaderError, m), p + READER_BUFSIZE)
        ELSE With(Slice(s, p, q), LAMBDA token : With(Chars(token), LAMBDA str :
                 With(AtomOf(m, token, str), LAMBDA atom : Atom(atom, q)))))

\* Mutant: the end is a char like any other.
CharAcrossTheEnd(s, m, p) ==
    Atom(Result(LispInt(IF At(s, p + 1) = NUL THEN 0 ELSE Code[At(s, p + 1)]), m), p + 2)

\* reader_char: whatever comes next, but for the end.
Char(s, m, p) ==
    IF At(s, p + 1) = NUL THEN Atom(Result(ReaderError, m), p + 1)
    ELSE Atom(Result(LispInt(Code[At(s, p + 1)]), m), p + 2)

\* reader_hashnum.  There may be no digit.
HashNum(s, m, p) ==
    LET base == IF At(s, p + 1) = "x" THEN 16 ELSE 8
        digits == IF At(s, p + 1) = "x" THEN HexDigits ELSE OctDigits
    IN  IF At(s, p + 1) \notin {"x", "o"} THEN Atom(Result(ReaderError, m), p + 1)
        ELSE With(DigitsEnd(s, p + 2, digits, MemoryEnd(s)), LAMBDA q :
            Atom(IF ~ IsStartToken(At(s, q)) THEN Result(ReaderError, m)
                 ELSE Result(LispInt(ValueOfDigits(s, p + 2, q, base)), m), q))

\* Mutant: the blank behind an escape stays in the string.
EscapeKeepingBlank(s, p) ==
    LET stored(byte, next) == [bytes |-> <<byte>>, next |-> next]
    IN  IF IsIn(OctDigits, At(s, p))
        THEN With(DigitsEnd(s, p, OctDigits, 3), LAMBDA q : stored(ToChar(ValueOfDigits(s, p, q, 8)), q))
        ELSE IF At(s, p) = "x"
        THEN With(DigitsEnd(s, p + 1, HexDigits, 2), LAMBDA q : stored(ToChar(ValueOfDigits(s, p + 1, q, 16)), q))
        ELSE stored(CASE At(s, p) = "n" -> Code["\n"] [] At(s, p) = NUL -> 0 [] OTHER -> Code[At(s, p)], p + 1)

\* The bytes an escape stands for; p is behind the backslash.  Of a NUL, the
\* code takes no notice.
Escape(s, p) ==
    LET stored(byte, next) == [bytes |-> <<byte>>, next |-> next]
    IN  IF IsIn(OctDigits, At(s, p))
        THEN With(DigitsEnd(s, p, OctDigits, 3), LAMBDA q : stored(ToChar(ValueOfDigits(s, p, q, 8)), q))
        ELSE IF At(s, p) = "x"
        THEN With(DigitsEnd(s, p + 1, HexDigits, 2), LAMBDA q : stored(ToChar(ValueOfDigits(s, p + 1, q, 16)), q))
        ELSE IF At(s, p) \in {" ", "\n"} THEN [bytes |-> <<>>, next |-> p + 1]
        ELSE stored(CASE At(s, p) = "n" -> Code["\n"] [] At(s, p) = NUL -> 0 [] OTHER -> Code[At(s, p)], p + 1)

\* The bytes up to the closing quote, or up to a NUL.
StringBytes(s, from) ==
    LET read[p \in Places(s)] ==
            IF At(s, p) \in {NUL, "\""}
            THEN [bytes |-> <<>>, closed |-> At(s, p) # NUL, next |-> IF At(s, p) = NUL THEN p ELSE p + 1]
            ELSE With(IF At(s, p) = "\\" THEN Escape(s, p + 1) ELSE [bytes |-> <<Code[At(s, p)]>>, next |-> p + 1],
                      LAMBDA c : With(read[c.next], LAMBDA rest : [rest EXCEPT !.bytes = c.bytes \o @]))
    IN  read[from]

\* Bytes in the buffer end at the first NUL.
UpToNul(bytes) == SubSeq(bytes, 1, SelectInSeq(bytes \o <<0>>, LAMBDA b : b = 0) - 1)

\* Mutant: the string fills the buffer to its last byte.
StringWithoutNul(s, m, p) ==
    With(StringBytes(s, p + 1), LAMBDA str :
        Atom(IF Len(str.bytes) > READER_BUFSIZE THEN Result(MemoryError, m)
             ELSE IF ~ str.closed THEN Result(ReaderError, m)
             ELSE NewString(m, UpToNul(str.bytes)), str.next))

\* reader_string
String(s, m, p) ==
    With(StringBytes(s, p + 1), LAMBDA str :
        Atom(IF Len(str.bytes) > READER_BUFSIZE \/ (str.closed /\ Len(str.bytes) = READER_BUFSIZE)
             THEN Result(MemoryError, m)
             ELSE IF ~ str.closed THEN Result(ReaderError, m)
             ELSE NewString(m, UpToNul(str.bytes)), str.next))

AtomAt(s, m, p) ==
    CASE At(s, p) = "\"" -> String(s, m, p)
      [] At(s, p) = "?" -> Char(s, m, p)
      [] At(s, p) = "#" -> HashNum(s, m, p)
      [] OTHER -> MaybeSymbol(s, m, p)
-----------------------------------------------------------------------------
Init ==
    /\ source \in Sources
    /\ cursor = 1
    /\ nesting_level = 0
    /\ reading = Sexp
    /\ open = <<>>
    /\ \E budget \in Budgets : mem = Memory(budget, ReservedSymbols)

Give(result) == \E r \in {result} : reading' = Return(r.val) /\ mem' = r.mem

Here == Skip(source, cursor)

\* Mutant: the end of the text in a list is left to the loop.
ReadEndInList ==
    /\ reading = Sexp /\ At(source, Here) = NUL
    /\ cursor' = Here
    /\ reading' = IF open # <<>> /\ Last(open).kind = "list" THEN Loop ELSE Return(ReaderError)
    /\ UNCHANGED <<source, nesting_level, open, mem>>

ReadEnd ==
    /\ reading = Sexp /\ At(source, Here) = NUL
    /\ cursor' = Here
    /\ reading' = Return(ReaderError)
    /\ UNCHANGED <<source, nesting_level, open, mem>>

ReadAtom ==
    /\ reading = Sexp /\ At(source, Here) \notin {NUL, "'", "("}
    /\ \E p \in {Here} : \E atom \in {AtomAt(source, mem, p)} : Give(atom) /\ cursor' = atom.next
    /\ UNCHANGED <<source, nesting_level, open>>

\* Mutant: the quote is not skipped.
ReadQuotedAgain ==
    /\ reading = Sexp /\ At(source, Here) = "'"
    /\ cursor' = Here
    /\ open' = Append(open, QuoteFrame)
    /\ UNCHANGED <<source, nesting_level, reading, mem>>

\* reader_quoted
ReadQuoted ==
    /\ reading = Sexp /\ At(source, Here) = "'"
    /\ cursor' = Here + 1
    /\ open' = Append(open, QuoteFrame)
    /\ UNCHANGED <<source, nesting_level, reading, mem>>

\* reader_list up to its loop.  The level is never taken back.
ReadList ==
    /\ reading = Sexp /\ At(source, Here) = "("
    /\ nesting_level' = nesting_level + 1
    /\ IF nesting_level' > READER_MAX_NESTING_LEVEL
       THEN reading' = Return(ReaderError) /\ cursor' = Here /\ UNCHANGED open
       ELSE reading' = Loop /\ cursor' = Here + 1 /\ open' = Append(open, ListFrame(<<>>))
    /\ UNCHANGED <<source, mem>>

Top == Last(open)

\* The loop of reader_list: one iteration for every item, and one to see the end.
ListTooLong ==
    /\ reading = Loop
    /\ Len(Top.buffer) = READER_ARRAY_BUFSIZE
    /\ reading' = Return(ReaderError)
    /\ open' = Front(open)
    /\ UNCHANGED <<source, cursor, nesting_level, mem>>

NextItem ==
    /\ reading = Loop
    /\ Len(Top.buffer) < READER_ARRAY_BUFSIZE
    /\ At(source, Here) # ")"
    /\ reading' = Sexp
    /\ cursor' = Here
    /\ UNCHANGED <<source, nesting_level, open, mem>>

CloseList ==
    /\ reading = Loop
    /\ Len(Top.buffer) < READER_ARRAY_BUFSIZE
    /\ At(source, Here) = ")"
    /\ cursor' = Here + 1
    /\ Give(NewList(mem, Top.buffer, MemoryError))
    /\ open' = Front(open)
    /\ UNCHANGED <<source, nesting_level>>

Returning(kind) == reading.step = "return" /\ open # <<>> /\ Top.kind = kind

ReturnToList ==
    /\ Returning("list")
    /\ IF IsError(reading.obj)
       THEN open' = Front(open) /\ UNCHANGED reading
       ELSE /\ open' = Append(Front(open), ListFrame(Append(Top.buffer, reading.obj)))
            /\ reading' = Loop
    /\ UNCHANGED <<source, cursor, nesting_level, mem>>

ReturnToQuoted ==
    /\ Returning("quote")
    /\ open' = Front(open)
    /\ Give(IF IsError(reading.obj) THEN Result(reading.obj, mem)
            ELSE NewList(mem, <<LispSymbol("quote"), reading.obj>>, MemoryError))
    /\ UNCHANGED <<source, cursor, nesting_level>>

Next ==
    \/ ReadEnd \/ ReadAtom \/ ReadQuoted \/ ReadList
    \/ ListTooLong \/ NextItem \/ CloseList
    \/ ReturnToList \/ ReturnToQuoted

\* The program runs on as long as it can: it waits for nobody.
Spec == Init /\ [][Next]_vars /\ WF_vars(Next)

Done == reading.step = "return" /\ open = <<>>
-----------------------------------------------------------------------------
(* Correctness *)

\* Nothing behind the NUL is read.  The one exception is a backslash that ends
\* an unclosed string.
CursorStaysInText ==
    cursor <= TextEnd(source) \/ SubSeq(source.text, Len(source.text), Len(source.text)) = "\\"

\* No more lists wait than READER_MAX_NESTING_LEVEL says.  Quotes have no limit.
ListsNestWithinLimit ==
    Cardinality({i \in DOMAIN open : open[i].kind = "list"}) <= READER_MAX_NESTING_LEVEL

\* The C stack is bounded by the text and by READER_MAX_NESTING_LEVEL: every
\* call that waits has consumed a char of its own.
RecursionConsumesText == Len(open) < cursor /\ ListsNestWithinLimit

\* The reader returns, whatever the text.
Terminates == <>Done
=============================================================================
