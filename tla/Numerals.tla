------------------------------ MODULE Numerals ------------------------------
(***************************************************************************)
(* Numbers as text (util.c): which texts are numbers, and the ways SKK     *)
(* writes a decimal number in Japanese.                                    *)
(***************************************************************************)
EXTENDS LispData, SequencesExt

CONSTANT LONG_MAX    \* strtol reports a number outside -(LONG_MAX + 1) .. LONG_MAX

ASSUME LongAssumption == LONG_MAX \in Nat /\ LONG_MAX >= INT_MAX
-----------------------------------------------------------------------------
\* FoldLeft, written so that TLC evaluates each value on the way once.
FoldStep(Op(_, _), start, seq) ==
    LET value[n \in 0 .. Len(seq)] ==
            IF n = 0 THEN start ELSE With(value[n - 1], LAMBDA v : Op(v, seq[n]))
    IN  value[Len(seq)]
-----------------------------------------------------------------------------
(* check_num_str *)

IsSign(c) == c \in {Code["+"], Code["-"]}
IsDot(c) == c = Code["."]

Unsigned(str) == IF str # <<>> /\ IsSign(Head(str)) THEN Tail(str) ELSE str

\* Mutant: a second point goes on with the number.
NextStateLax(state, c) ==
    CASE IsDigit(c) -> IF state \in {"START", "DIGITS"} THEN "DIGITS" ELSE "DIGITS_AND_DOT"
      [] IsDot(c) /\ state = "START" -> "DOT"
      [] IsDot(c) /\ state # "START" -> "DIGITS_AND_DOT"
      [] OTHER -> "STOP"

\* The automaton's transitions; STOP is where the loop returns.
NextState(state, c) ==
    CASE IsDigit(c) -> IF state \in {"START", "DIGITS"} THEN "DIGITS" ELSE "DIGITS_AND_DOT"
      [] IsDot(c) /\ state = "START" -> "DOT"
      [] IsDot(c) /\ state = "DIGITS" -> "DIGITS_AND_DOT"
      [] OTHER -> "STOP"

ScanStart == [state |-> "START", stopped |-> FALSE]

ScanStep(s, c) ==
    LET next == NextState(s.state, c)
    IN  IF s.stopped \/ next = "STOP" THEN [s EXCEPT !.stopped = TRUE] ELSE [s EXCEPT !.state = next]

Scan(str) == FoldStep(ScanStep, ScanStart, Unsigned(str))

CheckNumStr(str, num_only_p) ==
    LET end == Scan(str)
    IN  IF end.state \in {"START", "DOT"} \/ (num_only_p /\ end.stopped) THEN "R_NOTNUM"
        ELSE IF end.state = "DIGITS" THEN "R_INT" ELSE "R_FLOAT"
-----------------------------------------------------------------------------
(* strtol and the printing of an int *)

\* What isspace says of a byte: a blank, or one of the codes from tab to return.
IsBlank(c) == c = Code[" "] \/ c \in Code["\t"] .. Code["\r"]

\* Blanks, an optional sign and digits, as far as they go.  LONG_MAX + 2 stands
\* for everything strtol reports as out of range.
StrToLong(str) ==
    LET start == Min({i \in 1 .. Len(str) : ~ IsBlank(str[i])} \cup {Len(str) + 1})
        text == SubSeq(str, start, Len(str))
        negative == text # <<>> /\ Head(text) = Code["-"]
        limit == IF negative THEN LONG_MAX + 1 ELSE LONG_MAX
        digits == Unsigned(text)
        n == Min({i \in 1 .. Len(digits) : ~ IsDigit(digits[i])} \cup {Len(digits) + 1}) - 1
        shift(v, d) == IF v > (limit - d) \div 10 THEN LONG_MAX + 2 ELSE 10 * v + d
        value == FoldStep(LAMBDA v, c : shift(v, c - Code["0"]), 0, SubSeq(digits, 1, n))
    IN  IF negative /\ value # LONG_MAX + 2 THEN -value ELSE value

InRange(str) == StrToLong(str) # LONG_MAX + 2

\* (int)strtol(str, NULL, 10)
StrToL(str) == ToInt(StrToLong(str))

\* "%d"
Decimal(n) ==
    LET width(m) == Min({k \in 1 .. 10 : k = 10 \/ m < 10 ^ k})
        digits(m) == [i \in 1 .. width(m) |-> Code["0"] + ((m \div 10 ^ (width(m) - i)) % 10)]
    IN  With(n, LAMBDA v : IF v < 0 THEN <<Code["-"]>> \o digits(-v) ELSE digits(v))
-----------------------------------------------------------------------------
(* skk_num_exp *)

Written(text) == [code |-> "ok", text |-> text]
Failed == [code |-> "failed", text |-> <<>>]
OutOfTable == [code |-> "undefined", text |-> <<>>]

\* The Japanese characters: ten zenkaku digits, ten kanji digits, the units.
ZenkakuDigit(d) == Utf8(1 + d)
KansujiDigit(d) == Utf8(11 + d)
Thousand == Utf8(24)
JapaneseKeta4 == << <<>>, Utf8(22), Utf8(23), Thousand >>
JapaneseKetaMan == << <<>>, Utf8(25), Utf8(26), Utf8(27), Utf8(28) >>

Digit(c) == c - Code["0"]
AllDigits(src) == \A i \in DOMAIN src : IsDigit(src[i])

\* Just a copy, when it fits with its NUL.
Type0(src, size) == IF Len(src) + 1 <= size THEN Written(src) ELSE Failed

\* Mutant: forgets the NUL.
Type1WithoutNul(src, size) ==
    LET text == FlattenSeq([i \in DOMAIN src |->
                    IF IsDigit(src[i]) THEN ZenkakuDigit(Digit(src[i])) ELSE <<src[i]>>])
    IN  IF text # <<>> /\ Len(text) > size THEN Failed ELSE Written(text)

\* skk_num_type1_kanji: a piece is written when a byte is left behind it.
Type1(src, size) ==
    LET text == FlattenSeq([i \in DOMAIN src |->
                    IF IsDigit(src[i]) THEN ZenkakuDigit(Digit(src[i])) ELSE <<src[i]>>])
    IN  IF text # <<>> /\ Len(text) >= size THEN Failed ELSE Written(text)

\* Mutant: leaves out a one in the ones place, too.
Kanji4DigitsWithoutOne(src) ==
    FlattenSeq([i \in DOMAIN src |->
        LET d == Digit(src[i])
        IN  IF d = 0 THEN <<>>
            ELSE (IF d = 1 THEN <<>> ELSE KansujiDigit(d)) \o JapaneseKeta4[Len(src) - i + 1]])

\* skk_num_to_kanji_4digits: nothing for 0, and no 1 before a unit.
Kanji4Digits(src) ==
    FlattenSeq([i \in DOMAIN src |->
        LET d == Digit(src[i])
        IN  IF d = 0 THEN <<>>
            ELSE (IF d = 1 /\ i < Len(src) THEN <<>> ELSE KansujiDigit(d))
                 \o JapaneseKeta4[Len(src) - i + 1]])

\* The four-digit groups of src, the first one from 1 to 4 digits long.
Groups(src) ==
    LET ketalen == (Len(src) - 1) \div 4
        ketawin == Len(src) - 4 * ketalen
    IN  [g \in 1 .. ketalen + 1 |->
            IF g = 1 THEN SubSeq(src, 1, ketawin)
            ELSE SubSeq(src, ketawin + 4 * g - 7, ketawin + 4 * g - 4)]

\* Mutant: a thousand is always written without a one.
GroupTextPlain(src, keta) ==
    IF Kanji4Digits(src) = <<>> THEN <<>> ELSE Kanji4Digits(src) \o JapaneseKetaMan[keta + 1]

\* A group with its power of ten thousand; a bare thousand gets its one there.
GroupText(src, keta) ==
    LET text == Kanji4Digits(src)
    IN  IF text = <<>> THEN <<>>
        ELSE (IF text = Thousand /\ keta # 0 THEN KansujiDigit(1) ELSE <<>>)
             \o text \o JapaneseKetaMan[keta + 1]

\* Mutant: the test of ketalen is one off.
KetaRefusedLate(src) == src = <<>> \/ Len(Groups(src)) - 1 > Len(JapaneseKetaMan) + 1

\* The test of ketalen lets one power too many pass; for the empty text ketalen
\* underflows, and the test refuses it.
KetaRefused(src) == src = <<>> \/ Len(Groups(src)) - 1 > Len(JapaneseKetaMan)

\* skk_num_type3_kanji.  The digits and the power of a group are table indices;
\* the power of an empty group is not looked up.
Type3(src, size) ==
    LET keta(g) == Len(Groups(src)) - g
        text == FlattenSeq([g \in DOMAIN Groups(src) |-> GroupText(Groups(src)[g], keta(g))])
    IN  IF KetaRefused(src) THEN Failed
        ELSE IF \/ ~ AllDigits(src)
                \/ \E g \in DOMAIN Groups(src) :
                        keta(g) >= Len(JapaneseKetaMan) /\ Kanji4Digits(Groups(src)[g]) # <<>>
        THEN OutOfTable
        ELSE IF text = <<>>
        THEN IF Len(KansujiDigit(0)) > size THEN Failed ELSE Written(KansujiDigit(0))
        ELSE IF Len(text) > size THEN Failed ELSE Written(text)

SkkNumTypes == 10

\* A negative type is a huge size_t.
SkkNumExp(num, type_idx, size) ==
    CASE type_idx \notin 0 .. SkkNumTypes -> Failed
      [] type_idx = SkkNumTypes -> OutOfTable
      [] type_idx = 0 -> Type0(num, size)
      [] type_idx = 1 -> Type1(num, size)
      [] type_idx = 3 -> Type3(num, size)
      [] OTHER -> Failed
=============================================================================
