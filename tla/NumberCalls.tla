----------------------------- MODULE NumberCalls -----------------------------
(***************************************************************************)
(* One call of check_num_str or skk_num_exp, checked against what a number *)
(* and a Japanese numeral are.                                             *)
(***************************************************************************)
EXTENDS Numerals

CONSTANTS
    ScanTexts, ScanLength,        \* check_num_str gets texts over this alphabet
    NumberTexts,                  \* skk_num_exp gets these
    NumTypes, Rooms               \* with a type, and this much more room than
                                  \* the text it writes, or TMP_BUFFSIZE bytes
CONSTANT TMP_BUFFSIZE             \* the size every caller passes

\* Texts are sequences of bytes; which ones is left open.
ASSUME TextAssumption ==
    /\ ScanTexts \subseteq Int /\ ScanLength \in Nat
    /\ NumberTexts \subseteq Seq(Int) /\ Rooms \subseteq Int

\* The callers' buffer has room for three numerals of five groups of 30 bytes.
ASSUME BufferAssumption == TMP_BUFFSIZE \in Nat /\ TMP_BUFFSIZE > 3 * 5 * 30

VARIABLES request, answer
vars == <<request, answer>>

NONE == [code |-> "none", text |-> <<>>]

ScanRequests == [fn : {"check_num_str"}, num : SeqOf(ScanTexts, ScanLength), num_only_p : BOOLEAN]

NumSizes(num, t) == {TMP_BUFFSIZE} \cup {Len(SkkNumExp(num, t, TMP_BUFFSIZE).text) + r : r \in Rooms}

NumRequestsOf(num, t) == [fn : {"skk_num_exp"}, num : {num}, type : {t}, size : NumSizes(num, t)]

NumRequests == UNION {NumRequestsOf(nt[1], nt[2]) : nt \in NumberTexts \X NumTypes}

Init ==
    /\ request \in ScanRequests \cup {q \in NumRequests : q.size > 0}
    /\ answer = NONE

CallCheckNumStr ==
    /\ request.fn = "check_num_str" /\ answer = NONE
    /\ answer' = [code |-> CheckNumStr(request.num, request.num_only_p), text |-> <<>>]
    /\ UNCHANGED request

CallSkkNumExp ==
    /\ request.fn = "skk_num_exp" /\ answer = NONE
    /\ answer' = SkkNumExp(request.num, request.type, request.size)
    /\ UNCHANGED request

Spec == Init /\ [][CallCheckNumStr \/ CallSkkNumExp]_vars
-----------------------------------------------------------------------------
(* What a number is *)

Points(str) == {i \in DOMAIN str : IsDot(str[i])}
HasDigit(str) == \E i \in DOMAIN str : IsDigit(str[i])

\* A sign or none, and digits with at most one point somewhere among them.
IsNumber(str) ==
    LET digits == Unsigned(str)
    IN  /\ HasDigit(digits) /\ Cardinality(Points(digits)) <= 1
        /\ \A i \in DOMAIN digits : IsDigit(digits[i]) \/ IsDot(digits[i])

\* check_num_str accepts a text when its longest beginning that can be a number
\* is one, or with num_only_p when the text is one as a whole, and it is a float
\* when that beginning has a point ("3." and ".3" are numbers, "." is none).
ScansNumbers ==
    (request.fn = "check_num_str" /\ answer # NONE) =>
        LET numbers == {n \in 0 .. Len(request.num) : IsNumber(SubSeq(request.num, 1, n))}
            longest == SubSeq(request.num, 1, Max(numbers))
        IN  answer.code =
                IF numbers = {} \/ (request.num_only_p /\ longest # request.num) THEN "R_NOTNUM"
                ELSE IF Points(longest) = {} THEN "R_INT" ELSE "R_FLOAT"
-----------------------------------------------------------------------------
(* What a Japanese numeral says *)

Digits == 0 .. 9
Written3 == request.fn = "skk_num_exp" /\ request.type = 3 /\ answer.code = "ok"

\* The value of the four digits of num that count for the k-th myriad.
FourDigits(num, k) ==
    LET digit(j) == IF 4 * k + j < Len(num) THEN Digit(num[Len(num) - 4 * k - j]) ELSE 0
    IN  digit(0) + 10 * digit(1) + 100 * digit(2) + 1000 * digit(3)

UnitValue == <<10, 100, 1000>>

Letters(text) == [i \in 1 .. Len(text) \div 3 |-> SubSeq(text, 3 * i - 2, 3 * i)]

\* Reads a numeral from left to right: a digit waits for its unit, a unit is
\* multiplied by the digit before it or stands for itself, a myriad unit
\* multiplies what was collected so far.
ReadLetter(state, letter) ==
    LET one == IF state.digit = -1 THEN 1 ELSE state.digit
        rest == IF state.digit = -1 THEN 0 ELSE state.digit
    IN  IF \E d \in Digits : letter = KansujiDigit(d)
        THEN [state EXCEPT !.digit = CHOOSE d \in Digits : letter = KansujiDigit(d)]
        ELSE IF \E u \in 1 .. 3 : letter = JapaneseKeta4[u + 1]
        THEN [digit |-> -1, read |-> state.read,
              sum |-> state.sum + one * UnitValue[CHOOSE u \in 1 .. 3 : letter = JapaneseKeta4[u + 1]]]
        ELSE LET k == CHOOSE k \in 1 .. 4 : letter = JapaneseKetaMan[k + 1]
             IN  [digit |-> -1, sum |-> 0, read |-> [state.read EXCEPT ![k] = state.sum + rest]]

ReadStart == [digit |-> -1, sum |-> 0, read |-> [k \in 0 .. 4 |-> 0]]

ReadKanji(text) ==
    LET end == FoldStep(ReadLetter, ReadStart, Letters(text))
    IN  [end.read EXCEPT ![0] = end.sum + (IF end.digit = -1 THEN 0 ELSE end.digit)]

\* A numeral of type 3, read aloud, is the number it was written for: no zero,
\* no unit and no myriad is lost or misplaced, whatever groups are empty.
KanjiReadsBack ==
    Written3 => ReadKanji(answer.text) = [k \in 0 .. 4 |-> FourDigits(request.num, k)]

\* Tests "zero" and "1000man": nothing but zero has a zero in it, and a one is only
\* written where it is spoken, alone or before a myriad but never in front of
\* ten and hundred, and of thousand just where a thousand counts a myriad.
OnesAndZeros ==
    Written3 =>
        LET t == Letters(answer.text)
            at(i, letter) == i \in DOMAIN t /\ t[i] = letter
            myriad(i) == \E k \in 2 .. 5 : at(i, JapaneseKetaMan[k])
            begins(i) == i = 1 \/ myriad(i - 1)
        IN  /\ (\E i \in DOMAIN t : at(i, KansujiDigit(0))) => t = <<KansujiDigit(0)>>
            /\ \A i \in DOMAIN t : at(i, KansujiDigit(1)) =>
                    ~ at(i + 1, JapaneseKeta4[2]) /\ ~ at(i + 1, JapaneseKeta4[3])
            /\ \A i \in DOMAIN t : at(i, Thousand) =>
                    /\ at(i - 1, KansujiDigit(1)) => begins(i - 1) /\ myriad(i + 1)
                    /\ ~ (begins(i) /\ myriad(i + 1))

\* How many bytes of the buffer a call may write: a text of type 0 or 1 fits
\* with its NUL, one of type 3 fits without.  No number that an int or a long
\* can hold comes near the size the callers pass.
TextsFit ==
    (request.fn = "skk_num_exp" /\ answer.code = "ok") =>
        /\ Len(answer.text) + (IF request.type = 3 THEN 0 ELSE 1) <= request.size
        /\ (request.size = TMP_BUFFSIZE /\ Len(request.num) <= 20) =>
                3 * Len(answer.text) < TMP_BUFFSIZE

\* A table is read behind its end for no number of up to twenty digits: only for
\* the type ten, and for a number from 10^20 up to the limit on its length.
TablesSuffice ==
    request.fn = "skk_num_exp" /\ AllDigits(request.num) =>
        (answer.code = "undefined" =>
            \/ request.type = 10
            \/ /\ request.type = 3 /\ Len(request.num) \in 21 .. 24
               /\ \E i \in 1 .. Len(request.num) - 20 : request.num[i] # Code["0"])
=============================================================================
