------------------------------ MODULE Builtins ------------------------------
(***************************************************************************)
(* The built-in functions that take evaluated arguments and return a       *)
(* value (func-simple.c and func-skk-gadgets.c).  Each is an operator from *)
(* the arguments and the memory to the value returned and the memory left. *)
(***************************************************************************)
EXTENDS Numerals, Eras

CONSTANTS
    SkkNumList,           \* the number strings the caller passes, or NoNumList
    NoNumList,
    SkkHenkanKey,         \* the text the user converts, or NoKey
    NoKey,
    TMP_BUFFSIZE,         \* bytes of the buffers of func-skk-gadgets.c
    StrToD,               \* strtod on the texts with a point, a function
    PercentG(_, _),       \* "%g" of an int times the ratio of a pair of units
    UserFullName,         \* getpwuid_r
    UserMailAddress,      \* getlogin_r and gethostname
    CurrentTimeString,    \* strftime on the current time
    DateTime(_, _, _)     \* year month day dow hh mm ss of now + yy mm dd

ASSUME NumListAssumption == SkkNumList = NoNumList \/ SkkNumList \in Seq(Seq(Int))

V_SKK_VERSION == <<86>>
V_CWD == <<47>>
V_WINDOW_WIDTH == 80
V_FILL_COLUMN == 70
V_COMMENT_START == <<35>>

TypesAre(args, type) == \A i \in DOMAIN args : args[i].type = type

OptionalArg(args, n) == IF Len(args) < n THEN LispNil ELSE args[n]

EvaluationFails(mem) == Result(EvaluationError, mem)
-----------------------------------------------------------------------------
(* func-simple.c *)

NumberOf(x) == IF x.type = "int" THEN x.int ELSE x.float

\* An int until the first float.
Difference(x, y) ==
    IF x.type = "int" /\ y.type = "int" THEN LispInt(ToInt(x.int - y.int))
    ELSE LispFloat(NumberOf(x) - NumberOf(y))

Minus(args, mem) ==
    LET total == IF Len(args) = 1 THEN Difference(LispInt(0), args[1])
                 ELSE FoldLeft(Difference, Head(args), Tail(args))
    IN  IF \E i \in DOMAIN args : args[i].type \notin {"int", "float"} THEN EvaluationFails(mem)
        ELSE IF args = <<>> THEN Result(LispInt(0), mem)
        ELSE IF total.type = "float" THEN NewFloat(mem, total.float)
        ELSE Result(total, mem)

Car(args, mem) ==
    IF Len(args) # 1 \/ args[1].type \notin {"nil", "list"} THEN EvaluationFails(mem)
    ELSE IF args[1] \in {LispNil, LispCList(<<>>)} THEN Result(LispNil, mem)
    ELSE Result(Head(args[1].items), mem)

\* A single argument is returned itself, without a copy.
Concat(args, mem) ==
    IF ~ TypesAre(args, "string") THEN EvaluationFails(mem)
    ELSE IF Len(args) = 1 THEN Result(args[1], mem)
    ELSE NewString(mem, FlattenSeq([i \in DOMAIN args |-> args[i].chars]))

\* n NULs read as the empty string, but take n + 1 bytes.
MakeString(args, mem) ==
    IF Len(args) # 2 \/ ~ TypesAre(args, "int") THEN EvaluationFails(mem)
    ELSE LET n == args[1].int
             c == ToChar(args[2].int)
         IN  IF n < 0 THEN EvaluationFails(mem)
             ELSE NewStringArea(mem, IF c = 0 THEN <<>> ELSE [i \in 1 .. n |-> c], n)

StringToChar(args, mem) ==
    IF Len(args) # 1 \/ ~ TypesAre(args, "string") THEN EvaluationFails(mem)
    ELSE Result(LispInt(IF args[1].chars = <<>> THEN 0 ELSE Head(args[1].chars)), mem)

Substring(args, mem) ==
    IF Len(args) # 3 \/ args[1].type # "string" \/ ~ TypesAre(Tail(args), "int")
    THEN EvaluationFails(mem)
    ELSE LET from == args[2].int
             to == args[3].int
         IN  IF 0 <= from /\ from <= to /\ to <= Len(args[1].chars)
             THEN NewString(mem, SubSeq(args[1].chars, from + 1, to))
             ELSE EvaluationFails(mem)

StringToNumber(args, mem) ==
    IF Len(args) # 1 \/ ~ TypesAre(args, "string") THEN EvaluationFails(mem)
    ELSE LET str == args[1].chars
             kind == CheckNumStr(str, FALSE)
         IN  CASE kind = "R_INT" -> IF InRange(str) THEN Result(LispInt(StrToL(str)), mem)
                                    ELSE EvaluationFails(mem)
               [] kind = "R_FLOAT" -> NewFloat(mem, StrToD[str])
               [] kind = "R_NOTNUM" -> Result(LispInt(0), mem)

CurrentTime(args, mem) ==
    IF args # <<>> THEN EvaluationFails(mem) ELSE NewString(mem, CurrentTimeString)
-----------------------------------------------------------------------------
(* func-skk-gadgets.c *)

\* Mutant: the caller does not look at what the copies returned.
CopyStringsUnchecked(mem, strings) ==
    LET size == FoldLeft(LAMBDA sum, s : sum + Len(s) + 1, 0, strings)
    IN  IF HasFree(mem, "string", size) THEN Result(LispNil, Spend(mem, "string", size))
        ELSE Result(LispNil, [mem EXCEPT !.refused = TRUE])

\* One string after the other, until one does not fit.
CopyStrings(mem, strings) ==
    LET size(n) == FoldLeft(LAMBDA sum, s : sum + Len(s) + 1, 0, SubSeq(strings, 1, n))
    IN  With(Max({n \in 0 .. Len(strings) : HasFree(mem, "string", size(n))}), LAMBDA n :
            LET left == Spend(mem, "string", size(n))
            IN  IF n = Len(strings) THEN Result(LispNil, left) ELSE Refused(MemoryError, left))

SkkTimes(args, mem) ==
    LET numbers == IF SkkNumList = NoNumList THEN <<>> ELSE SkkNumList
    IN  IF args # <<>> \/ \E i \in DOMAIN numbers : ~ InRange(numbers[i])
        THEN EvaluationFails(mem)
        ELSE NewString(mem, Decimal(FoldLeft(LAMBDA r, s : ToInt(r * StrToL(s)), 1, numbers)))

Units == <<
    <<Chars("mile"), Chars("km")>>, <<Chars("mile"), Chars("yard")>>,
    <<Chars("yard"), Chars("feet")>>, <<Chars("yard"), Chars("cm")>>,
    <<Chars("feet"), Chars("inch")>>, <<Chars("feet"), Chars("cm")>>,
    <<Chars("inch"), Chars("feet")>>, <<Chars("inch"), Chars("cm")>> >>

SkkGadgetUnitsConversion(args, mem) ==
    IF [i \in DOMAIN args |-> args[i].type] # <<"string", "int", "string">>
    THEN EvaluationFails(mem)
    ELSE LET i == SelectInSeq(Units, LAMBDA u : u = <<args[1].chars, args[3].chars>>)
         IN  IF i = 0 THEN EvaluationFails(mem)
             ELSE NewString(mem, PercentG(args[2].int, i) \o Units[i][2])

\* dv_skk_num_list: the array first, then its items.
NumListValue(mem) ==
    IF SkkNumList = NoNumList THEN Result(LispNil, mem)
    ELSE Then(NewList(mem, [i \in DOMAIN SkkNumList |-> LispString(SkkNumList[i])], MemoryError),
              LAMBDA list, m : Then(CopyStrings(m, SkkNumList), LAMBDA nil, left : Result(list, left)))

\* The value of a dynamic variable.
DynamicValue(f, mem) ==
    CASE f = "user-full-name" -> NewString(mem, UserFullName)
      [] f = "user-mail-address" -> NewString(mem, UserMailAddress)
      [] f = "skk-num-list" -> NumListValue(mem)
      [] OTHER -> Result(Undefined, mem)

\* split_time_string copies dow month day year hh mm ss, then makes the list.
SplitTimeString(mem, date) ==
    Then(CopyStrings(mem, [i \in 1 .. 7 |-> date[<<4, 2, 3, 1, 5, 6, 7>>[i]]]),
         LAMBDA nil, m : NewList(m, [i \in 1 .. 7 |-> LispString(date[i])], MemoryError))

-----------------------------------------------------------------------------
(* Eras and dates *)

IsText(x) == x.type \in {"nil", "string"}
TextOf(x) == IF x.type = "nil" THEN <<>> ELSE x.chars

\* The first number of the list.  Empty, the list holds the NULL at its end.
FirstNumber(mem) ==
    IF SkkNumList = NoNumList THEN EvaluationFails(mem)
    ELSE IF SkkNumList = <<>> THEN Result(Undefined, mem)
    ELSE IF InRange(Head(SkkNumList)) THEN Result(LispInt(StrToL(Head(SkkNumList))), mem)
    ELSE EvaluationFails(mem)

\* The divider's type is not looked at; a symbol has a text, too.
Divider(x, mem) ==
    CASE IsText(x) -> Result(LispString(TextOf(x)), mem)
      [] x.type = "symbol" -> Result(LispString(Chars(x.name)), mem)
      [] OTHER -> Result(Undefined, mem)

SkkAdToGengo(args, mem) ==
    LET tail == OptionalArg(args, 3)
    IN  IF \/ Len(args) \notin 1 .. 4 \/ ~ IsText(tail)
           \/ args[1] \notin {LispInt(0), LispInt(1)}
        THEN EvaluationFails(mem)
        ELSE Then(FirstNumber(mem), LAMBDA ad, m :
             Then(AdToGengo(m, ad.int, OptionalArg(args, 4) # LispNil, 0, 0), LAMBDA v, m2 :
             Then(Divider(OptionalArg(args, 2), m2), LAMBDA divider, m3 :
                  LET nengo == v.items[3]
                  IN  NewString(m3, v.items[args[1].int + 1].chars \o divider.chars
                                    \o (IF nengo.type = "int" THEN Decimal(nengo.int) ELSE nengo.chars)
                                    \o TextOf(tail)))))

\* str_cpy_up_to_digit
UpToDigit(text) == SubSeq(text, 1, SelectInSeq(text \o <<Code["0"]>>, IsDigit) - 1)

\* A key with TMP_BUFFSIZE characters before its first digit has its NUL
\* written behind the buffer.
SkkGengoToAd(args, mem) ==
    IF Len(args) > 2 \/ ~ IsText(OptionalArg(args, 1)) \/ ~ IsText(OptionalArg(args, 2))
    THEN EvaluationFails(mem)
    ELSE Then(FirstNumber(mem), LAMBDA nengo, m :
            IF SkkHenkanKey = NoKey THEN EvaluationFails(m)
            ELSE IF Len(UpToDigit(SkkHenkanKey)) >= TMP_BUFFSIZE THEN Result(Undefined, m)
            ELSE With(GengoToAd1(UpToDigit(SkkHenkanKey), nengo.int), LAMBDA v :
                IF v = -1 THEN EvaluationFails(m)
                ELSE NewString(m, TextOf(OptionalArg(args, 1)) \o Decimal(v) \o TextOf(OptionalArg(args, 2)))))

Names(list) == [i \in DOMAIN list |-> Chars(list[i])]

Months == Names(<<"Jan", "Feb", "Mar", "Apr", "May", "Jun", "Jul", "Aug", "Sep", "Oct", "Nov", "Dec">>)
DaysOfWeek == Names(<<"Sun", "Mon", "Tue", "Wed", "Thu", "Fri", "Sat">>)

\* 0 if there is none of this name
NumberOfName(names, name) == SelectInSeq(names, LAMBDA n : n = name)

\* The C library prints "(null)" for the NULL of an unknown day.
DowJa(name) ==
    LET i == NumberOfName(DaysOfWeek, name) IN IF i = 0 THEN Chars("(null)") ELSE Utf8(100 + i)

DefaultFormat ==
    Chars("%s") \o Utf8(108) \o Chars("%s") \o Utf8(109) \o Chars("%s") \o Utf8(110) \o Chars("(%s)")

\* printf with %s and %% only.
Directive(state, c, texts) ==
    CASE ~ state.percent /\ c # Code["%"] -> [state EXCEPT !.text = Append(@, c)]
      [] ~ state.percent /\ c = Code["%"] -> [state EXCEPT !.percent = TRUE]
      [] state.percent /\ c = Code["%"] -> [state EXCEPT !.percent = FALSE, !.text = Append(@, c)]
      [] state.percent /\ c = Code["s"] /\ state.used < Len(texts) ->
            [state EXCEPT !.percent = FALSE, !.used = @ + 1, !.text = @ \o texts[state.used + 1]]
      [] OTHER -> [state EXCEPT !.defined = FALSE]

Snprintf(format, texts, mem) ==
    With(FoldStep(LAMBDA state, c : Directive(state, c, texts),
                  [text |-> <<>>, percent |-> FALSE, used |-> 0, defined |-> TRUE], format),
         LAMBDA end : IF ~ end.defined \/ end.percent THEN Result(Undefined, mem)
                      ELSE IF Len(end.text) >= TMP_BUFFSIZE THEN Result(MemoryError, mem)
                      ELSE Result(LispString(end.text), mem))

\* skk_num_exp into a buffer
NumText(num, num_type, mem) ==
    With(With(num, LAMBDA n : SkkNumExp(n, num_type, TMP_BUFFSIZE)), LAMBDA e :
        CASE e.code = "ok" -> Result(LispString(e.text), mem)
          [] e.code = "failed" -> EvaluationFails(mem)
          [] e.code = "undefined" -> Result(Undefined, mem))

\* The same, copied to the string area.
NumString(num, num_type, mem) ==
    Then(NumText(num, num_type, mem), LAMBDA text, m : NewString(m, text.chars))

\* The error of the era's list is taken for a wrong type.
EraYear(date, num_type, gengo_index, mem) ==
    With(AdToGengo(mem, date.year, FALSE, date.month, date.day), LAMBDA v :
        IF IsError(v.val) THEN Result(EvaluationError, v.mem)
        ELSE IF gengo_index \notin 0 .. 2 THEN Result(Undefined, v.mem)
        ELSE LET gengo == v.val.items[gengo_index + 1]
                 nengo == v.val.items[3]
             IN  IF gengo.type # "string" THEN EvaluationFails(v.mem)
                 ELSE Then(IF nengo.type = "string" THEN Result(nengo, v.mem)
                           ELSE NumText(Decimal(nengo.int), num_type, v.mem),
                           LAMBDA text, m : NewString(m, gengo.chars \o text.chars)))

IsDate(x) == x.type = "list" /\ Len(x.items) = 7 /\ TypesAre(SubSeq(x.items, 1, 4), "string")

DateOf(info) ==
    [year |-> StrToL(info.items[1].chars), month |-> NumberOfName(Months, info.items[2].chars),
     day |-> StrToL(info.items[3].chars), dow |-> info.items[4].chars]

DateOK(info, date) ==
    /\ InRange(info.items[1].chars) /\ date.year > 0
    /\ date.month # 0
    /\ InRange(info.items[3].chars) /\ date.day \in 1 .. 31

SkkDefaultCurrentDate(info, format, num_type, gengo_p, gengo_index, dow_index, mem) ==
    IF ~ IsDate(info) \/ ~ TypesAre(<<num_type, gengo_index>>, "int") THEN EvaluationFails(mem)
    ELSE With(DateOf(info), LAMBDA date :
         IF ~ DateOK(info, date) THEN EvaluationFails(mem) ELSE
         Then(IF gengo_p = LispNil THEN NumString(info.items[1].chars, num_type.int, mem)
              ELSE EraYear(date, num_type.int, gengo_index.int, mem), LAMBDA year, m :
         Then(NumString(Decimal(date.month), num_type.int, m), LAMBDA month, m2 :
         Then(NumString(info.items[3].chars, num_type.int, m2), LAMBDA day, m3 :
            IF ~ IsText(format) THEN EvaluationFails(m3)
            ELSE Then(Snprintf(IF format = LispNil THEN DefaultFormat ELSE format.chars,
                               <<year.chars, month.chars, day.chars,
                                 IF dow_index = LispNil THEN date.dow ELSE DowJa(date.dow)>>, m3),
                      LAMBDA result, m4 : NewString(m4, result.chars))))))

\* f_skk_default_current_date.  Its test lets fewer than seven arguments pass,
\* and the missing ones are read.
DefaultCurrentDate(args, mem) ==
    IF Len(args) > 8 THEN EvaluationFails(mem)
    ELSE IF Len(args) < 7 THEN Result(Undefined, mem)
    ELSE SkkDefaultCurrentDate(args[1], args[2], args[3], args[4], args[5], args[7], mem)

\* skk_default_current_date as the two date functions call it.
DefaultDate(datetime, mem) ==
    SkkDefaultCurrentDate(datetime, LispNil, LispInt(1), LispInt(1), LispInt(0), LispInt(0), mem)

\* The keyword arguments of skk-relative-date: <<yy, mm, dd>>, or <<>> when
\* they are ill formed.  The last one of a keyword counts.
Offset(args, keyword) ==
    LET given == {i \in DOMAIN args : i >= 4 /\ i % 2 = 0 /\ args[i] = LispSymbol(keyword)}
    IN  IF given = {} THEN 0 ELSE args[(CHOOSE i \in given : \A j \in given : j <= i) + 1].int

OffsetsOK(args) ==
    \A i \in DOMAIN args : i >= 4 /\ i % 2 = 0 =>
        /\ args[i].type = "symbol"
        /\ i + 1 \in DOMAIN args
        /\ args[i + 1].type = "int"

InternOffsets(mem) ==
    Then(InternLiteral(mem, ":yy"), LAMBDA yy, m :
        Then(InternLiteral(m, ":mm"), LAMBDA mm, m2 : InternLiteral(m2, ":dd")))
=============================================================================
