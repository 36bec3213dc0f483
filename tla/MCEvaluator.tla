----------------------------- MODULE MCEvaluator -----------------------------
(***************************************************************************)
(* Programs and memory budgets for checking the evaluator.  A program is   *)
(* written as the reader builds it.                                        *)
(***************************************************************************)
EXTENDS LispMeaning

Sym(s) == LispSymbol(s)
Call(f, args) == LispCList(<<Sym(f)>> \o args)
Quote(x) == Call("quote", <<x>>)
Lambda(params, body) == LispCList(<<Sym("lambda"), LispCList([i \in DOMAIN params |-> Sym(params[i])])>> \o body)

A == LispString(<<65>>)
DFGA == <<"d", "f", "g", "a">>
Minute == <<1>>

CurrentDate(lambda) == Call("skk-current-date", <<lambda>>)
RelativeDate(lambda, offsets) ==
    Call("skk-relative-date", <<lambda, LispNil, LispNil>> \o offsets)

Zero == LispInt(0)
Str(text) == LispString(Chars(text))
Date(year, month, day, dow) ==
    Quote(LispCList(<<Str(year), Str(month), Str(day), Str(dow), Zero, Zero, Zero>>))
DefaultCurrentDate8(date, args) == Call("skk-default-current-date", <<date>> \o args)

\* Three lambdas running at once, one more than the variable stack holds.
Nested == CurrentDate(Lambda(DFGA, <<CurrentDate(Lambda(DFGA, <<CurrentDate(
              Lambda(DFGA, <<Call("car", <<Sym("d")>>)>>))>>))>>))

\* A lambda that gets itself as the format and calls it again.
SelfApplied == With(Lambda(DFGA, <<Call("skk-current-date", <<Sym("f"), Sym("f")>>)>>),
                    LAMBDA lambda : Call("skk-current-date", <<lambda, lambda>>))

MCPrograms == {
    \* calls in arguments, one argument, no argument
    Call("concat", <<Call("concat", <<A, A>>), Call("concat", <<A>>), Call("concat", <<>>)>>),
    \* ints, floats and wrap-around
    Call("-", <<Call("-", <<LispInt(-INT_MAX), LispInt(100)>>), LispFloat(3)>>),
    Call("make-string", <<Call("-", <<Call("-", <<LispInt(-1), LispInt(0)>>)>>), LispInt(321)>>),
    Call("make-string", <<LispInt(INT_MAX), LispInt(66)>>),
    Call("substring", <<Call("make-string", <<LispInt(3), LispInt(66)>>), LispInt(1), LispInt(2)>>),
    \* variables, keywords, dynamic variables
    Call("car", <<Sym("skk-num-list")>>),
    Call("concat", <<Call("symbol-value", <<Quote(Sym("user-full-name"))>>), Sym("comment-start")>>),
    Call("symbol-value", <<Sym(":dd")>>),
    Sym("user-mail-address"),
    Call("concat", <<Call("skk-times", <<>>), Call("current-time-string", <<>>)>>),
    Call("string-to-char", <<Call("concat", <<Call("pwd", <<>>), Call("skk-version", <<>>)>>)>>),
    Call("-", <<Call("window-width", <<>>)>>),
    \* errors: unbound variable behind an error, no function, no symbol, bad quote
    Call("concat", <<A, Call("car", <<A>>), Sym("unbound")>>),
    Call("concat", <<A, Sym("unbound"), Call("car", <<A>>)>>),
    Call("lol", <<>>),
    LispCList(<<A>>),
    LispCList(<<>>),
    Call("quote", <<A, A>>),
    \* lambdas: two forms, an error in the middle, shadowing, nesting, bad ones
    CurrentDate(Lambda(DFGA, <<Call("car", <<Sym("d")>>), Call("concat", <<Call("car", <<Sym("d")>>), A>>)>>)),
    CurrentDate(Lambda(DFGA, <<Call("car", <<Sym("f")>>), Call("concat", <<Sym("g")>>), Call("car", <<Sym("d")>>)>>)),
    Call("concat", <<CurrentDate(Lambda(<<"comment-start", "d", "d", "a">>, <<Call("car", <<Sym("comment-start")>>)>>)),
                     Sym("comment-start")>>),
    CurrentDate(Lambda(DFGA, <<Call("concat", <<
        RelativeDate(Lambda(<<"d", "x", "y", "z">>, <<Sym("g"), Call("car", <<Sym("d")>>)>>),
                     <<Sym(":dd"), LispInt(-1), Sym(":yy"), LispInt(2), Sym(":dd"), LispInt(-3)>>),
        Call("car", <<Sym("d")>>)>>)>>)),
    CurrentDate(Lambda(DFGA, <<>>)),
    CurrentDate(LispCList(<<Sym("lambda"), LispCList(<<Sym("d"), A, Sym("g"), Sym("a")>>), A>>)),
    CurrentDate(Lambda(<<"d">>, <<A>>)),
    CurrentDate(Quote(A)),
    RelativeDate(LispNil, <<Sym(":mm"), LispInt(1)>>),
    RelativeDate(LispNil, <<Sym(":yy"), LispInt(-200)>>),
    RelativeDate(LispNil, <<Sym(":dd")>>),
    Call("skk-current-date", <<>>),
    Nested,
    SelfApplied,
    \* texts that are numbers, and others
    Call("-", <<Call("string-to-number", <<Str("1.5")>>), Call("string-to-number", <<Str("-12x")>>),
                Call("string-to-number", <<Str("..")>>)>>),
    Call("string-to-number", <<Str("99999999999")>>),
    \* units
    Call("skk-gadget-units-conversion", <<Str("inch"), LispInt(3), Str("cm")>>),
    Call("skk-gadget-units-conversion", <<Str("cm"), LispInt(3), Str("inch")>>),
    \* eras: the first year with and without its word, divider and tail, bad ones
    Call("skk-ad-to-gengo", <<LispInt(0)>>),
    Call("skk-ad-to-gengo", <<LispInt(1), Quote(Sym("d")), A, LispInt(1)>>),
    Call("skk-ad-to-gengo", <<LispInt(2)>>),
    Call("skk-gengo-to-ad", <<A, Call("concat", <<A, A>>)>>),
    Call("skk-gengo-to-ad", <<A, Sym("fill-column")>>),
    \* dates: number types, eras, formats, days of the week, blanks before numbers
    DefaultCurrentDate8(Date("2013", "Jan", "29", "Tue"), <<LispNil, LispInt(3), LispInt(1), LispInt(0), Zero, Zero>>),
    DefaultCurrentDate8(Date("\t 2019", "Dec", " 9", "Mon"), <<Str("%%%s-%s"), LispInt(1), LispInt(1), LispInt(2), Zero, Zero>>),
    DefaultCurrentDate8(Date("2020", "Feb", "30", "Mon"), <<Str("%s %s %s %s"), LispInt(0), LispNil, LispInt(9), Zero, LispNil>>),
    DefaultCurrentDate8(Date("2020", "Feb", "30", "Moon"), <<LispNil, LispInt(0), LispNil, Zero, Zero, Zero>>),
    DefaultCurrentDate8(Date("2020", "Feb", "30", "Mon"), <<LispNil, LispInt(0), LispInt(1), Zero, Zero, Zero>>),
    DefaultCurrentDate8(Date("2020", "Feb", "3", "Mon"), <<LispNil, LispInt(0), LispInt(1), LispInt(2), Zero, Zero>>),
    DefaultCurrentDate8(Date("2020", "Feb", "3", "Mon"), <<LispNil, LispInt(2), LispNil, Zero, Zero, Zero>>),
    DefaultCurrentDate8(Date("1868", "Oct", "22", "Thu"), <<LispNil, LispInt(1), LispInt(1), Zero, Zero, Zero>>),
    DefaultCurrentDate8(Date("2020", "Feb", "3", "Mon"), <<Zero, LispInt(1), LispNil, Zero, Zero, Zero>>),
    DefaultCurrentDate8(Date("2020", "February", "3", "Mon"), <<LispNil, LispInt(1), LispNil, Zero, Zero, Zero>>),
    DefaultCurrentDate8(Date("2020", "Feb", "3", "Mon"), <<LispString([i \in 1 .. TMP_BUFFSIZE |-> 32]), LispInt(1), LispNil, Zero, Zero, Zero>>) }

\* skk-default-current-date with every number of arguments up to eight.
UndefinedPrograms ==
    LET args == <<Date("2020", "Feb", "3", "Mon"), LispNil, LispInt(1), LispNil, Zero, Zero, Zero, LispNil>>
    IN  {Call("skk-default-current-date", SubSeq(args, 1, n)) : n \in 0 .. 8}

\* Expressions and what stands in them, so many levels deep.
PartsOf(programs) ==
    LET parts[n \in Nat] ==
            IF n = 0 THEN programs
            ELSE With(parts[n - 1], LAMBDA s : s \cup UNION {ToSet(x.items) : x \in {y \in s : y.type = "list"}})
    IN  parts[12]

MCObjects == PartsOf(MCPrograms \cup UndefinedPrograms)

\* What one pool can run out of while the others have plenty.  No string pool
\* holds the INT_MAX + 1 bytes that make-string may want.
Plenty == [lispobject |-> 64, string |-> 300, float |-> 4, narray |-> 32, symbol |-> 8]
Scarce == [lispobject |-> 0 .. 40, string |-> (0 .. 30) \cup {3 * n : n \in 10 .. 43},
           float |-> {0}, narray |-> 0 .. 18, symbol |-> 0 .. 2]
MCBudgets == {Plenty} \cup
             UNION {{[Plenty EXCEPT ![p] = n] : n \in Scarce[p]} : p \in MemPools}

MCSourceSymbols == {":yy"}
MCKeywords == {":yy", ":mm", ":dd"}

MCSkkNumList == <<Chars("2019"), Chars("27")>>
MCSkkHenkanKey == GengoList[5].kana \o Chars("31")
MCStrToD == [str \in {Chars("1.5")} |-> 3]
MCPercentG(val, i) == Decimal(val)
MCText == <<84>>

\* TLC's coverage statistics would follow the recursion through the constant
\* for ever, but do not look into a LET.
MCMeaning(x, env) == LET meaning == MeaningByParts(x, env) IN meaning

\* The date carries no month and no day over.
MCDateTime(yy, mm, dd) ==
    <<Decimal(2023 + yy), Months[((11 + mm) % 12) + 1], Decimal(31 + dd), Chars("Sun"),
      Chars("12"), Chars("34"), Chars("56")>>
=============================================================================
