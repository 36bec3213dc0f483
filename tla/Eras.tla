-------------------------------- MODULE Eras --------------------------------
(***************************************************************************)
(* Japanese eras (func-skk-gadgets.c): from a date to the year of an era   *)
(* and back.                                                               *)
(***************************************************************************)
EXTENDS LispData

\* A word of n Japanese letters; words that start apart have no letter in common.
Word(first, n) == [i \in 1 .. 3 * n |-> IF i % 3 = 1 THEN -(first + i \div 3) ELSE -128]

Gannen == Word(30, 1)

Gengo(gengo, kana, initial, y, m, d) ==
    [gengo |-> gengo, kana |-> kana, initial |-> initial, start_y |-> y, start_m |-> m, start_d |-> d]

GengoList == <<
    Gengo(Word(41, 2), Word(51, 3), Chars("M"), 1868, 10, 23),
    Gengo(Word(43, 2), Word(61, 5), Chars("T"), 1912, 7, 30),
    Gengo(Word(45, 2), Word(71, 4), Chars("S"), 1926, 12, 25),
    Gengo(Word(47, 2), Word(81, 4), Chars("H"), 1989, 1, 8),
    Gengo(Word(49, 2), Word(91, 3), Chars("R"), 2019, 5, 1) >>

EraNumbers == 1 .. 5
-----------------------------------------------------------------------------
(* gengo_to_ad_1 *)

Named(e, name) == name \in {GengoList[e].gengo, GengoList[e].kana}

\* Mutant: counts an era's years from zero.
GengoToAdFromZero(name, year) ==
    IF \E e \in EraNumbers : Named(e, name)
    THEN ToInt(year + GengoList[CHOOSE e \in EraNumbers : Named(e, name)].start_y)
    ELSE -1

\* -1 for an unknown name, and for a year that happens to give it.
GengoToAd1(name, year) ==
    IF \E e \in EraNumbers : Named(e, name)
    THEN ToInt(year + GengoList[CHOOSE e \in EraNumbers : Named(e, name)].start_y - 1)
    ELSE -1
-----------------------------------------------------------------------------
(* ad_to_gengo_1.  A month or day of 0 is unspecified.                       *)

DaysInAMonth == <<31, 29, 31, 30, 31, 30, 31, 31, 30, 31, 30, 31>>

\* Mutant: an unspecified part comes before all others.
DateNumberUnspecifiedFirst(y, m, d) == ToInt(10000 * y + 100 * m + d)

\* Mutant: a month weighs as much as ten days.
DateNumberTooDense(y, m, d) ==
    ToInt(10000 * y + 10 * (IF m = 0 THEN 13 ELSE m) + (IF d = 0 THEN 32 ELSE d))

DateNumber(y, m, d) ==
    ToInt(10000 * y + 100 * (IF m = 0 THEN 13 ELSE m) + (IF d = 0 THEN 32 ELSE d))

StartsAfter(e, number) ==
    number < 10000 * GengoList[e].start_y + 100 * GengoList[e].start_m + GengoList[e].start_d

\* The era before the first one that starts after the date; 0 if there is none.
EraOf(y, m, d) ==
    CHOOSE e \in 0 .. 5 :
        /\ \A f \in 1 .. e : ~ StartsAfter(f, DateNumber(y, m, d))
        /\ e < 5 => StartsAfter(e + 1, DateNumber(y, m, d))

\* Mutant: counts an era's years from zero.
NengoFromZero(e, ad) == ToInt(ad - GengoList[e].start_y)

Nengo(e, ad) == ToInt(ad - GengoList[e].start_y + 1)

MonthAndDayOK(month, day) ==
    month <= 12 /\ (month > 0 /\ day > 0 => day <= DaysInAMonth[month])

AdToGengo(mem, ad, not_gannen, month, day) ==
    LET e == EraOf(ad, month, day)
        nengo == Nengo(e, ad)
    IN  IF ~ MonthAndDayOK(month, day) \/ e = 0 THEN Result(EvaluationError, mem)
        ELSE NewList(mem, <<LispString(GengoList[e].gengo), LispString(GengoList[e].initial),
                            IF ~ not_gannen /\ nengo = 1 THEN LispString(Gannen) ELSE LispInt(nengo)>>,
                     MemoryError)
=============================================================================
