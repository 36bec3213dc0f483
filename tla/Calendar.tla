------------------------------ MODULE Calendar ------------------------------
(***************************************************************************)
(* ad_to_gengo_1 asked day by day, as a program that runs the whole time   *)
(* would call it, and gengo_to_ad_1 asked for the way back.                *)
(***************************************************************************)
EXTENDS Eras

CONSTANT LastYear    \* the last year a date is asked for

\* The first year is in reach, and DateNumber of the last year is an int.
ASSUME YearAssumption == LastYear \in Nat /\ LastYear >= 1868 /\ 10000 * LastYear + 1332 <= INT_MAX

VARIABLES today, shown
vars == <<today, shown>>

Date(y, m, d) == [y |-> y, m |-> m, d |-> d]

Leap(y) == y % 4 = 0 /\ (y % 100 # 0 \/ y % 400 = 0)

LastDay(date) == IF date.m = 2 /\ ~ Leap(date.y) THEN 28 ELSE DaysInAMonth[date.m]

Tomorrow(date) ==
    IF date.d < LastDay(date) THEN [date EXCEPT !.d = @ + 1]
    ELSE IF date.m < 12 THEN Date(date.y, date.m + 1, 1)
    ELSE Date(date.y + 1, 1, 1)

\* One list of three items.
Room == Memory([p \in MemPools |-> 3], {})

\* What ad_to_gengo_1 returns; an unspecified part of the date is 0.
Asked(y, m, d) == AdToGengo(Room, y, TRUE, m, d).val

Init ==
    /\ today = Date(1868, 10, 20)
    /\ shown = Asked(1868, 10, 20)

NextDay ==
    /\ today.y <= LastYear
    /\ today' = Tomorrow(today)
    /\ today'.y <= LastYear
    /\ shown' = Asked(today'.y, today'.m, today'.d)

Spec == Init /\ [][NextDay]_vars
-----------------------------------------------------------------------------
Before(date, e) ==
    \/ date.y < GengoList[e].start_y
    \/ date.y = GengoList[e].start_y /\ date.m < GengoList[e].start_m
    \/ date.y = GengoList[e].start_y /\ date.m = GengoList[e].start_m /\ date.d < GengoList[e].start_d

\* The eras that have begun by a date.
Begun(date) == {e \in EraNumbers : ~ Before(date, e)}

\* Every day from the first day of the first era on has an era, the one that
\* began last, from its first to its last day; no day before it has one.
DayHasItsEra ==
    IF Begun(today) = {} THEN shown = EvaluationError
    ELSE \E e \in Begun(today) :
            /\ \A f \in Begun(today) : f <= e
            /\ shown.type = "list"
            /\ shown.items[1] = LispString(GengoList[e].gengo)
            /\ shown.items[2] = LispString(GengoList[e].initial)

\* gengo_to_ad_1 leads back from the era and its year to the year of the date,
\* whether the era is given in kanji or kana.
RoundTrip ==
    shown # EvaluationError =>
        \E e \in EraNumbers :
            /\ shown.items[1].chars = GengoList[e].gengo
            /\ \A name \in {GengoList[e].gengo, GengoList[e].kana} :
                   GengoToAd1(name, shown.items[3].int) = today.y

\* Without a day the era is the one the month ends in, without a month the one
\* the year ends in.
UnspecifiedIsTheEnd ==
    /\ today.d = LastDay(today) => Asked(today.y, today.m, 0) = shown
    /\ (today.m = 12 /\ today.d = 31) => Asked(today.y, 0, 0) = shown

\* The era a list names.
EraNamed(list) == CHOOSE e \in EraNumbers : GengoList[e].gengo = list[1].chars

EraGoesOn ==
    LET old == shown.items
        new == shown'.items
    IN  IF shown = EvaluationError
        THEN shown' = EvaluationError \/ (EraNamed(new) = 1 /\ new[3] = LispInt(1))
        ELSE IF EraNamed(new) = EraNamed(old)
        THEN new[3].int - old[3].int = today'.y - today.y
        ELSE EraNamed(new) = EraNamed(old) + 1 /\ new[3] = LispInt(1)

\* An era counts its years from one and goes on to the next number at New Year
\* until the next era begins with a year one; it never comes back.
ErasSucceed == [][EraGoesOn]_vars
=============================================================================
