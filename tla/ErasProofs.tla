----------------------------- MODULE ErasProofs -----------------------------
(***************************************************************************)
(* What Calendar says of ad_to_gengo_1 and gengo_to_ad_1, proved for every *)
(* last year an int can number.  The numbers of dates are ordered as the   *)
(* dates are (BeforeIsLess), so the search finds the last era begun        *)
(* (EraOfDate); the rest is counting.                                      *)
(***************************************************************************)
EXTENDS Calendar, TLAPS

\* The first days of the eras.
LEMMA Starts ==
    /\ GengoList[1].start_y = 1868 /\ GengoList[1].start_m = 10 /\ GengoList[1].start_d = 23
    /\ GengoList[2].start_y = 1912 /\ GengoList[2].start_m = 7 /\ GengoList[2].start_d = 30
    /\ GengoList[3].start_y = 1926 /\ GengoList[3].start_m = 12 /\ GengoList[3].start_d = 25
    /\ GengoList[4].start_y = 1989 /\ GengoList[4].start_m = 1 /\ GengoList[4].start_d = 8
    /\ GengoList[5].start_y = 2019 /\ GengoList[5].start_m = 5 /\ GengoList[5].start_d = 1
  BY DEF GengoList, Gengo

\* No two eras begin in one year.
LEMMA StartsDiffer ==
    \A e, f \in EraNumbers : GengoList[e].start_y = GengoList[f].start_y => e = f
  BY Starts DEF EraNumbers

\* What fits an int is kept by the arithmetic of an int.
LEMMA ToIntSmall == \A n \in 0 .. INT_MAX : ToInt(n) = n
  BY IntAssumption DEF ToInt

\* The letter a word starts with.
LEMMA FirstLetter ==
    ASSUME NEW first \in Int, NEW n \in Nat \ {0}
    PROVE  Word(first, n)[1] = -first
  BY DEF Word

\* A month has 28 to 31 days.
LEMMA MonthLengths ==
    \A m \in 1 .. 12 : DaysInAMonth[m] \in 28 .. 31
  BY DEF DaysInAMonth

\* A date of the calendar from the year of the first era on.
IsDate(date) ==
    /\ date = Date(date.y, date.m, date.d)
    /\ date.y \in 1868 .. LastYear
    /\ date.m \in 1 .. 12
    /\ date.d \in 1 .. DaysInAMonth[date.m]

\* The ranges of the parts of a date.
LEMMA DatesParts ==
    ASSUME NEW date, IsDate(date)
    PROVE  date.y \in 1868 .. LastYear /\ date.m \in 1 .. 12 /\ date.d \in 1 .. 31
  BY MonthLengths DEF IsDate

\* The number ad_to_gengo_1 makes of a date does not overflow.
LEMMA DateNumberOfDate ==
    ASSUME NEW date, IsDate(date)
    PROVE  DateNumber(date.y, date.m, date.d) = 10000 * date.y + 100 * date.m + date.d
<1>1. PICK y \in 1868 .. LastYear, m \in 1 .. 12, d \in 1 .. 31 :
          y = date.y /\ m = date.m /\ d = date.d
  BY DatesParts
<1>2. PICK n \in Nat : n = 10000 * y + 100 * m + d
  BY YearAssumption
<1>3. n \in 0 .. INT_MAX
  BY <1>2, YearAssumption, IntAssumption
<1>4. DateNumber(y, m, d) = ToInt(n)
  BY <1>2 DEF DateNumber
<1>. QED
  BY <1>1, <1>2, <1>3, <1>4, ToIntSmall

\* The numbers of dates are in the order of the dates: a part never outweighs
\* the one before it.
LEMMA BeforeIsLess ==
    ASSUME NEW date, IsDate(date), NEW e \in EraNumbers
    PROVE  Before(date, e) <=> StartsAfter(e, DateNumber(date.y, date.m, date.d))
<1>1. PICK y \in Nat, m \in 1 .. 12, d \in 1 .. 31 : y = date.y /\ m = date.m /\ d = date.d
  BY DatesParts, YearAssumption
<1>2. DateNumber(date.y, date.m, date.d) = 10000 * y + 100 * m + d
  BY <1>1, DateNumberOfDate
<1>3. PICK Y \in Nat, M \in 1 .. 12, D \in 1 .. 31 :
          Y = GengoList[e].start_y /\ M = GengoList[e].start_m /\ D = GengoList[e].start_d
  BY Starts DEF EraNumbers
<1>4. 10000 * y + 100 * m + d < 10000 * Y + 100 * M + D
          <=> (y < Y \/ (y = Y /\ m < M) \/ (y = Y /\ m = M /\ d < D))
  OBVIOUS
<1>. QED
  BY <1>1, <1>2, <1>3, <1>4 DEF Before, StartsAfter

\* The list of eras is in the order of their first days.
LEMMA LaterEras ==
    \A number \in Int : \A e \in 1 .. 4 : StartsAfter(e, number) => StartsAfter(e + 1, number)
  BY Starts DEF StartsAfter

\* The search of ad_to_gengo_1 finds one era for every number: the last one that
\* does not start after it, or 0.
LEMMA EraOfNumber ==
    ASSUME NEW y, NEW m, NEW d, DateNumber(y, m, d) \in Int
    PROVE  /\ EraOf(y, m, d) \in 0 .. 5
           /\ \A f \in EraNumbers : f <= EraOf(y, m, d) <=> ~ StartsAfter(f, DateNumber(y, m, d))
<1>. PICK number \in Int : number = DateNumber(y, m, d)
  OBVIOUS
<1>. DEFINE Fits(e) == /\ \A f \in 1 .. e : ~ StartsAfter(f, number)
                       /\ e < 5 => StartsAfter(e + 1, number)
<1>1. \E e \in 0 .. 5 : Fits(e)
  <2>1. CASE StartsAfter(1, number)
    BY <2>1
  <2>2. CASE ~ StartsAfter(1, number) /\ StartsAfter(2, number)
    BY <2>2
  <2>3. CASE ~ StartsAfter(1, number) /\ ~ StartsAfter(2, number) /\ StartsAfter(3, number)
    BY <2>3
  <2>4. CASE ~ StartsAfter(1, number) /\ ~ StartsAfter(2, number) /\ ~ StartsAfter(3, number)
             /\ StartsAfter(4, number)
    BY <2>4
  <2>5. CASE ~ StartsAfter(1, number) /\ ~ StartsAfter(2, number) /\ ~ StartsAfter(3, number)
             /\ ~ StartsAfter(4, number) /\ StartsAfter(5, number)
    BY <2>5
  <2>6. CASE ~ StartsAfter(1, number) /\ ~ StartsAfter(2, number) /\ ~ StartsAfter(3, number)
             /\ ~ StartsAfter(4, number) /\ ~ StartsAfter(5, number)
    BY <2>6
  <2>. QED
    BY <2>1, <2>2, <2>3, <2>4, <2>5, <2>6
<1>2. EraOf(y, m, d) \in 0 .. 5 /\ Fits(EraOf(y, m, d))
  BY <1>1 DEF EraOf
<1>3. PICK e \in 0 .. 5 : e = EraOf(y, m, d) /\ Fits(e)
  BY <1>2
<1>4. ASSUME NEW f \in EraNumbers, f > e PROVE StartsAfter(f, number)
  <2>1. e \in 0 .. 4 /\ StartsAfter(e + 1, number)
    BY <1>3, <1>4 DEF EraNumbers
  <2>2. f \in {2, 3, 4, 5} \/ f = 1
    BY DEF EraNumbers
  <2>. QED
    BY <1>4, <2>1, <2>2, LaterEras
<1>. QED
  BY <1>3, <1>4 DEF EraNumbers

\* For a date it is the last era that has begun.
LEMMA EraOfDate ==
    ASSUME NEW date, IsDate(date)
    PROVE  /\ EraOf(date.y, date.m, date.d) \in 0 .. 5
           /\ \A f \in EraNumbers : f <= EraOf(date.y, date.m, date.d) <=> ~ Before(date, f)
<1>1. DateNumber(date.y, date.m, date.d) \in Int
  BY DateNumberOfDate, DatesParts, YearAssumption
<1>. QED
  BY <1>1, EraOfNumber, BeforeIsLess

\* What ad_to_gengo_1 answers for the year y in the era e.
Answer(e, y) ==
    IF e = 0 THEN EvaluationError
    ELSE LispCList(<<LispString(GengoList[e].gengo), LispString(GengoList[e].initial), LispInt(Nengo(e, y))>>)

\* The list needs three of the three objects there are: no memory error.
LEMMA AskedAnswers ==
    ASSUME NEW y, NEW m, NEW d, MonthAndDayOK(m, d)
    PROVE  Asked(y, m, d) = Answer(EraOf(y, m, d), y)
<1>1. PICK xs, e : /\ e = EraOf(y, m, d)
                   /\ xs = <<LispString(GengoList[e].gengo), LispString(GengoList[e].initial),
                             LispInt(Nengo(e, y))>>
  OBVIOUS
<1>2. Len(xs) = 3
  BY <1>1
<1>3. NewList(Room, xs, MemoryError).val = LispCList(xs)
  BY <1>2 DEF NewList, Room, Memory, HasFree, Spend, MemPools, Result
<1>. QED
  BY <1>1, <1>3 DEF Asked, AdToGengo, Answer, Result

\* The year of an era does not overflow.
LEMMA NengoCounts ==
    ASSUME NEW e \in EraNumbers, NEW y \in 1868 .. LastYear, GengoList[e].start_y <= y
    PROVE  Nengo(e, y) = y - GengoList[e].start_y + 1
<1>1. PICK Y \in 1868 .. 2019 : Y = GengoList[e].start_y
  BY Starts DEF EraNumbers
<1>2. y - Y + 1 \in 0 .. INT_MAX
  BY <1>1, YearAssumption, IntAssumption
<1>. QED
  BY <1>1, <1>2, ToIntSmall DEF Nengo

\* The ten names of the eras differ.
LEMMA NamesDiffer ==
    \A e, f \in EraNumbers :
        /\ GengoList[e].gengo = GengoList[f].gengo => e = f
        /\ GengoList[e].kana = GengoList[f].kana => e = f
        /\ GengoList[e].gengo # GengoList[f].kana
<1>. DEFINE first(w) == w[1]
<1>1. /\ GengoList[1].gengo[1] = -41 /\ GengoList[1].kana[1] = -51
      /\ GengoList[2].gengo[1] = -43 /\ GengoList[2].kana[1] = -61
      /\ GengoList[3].gengo[1] = -45 /\ GengoList[3].kana[1] = -71
      /\ GengoList[4].gengo[1] = -47 /\ GengoList[4].kana[1] = -81
      /\ GengoList[5].gengo[1] = -49 /\ GengoList[5].kana[1] = -91
  <2>1. Word(41, 2)[1] = -41
    BY FirstLetter
  <2>2. Word(51, 3)[1] = -51
    BY FirstLetter
  <2>3. Word(43, 2)[1] = -43
    BY FirstLetter
  <2>4. Word(61, 5)[1] = -61
    BY FirstLetter
  <2>5. Word(45, 2)[1] = -45
    BY FirstLetter
  <2>6. Word(71, 4)[1] = -71
    BY FirstLetter
  <2>7. Word(47, 2)[1] = -47
    BY FirstLetter
  <2>8. Word(81, 4)[1] = -81
    BY FirstLetter
  <2>9. Word(49, 2)[1] = -49
    BY FirstLetter
  <2>10. Word(91, 3)[1] = -91
    BY FirstLetter
  <2>. QED
    BY <2>1, <2>2, <2>3, <2>4, <2>5, <2>6, <2>7, <2>8, <2>9, <2>10 DEF GengoList, Gengo
<1>2. \A e \in EraNumbers : GengoList[e].gengo[1] = -39 - 2 * e /\ GengoList[e].kana[1] = -41 - 10 * e
  BY <1>1 DEF EraNumbers
<1>. QED
  BY <1>2 DEF EraNumbers

\* The inductive invariant.
DInv == IsDate(today) /\ shown = Asked(today.y, today.m, today.d)

\* After a date comes a date.
LEMMA TomorrowIsADate ==
    ASSUME NEW date, IsDate(date), Tomorrow(date).y <= LastYear
    PROVE  IsDate(Tomorrow(date))
<1>1. PICK y \in 1868 .. LastYear, m \in 1 .. 12, d \in 1 .. 31 : date = Date(y, m, d)
  BY DatesParts DEF IsDate
<1>2. DaysInAMonth[m] \in 28 .. 31 /\ DaysInAMonth[1] = 31
  BY MonthLengths DEF DaysInAMonth
<1>3. LastDay(date) \in 28 .. DaysInAMonth[m]
  BY <1>1, <1>2 DEF LastDay, Date, DaysInAMonth
<1>4. CASE d < LastDay(date)
  <2>1. Tomorrow(date) = Date(y, m, d + 1)
    BY <1>1, <1>4 DEF Tomorrow, Date
  <2>2. d + 1 \in 1 .. DaysInAMonth[m]
    BY <1>2, <1>3, <1>4
  <2>. QED
    BY <2>1, <2>2 DEF IsDate, Date
<1>5. CASE ~ (d < LastDay(date)) /\ m < 12
  <2>1. Tomorrow(date) = Date(y, m + 1, 1)
    BY <1>1, <1>5 DEF Tomorrow, Date
  <2>2. m + 1 \in 1 .. 12 /\ 1 \in 1 .. DaysInAMonth[m + 1]
    BY <1>5, MonthLengths
  <2>. QED
    BY <2>1, <2>2 DEF IsDate, Date
<1>6. CASE ~ (d < LastDay(date)) /\ ~ (m < 12)
  <2>1. Tomorrow(date) = Date(y + 1, 1, 1)
    BY <1>1, <1>6 DEF Tomorrow, Date
  <2>2. y + 1 \in 1868 .. LastYear /\ 1 \in 1 .. DaysInAMonth[1]
    BY <1>2, <2>1, YearAssumption DEF Date
  <2>. QED
    BY <2>1, <2>2 DEF IsDate, Date
<1>. QED
  BY <1>4, <1>5, <1>6

\* The inductive invariant: the program asks for the dates of the calendar, one
\* after the other, and shows what ad_to_gengo_1 answers (Calendar.NextDay).
THEOREM DatesStayDates == Spec => []DInv
<1>1. Init => DInv
  <2>1. IsDate(Date(1868, 10, 20))
    BY YearAssumption DEF IsDate, Date, DaysInAMonth
  <2>. QED
    BY <2>1 DEF Init, DInv, Date
<1>2. DInv /\ [NextDay]_vars => DInv'
  BY TomorrowIsADate DEF DInv, NextDay, vars
<1>. QED
  BY <1>1, <1>2, PTL DEF Spec

\* The answer for a date, and the eras begun by it.
LEMMA AskedOfDate ==
    ASSUME NEW date, IsDate(date)
    PROVE  \E e \in 0 .. 5 : /\ Asked(date.y, date.m, date.d) = Answer(e, date.y)
                            /\ Begun(date) = {f \in EraNumbers : f <= e}
<1>1. MonthAndDayOK(date.m, date.d)
  BY DatesParts DEF IsDate, MonthAndDayOK
<1>. QED
  BY <1>1, AskedAnswers, EraOfDate DEF Begun

\* ad_to_gengo_1 gives every day of every year up to LastYear the era that began
\* last, and fails for the days before the first era.
THEOREM EveryDayHasItsEra == Spec => []DayHasItsEra
<1>1. DInv => DayHasItsEra
  <2>. SUFFICES ASSUME DInv PROVE DayHasItsEra
    OBVIOUS
  <2>1. PICK e \in 0 .. 5 : /\ shown = Answer(e, today.y)
                            /\ Begun(today) = {f \in EraNumbers : f <= e}
    BY AskedOfDate DEF DInv
  <2>2. CASE e = 0
    BY <2>1, <2>2 DEF DayHasItsEra, Answer, EraNumbers
  <2>3. CASE e # 0
    <3>1. e \in Begun(today) /\ \A f \in Begun(today) : f <= e
      BY <2>1, <2>3 DEF EraNumbers
    <3>2. /\ shown.type = "list" /\ shown.items[1] = LispString(GengoList[e].gengo)
          /\ shown.items[2] = LispString(GengoList[e].initial)
      BY <2>1, <2>3 DEF Answer, LispCList
    <3>. QED
      BY <3>1, <3>2 DEF DayHasItsEra
  <2>. QED
    BY <2>2, <2>3
<1>. QED
  BY <1>1, DatesStayDates, PTL

\* An era that has begun did so this year or before.
LEMMA EraHasStarted ==
    ASSUME NEW date, IsDate(date), NEW e \in Begun(date)
    PROVE  e \in EraNumbers /\ GengoList[e].start_y <= date.y
<1>1. PICK y \in Nat, Y \in Nat : y = date.y /\ Y = GengoList[e].start_y
  BY DatesParts, Starts, YearAssumption DEF Begun, EraNumbers
<1>. QED
  BY <1>1 DEF Begun, Before

\* gengo_to_ad_1 undoes Nengo, from both names of an era.
LEMMA GengoToAdCounts ==
    ASSUME NEW era \in EraNumbers, NEW name \in {GengoList[era].gengo, GengoList[era].kana},
           NEW y \in 1868 .. LastYear, NEW n \in Int, n = y - GengoList[era].start_y + 1
    PROVE  GengoToAd1(name, n) = y
<1>1. \A e \in EraNumbers : Named(e, name) <=> e = era
  BY NamesDiffer DEF Named
<1>. DEFINE C == CHOOSE e \in EraNumbers : Named(e, name)
            K == \E e \in EraNumbers : Named(e, name)
<1>2. C = era /\ K
  BY <1>1
<1>3. PICK Y \in Nat : Y = GengoList[era].start_y
  BY Starts DEF EraNumbers
<1>4. PICK k \in 0 .. INT_MAX : k = y /\ n + Y - 1 = k
  BY <1>3, YearAssumption, IntAssumption
<1>5. GengoToAd1(name, n) = IF K THEN ToInt(n + GengoList[C].start_y - 1) ELSE -1
  BY Z3 DEF GengoToAd1
<1>. HIDE DEF C, K
<1>6. GengoToAd1(name, n) = ToInt(n + Y - 1)
  BY <1>2, <1>3, <1>5
<1>. QED
  BY <1>4, <1>6, ToIntSmall

\* What ad_to_gengo_1 answers leads gengo_to_ad_1 back to the year asked for.
THEOREM EveryDateRoundTrips == Spec => []RoundTrip
<1>1. DInv => RoundTrip
  <2>. SUFFICES ASSUME DInv, shown # EvaluationError PROVE RoundTrip
    BY DEF RoundTrip
  <2>1. PICK e \in 0 .. 5 : /\ shown = Answer(e, today.y)
                            /\ Begun(today) = {f \in EraNumbers : f <= e}
    BY AskedOfDate DEF DInv
  <2>2. e \in Begun(today) /\ e # 0
    BY <2>1 DEF EraNumbers, Answer
  <2>3. e \in EraNumbers /\ GengoList[e].start_y <= today.y
    BY <2>2, EraHasStarted DEF DInv
  <2>4. shown.items[1].chars = GengoList[e].gengo /\ shown.items[3].int = Nengo(e, today.y)
    BY <2>1, <2>2 DEF Answer, LispCList, LispString, LispInt
  <2>5. today.y \in 1868 .. LastYear
    BY DatesParts DEF DInv
  <2>6. PICK n \in Int : n = Nengo(e, today.y) /\ n = today.y - GengoList[e].start_y + 1
    <3>1. PICK Y \in Nat : Y = GengoList[e].start_y
      BY <2>3, Starts DEF EraNumbers
    <3>. QED
      BY <3>1, <2>3, <2>5, NengoCounts
  <2>7. \A name \in {GengoList[e].gengo, GengoList[e].kana} : GengoToAd1(name, n) = today.y
    BY <2>3, <2>5, <2>6, GengoToAdCounts
  <2>. QED
    BY <2>3, <2>4, <2>6, <2>7 DEF RoundTrip
<1>. QED
  BY <1>1, DatesStayDates, PTL

\* Two numbers that no first day separates have one era.
LEMMA SameEra ==
    ASSUME NEW y, NEW m, NEW d, NEW mm, NEW dd, NEW n \in Int, NEW k \in Int,
           DateNumber(y, m, d) = n, DateNumber(y, mm, dd) = k,
           \A e \in EraNumbers : StartsAfter(e, n) <=> StartsAfter(e, k)
    PROVE  EraOf(y, mm, dd) = EraOf(y, m, d)
<1>1. PICK a \in 0 .. 5 : a = EraOf(y, m, d) /\ \A f \in EraNumbers : f <= a <=> ~ StartsAfter(f, n)
  BY EraOfNumber
<1>2. PICK b \in 0 .. 5 : b = EraOf(y, mm, dd) /\ \A f \in EraNumbers : f <= b <=> ~ StartsAfter(f, k)
  BY EraOfNumber
<1>3. \A f \in EraNumbers : f <= a <=> f <= b
  BY <1>1, <1>2
<1>4. a = b
  BY <1>3 DEF EraNumbers
<1>. QED
  BY <1>1, <1>2, <1>4

\* Day 32 is of the era of the last day of its month: no era begins after the
\* 28th but in a month of 31 days.
LEMMA EndOfMonth ==
    ASSUME NEW date, IsDate(date), date.d = LastDay(date)
    PROVE  Asked(date.y, date.m, 0) = Asked(date.y, date.m, date.d)
<1>1. PICK y \in 1868 .. LastYear, m \in 1 .. 12, d \in 28 .. 31 : date = Date(y, m, d)
  BY DatesParts, MonthLengths DEF IsDate, LastDay, Date
<1>2. PICK n \in 0 .. INT_MAX : n = 10000 * y + 100 * m + d
  BY YearAssumption, IntAssumption
<1>3. PICK k \in 0 .. INT_MAX : k = 10000 * y + 100 * m + 32
  BY YearAssumption, IntAssumption
<1>4. DateNumber(y, m, d) = ToInt(n) /\ DateNumber(y, m, 0) = ToInt(k)
  BY <1>2, <1>3 DEF DateNumber
<1>5. DateNumber(y, m, d) = n /\ DateNumber(y, m, 0) = k
  BY <1>4, ToIntSmall
<1>6. \A e \in EraNumbers : StartsAfter(e, n) <=> StartsAfter(e, k)
  <2>1. d = LastDay(date) /\ (m = 7 => d = 31) /\ (m = 10 => d = 31) /\ (m = 12 => d = 31)
    BY <1>1 DEF LastDay, Date, DaysInAMonth
  <2>. SUFFICES ASSUME NEW e \in EraNumbers PROVE StartsAfter(e, n) <=> StartsAfter(e, k)
    OBVIOUS
  <2>2. PICK Y \in Nat, M \in 1 .. 12, D \in 1 .. 31 :
            Y = GengoList[e].start_y /\ M = GengoList[e].start_m /\ D = GengoList[e].start_d
    BY Starts DEF EraNumbers
  <2>3. D <= 28 \/ M \in {7, 12}
    BY <2>2, Starts DEF EraNumbers
  <2>4. (n < 10000 * Y + 100 * M + D) <=> (k < 10000 * Y + 100 * M + D)
    BY <1>2, <1>3, <2>1, <2>3
  <2>. QED
    BY <2>2, <2>4 DEF StartsAfter
<1>7. EraOf(y, m, 0) = EraOf(y, m, d)
  BY <1>5, <1>6, SameEra
<1>8. MonthAndDayOK(m, d) /\ MonthAndDayOK(m, 0)
  BY <1>1 DEF MonthAndDayOK, IsDate, Date
<1>. QED
  BY <1>1, <1>7, <1>8, AskedAnswers DEF Date

\* Day 32 of month 13 is of the era of New Year's Eve.
LEMMA EndOfYear ==
    ASSUME NEW date, IsDate(date), date.m = 12, date.d = 31
    PROVE  Asked(date.y, 0, 0) = Asked(date.y, date.m, date.d)
<1>1. PICK y \in 1868 .. LastYear : y = date.y
  BY DatesParts
<1>2. PICK n \in 0 .. INT_MAX : n = 10000 * y + 1231
  BY YearAssumption, IntAssumption
<1>3. PICK k \in 0 .. INT_MAX : k = 10000 * y + 1332
  BY YearAssumption, IntAssumption
<1>4. DateNumber(y, 12, 31) = ToInt(n) /\ DateNumber(y, 0, 0) = ToInt(k)
  BY <1>2, <1>3 DEF DateNumber
<1>5. DateNumber(y, 12, 31) = n /\ DateNumber(y, 0, 0) = k
  BY <1>4, ToIntSmall
<1>6. \A e \in EraNumbers : StartsAfter(e, n) <=> StartsAfter(e, k)
  <2>. SUFFICES ASSUME NEW e \in EraNumbers PROVE StartsAfter(e, n) <=> StartsAfter(e, k)
    OBVIOUS
  <2>1. PICK Y \in Nat, M \in 1 .. 12, D \in 1 .. 31 :
            Y = GengoList[e].start_y /\ M = GengoList[e].start_m /\ D = GengoList[e].start_d
    BY Starts DEF EraNumbers
  <2>2. (n < 10000 * Y + 100 * M + D) <=> (k < 10000 * Y + 100 * M + D)
    BY <1>2, <1>3
  <2>. QED
    BY <2>1, <2>2 DEF StartsAfter
<1>7. EraOf(y, 0, 0) = EraOf(y, 12, 31)
  BY <1>5, <1>6, SameEra
<1>8. MonthAndDayOK(12, 31) /\ MonthAndDayOK(0, 0)
  BY DEF MonthAndDayOK, DaysInAMonth
<1>. QED
  BY <1>1, <1>7, <1>8, AskedAnswers

\* ad_to_gengo_1 answers a month without a day, and a year without a month, with
\* the era of its last day.
THEOREM UnspecifiedPartsAreTheEnd == Spec => []UnspecifiedIsTheEnd
<1>1. DInv => UnspecifiedIsTheEnd
  BY EndOfMonth, EndOfYear DEF DInv, UnspecifiedIsTheEnd
<1>. QED
  BY <1>1, DatesStayDates, PTL

\* An era that begins between two days begins on the second one.
LEMMA NextDayStartsEra ==
    ASSUME NEW date, IsDate(date), NEW e \in EraNumbers
    PROVE  /\ ~ Before(date, e) => ~ Before(Tomorrow(date), e)
           /\ Before(date, e) /\ ~ Before(Tomorrow(date), e) =>
                 /\ Tomorrow(date).y = GengoList[e].start_y
                 /\ Tomorrow(date).m = GengoList[e].start_m
                 /\ Tomorrow(date).d = GengoList[e].start_d
<1>1. PICK y \in Nat, m \in 1 .. 12, d \in 1 .. 31 : date = Date(y, m, d)
  BY DatesParts, YearAssumption DEF IsDate
<1>2. PICK Y \in Nat, M \in 1 .. 12, D \in 1 .. 31 :
          Y = GengoList[e].start_y /\ M = GengoList[e].start_m /\ D = GengoList[e].start_d
  BY Starts DEF EraNumbers
<1>3. D <= 28 \/ M \in {7, 12}
  BY <1>2, Starts DEF EraNumbers
<1>4. PICK last \in 28 .. 31 : last = LastDay(date) /\ (m \in {7, 12} => last = 31)
  BY <1>1, MonthLengths DEF LastDay, Date, DaysInAMonth
<1>5. \A a, b, c : Before(Date(a, b, c), e) <=> a < Y \/ (a = Y /\ b < M) \/ (a = Y /\ b = M /\ c < D)
  BY <1>2 DEF Before, Date
<1>6. CASE d < last
  <2>1. Tomorrow(date) = Date(y, m, d + 1)
    BY <1>1, <1>4, <1>6 DEF Tomorrow, Date
  <2>. QED
    BY <1>1, <1>2, <1>5, <2>1 DEF Date
<1>7. CASE ~ (d < last) /\ m < 12
  <2>1. Tomorrow(date) = Date(y, m + 1, 1)
    BY <1>1, <1>4, <1>7 DEF Tomorrow, Date
  <2>. QED
    BY <1>1, <1>2, <1>3, <1>4, <1>5, <1>7, <2>1 DEF Date
<1>8. CASE ~ (d < last) /\ ~ (m < 12)
  <2>1. Tomorrow(date) = Date(y + 1, 1, 1)
    BY <1>1, <1>4, <1>8 DEF Tomorrow, Date
  <2>. QED
    BY <1>1, <1>2, <1>3, <1>4, <1>5, <1>8, <2>1 DEF Date
<1>. QED
  BY <1>6, <1>7, <1>8

\* The era named by an answer is the one it was made for.
LEMMA NamedEra ==
    ASSUME NEW e \in EraNumbers, NEW y
    PROVE  /\ EraNamed(Answer(e, y).items) = e
           /\ Answer(e, y).items[3] = LispInt(Nengo(e, y))
           /\ Answer(e, y) # EvaluationError
<1>1. /\ Answer(e, y).items[1].chars = GengoList[e].gengo
      /\ Answer(e, y).items[3] = LispInt(Nengo(e, y))
      /\ Answer(e, y).type = "list"
  BY DEF Answer, LispCList, LispString, EraNumbers
<1>2. \A f \in EraNumbers : GengoList[f].gengo = Answer(e, y).items[1].chars <=> f = e
  BY <1>1, NamesDiffer
<1>3. EraNamed(Answer(e, y).items) = e
  BY <1>2 DEF EraNamed
<1>. QED
  BY <1>1, <1>3 DEF EvaluationError, LispError

\* From a day to the next the era stays, or the next one begins.
LEMMA ErasOfTwoDays ==
    ASSUME NEW date, IsDate(date),
           NEW e \in 0 .. 5, Begun(date) = {f \in EraNumbers : f <= e},
           NEW n \in 0 .. 5, Begun(Tomorrow(date)) = {f \in EraNumbers : f <= n}
    PROVE  n = e \/ (n = e + 1 /\ Tomorrow(date).y = GengoList[n].start_y)
<1>1. \A f \in EraNumbers : Before(date, f) <=> e < f
  BY DEF Begun, EraNumbers
<1>2. \A f \in EraNumbers : Before(Tomorrow(date), f) <=> n < f
  BY DEF Begun, EraNumbers
<1>3. e <= n
  <2>1. CASE e = 0
    BY <2>1
  <2>2. CASE e \in EraNumbers
    BY <1>1, <1>2, <2>2, NextDayStartsEra DEF EraNumbers
  <2>. QED
    BY <2>1, <2>2 DEF EraNumbers
<1>4. CASE e < n
  <2>1. PICK next \in EraNumbers : next = e + 1
    BY <1>4 DEF EraNumbers
  <2>2. n \in EraNumbers
    BY <1>4 DEF EraNumbers
  <2>3. Tomorrow(date).y = GengoList[n].start_y /\ Tomorrow(date).y = GengoList[next].start_y
    BY <1>1, <1>2, <1>4, <2>1, <2>2, NextDayStartsEra DEF EraNumbers
  <2>4. n = next
    BY <2>2, <2>3, StartsDiffer
  <2>. QED
    BY <2>1, <2>3, <2>4
<1>. QED
  BY <1>3, <1>4

\* ad_to_gengo_1 counts the years of an era without a gap, and the eras follow
\* each other with a year one.
THEOREM ErasSucceedAlways == Spec => ErasSucceed
<1>1. ASSUME DInv, DInv', NextDay PROVE EraGoesOn
  <2>1. PICK e \in 0 .. 5 : /\ shown = Answer(e, today.y)
                            /\ Begun(today) = {f \in EraNumbers : f <= e}
    BY <1>1, AskedOfDate DEF DInv
  <2>2. PICK n \in 0 .. 5 : /\ shown' = Answer(n, today'.y)
                            /\ Begun(today)' = {f \in EraNumbers : f <= n}
    BY <1>1, AskedOfDate DEF DInv
  <2>3. n = e \/ (n = e + 1 /\ today'.y = GengoList[n].start_y)
    BY <1>1, <2>1, <2>2, ErasOfTwoDays DEF NextDay, DInv, Begun
  <2>4. PICK y \in 1868 .. LastYear, z \in 1868 .. LastYear : y = today.y /\ z = today'.y
    BY <1>1, DatesParts DEF DInv
  <2>5. n # 0 => /\ EraNamed(shown'.items) = n /\ shown'.items[3] = LispInt(Nengo(n, z))
                 /\ Nengo(n, z) = z - GengoList[n].start_y + 1
                 /\ GengoList[n].start_y \in Nat
    <3>1. SUFFICES ASSUME n # 0
                   PROVE  /\ EraNamed(shown'.items) = n /\ shown'.items[3] = LispInt(Nengo(n, z))
                          /\ Nengo(n, z) = z - GengoList[n].start_y + 1
                          /\ GengoList[n].start_y \in Nat
      OBVIOUS
    <3>2. n \in EraNumbers /\ n \in Begun(today')
      BY <2>2, <3>1 DEF EraNumbers, Begun
    <3>3. GengoList[n].start_y <= z
      BY <1>1, <2>4, <3>2, EraHasStarted DEF DInv
    <3>4. shown' = Answer(n, z)
      BY <2>2, <2>4
    <3>5. Nengo(n, z) = z - GengoList[n].start_y + 1
      BY <3>2, <3>3, NengoCounts
    <3>6. GengoList[n].start_y \in Nat
      BY <3>2, Starts DEF EraNumbers
    <3>. QED
      BY <3>2, <3>4, <3>5, <3>6, NamedEra
  <2>6. e # 0 => /\ EraNamed(shown.items) = e /\ shown.items[3] = LispInt(Nengo(e, y))
                 /\ Nengo(e, y) = y - GengoList[e].start_y + 1
                 /\ shown # EvaluationError
    <3>1. SUFFICES ASSUME e # 0
                   PROVE  /\ EraNamed(shown.items) = e /\ shown.items[3] = LispInt(Nengo(e, y))
                          /\ Nengo(e, y) = y - GengoList[e].start_y + 1
                          /\ shown # EvaluationError
      OBVIOUS
    <3>2. e \in EraNumbers /\ e \in Begun(today)
      BY <2>1, <3>1 DEF EraNumbers, Begun
    <3>3. GengoList[e].start_y <= y
      BY <1>1, <2>4, <3>2, EraHasStarted DEF DInv
    <3>4. shown = Answer(e, y)
      BY <2>1, <2>4
    <3>5. Nengo(e, y) = y - GengoList[e].start_y + 1
      BY <3>2, <3>3, NengoCounts
    <3>. QED
      BY <3>2, <3>4, <3>5, NamedEra
  <2>7. CASE e = 0
    <3>1. shown = EvaluationError
      BY <2>1, <2>7 DEF Answer
    <3>2. CASE n = 0
      BY <2>2, <3>1, <3>2 DEF Answer, EraGoesOn
    <3>3. CASE n # 0
      <4>1. n = 1 /\ z = GengoList[n].start_y
        BY <2>3, <2>4, <2>7, <3>3
      <4>2. Nengo(n, z) = 1
        BY <2>5, <3>3, <4>1
      <4>. QED
        BY <2>5, <3>1, <3>3, <4>1, <4>2 DEF EraGoesOn
    <3>. QED
      BY <3>2, <3>3
  <2>8. CASE e # 0
    <3>1. CASE n = e
      <4>1. PICK Y \in Nat : Y = GengoList[e].start_y
        BY <2>5, <2>8, <3>1
      <4>2. shown.items[3].int = y - Y + 1 /\ shown'.items[3].int = z - Y + 1
        BY <2>5, <2>6, <2>8, <3>1, <4>1 DEF LispInt
      <4>3. shown'.items[3].int - shown.items[3].int = today'.y - today.y
        BY <2>4, <4>2
      <4>. QED
        BY <2>5, <2>6, <2>8, <3>1, <4>3 DEF EraGoesOn
    <3>2. CASE n = e + 1 /\ today'.y = GengoList[n].start_y
      <4>1. n # 0 /\ n # e /\ z = GengoList[n].start_y
        BY <2>4, <3>2
      <4>2. Nengo(n, z) = 1
        BY <2>5, <4>1
      <4>. QED
        BY <2>5, <2>6, <2>8, <3>2, <4>1, <4>2 DEF EraGoesOn
    <3>. QED
      BY <2>3, <3>1, <3>2
  <2>. QED
    BY <2>7, <2>8
<1>2. DInv /\ DInv' /\ [NextDay]_vars => [EraGoesOn]_vars
  BY <1>1
<1>. QED
  BY <1>2, DatesStayDates, PTL DEF Spec, ErasSucceed
=============================================================================
