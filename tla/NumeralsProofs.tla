---------------------------- MODULE NumeralsProofs ----------------------------
(***************************************************************************)
(* For every text and every buffer: check_num_str recognises numbers, and  *)
(* skk_num_exp stays in its buffer and in its tables.                      *)
(***************************************************************************)
EXTENDS NumberCalls, Lemmas

\* Digits, signs and points, by their codes.
LEMMA CharCodes ==
    /\ \A c : IsDigit(c) <=> c \in 48 .. 57
    /\ \A c : IsDot(c) <=> c = 46
    /\ \A c : IsSign(c) <=> c \in {43, 45}
  BY AsciiAssumption, Zenon DEF IsDigit, IsDot, IsSign
-----------------------------------------------------------------------------
(* check_num_str                                                             *)

\* The states of the loop of check_num_str.
ScanStates == [state : {"START", "DIGITS", "DOT", "DIGITS_AND_DOT"}, stopped : BOOLEAN]

\* One turn leads from state to state.
LEMMA ScanStepStates == ASSUME NEW s \in ScanStates, NEW c PROVE ScanStep(s, c) \in ScanStates
<1>1. NextState(s.state, c) \in {"START", "DIGITS", "DOT", "DIGITS_AND_DOT", "STOP"}
  BY Zenon DEF NextState
<1>. QED
  BY <1>1 DEF ScanStep, ScanStates

\* What the loop computes, state by state.
LEMMA ScanIsFold ==
    ASSUME NEW u, NEW L \in Nat, Len(u) = L
    PROVE  \E f : /\ f[0] = ScanStart
                  /\ \A n \in 1 .. L : f[n] = ScanStep(f[n - 1], u[n])
                  /\ FoldStep(ScanStep, ScanStart, u) = f[L]
<1>. DEFINE Body(f, n) == IF n = 0 THEN ScanStart ELSE With(f[n - 1], LAMBDA v : ScanStep(v, u[n]))
            C == CHOOSE f : f = [n \in 0 .. L |-> Body(f, n)]
            step == [p \in (1 .. L) \X ScanStates |-> ScanStep(p[2], u[p[1]])]
<1>1. FoldStep(ScanStep, ScanStart, u) = C[L]
  BY Zenon DEF FoldStep
<1>2. \A f, n : Body(f, n) = IF n = 0 THEN ScanStart ELSE ScanStep(f[n - 1], u[n])
  BY DEF With
<1>. HIDE DEF Body
<1>3. step \in [(1 .. L) \X ScanStates -> ScanStates]
  BY ScanStepStates
<1>4. ScanStart \in ScanStates
  BY DEF ScanStart, ScanStates
<1>5. \A n \in 1 .. L, s \in ScanStates : step[<<n, s>>] = ScanStep(s, u[n])
  OBVIOUS
<1>. HIDE DEF step
<1>6. PICK f \in [0 .. L -> ScanStates] : f[0] = ScanStart /\ \A n \in 1 .. L : f[n] = step[<<n, f[n - 1]>>]
  <2>1. Iterations(ScanStates, ScanStart, L, step) # {}
    BY <1>3, <1>4, Iteration
  <2>. QED
    BY <2>1 DEF Iterations
<1>7. \A n \in 0 .. L : f[n] = Body(f, n)
  <2>1. \A n \in 1 .. L : n # 0 /\ n - 1 \in 0 .. L
    OBVIOUS
  <2>2. \A n \in 1 .. L : f[n] = ScanStep(f[n - 1], u[n])
    BY <1>5, <1>6, <2>1
  <2>3. \A n \in 0 .. L : n = 0 \/ n \in 1 .. L
    OBVIOUS
  <2>. QED
    BY <1>2, <1>6, <2>1, <2>2, <2>3, Zenon
<1>8. f = [n \in 0 .. L |-> Body(f, n)]
  BY <1>7
<1>9. C = [n \in 0 .. L |-> Body(C, n)]
  BY <1>8, Zenon
<1>. HIDE DEF C
<1>10. C[0] = ScanStart /\ \A n \in 1 .. L : C[n] = ScanStep(C[n - 1], u[n])
  <2>1. \A n \in 0 .. L : C[n] = Body(C, n)
    BY <1>9
  <2>2. \A n \in 1 .. L : n # 0 /\ n \in 0 .. L
    OBVIOUS
  <2>3. 0 \in 0 .. L
    OBVIOUS
  <2>. QED
    BY <1>2, <2>1, <2>2, <2>3, Zenon
<1>. QED
  BY <1>1, <1>10

\* The chars of u up to the k-th are digits and at most one point.
CanBegin(u, k) ==
    /\ \A i \in 1 .. k : IsDigit(u[i]) \/ IsDot(u[i])
    /\ \A i, j \in 1 .. k : IsDot(u[i]) /\ IsDot(u[j]) => i = j

DigitUpTo(u, k) == \E i \in 1 .. k : IsDigit(u[i])
DotUpTo(u, k) == \E i \in 1 .. k : IsDot(u[i])

\* After n chars, s says what the first k of them are, the longest beginning
\* that can begin a number.
Scanned(u, n, k, s) ==
    /\ k \in 0 .. n /\ CanBegin(u, k)
    /\ s \in ScanStates
    /\ s.state \in {"DIGITS", "DIGITS_AND_DOT"} <=> DigitUpTo(u, k)
    /\ s.state \in {"DOT", "DIGITS_AND_DOT"} <=> DotUpTo(u, k)
    /\ IF s.stopped THEN k < n /\ ~ CanBegin(u, k + 1) ELSE k = n

\* One turn of the loop.
LEMMA ScanStepScans ==
    ASSUME NEW u, NEW n \in Nat, NEW k, NEW s, Scanned(u, n, k, s)
    PROVE  \E m : Scanned(u, n + 1, m, ScanStep(s, u[n + 1]))
<1>. DEFINE c == u[n + 1]
<1>1. \A x : ~ (IsDigit(x) /\ IsDot(x))
  BY CharCodes
<1>2. s = [state |-> s.state, stopped |-> s.stopped] /\ s.stopped \in BOOLEAN
      /\ s.state \in {"START", "DIGITS", "DOT", "DIGITS_AND_DOT"}
  BY DEF Scanned, ScanStates
<1>3. CASE s.stopped
  <2>1. ScanStep(s, c) = s
    BY <1>2, <1>3 DEF ScanStep
  <2>2. Scanned(u, n + 1, k, s)
    BY <1>3 DEF Scanned, ScanStates
  <2>. QED
    BY <2>1, <2>2
<1>4. CASE ~ s.stopped /\ NextState(s.state, c) = "STOP"
  <2>1. ScanStep(s, c) = [state |-> s.state, stopped |-> TRUE]
    BY <1>2, <1>4 DEF ScanStep
  <2>2. k = n /\ CanBegin(u, k)
    BY <1>4 DEF Scanned, ScanStates
  <2>3. ~ IsDigit(c) /\ (IsDot(c) => s.state \in {"DOT", "DIGITS_AND_DOT"})
    BY <1>2, <1>4 DEF NextState
  <2>4. ~ CanBegin(u, k + 1)
    <3>1. CASE ~ IsDot(c)
      BY <2>2, <2>3, <3>1 DEF CanBegin
    <3>2. CASE IsDot(c)
      <4>1. PICK i \in 1 .. n : IsDot(u[i])
        BY <2>2, <2>3, <3>2 DEF Scanned, DotUpTo
      <4>. QED
        BY <2>2, <3>2, <4>1 DEF CanBegin
    <3>. QED
      BY <3>1, <3>2
  <2>5. Scanned(u, n + 1, k, [state |-> s.state, stopped |-> TRUE])
    BY <1>2, <2>2, <2>4 DEF Scanned, ScanStates
  <2>. QED
    BY <2>1, <2>5
<1>5. CASE ~ s.stopped /\ NextState(s.state, c) # "STOP"
  <2>. DEFINE t == NextState(s.state, c)
  <2>1. ScanStep(s, c) = [state |-> t, stopped |-> FALSE]
    BY <1>2, <1>5 DEF ScanStep
  <2>2. k = n /\ CanBegin(u, n)
    BY <1>5 DEF Scanned, ScanStates
  <2>3. /\ (s.state \in {"DIGITS", "DIGITS_AND_DOT"} <=> DigitUpTo(u, n))
        /\ (s.state \in {"DOT", "DIGITS_AND_DOT"} <=> DotUpTo(u, n))
    BY <2>2 DEF Scanned, ScanStates
  <2>4. \/ /\ IsDigit(c) /\ ~ IsDot(c)
           /\ t = IF s.state \in {"START", "DIGITS"} THEN "DIGITS" ELSE "DIGITS_AND_DOT"
        \/ IsDot(c) /\ ~ IsDigit(c) /\ s.state = "START" /\ t = "DOT"
        \/ IsDot(c) /\ ~ IsDigit(c) /\ s.state = "DIGITS" /\ t = "DIGITS_AND_DOT"
    BY <1>1, <1>2, <1>5 DEF NextState
  <2>5. /\ DigitUpTo(u, n + 1) <=> DigitUpTo(u, n) \/ IsDigit(c)
        /\ DotUpTo(u, n + 1) <=> DotUpTo(u, n) \/ IsDot(c)
    <3>1. \A i \in 1 .. n + 1 : i \in 1 .. n \/ i = n + 1
      OBVIOUS
    <3>. QED
      BY <3>1 DEF DigitUpTo, DotUpTo
  <2>6. CanBegin(u, n + 1)
    <3>1. \A i \in 1 .. n + 1 : i \in 1 .. n \/ i = n + 1
      OBVIOUS
    <3>2. IsDot(c) => ~ DotUpTo(u, n)
      BY <2>3, <2>4
    <3>. QED
      BY <2>2, <2>4, <3>1, <3>2 DEF CanBegin, DotUpTo
  <2>. HIDE DEF t, c
  <2>7. t \in {"START", "DIGITS", "DOT", "DIGITS_AND_DOT"}
    BY <2>4
  <2>8. /\ (t \in {"DIGITS", "DIGITS_AND_DOT"} <=> DigitUpTo(u, n + 1))
        /\ (t \in {"DOT", "DIGITS_AND_DOT"} <=> DotUpTo(u, n + 1))
    BY <1>2, <2>3, <2>4, <2>5
  <2>9. Scanned(u, n + 1, n + 1, [state |-> t, stopped |-> FALSE])
    BY <2>6, <2>7, <2>8 DEF Scanned, ScanStates
  <2>. QED
    BY <2>1, <2>9 DEF c
<1>. QED
  BY <1>2, <1>3, <1>4, <1>5

\* What check_num_str finds in a text without its sign.
LEMMA ScanFinds ==
    ASSUME NEW u, NEW L \in Nat, Len(u) = L
    PROVE  \E k \in 0 .. L : Scanned(u, L, k, FoldStep(ScanStep, ScanStart, u))
<1>1. PICK f : /\ f[0] = ScanStart
               /\ \A n \in 1 .. L : f[n] = ScanStep(f[n - 1], u[n])
               /\ FoldStep(ScanStep, ScanStart, u) = f[L]
  BY ScanIsFold
<1>. DEFINE S == {n \in Nat : n <= L => \E k : Scanned(u, n, k, f[n])}
<1>2. 0 \in S
  <2>1. Scanned(u, 0, 0, ScanStart)
    BY DEF Scanned, ScanStart, ScanStates, CanBegin, DigitUpTo, DotUpTo
  <2>. QED
    BY <1>1, <2>1
<1>3. ASSUME NEW n \in Nat, n \in S PROVE n + 1 \in S
  <2>. SUFFICES ASSUME n + 1 <= L PROVE \E k : Scanned(u, n + 1, k, f[n + 1])
    OBVIOUS
  <2>1. PICK k : Scanned(u, n, k, f[n])
    BY <1>3
  <2>2. f[n + 1] = ScanStep(f[n], u[n + 1])
    BY <1>1
  <2>. QED
    BY <2>1, <2>2, ScanStepScans
<1>4. L \in S
  <2>. HIDE DEF S
  <2>. QED
    BY <1>2, <1>3, Induction
<1>5. PICK k : Scanned(u, L, k, f[L])
  BY <1>4
<1>. QED
  BY <1>1, <1>5 DEF Scanned, ScanStates

\* At most one element, said with and without counting.
LEMMA AtMostOne ==
    ASSUME NEW S, IsFiniteSet(S)
    PROVE  Cardinality(S) <= 1 <=> \A x, y \in S : x = y
<1>1. Cardinality(S) \in Nat /\ (Cardinality(S) = 0 <=> S = {}) /\ (Cardinality(S) = 1 <=> \E x : S = {x})
  BY FS_CardinalityType, FS_EmptySet, FS_Singleton
<1>2. Cardinality(S) <= 1 <=> Cardinality(S) = 0 \/ Cardinality(S) = 1
  BY <1>1
<1>3. (\A x, y \in S : x = y) <=> S = {} \/ \E x : S = {x}
  OBVIOUS
<1>. QED
  BY <1>1, <1>2, <1>3

\* The number of chars of str in front of the first digit or point.
SignLength(str) == IF str # <<>> /\ IsSign(Head(str)) THEN 1 ELSE 0

\* Unsigned leaves out the sign.
LEMMA UnsignedFacts ==
    ASSUME NEW str \in Seq(Int)
    PROVE  /\ SignLength(str) \in {0, 1} /\ SignLength(str) <= Len(str)
           /\ Unsigned(str) \in Seq(Int) /\ Len(Unsigned(str)) = Len(str) - SignLength(str)
           /\ \A i \in 1 .. Len(str) - SignLength(str) : Unsigned(str)[i] = str[i + SignLength(str)]
           /\ SignLength(str) = 1 => IsSign(str[1])
<1>1. str # <<>> => Len(str) >= 1 /\ Head(str) = str[1]
  OBVIOUS
<1>2. CASE str # <<>> /\ IsSign(str[1])
  <2>1. SignLength(str) = 1 /\ Unsigned(str) = Tail(str) /\ Len(str) >= 1
    BY <1>1, <1>2 DEF SignLength, Unsigned
  <2>. QED
    BY <1>2, <2>1, HeadTailProperties
<1>3. CASE ~ (str # <<>> /\ IsSign(str[1]))
  <2>1. SignLength(str) = 0 /\ Unsigned(str) = str
    BY <1>1, <1>3 DEF SignLength, Unsigned
  <2>. QED
    BY <2>1
<1>. QED
  BY <1>2, <1>3

\* The first n chars of a text, and what their sign is.
LEMMA BeginningFacts ==
    ASSUME NEW str \in Seq(Int), NEW n \in 0 .. Len(str)
    PROVE  /\ SubSeq(str, 1, n) \in Seq(Int) /\ Len(SubSeq(str, 1, n)) = n
           /\ \A i \in 1 .. n : SubSeq(str, 1, n)[i] = str[i]
           /\ n = 0 => SignLength(SubSeq(str, 1, n)) = 0
           /\ n # 0 => SignLength(SubSeq(str, 1, n)) = SignLength(str)
<1>1. \A i \in 1 .. n : str[i] \in Int
  OBVIOUS
<1>2. PICK p : p = SubSeq(str, 1, n)
  OBVIOUS
<1>3. /\ p \in Seq(Int) /\ Len(p) = IF 1 <= n THEN n - 1 + 1 ELSE 0
      /\ \A i \in 1 .. n - 1 + 1 : p[i] = str[1 + i - 1]
  BY <1>1, <1>2, SubSeqProperties
<1>4. p \in Seq(Int) /\ Len(p) = n /\ \A i \in 1 .. n : p[i] = str[i]
  BY <1>3
<1>5. n > 0 => p # <<>> /\ Head(p) = p[1] /\ str # <<>> /\ Head(str) = str[1] /\ p[1] = str[1]
  BY <1>4
<1>6. n = 0 => p = <<>>
  BY <1>4
<1>7. (n = 0 => SignLength(p) = 0) /\ (n # 0 => SignLength(p) = SignLength(str))
  BY <1>5, <1>6 DEF SignLength
<1>. QED
  BY <1>2, <1>4, <1>7

\* A beginning of str is a number when what follows the sign is one.
LEMMA BeginningIsNumber ==
    ASSUME NEW str \in Seq(Int), NEW n \in 0 .. Len(str), NEW m \in Int, m = n - SignLength(str)
    PROVE  /\ IsNumber(SubSeq(str, 1, n)) <=>
                   m >= 0 /\ CanBegin(Unsigned(str), m) /\ DigitUpTo(Unsigned(str), m)
           /\ m >= 0 => (Points(SubSeq(str, 1, n)) = {} <=> ~ DotUpTo(Unsigned(str), m))
<1>1. PICK L \in Nat : L = Len(str)
  OBVIOUS
<1>2. PICK u : u = Unsigned(str)
  OBVIOUS
<1>3. PICK o \in {0, 1} : o = SignLength(str) /\ o <= L
  BY <1>1, UnsignedFacts
<1>4. PICK p \in Seq(Int) : p = SubSeq(str, 1, n)
  BY BeginningFacts
<1>5. PICK q \in {0, 1} : q = SignLength(p) /\ q <= n /\ (n = 0 => q = 0) /\ (n # 0 => q = o)
  BY <1>3, <1>4, BeginningFacts, UnsignedFacts
<1>6. PICK d \in Seq(Int) : d = Unsigned(p) /\ Len(d) = n - q
  BY <1>4, <1>5, BeginningFacts, UnsignedFacts
<1>7. \A i \in 1 .. L - o : u[i] = str[i + o]
  BY <1>1, <1>2, <1>3, UnsignedFacts
<1>8. \A i \in 1 .. n : p[i] = str[i]
  BY <1>4, BeginningFacts
<1>9. Len(p) = n
  BY <1>4, BeginningFacts
<1>10. \A i \in 1 .. n - q : d[i] = p[i + q]
  BY <1>5, <1>6, <1>9, UnsignedFacts
<1>11. PICK l \in Nat : l = n - q
  BY <1>5
<1>12. DOMAIN d = 1 .. l /\ DOMAIN p = 1 .. n
  BY <1>6, <1>9, <1>11
<1>13. l = 0 \/ (q = o /\ l = m)
  BY <1>3, <1>5, <1>11
<1>14. ASSUME NEW i \in 1 .. l PROVE d[i] = u[i]
  <2>1. q = o /\ n \in Nat /\ n <= L /\ l = n - o
    <3>1. n \in Nat /\ n <= L
      BY <1>1
    <3>2. q = o
      BY <1>13
    <3>. QED
      BY <1>11, <3>1, <3>2
  <2>2. i \in Int /\ 1 <= i /\ i <= n - o
    BY <2>1
  <2>3. i + o \in 1 .. n /\ i \in 1 .. L - o /\ i \in 1 .. n - q
    BY <1>3, <2>1, <2>2, SMTT(30)
  <2>. QED
    BY <1>7, <1>8, <1>10, <2>1, <2>3
<1>15. IsFiniteSet(Points(d)) /\ Points(d) = {i \in 1 .. l : IsDot(d[i])}
  <2>1. IsFiniteSet(1 .. l)
    BY FS_Interval
  <2>2. Points(d) \in SUBSET (1 .. l)
    BY <1>12 DEF Points
  <2>. QED
    BY <1>12, <2>1, <2>2, FS_Subset DEF Points
<1>16. IsNumber(p) <=> DigitUpTo(u, l) /\ CanBegin(u, l)
  <2>1. IsNumber(p) <=> /\ HasDigit(d) /\ Cardinality(Points(d)) <= 1
                        /\ \A i \in DOMAIN d : IsDigit(d[i]) \/ IsDot(d[i])
    BY <1>6 DEF IsNumber
  <2>2. Cardinality(Points(d)) <= 1 <=> \A i, j \in 1 .. l : IsDot(u[i]) /\ IsDot(u[j]) => i = j
    BY <1>14, <1>15, AtMostOne
  <2>3. HasDigit(d) <=> DigitUpTo(u, l)
    BY <1>12, <1>14 DEF HasDigit, DigitUpTo
  <2>. QED
    BY <1>12, <1>14, <2>1, <2>2, <2>3 DEF CanBegin
<1>17. CASE m < 0
  <2>1. l = 0
    BY <1>3, <1>13, <1>17
  <2>2. ~ DigitUpTo(u, l)
    BY <2>1 DEF DigitUpTo
  <2>. QED
    BY <1>4, <1>16, <1>17, <2>2
<1>18. CASE m >= 0
  <2>1. l = m /\ q = o
    BY <1>3, <1>5, <1>11, <1>18
  <2>2. o = 1 /\ n >= 1 => ~ IsDot(p[1])
    <3>1. o = 1 => IsSign(p[1])
      BY <1>4, <1>5, <2>1, UnsignedFacts
    <3>. QED
      BY <3>1, CharCodes
  <2>3. ASSUME NEW i \in 1 .. n, IsDot(p[i]) PROVE i - o \in 1 .. m /\ p[i] = u[i - o]
    <3>1. ~ (o = 1 /\ i = 1)
      BY <2>2, <2>3
    <3>2. m = n - o /\ i \in Int
      BY <1>3
    <3>3. i - o \in 1 .. m /\ i - o + o = i /\ i - o \in 1 .. L - o
      <4>1. n <= L /\ n \in Int /\ i >= 1 /\ i <= n
        BY <1>1
      <4>2. CASE o = 0
        BY <3>2, <4>1, <4>2
      <4>3. CASE o = 1
        BY <3>1, <3>2, <4>1, <4>3
      <4>. QED
        BY <4>2, <4>3
    <3>. QED
      BY <1>7, <1>8, <3>3
  <2>4. ASSUME NEW i \in 1 .. m PROVE i + o \in 1 .. n /\ p[i + o] = u[i]
    <3>1. i + o \in 1 .. n /\ i \in 1 .. l /\ i \in 1 .. n - q
      BY <1>3, <1>11, <2>1
    <3>. QED
      BY <1>10, <1>14, <2>1, <3>1
  <2>5. Points(p) = {} <=> ~ DotUpTo(u, m)
    BY <1>12, <2>3, <2>4 DEF Points, DotUpTo
  <2>. QED
    BY <1>2, <1>4, <1>16, <1>18, <2>1, <2>5
<1>. QED
  BY <1>17, <1>18

\* What check_num_str returns is what the longest number says that the text
\* begins with.
LEMMA CheckNumStrIsRight ==
    ASSUME NEW str \in Seq(Int), NEW num_only_p \in BOOLEAN
    PROVE  LET numbers == {n \in 0 .. Len(str) : IsNumber(SubSeq(str, 1, n))}
               longest == SubSeq(str, 1, Max(numbers))
           IN  CheckNumStr(str, num_only_p) =
                   IF numbers = {} \/ (num_only_p /\ longest # str) THEN "R_NOTNUM"
                   ELSE IF Points(longest) = {} THEN "R_INT" ELSE "R_FLOAT"
<1>. DEFINE numbers == {n \in 0 .. Len(str) : IsNumber(SubSeq(str, 1, n))}
            longest == SubSeq(str, 1, Max(numbers))
<1>1. PICK L \in Nat : L = Len(str)
  OBVIOUS
<1>2. PICK u : u = Unsigned(str)
  OBVIOUS
<1>3. PICK o \in Nat : o = SignLength(str)
  BY DEF SignLength
<1>4. o \in {0, 1} /\ o \in 0 .. L /\ Len(u) = L - o /\ L - o \in Nat
  BY <1>1, <1>2, <1>3, UnsignedFacts
<1>5. PICK s : s = Scan(str)
  OBVIOUS
<1>6. PICK k \in 0 .. L - o : Scanned(u, L - o, k, s)
  BY <1>2, <1>4, <1>5, ScanFinds DEF Scan
<1>7. \A m \in 0 .. L - o : CanBegin(u, m) => m <= k
  <2>. SUFFICES ASSUME NEW m \in 0 .. L - o, CanBegin(u, m), m > k PROVE FALSE
    BY <1>4, <1>6
  <2>1. ~ CanBegin(u, k + 1)
    BY <1>4, <1>6 DEF Scanned, ScanStates
  <2>2. \A i \in 1 .. k + 1 : i \in 1 .. m
    BY <1>4
  <2>. QED
    BY <2>1, <2>2 DEF CanBegin
<1>8. ASSUME NEW n \in 0 .. L
      PROVE  n \in numbers <=> n - o \in Nat /\ CanBegin(u, n - o) /\ DigitUpTo(u, n - o)
  <2>1. PICK p : p = SubSeq(str, 1, n)
    OBVIOUS
  <2>2. n \in numbers <=> IsNumber(p)
    BY <1>1, <2>1
  <2>3. PICK m \in Int : m = n - o
    OBVIOUS
  <2>4. IsNumber(p) <=> m >= 0 /\ CanBegin(u, m) /\ DigitUpTo(u, m)
    BY <1>1, <1>2, <1>3, <2>1, <2>3, BeginningIsNumber
  <2>. QED
    BY <2>2, <2>3, <2>4
<1>9. numbers \subseteq 0 .. L
  BY <1>1
<1>. HIDE DEF numbers
<1>10. \A n \in numbers : n - o \in 0 .. k /\ n <= k + o
  BY <1>4, <1>7, <1>8, <1>9
<1>11. CASE ~ DigitUpTo(u, k)
  <2>1. \A m \in 0 .. k : ~ DigitUpTo(u, m)
    BY <1>11 DEF DigitUpTo
  <2>2. numbers = {}
    BY <1>8, <1>9, <1>10, <2>1
  <2>3. s.state \in {"START", "DOT"}
    BY <1>6, <1>11 DEF Scanned, ScanStates
  <2>. QED
    BY <1>5, <2>2, <2>3 DEF CheckNumStr, numbers
<1>12. CASE DigitUpTo(u, k)
  <2>1. k + o \in numbers /\ k + o \in 0 .. L /\ k + o - o = k
    <3>1. k + o \in 0 .. L /\ k + o - o = k /\ k \in Nat
      BY <1>4
    <3>2. CanBegin(u, k)
      BY <1>6 DEF Scanned, ScanStates
    <3>3. PICK n \in 0 .. L : n = k + o /\ n - o = k
      BY <3>1
    <3>. QED
      BY <1>8, <1>12, <3>1, <3>2, <3>3
  <2>2. Max(numbers) = k + o
    <3>1. \A x \in numbers : x \in Int
      BY <1>9
    <3>2. \A x \in numbers : (\A y \in numbers : x >= y) => x = k + o
      BY <1>10, <2>1, <3>1
    <3>3. \A y \in numbers : k + o >= y
      BY <1>10, <2>1, <3>1
    <3>. QED
      BY <2>1, <3>2, <3>3 DEF Max
  <2>3. longest = str <=> ~ s.stopped
    <3>1. k + o \in 0 .. Len(str)
      BY <1>1, <2>1
    <3>2. Len(SubSeq(str, 1, k + o)) = k + o
      BY <1>1, <3>1, BeginningFacts
    <3>3. k + o = L => SubSeq(str, 1, k + o) = str
      BY <1>1
    <3>4. k + o = L <=> ~ s.stopped
      BY <1>4, <1>6 DEF Scanned, ScanStates
    <3>. QED
      BY <1>1, <2>2, <3>2, <3>3, <3>4
  <2>4. Points(longest) = {} <=> ~ DotUpTo(u, k)
    <3>1. PICK n \in 0 .. L : n = k + o /\ n - o = k
      BY <2>1
    <3>2. PICK p : p = SubSeq(str, 1, n)
      OBVIOUS
    <3>3. k \in Int /\ k >= 0 /\ k = n - SignLength(str) /\ n \in 0 .. Len(str)
      BY <1>1, <1>3, <3>1
    <3>4. Points(p) = {} <=> ~ DotUpTo(u, k)
      BY <3>3, <1>1, <1>2, <1>3, <3>1, <3>2, BeginningIsNumber
    <3>. QED
      BY <2>2, <3>1, <3>2, <3>4
  <2>5. s.state \in {"DIGITS", "DIGITS_AND_DOT"} /\ (s.state = "DIGITS" <=> ~ DotUpTo(u, k))
    BY <1>6, <1>12 DEF Scanned, ScanStates
  <2>6. numbers # {}
    BY <2>1
  <2>7. CheckNumStr(str, num_only_p) =
            IF num_only_p /\ s.stopped THEN "R_NOTNUM" ELSE IF s.state = "DIGITS" THEN "R_INT" ELSE "R_FLOAT"
    BY <1>5, <2>5 DEF CheckNumStr
  <2>. HIDE DEF longest
  <2>8. CheckNumStr(str, num_only_p) =
            IF numbers = {} \/ (num_only_p /\ longest # str) THEN "R_NOTNUM"
            ELSE IF Points(longest) = {} THEN "R_INT" ELSE "R_FLOAT"
    BY <2>3, <2>4, <2>5, <2>6, <2>7
  <2>. QED
    BY <2>8 DEF numbers, longest
<1>. QED
  BY <1>11, <1>12
-----------------------------------------------------------------------------
(* skk_num_exp                                                               *)

\* A function on the first n numbers is a sequence.
LEMMA Sequence ==
    ASSUME NEW S, NEW n \in Nat, NEW f \in [1 .. n -> S]
    PROVE  f \in Seq(S) /\ Len(f) = n
  BY SeqDef

\* What FlattenSeq computes, piece by piece.
LEMMA FlattenIsFold ==
    ASSUME NEW ps \in Seq(Seq(Int)), NEW L \in Nat, Len(ps) = L
    PROVE  \E f \in [0 .. L -> Seq(Int)] : /\ f[0] = <<>>
                                           /\ \A i \in 1 .. L : f[i] = f[i - 1] \o ps[i]
                                           /\ FlattenSeq(ps) = f[L]
<1>. DEFINE step == [p \in (1 .. L) \X Seq(Int) |-> p[2] \o ps[p[1]]]
            Value(f, i) == IF i = 1 THEN ps[i] ELSE f[i - 1] \o ps[i]
            C == CHOOSE f : f = [i \in 1 .. L |-> Value(f, i)]
<1>1. PICK f \in [0 .. L -> Seq(Int)] : f[0] = <<>> /\ \A i \in 1 .. L : f[i] = f[i - 1] \o ps[i]
  <2>1. \A i \in 1 .. L : ps[i] \in Seq(Int)
    OBVIOUS
  <2>2. step \in [(1 .. L) \X Seq(Int) -> Seq(Int)]
    BY <2>1
  <2>3. <<>> \in Seq(Int)
    OBVIOUS
  <2>4. Iterations(Seq(Int), <<>>, L, step) # {}
    <3>. HIDE DEF step
    <3>. QED
      BY <2>2, <2>3, Iteration
  <2>5. \A i \in 1 .. L, t \in Seq(Int) : step[<<i, t>>] = t \o ps[i]
    OBVIOUS
  <2>6. PICK f \in [0 .. L -> Seq(Int)] : f[0] = <<>> /\ \A i \in 1 .. L : f[i] = step[<<i, f[i - 1]>>]
    <3>. HIDE DEF step
    <3>. QED
      BY <2>4 DEF Iterations
  <2>7. \A i \in 1 .. L : f[i - 1] \in Seq(Int)
    OBVIOUS
  <2>8. \A i \in 1 .. L : f[i] = f[i - 1] \o ps[i]
    <3>. HIDE DEF step
    <3>. QED
      BY <2>5, <2>6, <2>7
  <2>. QED
    BY <2>6, <2>8
<1>2. CASE L = 0
  <2>1. ps = <<>>
    BY <1>2, EmptySeq
  <2>2. FlattenSeq(ps) = ps
    BY <1>2, Zenon DEF FlattenSeq
  <2>. QED
    BY <1>1, <1>2, <2>1, <2>2
<1>3. CASE L # 0
  <2>1. FlattenSeq(ps) = C[L]
    BY <1>3, Zenon DEF FlattenSeq
  <2>2. \A i \in 1 .. L : f[i] = Value(f, i)
    <3>1. \A i \in 1 .. L : i = 1 => f[i] = ps[i]
      <4>1. ASSUME 1 \in 1 .. L PROVE f[1] = ps[1]
        <5>1. ps[1] \in Seq(Int) /\ 1 - 1 = 0
          BY <4>1
        <5>2. f[1] = f[1 - 1] \o ps[1]
          BY <1>1, <4>1, Zenon
        <5>3. f[1] = <<>> \o ps[1]
          BY <1>1, <5>1, <5>2, Zenon
        <5>. QED
          BY <5>1, <5>3
      <4>. QED
        BY <4>1
    <3>. QED
      BY <1>1, <3>1, Zenon
  <2>. HIDE DEF Value
  <2>3. C = [i \in 1 .. L |-> Value(C, i)]
    <3>1. PICK g : g = [i \in 1 .. L |-> f[i]]
      OBVIOUS
    <3>2. \A i \in 1 .. L : g[i] = f[i]
      BY <3>1
    <3>3. \A i \in 1 .. L : i = 1 \/ i - 1 \in 1 .. L
      OBVIOUS
    <3>4. \A i \in 1 .. L : Value(g, i) = Value(f, i)
      BY <3>2, <3>3, Zenon DEF Value
    <3>5. g = [i \in 1 .. L |-> Value(g, i)]
      BY <2>2, <3>1, <3>2, <3>4
    <3>. QED
      BY <3>5, Zenon
  <2>. HIDE DEF C
  <2>4. \A i \in 1 .. L : C[i] = Value(C, i)
    BY <2>3
  <2>. DEFINE T == {n \in Nat : \A i \in 1 .. L : i = n + 1 => C[i] = f[i]}
  <2>5. 0 \in T
    <3>1. \A h : Value(h, 1) = ps[1]
      BY DEF Value
    <3>. QED
      BY <2>2, <2>4, <3>1
  <2>6. ASSUME NEW n \in Nat, n \in T PROVE n + 1 \in T
    <3>. SUFFICES ASSUME NEW i \in 1 .. L, i = n + 1 + 1 PROVE C[i] = f[i]
      OBVIOUS
    <3>1. i - 1 \in 1 .. L /\ i - 1 = n + 1 /\ i # 1
      OBVIOUS
    <3>2. C[i - 1] = f[i - 1]
      BY <2>6, <3>1
    <3>3. \A h : Value(h, i) = h[i - 1] \o ps[i]
      BY <3>1, Zenon DEF Value
    <3>. QED
      BY <2>2, <2>4, <3>2, <3>3, Zenon
  <2>7. L - 1 \in Nat /\ L = L - 1 + 1 /\ L \in 1 .. L
    BY <1>3
  <2>8. Nat \subseteq T
    <3>. HIDE DEF T
    <3>. QED
      BY <2>5, <2>6, Induction
  <2>9. C[L] = f[L]
    BY <2>7, <2>8
  <2>. QED
    BY <1>1, <2>1, <2>9
<1>. QED
  BY <1>2, <1>3

\* Pieces of up to k bytes, put together.
LEMMA Flattened ==
    ASSUME NEW ps \in Seq(Seq(Int)), NEW k \in Nat, \A i \in 1 .. Len(ps) : Len(ps[i]) <= k
    PROVE  FlattenSeq(ps) \in Seq(Int) /\ Len(FlattenSeq(ps)) <= k * Len(ps)
<1>1. PICK L \in Nat : L = Len(ps)
  OBVIOUS
<1>2. PICK f \in [0 .. L -> Seq(Int)] : /\ f[0] = <<>>
                                        /\ \A i \in 1 .. L : f[i] = f[i - 1] \o ps[i]
                                        /\ FlattenSeq(ps) = f[L]
  BY <1>1, FlattenIsFold
<1>. DEFINE T == {m \in Nat : \A i \in 0 .. L : i = m => Len(f[i]) <= k * m}
<1>3. 0 \in T
  <2>1. Len(<<>>) <= k * 0
    OBVIOUS
  <2>. QED
    BY <1>2, <2>1
<1>4. ASSUME NEW m \in Nat, m \in T PROVE m + 1 \in T
  <2>. SUFFICES ASSUME NEW i \in 0 .. L, i = m + 1 PROVE Len(f[i]) <= k * (m + 1)
    OBVIOUS
  <2>1. i \in 1 .. L /\ i - 1 \in 0 .. L /\ i - 1 = m
    OBVIOUS
  <2>2. PICK c \in Seq(Int) : c = f[i - 1] /\ Len(c) <= k * m
    BY <1>4, <2>1
  <2>3. PICK d \in Seq(Int) : d = ps[i] /\ Len(d) <= k
    BY <1>1, <2>1
  <2>4. f[i] = c \o d
    BY <1>2, <2>1, <2>2, <2>3, Zenon
  <2>5. PICK x \in Nat, y \in Nat : x = Len(c) /\ y = Len(d)
    OBVIOUS
  <2>6. Len(c \o d) = x + y
    BY <2>5
  <2>7. PICK b \in Nat, b1 \in Nat : b = k * m /\ b1 = k * (m + 1) /\ b1 = b + k
    OBVIOUS
  <2>8. x <= b /\ y <= k
    BY <2>2, <2>3, <2>5, <2>7
  <2>9. x + y <= b1
    BY <2>7, <2>8
  <2>. QED
    BY <2>4, <2>6, <2>7, <2>9
<1>5. L \in T
  <2>. HIDE DEF T
  <2>. QED
    BY <1>3, <1>4, Induction
<1>6. f[L] \in Seq(Int) /\ Len(f[L]) <= k * L
  BY <1>5
<1>. QED
  BY <1>1, <1>2, <1>6

\* The Japanese characters.
LEMMA Characters ==
    /\ \A n \in Int : Utf8(n) \in Seq(Int) /\ Len(Utf8(n)) = 3
    /\ \A d \in Int : /\ ZenkakuDigit(d) \in Seq(Int) /\ Len(ZenkakuDigit(d)) = 3
                      /\ KansujiDigit(d) \in Seq(Int) /\ Len(KansujiDigit(d)) = 3
    /\ Len(JapaneseKeta4) = 4 /\ Len(JapaneseKetaMan) = 5
    /\ \A j \in 1 .. 4 : JapaneseKeta4[j] \in Seq(Int) /\ Len(JapaneseKeta4[j]) <= 3
    /\ \A j \in 1 .. 5 : JapaneseKetaMan[j] \in Seq(Int) /\ Len(JapaneseKetaMan[j]) <= 3
<1>1. \A n \in Int : Utf8(n) \in Seq(Int) /\ Len(Utf8(n)) = 3
  BY DEF Utf8
<1>2. \A d \in Int : /\ ZenkakuDigit(d) \in Seq(Int) /\ Len(ZenkakuDigit(d)) = 3
                     /\ KansujiDigit(d) \in Seq(Int) /\ Len(KansujiDigit(d)) = 3
  BY <1>1 DEF ZenkakuDigit, KansujiDigit
<1>3. <<>> \in Seq(Int) /\ Len(<<>>) = 0
  OBVIOUS
<1>4. \A n \in {22, 23, 24, 25, 26, 27, 28} : Utf8(n) \in Seq(Int) /\ Len(Utf8(n)) <= 3
  <2>1. \A n \in {22, 23, 24, 25, 26, 27, 28} : n \in Int /\ 3 <= 3
    OBVIOUS
  <2>. HIDE DEF Utf8
  <2>. QED
    BY <1>1, <2>1
<1>5. \A j \in 1 .. 4 : j \in {1, 2, 3, 4}
  OBVIOUS
<1>6. \A j \in 1 .. 5 : j \in {1, 2, 3, 4, 5}
  OBVIOUS
<1>7. /\ Len(JapaneseKeta4) = 4
      /\ \A j \in {1, 2, 3, 4} : JapaneseKeta4[j] \in Seq(Int) /\ Len(JapaneseKeta4[j]) <= 3
  BY <1>3, <1>4 DEF JapaneseKeta4, Thousand
<1>8. /\ Len(JapaneseKetaMan) = 5
      /\ \A j \in {1, 2, 3, 4, 5} : JapaneseKetaMan[j] \in Seq(Int) /\ Len(JapaneseKetaMan[j]) <= 3
  BY <1>3, <1>4 DEF JapaneseKetaMan
<1>. QED
  BY <1>1, <1>2, <1>5, <1>6, <1>7, <1>8

\* Two texts, one behind the other.
LEMMA Joined ==
    ASSUME NEW s \in Seq(Int), NEW t \in Seq(Int), NEW j \in Nat, NEW k \in Nat, Len(s) <= j, Len(t) <= k
    PROVE  s \o t \in Seq(Int) /\ Len(s \o t) <= j + k
<1>1. PICK x \in Nat, y \in Nat : x = Len(s) /\ y = Len(t)
  OBVIOUS
<1>2. s \o t \in Seq(Int) /\ Len(s \o t) = x + y
  BY <1>1
<1>3. x <= j /\ y <= k
  BY <1>1
<1>4. x + y <= j + k
  BY <1>3
<1>. QED
  BY <1>2, <1>4

\* The texts of up to k bytes.
TextUpTo(k) == {s \in Seq(Int) : Len(s) <= k}

\* n pieces of up to k bytes make a text of up to k * n bytes.
LEMMA Pieces ==
    ASSUME NEW n \in Nat, NEW k \in Nat, NEW ps \in [1 .. n -> TextUpTo(k)]
    PROVE  FlattenSeq(ps) \in TextUpTo(k * n)
<1>1. ps \in [1 .. n -> Seq(Int)] /\ \A i \in 1 .. n : Len(ps[i]) <= k
  BY DEF TextUpTo
<1>2. ps \in Seq(Seq(Int)) /\ Len(ps) = n
  BY <1>1, Sequence
<1>3. FlattenSeq(ps) \in Seq(Int) /\ Len(FlattenSeq(ps)) <= k * n
  BY <1>1, <1>2, Flattened
<1>. QED
  BY <1>3 DEF TextUpTo

\* A group is written with six bytes a digit, and not at all if it has only zeros.
LEMMA Kanji4DigitsFacts ==
    ASSUME NEW src \in Seq(Int), Len(src) <= 4
    PROVE  /\ Kanji4Digits(src) \in Seq(Int) /\ Len(Kanji4Digits(src)) <= 24
           /\ (\A i \in 1 .. Len(src) : src[i] = Code["0"]) => Kanji4Digits(src) = <<>>
<1>0. PICK n \in 0 .. 4 : n = Len(src)
  <2>1. PICK m \in Nat : m = Len(src)
    OBVIOUS
  <2>2. m <= 4
    BY <2>1
  <2>3. m \in 0 .. 4
    BY <2>2
  <2>. QED
    BY <2>1, <2>3
<1>1. n \in Nat /\ n = Len(src) /\ n <= 4 /\ DOMAIN src = 1 .. n
  BY <1>0
<1>. DEFINE unit(i) == JapaneseKeta4[Len(src) - i + 1]
            digit(i) == IF Digit(src[i]) = 1 /\ i < Len(src) THEN <<>> ELSE KansujiDigit(Digit(src[i]))
            piece(i) == IF Digit(src[i]) = 0 THEN <<>> ELSE digit(i) \o unit(i)
            ps == [i \in 1 .. n |-> piece(i)]
<1>2. Kanji4Digits(src) = FlattenSeq(ps)
  BY <1>1 DEF Kanji4Digits
<1>3. <<>> \in Seq(Int) /\ Len(<<>>) = 0
  OBVIOUS
<1>4. ASSUME NEW i \in 1 .. n PROVE piece(i) \in Seq(Int) /\ Len(piece(i)) <= 6
  <2>1. Digit(src[i]) \in Int
    BY <1>1, AsciiAssumption DEF Digit
  <2>2. digit(i) \in Seq(Int) /\ Len(digit(i)) <= 3
    <3>1. PICK a \in Seq(Int) : a = KansujiDigit(Digit(src[i])) /\ Len(a) <= 3
      <4>1. KansujiDigit(Digit(src[i])) \in Seq(Int) /\ Len(KansujiDigit(Digit(src[i]))) = 3 /\ 3 <= 3
        BY <2>1, Characters
      <4>. QED
        BY <4>1
    <3>2. Len(<<>>) <= 3
      BY <1>3
    <3>. QED
      BY <1>3, <3>1, <3>2, Zenon
  <2>3. PICK j \in 1 .. 4 : j = n - i + 1
    OBVIOUS
  <2>4. unit(i) \in Seq(Int) /\ Len(unit(i)) <= 3
    <3>1. JapaneseKeta4[j] \in Seq(Int) /\ Len(JapaneseKeta4[j]) <= 3
      BY Characters
    <3>. QED
      BY <1>0, <2>3, <3>1
  <2>. HIDE DEF digit, unit
  <2>5. digit(i) \o unit(i) \in Seq(Int) /\ Len(digit(i) \o unit(i)) <= 3 + 3
    BY <2>2, <2>4, Joined
  <2>6. Len(<<>>) <= 6 /\ 3 + 3 = 6
    BY <1>3
  <2>. QED
    BY <1>3, <2>5, <2>6, Zenon
<1>5. ASSUME NEW i \in 1 .. n, src[i] = Code["0"] PROVE piece(i) = <<>>
  <2>1. Digit(src[i]) = 0
    BY <1>5, AsciiAssumption DEF Digit
  <2>. QED
    BY <2>1
<1>. HIDE DEF piece
<1>6. ps \in [1 .. n -> TextUpTo(6)] /\ \A i \in 1 .. n : ps[i] = piece(i)
  BY <1>4 DEF TextUpTo
<1>7. FlattenSeq(ps) \in Seq(Int) /\ Len(FlattenSeq(ps)) <= 6 * n
  <2>. HIDE DEF ps
  <2>1. FlattenSeq(ps) \in TextUpTo(6 * n)
    BY <1>1, <1>6, Pieces
  <2>. QED
    BY <2>1 DEF TextUpTo
<1>8. ASSUME \A i \in 1 .. n : src[i] = Code["0"] PROVE FlattenSeq(ps) = <<>>
  <2>1. ps \in [1 .. n -> TextUpTo(0)]
    <3>1. \A i \in 1 .. n : piece(i) = <<>>
      BY <1>5, <1>8
    <3>2. <<>> \in TextUpTo(0)
      BY <1>3 DEF TextUpTo
    <3>. QED
      BY <3>1, <3>2
  <2>. HIDE DEF ps
  <2>2. FlattenSeq(ps) \in TextUpTo(0 * n)
    BY <1>1, <2>1, Pieces
  <2>3. Len(FlattenSeq(ps)) <= 0 * n
    BY <2>2 DEF TextUpTo
  <2>4. Len(FlattenSeq(ps)) <= 0
    BY <2>3
  <2>. QED
    BY <1>7, <2>4, EmptySeq
<1>. HIDE DEF ps
<1>. QED
  BY <1>1, <1>2, <1>7, <1>8

\* The digits y are the s digits of src up to the e-th, four or all there are.
IsGroup(src, y, s, e) ==
    /\ y \in Seq(Int) /\ Len(y) = s /\ s <= e /\ (s = 4 \/ s = e)
    /\ \A i \in 1 .. s : y[i] = src[e - s + i]

\* The groups have one to four digits, and the number has no more than four for
\* each of them.
LEMMA GroupsFacts ==
    ASSUME NEW src \in Seq(Int), src # <<>>
    PROVE  \E n \in Nat : /\ n = Len(Groups(src)) /\ DOMAIN Groups(src) = 1 .. n
                          /\ n >= 1 /\ 4 * (n - 1) < Len(src) /\ Len(src) <= 4 * n
                          /\ \A g \in 1 .. n : \E s \in 1 .. 4 :
                                 IsGroup(src, Groups(src)[g], s, Len(src) - 4 * (n - g))
<1>1. PICK L \in Nat : L = Len(src) /\ L >= 1
  BY EmptySeq
<1>2. PICK k \in Nat : k = (L - 1) \div 4 /\ 4 * k <= L - 1 /\ L - 1 < 4 * k + 4
  <2>1. PICK l \in Nat : l = L - 1
    BY <1>1
  <2>2. l \div 4 \in Nat /\ 4 * (l \div 4) <= l /\ l < 4 * (l \div 4) + 4
    OBVIOUS
  <2>. QED
    BY <2>1, <2>2
<1>3. PICK w \in 1 .. 4 : w = L - 4 * k
  <2>1. L - 4 * k \in 1 .. 4
    BY <1>2
  <2>. QED
    BY <2>1
<1>4. PICK n \in Nat : n = k + 1
  BY <1>2
<1>. DEFINE group(g) == IF g = 1 THEN SubSeq(src, 1, w) ELSE SubSeq(src, w + 4 * g - 7, w + 4 * g - 4)
<1>5. Groups(src) = [g \in 1 .. n |-> group(g)]
  BY <1>1, <1>2, <1>3, <1>4 DEF Groups
<1>6. \A i \in 1 .. L : src[i] \in Int
  BY <1>1
<1>7. ASSUME NEW g \in 1 .. n PROVE \E s \in 1 .. 4 : IsGroup(src, group(g), s, L - 4 * (n - g))
  <2>1. CASE g = 1
    <3>1. \A i \in 1 .. w : i \in 1 .. L
      BY <1>2, <1>3
    <3>2. PICK y : y = SubSeq(src, 1, w)
      OBVIOUS
    <3>3. y \in Seq(Int) /\ Len(y) = w /\ \A i \in 1 .. w : y[i] = src[i]
      <4>1. w \in 0 .. Len(src)
        BY <1>1, <1>2, <1>3
      <4>. QED
        BY <3>2, <4>1, BeginningFacts
    <3>4. PICK e \in Nat : e = L - 4 * (n - g) /\ e = w
      BY <1>3, <1>4, <2>1
    <3>5. w <= e /\ \A i \in 1 .. w : e - w + i = i
      BY <3>4
    <3>6. IsGroup(src, y, w, e)
      BY <3>3, <3>4, <3>5 DEF IsGroup
    <3>. QED
      BY <2>1, <3>2, <3>4, <3>6
  <2>2. CASE g # 1
    <3>1. PICK a \in Int, e \in Int : a = w + 4 * g - 7 /\ e = w + 4 * g - 4
      OBVIOUS
    <3>2. e = a + 3 /\ 1 <= a /\ e <= L
      BY <1>3, <1>4, <2>2, <3>1
    <3>3. \A i \in a .. e : src[i] \in Int
      BY <1>6, <3>2
    <3>4. PICK y : y = SubSeq(src, a, e)
      OBVIOUS
    <3>5. /\ y \in Seq(Int) /\ Len(y) = IF a <= e THEN e - a + 1 ELSE 0
          /\ \A i \in 1 .. e - a + 1 : y[i] = src[a + i - 1]
      <4>1. /\ SubSeq(src, a, e) \in Seq(Int) /\ Len(SubSeq(src, a, e)) = IF a <= e THEN e - a + 1 ELSE 0
            /\ \A i \in 1 .. e - a + 1 : SubSeq(src, a, e)[i] = src[a + i - 1]
        BY <3>3, SubSeqProperties
      <4>. QED
        BY <3>4, <4>1
    <3>6. e - a + 1 = 4 /\ a <= e /\ 4 <= e /\ \A i \in 1 .. 4 : a + i - 1 = e - 4 + i
      BY <3>2
    <3>7. IsGroup(src, y, 4, e)
      BY <3>5, <3>6 DEF IsGroup
    <3>8. e = L - 4 * (n - g) /\ 4 \in 1 .. 4
      BY <1>3, <1>4, <3>1
    <3>. QED
      BY <2>2, <3>1, <3>4, <3>7, <3>8
  <2>. QED
    BY <2>1, <2>2
<1>8. n \in Nat /\ n >= 1 /\ 4 * (n - 1) < L /\ L <= 4 * n
  BY <1>2, <1>3, <1>4
<1>. HIDE DEF group
<1>9. Len(Groups(src)) = n /\ DOMAIN Groups(src) = 1 .. n /\ \A g \in 1 .. n : Groups(src)[g] = group(g)
  <2>1. \A g \in 1 .. n : group(g) \in Seq(Int)
    BY <1>7 DEF IsGroup
  <2>. QED
    BY <1>5, <2>1, Sequence
<1>10. 4 * (n - 1) < Len(src) /\ Len(src) <= 4 * n
  BY <1>1, <1>8
<1>11. \A g \in 1 .. n : \E s \in 1 .. 4 : IsGroup(src, Groups(src)[g], s, Len(src) - 4 * (n - g))
  BY <1>1, <1>7, <1>9
<1>12. n \in Nat /\ n >= 1 /\ n = Len(Groups(src)) /\ DOMAIN Groups(src) = 1 .. n
  BY <1>8, <1>9
<1>. QED
  BY <1>10, <1>11, <1>12, Zenon

\* A group with its unit takes up to thirty bytes; a unit that the table does not
\* have is not looked up for an empty group.
LEMMA GroupTextFacts ==
    ASSUME NEW src \in Seq(Int), Len(src) <= 4, NEW keta \in Nat, keta <= 4 \/ Kanji4Digits(src) = <<>>
    PROVE  GroupText(src, keta) \in Seq(Int) /\ Len(GroupText(src, keta)) <= 30
<1>1. PICK t \in Seq(Int) : t = Kanji4Digits(src) /\ Len(t) <= 24
  BY Kanji4DigitsFacts
<1>2. CASE t = <<>>
  <2>1. GroupText(src, keta) = <<>>
    BY <1>1, <1>2 DEF GroupText
  <2>2. <<>> \in Seq(Int) /\ Len(<<>>) = 0
    OBVIOUS
  <2>. QED
    BY <2>1, <2>2
<1>3. CASE t # <<>>
  <2>1. keta + 1 \in 1 .. 5
    BY <1>1, <1>3
  <2>2. PICK u \in Seq(Int) : u = JapaneseKetaMan[keta + 1] /\ Len(u) <= 3
    BY <2>1, Characters
  <2>3. <<>> \in Seq(Int) /\ Len(<<>>) <= 3
    OBVIOUS
  <2>4. PICK o \in Seq(Int) : o = (IF t = Thousand /\ keta # 0 THEN KansujiDigit(1) ELSE <<>>) /\ Len(o) <= 3
    <3>1. KansujiDigit(1) \in Seq(Int) /\ Len(KansujiDigit(1)) = 3 /\ 3 <= 3
      BY Characters
    <3>2. PICK one \in Seq(Int) : one = KansujiDigit(1) /\ Len(one) <= 3
      BY <3>1
    <3>. QED
      BY <2>3, <3>2, Zenon
  <2>5. o \o t \o u \in Seq(Int) /\ Len(o \o t \o u) <= 30
    <3>1. o \o t \in Seq(Int) /\ Len(o \o t) <= 3 + 24
      BY <1>1, <2>4, Joined
    <3>2. PICK v \in Seq(Int) : v = o \o t /\ Len(v) <= 27
      <4>1. 3 + 24 = 27
        OBVIOUS
      <4>. QED
        BY <3>1, <4>1, Zenon
    <3>3. v \o u \in Seq(Int) /\ Len(v \o u) <= 27 + 3
      BY <2>2, <3>2, Joined
    <3>4. 27 + 3 = 30
      OBVIOUS
    <3>. QED
      BY <3>2, <3>3, <3>4, Zenon
  <2>6. GroupText(src, keta) = o \o t \o u
    BY <1>1, <1>3, <2>2, <2>4, Zenon DEF GroupText
  <2>. QED
    BY <2>5, <2>6
<1>. QED
  BY <1>2, <1>3

\* The text of type 3 for a number that does not leave the tables.
LEMMA Type3Text ==
    ASSUME NEW src \in Seq(Int), src # <<>>, NEW n \in Nat, n = Len(Groups(src)),
           \A g \in 1 .. n : n - g >= 5 => Kanji4Digits(Groups(src)[g]) = <<>>
    PROVE  LET text == FlattenSeq([g \in DOMAIN Groups(src) |->
                                     GroupText(Groups(src)[g], Len(Groups(src)) - g)])
           IN  text \in Seq(Int) /\ Len(text) <= 30 * n
<1>1. DOMAIN Groups(src) = 1 .. n /\ \A g \in 1 .. n : Groups(src)[g] \in Seq(Int) /\ Len(Groups(src)[g]) <= 4
  <2>1. \A g \in 1 .. n : \E s \in 1 .. 4 : IsGroup(src, Groups(src)[g], s, Len(src) - 4 * (n - g))
    BY GroupsFacts
  <2>2. \A s \in 1 .. 4 : s <= 4
    OBVIOUS
  <2>3. \A g \in 1 .. n : Groups(src)[g] \in Seq(Int) /\ Len(Groups(src)[g]) <= 4
    BY <2>1, <2>2, Zenon DEF IsGroup
  <2>. QED
    BY <2>3, GroupsFacts
<1>. DEFINE ps == [g \in 1 .. n |-> GroupText(Groups(src)[g], n - g)]
<1>2. ASSUME NEW g \in 1 .. n
      PROVE  GroupText(Groups(src)[g], n - g) \in Seq(Int) /\ Len(GroupText(Groups(src)[g], n - g)) <= 30
  <2>1. n - g \in Nat /\ (n - g <= 4 \/ n - g >= 5)
    OBVIOUS
  <2>2. PICK keta \in Nat : keta = n - g
    BY <2>1
  <2>3. keta <= 4 \/ Kanji4Digits(Groups(src)[g]) = <<>>
    BY <2>1, <2>2
  <2>4. PICK group \in Seq(Int) : group = Groups(src)[g] /\ Len(group) <= 4
    BY <1>1
  <2>5. GroupText(group, keta) \in Seq(Int) /\ Len(GroupText(group, keta)) <= 30
    BY <2>3, <2>4, GroupTextFacts
  <2>. QED
    BY <2>2, <2>4, <2>5
<1>3. ps \in [1 .. n -> TextUpTo(30)]
  BY <1>2 DEF TextUpTo
<1>4. FlattenSeq(ps) \in TextUpTo(30 * n)
  <2>. HIDE DEF ps
  <2>. QED
    BY <1>3, Pieces
<1>5. FlattenSeq(ps) \in Seq(Int) /\ Len(FlattenSeq(ps)) <= 30 * n
  <2>. HIDE DEF ps
  <2>. QED
    BY <1>4 DEF TextUpTo
<1>. QED
  BY <1>1, <1>5

\* What skk_num_exp may answer: a text that fits, an error, or what a table holds
\* behind its end.
Answers(num, type, size, a) ==
    /\ a.text \in Seq(Int)
    /\ a.code = "ok" /\ size > 0 => Len(a.text) + (IF type = 3 THEN 0 ELSE 1) <= size
    /\ a.code = "ok" /\ Len(num) <= 20 => Len(a.text) <= 150
    /\ a.code = "undefined" /\ AllDigits(num) =>
           \/ type = 10
           \/ /\ type = 3 /\ Len(num) \in 21 .. 24
              /\ \E i \in 1 .. Len(num) - 20 : num[i] # Code["0"]

\* An answer without a text.
LEMMA EmptyAnswers ==
    ASSUME NEW num, NEW type, NEW size \in Int
    PROVE  Answers(num, type, size, Failed) /\ (type = 10 => Answers(num, type, size, OutOfTable))
<1>1. <<>> \in Seq(Int)
  OBVIOUS
<1>. QED
  BY <1>1 DEF Answers, Failed, OutOfTable

\* Type 0, a copy.
LEMMA Type0Answers ==
    ASSUME NEW num \in Seq(Int), NEW size \in Int
    PROVE  Answers(num, 0, size, Type0(num, size))
<1>1. PICK n \in Nat : n = Len(num)
  OBVIOUS
<1>2. CASE n + 1 <= size
  <2>1. Type0(num, size) = [code |-> "ok", text |-> num]
    BY <1>1, <1>2 DEF Type0, Written
  <2>2. n <= 20 => n <= 150
    OBVIOUS
  <2>. QED
    BY <1>1, <1>2, <2>1, <2>2 DEF Answers
<1>3. CASE ~ (n + 1 <= size)
  <2>1. Type0(num, size) = Failed
    BY <1>1, <1>3 DEF Type0
  <2>. QED
    BY <2>1, EmptyAnswers
<1>. QED
  BY <1>2, <1>3

\* Type 1, with zenkaku digits.
LEMMA Type1Answers ==
    ASSUME NEW num \in Seq(Int), NEW size \in Int
    PROVE  Answers(num, 1, size, Type1(num, size))
<1>1. PICK n \in Nat : n = Len(num) /\ DOMAIN num = 1 .. n
  OBVIOUS
<1>. DEFINE piece(i) == IF IsDigit(num[i]) THEN ZenkakuDigit(Digit(num[i])) ELSE <<num[i]>>
            ps == [i \in 1 .. n |-> piece(i)]
            text == FlattenSeq(ps)
<1>2. Type1(num, size) = IF text # <<>> /\ Len(text) >= size THEN Failed ELSE [code |-> "ok", text |-> text]
  BY <1>1 DEF Type1, Written
<1>3. ASSUME NEW i \in 1 .. n PROVE piece(i) \in Seq(Int) /\ Len(piece(i)) <= 3
  <2>1. num[i] \in Int /\ Digit(num[i]) \in Int
    BY <1>1, AsciiAssumption DEF Digit
  <2>2. PICK c \in Int : c = num[i]
    BY <2>1
  <2>3. <<c>> \in Seq(Int) /\ Len(<<c>>) = 1 /\ 1 <= 3 /\ 3 <= 3
    OBVIOUS
  <2>4. <<num[i]>> \in Seq(Int) /\ Len(<<num[i]>>) <= 3
    BY <2>2, <2>3
  <2>5. ZenkakuDigit(Digit(num[i])) \in Seq(Int) /\ Len(ZenkakuDigit(Digit(num[i]))) <= 3
    BY <2>1, <2>3, Characters
  <2>. QED
    BY <2>4, <2>5, Zenon
<1>4. ps \in [1 .. n -> TextUpTo(3)]
  <2>. HIDE DEF piece
  <2>. QED
    BY <1>3 DEF TextUpTo
<1>. HIDE DEF ps
<1>5. text \in Seq(Int) /\ Len(text) <= 3 * n
  <2>1. text \in TextUpTo(3 * n)
    BY <1>4, Pieces
  <2>. QED
    BY <2>1 DEF TextUpTo
<1>. HIDE DEF text
<1>6. PICK l \in Nat : l = Len(text) /\ l <= 3 * n
  BY <1>5
<1>7. CASE text # <<>> /\ l >= size
  <2>1. Type1(num, size) = Failed
    BY <1>2, <1>6, <1>7
  <2>. QED
    BY <2>1, EmptyAnswers
<1>8. CASE ~ (text # <<>> /\ l >= size)
  <2>1. Type1(num, size) = [code |-> "ok", text |-> text]
    BY <1>2, <1>6, <1>8
  <2>2. size > 0 => l + 1 <= size
    <3>1. text = <<>> => l = 0
      BY <1>6, EmptySeq
    <3>. QED
      BY <1>8, <3>1
  <2>3. n <= 20 => l <= 150
    BY <1>6
  <2>. QED
    BY <1>1, <1>5, <1>6, <2>1, <2>2, <2>3 DEF Answers
<1>. QED
  BY <1>7, <1>8

\* Type 3, in kanji.
LEMMA Type3Answers ==
    ASSUME NEW num \in Seq(Int), NEW size \in Int
    PROVE  Answers(num, 3, size, Type3(num, size))
<1>. DEFINE n == Len(Groups(num))
            text == FlattenSeq([g \in DOMAIN Groups(num) |-> GroupText(Groups(num)[g], Len(Groups(num)) - g)])
            leaves == \E g \in DOMAIN Groups(num) :
                          n - g >= Len(JapaneseKetaMan) /\ Kanji4Digits(Groups(num)[g]) # <<>>
<1>1. Type3(num, size) =
          IF KetaRefused(num) THEN Failed
          ELSE IF ~ AllDigits(num) \/ leaves THEN OutOfTable
          ELSE IF text = <<>>
          THEN IF Len(KansujiDigit(0)) > size THEN Failed ELSE Written(KansujiDigit(0))
          ELSE IF Len(text) > size THEN Failed ELSE Written(text)
  BY Zenon DEF Type3
<1>2. CASE KetaRefused(num)
  BY <1>1, <1>2, EmptyAnswers
<1>3. CASE ~ KetaRefused(num)
  <2>1. num # <<>> /\ ~ (n - 1 > Len(JapaneseKetaMan))
    BY <1>3, Zenon DEF KetaRefused
  <2>2. PICK m \in Nat : /\ m = n /\ DOMAIN Groups(num) = 1 .. m
                         /\ m >= 1 /\ 4 * (m - 1) < Len(num) /\ Len(num) <= 4 * m
                         /\ \A g \in 1 .. m : \E s \in 1 .. 4 :
                                IsGroup(num, Groups(num)[g], s, Len(num) - 4 * (m - g))
    BY <2>1, GroupsFacts
  <2>3. m <= 6 /\ Len(JapaneseKetaMan) = 5
    BY <2>1, <2>2, Characters
  <2>4. PICK L \in Nat : L = Len(num)
    OBVIOUS
  <2>8. 4 * (m - 1) < L /\ L <= 4 * m
    BY <2>2, <2>4
  <2>9. \A g \in 1 .. m : \E s \in 1 .. 4 : IsGroup(num, Groups(num)[g], s, L - 4 * (m - g))
    BY <2>2, <2>4
  <2>. HIDE DEF n, leaves, text
  <2>5. CASE ~ AllDigits(num)
    <3>1. Type3(num, size) = OutOfTable
      BY <1>1, <1>3, <2>5
    <3>. QED
      BY <2>5, <3>1, EmptySeq DEF Answers, OutOfTable
  <2>6. CASE AllDigits(num) /\ leaves
    <3>1. Type3(num, size) = OutOfTable
      BY <1>1, <1>3, <2>6
    <3>2. PICK g \in 1 .. m : m - g >= 5 /\ Kanji4Digits(Groups(num)[g]) # <<>>
      BY <2>2, <2>3, <2>6 DEF leaves
    <3>3. g = 1 /\ m = 6
      BY <2>3, <3>2
    <3>4. L \in 21 .. 24
      BY <2>8, <3>3
    <3>5. PICK w \in 1 .. 4 : w = L - 20
      BY <3>4
    <3>6. PICK s : s = Groups(num)[g]
      OBVIOUS
    <3>7. s \in Seq(Int) /\ Len(s) = w /\ \A i \in 1 .. w : s[i] = num[i]
      <4>1. L - 4 * (m - g) = w
        BY <3>3, <3>5
      <4>2. PICK z \in 1 .. 4 : IsGroup(num, s, z, w)
        BY <2>9, <3>2, <3>6, <4>1
      <4>3. z = w /\ s \in Seq(Int) /\ Len(s) = z /\ \A i \in 1 .. z : s[i] = num[w - z + i]
        BY <4>2 DEF IsGroup
      <4>4. \A i \in 1 .. w : w - w + i = i
        OBVIOUS
      <4>. QED
        BY <4>3, <4>4
    <3>8. \E i \in 1 .. w : num[i] # Code["0"]
      <4>1. Len(s) <= 4 /\ Kanji4Digits(s) # <<>>
        <5>1. w <= 4
          OBVIOUS
        <5>. QED
          BY <3>2, <3>6, <3>7, <5>1, Zenon
      <4>2. \E i \in 1 .. Len(s) : s[i] # Code["0"]
        BY <3>7, <4>1, Kanji4DigitsFacts
      <4>. QED
        BY <3>7, <4>2
    <3>9. Len(num) \in 21 .. 24 /\ \E i \in 1 .. Len(num) - 20 : num[i] # Code["0"]
      BY <2>4, <3>4, <3>5, <3>8
    <3>10. Type3(num, size).text = <<>> /\ Type3(num, size).code = "undefined" /\ <<>> \in Seq(Int)
      BY <3>1 DEF OutOfTable
    <3>. QED
      BY <3>9, <3>10 DEF Answers
  <2>7. CASE AllDigits(num) /\ ~ leaves
    <3>1. text \in Seq(Int) /\ Len(text) <= 30 * m
      <4>1. \A g \in 1 .. m : m - g >= 5 => Kanji4Digits(Groups(num)[g]) = <<>>
        BY <2>2, <2>3, <2>7 DEF leaves
      <4>. QED
        BY <2>1, <2>2, <4>1, Type3Text DEF n, text
    <3>2. L <= 20 => m <= 5
      BY <2>8
    <3>3. PICK t \in Seq(Int) : /\ t = IF text = <<>> THEN KansujiDigit(0) ELSE text
                                /\ L <= 20 => Len(t) <= 150
      <4>1. L <= 20 => Len(text) <= 150
        BY <3>1, <3>2
      <4>2. PICK zero \in Seq(Int) : zero = KansujiDigit(0) /\ Len(zero) <= 150
        <5>1. KansujiDigit(0) \in Seq(Int) /\ Len(KansujiDigit(0)) = 3 /\ 3 <= 150
          BY Characters
        <5>. QED
          BY <5>1
      <4>. QED
        BY <3>1, <4>1, <4>2, Zenon
    <3>4. Type3(num, size) = IF Len(t) > size THEN Failed ELSE [code |-> "ok", text |-> t]
      BY <1>1, <1>3, <2>7, <3>3, Zenon DEF Written
    <3>5. CASE Len(t) > size
      BY <3>4, <3>5, EmptyAnswers
    <3>6. CASE ~ (Len(t) > size)
      <4>1. Type3(num, size) = [code |-> "ok", text |-> t]
        BY <3>4, <3>6
      <4>2. PICK l \in Nat : l = Len(t) /\ l <= size
        BY <3>6
      <4>. QED
        BY <2>4, <3>3, <4>1, <4>2 DEF Answers
    <3>. QED
      BY <3>5, <3>6
  <2>. QED
    BY <2>5, <2>6, <2>7
<1>. QED
  BY <1>2, <1>3

\* Every type.
LEMMA SkkNumExpAnswers ==
    ASSUME NEW num \in Seq(Int), NEW type, NEW size \in Int
    PROVE  Answers(num, type, size, SkkNumExp(num, type, size))
<1>1. CASE type = 0
  <2>1. SkkNumExp(num, 0, size) = Type0(num, size)
    BY DEF SkkNumExp, SkkNumTypes
  <2>. QED
    BY <1>1, <2>1, Type0Answers
<1>2. CASE type = 1
  <2>1. SkkNumExp(num, 1, size) = Type1(num, size)
    BY DEF SkkNumExp, SkkNumTypes
  <2>. QED
    BY <1>2, <2>1, Type1Answers
<1>3. CASE type = 3
  <2>1. SkkNumExp(num, 3, size) = Type3(num, size)
    BY DEF SkkNumExp, SkkNumTypes
  <2>. QED
    BY <1>3, <2>1, Type3Answers
<1>4. CASE type = 10
  <2>1. SkkNumExp(num, 10, size) = OutOfTable
    BY DEF SkkNumExp, SkkNumTypes
  <2>. QED
    BY <1>4, <2>1, EmptyAnswers
<1>5. CASE type \notin {0, 1, 3, 10}
  <2>1. SkkNumExp(num, type, size) = Failed
    BY <1>5 DEF SkkNumExp, SkkNumTypes
  <2>. QED
    BY <2>1, EmptyAnswers
<1>. QED
  BY <1>1, <1>2, <1>3, <1>4, <1>5
-----------------------------------------------------------------------------
(* The letters of a numeral                                                  *)

\* The letters of a numeral by their numbers: the digits 11 .. 20, then ten,
\* hundred and thousand, then the myriads.  w are the letters of the text t.
Spells(t, w) ==
    /\ t \in Seq(Int) /\ w \in Seq(11 .. 28) /\ Len(t) = 3 * Len(w)
    /\ \A i \in 1 .. Len(w) : t[3 * i - 2] = -w[i] /\ t[3 * i - 1] = -128 /\ t[3 * i] = -128

\* The letters of nothing and of one character.
LEMMA SpelledLetter == Spells(<<>>, <<>>) /\ \A c \in 11 .. 28 : Spells(Utf8(c), <<c>>)
<1>1. Spells(<<>>, <<>>)
  BY DEF Spells
<1>2. ASSUME NEW c \in 11 .. 28 PROVE Spells(Utf8(c), <<c>>)
  <2>1. Utf8(c) \in Seq(Int) /\ Len(Utf8(c)) = 3
    BY Characters
  <2>2. <<c>> \in Seq(11 .. 28) /\ Len(<<c>>) = 1 /\ <<c>>[1] = c
    OBVIOUS
  <2>3. Utf8(c)[1] = -c /\ Utf8(c)[2] = -128 /\ Utf8(c)[3] = -128
    BY DEF Utf8
  <2>4. \A i \in 1 .. 1 : i = 1 /\ 3 * i - 2 = 1 /\ 3 * i - 1 = 2 /\ 3 * i = 3
    OBVIOUS
  <2>. QED
    BY <2>1, <2>2, <2>3, <2>4 DEF Spells
<1>. QED
  BY <1>1, <1>2

\* Two texts, one behind the other.
LEMMA SpelledJoined ==
    ASSUME NEW s, NEW t, NEW v, NEW w, Spells(s, v), Spells(t, w)
    PROVE  Spells(s \o t, v \o w)
<1>1. PICK m \in Nat, n \in Nat : m = Len(v) /\ n = Len(w)
  BY DEF Spells
<1>2. /\ s \in Seq(Int) /\ t \in Seq(Int) /\ v \in Seq(11 .. 28) /\ w \in Seq(11 .. 28)
      /\ Len(s) = 3 * m /\ Len(t) = 3 * n
  BY <1>1 DEF Spells
<1>3. /\ s \o t \in Seq(Int) /\ Len(s \o t) = 3 * m + 3 * n
      /\ \A i \in 1 .. 3 * m + 3 * n : (s \o t)[i] = IF i <= 3 * m THEN s[i] ELSE t[i - 3 * m]
  <2>1. PICK x \in Nat, y \in Nat : x = 3 * m /\ y = 3 * n
    OBVIOUS
  <2>2. /\ s \o t \in Seq(Int) /\ Len(s \o t) = x + y
        /\ \A i \in 1 .. x + y : (s \o t)[i] = IF i <= x THEN s[i] ELSE t[i - x]
    <3>1. s \in Seq(Int) /\ t \in Seq(Int)
      BY <1>2
    <3>2. Len(s) = x /\ Len(t) = y
      BY <1>2, <2>1
    <3>3. /\ s \o t \in Seq(Int) /\ Len(s \o t) = Len(s) + Len(t)
          /\ \A i \in 1 .. Len(s) + Len(t) : (s \o t)[i] = IF i <= Len(s) THEN s[i] ELSE t[i - Len(s)]
      BY <3>1, ConcatProperties
    <3>. QED
      BY <3>2, <3>3
  <2>. QED
    BY <2>1, <2>2
<1>4. /\ v \o w \in Seq(11 .. 28) /\ Len(v \o w) = m + n
      /\ \A i \in 1 .. m + n : (v \o w)[i] = IF i <= m THEN v[i] ELSE w[i - m]
  BY <1>1, <1>2
<1>5. 3 * m + 3 * n = 3 * (m + n)
  OBVIOUS
<1>6. ASSUME NEW i \in 1 .. m + n
      PROVE  /\ (s \o t)[3 * i - 2] = -(v \o w)[i] /\ (s \o t)[3 * i - 1] = -128 /\ (s \o t)[3 * i] = -128
  <2>1. CASE i <= m
    <3>1. i \in 1 .. m /\ (v \o w)[i] = v[i]
      BY <1>4, <2>1
    <3>2. \A j \in {3 * i - 2, 3 * i - 1, 3 * i} : j \in 1 .. 3 * m + 3 * n /\ j <= 3 * m
      BY <2>1
    <3>3. \A j \in {3 * i - 2, 3 * i - 1, 3 * i} : (s \o t)[j] = s[j]
      BY <1>3, <3>2
    <3>4. s[3 * i - 2] = -v[i] /\ s[3 * i - 1] = -128 /\ s[3 * i] = -128
      BY <1>1, <3>1 DEF Spells
    <3>. QED
      BY <3>1, <3>3, <3>4
  <2>2. CASE ~ (i <= m)
    <3>1. PICK k \in 1 .. n : k = i - m
      BY <2>2
    <3>2. (v \o w)[i] = w[k]
      BY <1>4, <2>2, <3>1
    <3>3. \A j \in {3 * i - 2, 3 * i - 1, 3 * i} : j \in 1 .. 3 * m + 3 * n /\ ~ (j <= 3 * m)
      BY <2>2
    <3>4. \A j \in {3 * i - 2, 3 * i - 1, 3 * i} : (s \o t)[j] = t[j - 3 * m]
      BY <1>3, <3>3
    <3>5. (3 * i - 2) - 3 * m = 3 * k - 2 /\ (3 * i - 1) - 3 * m = 3 * k - 1 /\ 3 * i - 3 * m = 3 * k
      BY <3>1
    <3>6. t[3 * k - 2] = -w[k] /\ t[3 * k - 1] = -128 /\ t[3 * k] = -128
      BY <1>1 DEF Spells
    <3>7. (s \o t)[3 * i - 2] = t[3 * k - 2] /\ (s \o t)[3 * i - 1] = t[3 * k - 1] /\ (s \o t)[3 * i] = t[3 * k]
      BY <3>4, <3>5
    <3>. QED
      BY <3>2, <3>6, <3>7
  <2>. QED
    BY <2>1, <2>2
<1>. QED
  BY <1>3, <1>4, <1>5, <1>6 DEF Spells

\* The letters of a text are those it is spelled with.
LEMMA SpelledLetters ==
    ASSUME NEW t, NEW w, Spells(t, w)
    PROVE  /\ w \in Seq(11 .. 28) /\ Len(Letters(t)) = Len(w) /\ DOMAIN Letters(t) = 1 .. Len(w)
           /\ Letters(t) \in Seq(Seq(Int)) /\ \A i \in 1 .. Len(w) : Letters(t)[i] = Utf8(w[i])
<1>1. PICK n \in Nat : n = Len(w)
  BY DEF Spells
<1>2. t \in Seq(Int) /\ Len(t) = 3 * n /\ w \in Seq(11 .. 28)
  BY <1>1 DEF Spells
<1>3. (3 * n) \div 3 = n
  OBVIOUS
<1>4. Letters(t) = [i \in 1 .. n |-> SubSeq(t, 3 * i - 2, 3 * i)]
  BY <1>2, <1>3 DEF Letters
<1>5. ASSUME NEW i \in 1 .. n PROVE SubSeq(t, 3 * i - 2, 3 * i) = Utf8(w[i])
  <2>1. PICK a \in Int, b \in Int : a = 3 * i - 2 /\ b = 3 * i /\ b = a + 2 /\ a + 1 = 3 * i - 1
    OBVIOUS
  <2>2. \A j \in a .. b : j \in 1 .. 3 * n
    BY <2>1
  <2>3. \A j \in a .. b : t[j] \in Int
    BY <1>2, <2>2, ElementOfSeq
  <2>4. /\ SubSeq(t, a, b) \in Seq(Int) /\ Len(SubSeq(t, a, b)) = IF a <= b THEN b - a + 1 ELSE 0
        /\ \A j \in 1 .. b - a + 1 : SubSeq(t, a, b)[j] = t[a + j - 1]
    BY <2>3, SubSeqProperties
  <2>5. Len(SubSeq(t, a, b)) = 3
    BY <2>1, <2>4
  <2>6. t[a] = -w[i] /\ t[a + 1] = -128 /\ t[b] = -128
    BY <1>1, <2>1 DEF Spells
  <2>7. 1 \in 1 .. b - a + 1 /\ 2 \in 1 .. b - a + 1 /\ 3 \in 1 .. b - a + 1
        /\ a + 1 - 1 = a /\ a + 2 - 1 = a + 1 /\ a + 3 - 1 = b
    BY <2>1
  <2>8. SubSeq(t, a, b)[1] = -w[i] /\ SubSeq(t, a, b)[2] = -128 /\ SubSeq(t, a, b)[3] = -128
    BY <2>4, <2>6, <2>7
  <2>9. PICK c \in Int : c = -w[i]
    <3>1. w[i] \in 11 .. 28
      BY <1>1, <1>2, ElementOfSeq
    <3>. QED
      BY <3>1
  <2>10. <<c, -128, -128>> \in Seq(Int) /\ Len(<<c, -128, -128>>) = 3
         /\ <<c, -128, -128>>[1] = c /\ <<c, -128, -128>>[2] = -128 /\ <<c, -128, -128>>[3] = -128
    OBVIOUS
  <2>11. \A j \in 1 .. 3 : j = 1 \/ j = 2 \/ j = 3
    OBVIOUS
  <2>12. SubSeq(t, a, b) = <<c, -128, -128>>
    <3>1. PICK p : p = SubSeq(t, a, b)
      OBVIOUS
    <3>2. PICK q : q = <<c, -128, -128>>
      OBVIOUS
    <3>3. /\ p \in Seq(Int) /\ q \in Seq(Int) /\ Len(p) = 3 /\ Len(q) = 3
          /\ \A j \in 1 .. 3 : p[j] = q[j]
      BY <2>4, <2>5, <2>8, <2>9, <2>10, <2>11, <3>1, <3>2
    <3>4. p = q
      BY <3>3, SeqEqual
    <3>. QED
      BY <3>1, <3>2, <3>4
  <2>. QED
    BY <2>1, <2>9, <2>12 DEF Utf8
<1>6. \A i \in 1 .. n : Letters(t)[i] = Utf8(w[i])
  BY <1>4, <1>5
<1>7. Letters(t) \in Seq(Seq(Int)) /\ Len(Letters(t)) = n
  <2>1. \A i \in 1 .. n : w[i] \in Int
    <3>1. \A i \in 1 .. n : w[i] \in 11 .. 28
      BY <1>1, <1>2, ElementOfSeq
    <3>. QED
      BY <3>1
  <2>2. \A i \in 1 .. n : SubSeq(t, 3 * i - 2, 3 * i) \in Seq(Int)
    BY <1>5, <2>1, Characters
  <2>3. Letters(t) \in [1 .. n -> Seq(Int)]
    BY <1>4, <2>2
  <2>. QED
    BY <2>3, Sequence
<1>. QED
  BY <1>1, <1>2, <1>4, <1>6, <1>7

\* Which letters the tables hold; no two of them are the same.
LEMMA LetterNumbers ==
    /\ \A m, n \in Int : Utf8(m) = Utf8(n) <=> m = n
    /\ \A d \in Int : KansujiDigit(d) = Utf8(11 + d)
    /\ JapaneseKeta4[1] = <<>> /\ \A u \in 1 .. 3 : JapaneseKeta4[u + 1] = Utf8(21 + u)
    /\ JapaneseKetaMan[1] = <<>> /\ \A k \in 1 .. 4 : JapaneseKetaMan[k + 1] = Utf8(24 + k)
    /\ Thousand = Utf8(24)
<1>1. ASSUME NEW m \in Int, NEW n \in Int, Utf8(m) = Utf8(n) PROVE m = n
  <2>1. Utf8(m)[1] = -m /\ Utf8(n)[1] = -n
    BY DEF Utf8
  <2>. QED
    BY <1>1, <2>1
<1>2. \A d \in Int : KansujiDigit(d) = Utf8(11 + d)
  BY DEF KansujiDigit
<1>3. \A u \in 1 .. 3 : u = 1 \/ u = 2 \/ u = 3
  OBVIOUS
<1>4. JapaneseKeta4[1] = <<>> /\ \A u \in 1 .. 3 : JapaneseKeta4[u + 1] = Utf8(21 + u)
  BY <1>3 DEF JapaneseKeta4, Thousand
<1>5. \A k \in 1 .. 4 : k = 1 \/ k = 2 \/ k = 3 \/ k = 4
  OBVIOUS
<1>6. JapaneseKetaMan[1] = <<>> /\ \A k \in 1 .. 4 : JapaneseKetaMan[k + 1] = Utf8(24 + k)
  BY <1>5 DEF JapaneseKetaMan
<1>. QED
  BY <1>1, <1>2, <1>4, <1>6 DEF Thousand

-----------------------------------------------------------------------------
(* Reading a numeral                                                         *)

\* Reading the letters w leads from the state s to the state z.
Reads(s, w, z) ==
    \E f : /\ f[0] = s /\ f[Len(w)] = z
           /\ \A i \in 1 .. Len(w) : f[i] = ReadLetter(f[i - 1], Utf8(w[i]))

\* Reading nothing, and one letter.
LEMMA ReadOne ==
    /\ \A s, z : Reads(s, <<>>, z) <=> z = s
    /\ \A s, z : \A c \in 11 .. 28 : Reads(s, <<c>>, z) <=> z = ReadLetter(s, Utf8(c))
<1>1. ASSUME NEW s, NEW z PROVE Reads(s, <<>>, z) <=> z = s
  <2>1. Len(<<>>) = 0
    OBVIOUS
  <2>2. ASSUME z = s PROVE Reads(s, <<>>, z)
    <3>1. PICK f : f = [i \in {0} |-> s]
      OBVIOUS
    <3>2. f[0] = s /\ \A i \in 1 .. 0 : f[i] = ReadLetter(f[i - 1], Utf8(<<>>[i]))
      BY <3>1
    <3>. QED
      BY <2>1, <2>2, <3>2, Zenon DEF Reads
  <2>3. ASSUME Reads(s, <<>>, z) PROVE z = s
    BY <2>1, <2>3, Zenon DEF Reads
  <2>. QED
    BY <2>2, <2>3
<1>2. ASSUME NEW s, NEW z, NEW c \in 11 .. 28 PROVE Reads(s, <<c>>, z) <=> z = ReadLetter(s, Utf8(c))
  <2>1. Len(<<c>>) = 1 /\ <<c>>[1] = c /\ 1 - 1 = 0 /\ 1 \in 1 .. 1 /\ \A i \in 1 .. 1 : i = 1
    OBVIOUS
  <2>2. ASSUME z = ReadLetter(s, Utf8(c)) PROVE Reads(s, <<c>>, z)
    <3>1. PICK f : f = [i \in {0, 1} |-> IF i = 0 THEN s ELSE z]
      OBVIOUS
    <3>2. f[0] = s /\ f[1] = z
      BY <3>1
    <3>. QED
      BY <2>1, <2>2, <3>2, Zenon DEF Reads
  <2>3. ASSUME Reads(s, <<c>>, z) PROVE z = ReadLetter(s, Utf8(c))
    BY <2>1, <2>3, Zenon DEF Reads
  <2>. QED
    BY <2>2, <2>3
<1>. QED
  BY <1>1, <1>2

\* Reading on.
LEMMA ReadJoined ==
    ASSUME NEW v \in Seq(11 .. 28), NEW w \in Seq(11 .. 28),
           NEW s, NEW x, NEW z, Reads(s, v, x), Reads(x, w, z)
    PROVE  Reads(s, v \o w, z)
<1>1. PICK m \in Nat, n \in Nat : m = Len(v) /\ n = Len(w)
  OBVIOUS
<1>2. /\ Len(v \o w) = m + n
      /\ \A i \in 1 .. m + n : (v \o w)[i] = IF i <= m THEN v[i] ELSE w[i - m]
  <2>1. /\ Len(v \o w) = Len(v) + Len(w)
        /\ \A i \in 1 .. Len(v) + Len(w) : (v \o w)[i] = IF i <= Len(v) THEN v[i] ELSE w[i - Len(v)]
    BY ConcatProperties
  <2>. QED
    BY <1>1, <2>1
<1>3. PICK f : /\ f[0] = s /\ f[m] = x
               /\ \A i \in 1 .. m : f[i] = ReadLetter(f[i - 1], Utf8(v[i]))
  BY <1>1, Zenon DEF Reads
<1>4. PICK h : /\ h[0] = x /\ h[n] = z
               /\ \A i \in 1 .. n : h[i] = ReadLetter(h[i - 1], Utf8(w[i]))
  BY <1>1, Zenon DEF Reads
<1>5. PICK g : g = [i \in 0 .. m + n |-> IF i <= m THEN f[i] ELSE h[i - m]]
  OBVIOUS
<1>6. \A i \in 0 .. m + n : g[i] = IF i <= m THEN f[i] ELSE h[i - m]
  BY <1>5
<1>7. g[0] = s
  BY <1>3, <1>6
<1>8. g[m + n] = z
  <2>1. CASE n = 0
    BY <1>3, <1>4, <1>6, <2>1
  <2>2. CASE n # 0
    <3>1. m + n \in 0 .. m + n /\ ~ (m + n <= m) /\ (m + n) - m = n
      BY <2>2
    <3>. QED
      BY <1>4, <1>6, <3>1
  <2>. QED
    BY <2>1, <2>2
<1>9. ASSUME NEW i \in 1 .. m + n PROVE g[i] = ReadLetter(g[i - 1], Utf8((v \o w)[i]))
  <2>1. i \in 0 .. m + n /\ i - 1 \in 0 .. m + n
    OBVIOUS
  <2>2. CASE i <= m
    <3>1. i \in 1 .. m /\ i - 1 <= m
      BY <2>2
    <3>2. g[i] = f[i] /\ g[i - 1] = f[i - 1] /\ (v \o w)[i] = v[i]
      BY <1>2, <1>6, <2>1, <2>2, <3>1
    <3>. QED
      BY <1>3, <3>1, <3>2, Zenon
  <2>3. CASE ~ (i <= m)
    <3>1. PICK k \in 1 .. n : k = i - m /\ (i - 1) - m = k - 1
      BY <2>3
    <3>2. g[i] = h[k] /\ (v \o w)[i] = w[k]
      BY <1>2, <1>6, <2>1, <2>3, <3>1
    <3>3. g[i - 1] = h[k - 1]
      <4>1. CASE i - 1 = m
        <5>1. k - 1 = 0
          BY <3>1, <4>1
        <5>2. g[i - 1] = f[m]
          BY <1>6, <2>1, <4>1
        <5>. QED
          BY <1>3, <1>4, <5>1, <5>2, Zenon
      <4>2. CASE i - 1 # m
        <5>1. ~ (i - 1 <= m)
          BY <2>3, <4>2
        <5>. QED
          BY <1>6, <2>1, <3>1, <5>1
      <4>. QED
        BY <4>1, <4>2
    <3>. QED
      BY <1>4, <3>2, <3>3, Zenon
  <2>. QED
    BY <2>2, <2>3
<1>. QED
  BY <1>2, <1>7, <1>8, <1>9, Zenon DEF Reads

\* What ReadKanji comes to at the end of the letters.
LEMMA ReadIsFold ==
    ASSUME NEW t, NEW w, Spells(t, w), NEW z, Reads(ReadStart, w, z)
    PROVE  FoldStep(ReadLetter, ReadStart, Letters(t)) = z
<1>1. PICK L \in Nat : L = Len(w)
  BY DEF Spells
<1>2. PICK u : u = Letters(t)
  OBVIOUS
<1>3. Len(u) = L /\ \A i \in 1 .. L : u[i] = Utf8(w[i])
  BY <1>1, <1>2, SpelledLetters
<1>. DEFINE Body(f, n) == IF n = 0 THEN ReadStart ELSE With(f[n - 1], LAMBDA v : ReadLetter(v, u[n]))
            C == CHOOSE f : f = [n \in 0 .. L |-> Body(f, n)]
<1>4. FoldStep(ReadLetter, ReadStart, u) = C[L]
  BY <1>3, Zenon DEF FoldStep
<1>5. \A f, n : Body(f, n) = IF n = 0 THEN ReadStart ELSE ReadLetter(f[n - 1], u[n])
  BY DEF With
<1>. HIDE DEF Body
<1>6. PICK f : /\ f[0] = ReadStart /\ f[L] = z
               /\ \A i \in 1 .. L : f[i] = ReadLetter(f[i - 1], u[i])
  BY <1>1, <1>3, Zenon DEF Reads
<1>7. \A n \in 0 .. L : n = 0 \/ (n \in 1 .. L /\ n # 0 /\ n - 1 \in 0 .. L)
  OBVIOUS
<1>8. \A n \in 0 .. L : f[n] = Body(f, n)
  BY <1>5, <1>6, <1>7, Zenon
<1>9. C = [n \in 0 .. L |-> Body(C, n)]
  <2>1. PICK g : g = [n \in 0 .. L |-> f[n]]
    OBVIOUS
  <2>2. \A n \in 0 .. L : g[n] = f[n]
    BY <2>1
  <2>3. \A n \in 0 .. L : Body(g, n) = Body(f, n)
    BY <1>5, <1>7, <2>2, Zenon
  <2>4. g = [n \in 0 .. L |-> Body(g, n)]
    BY <1>8, <2>1, <2>3
  <2>. QED
    BY <2>4, Zenon
<1>. HIDE DEF C
<1>10. \A n \in 0 .. L : C[n] = Body(C, n)
  BY <1>9
<1>. DEFINE T == {n \in Nat : \A i \in 0 .. L : i = n => C[i] = f[i]}
<1>11. 0 \in T
  <2>1. 0 \in 0 .. L
    OBVIOUS
  <2>2. C[0] = f[0]
    BY <1>5, <1>6, <1>10, <2>1, Zenon
  <2>. QED
    BY <2>2
<1>12. ASSUME NEW n \in Nat, n \in T PROVE n + 1 \in T
  <2>. SUFFICES ASSUME NEW i \in 0 .. L, i = n + 1 PROVE C[i] = f[i]
    OBVIOUS
  <2>1. i \in 1 .. L /\ i - 1 \in 0 .. L /\ i - 1 = n /\ i # 0
    OBVIOUS
  <2>2. C[i - 1] = f[i - 1]
    BY <1>12, <2>1
  <2>. QED
    BY <1>5, <1>6, <1>10, <2>1, <2>2, Zenon
<1>13. L \in T
  <2>. HIDE DEF T
  <2>. QED
    BY <1>11, <1>12, Induction
<1>14. C[L] = z
  BY <1>6, <1>13
<1>. QED
  BY <1>2, <1>4, <1>14, Zenon

\* The states of the reader: the digit that waits or -1, the sum of the group and
\* the groups that were read.
State(e, x, r) == [digit |-> e, sum |-> x, read |-> r]
Counts == [0 .. 4 -> Int]

\* What a waiting digit is worth before a unit, and at the end of its group.
Factor(e) == IF e = -1 THEN 1 ELSE e
Rest(e) == IF e = -1 THEN 0 ELSE e

\* d tens, hundreds or thousands.
Weight(d, u) == IF u = 1 THEN 10 * d ELSE IF u = 2 THEN 100 * d ELSE 1000 * d

\* How the reader takes a digit, a unit and a myriad.
LEMMA ReadSteps ==
    ASSUME NEW e \in -1 .. 9, NEW x \in Int, NEW r \in Counts
    PROVE  /\ \A d \in 0 .. 9 : ReadLetter(State(e, x, r), Utf8(11 + d)) = State(d, x, r)
           /\ \A u \in 1 .. 3 : ReadLetter(State(e, x, r), Utf8(21 + u)) = State(-1, x + Weight(Factor(e), u), r)
           /\ \A k \in 1 .. 4 : ReadLetter(State(e, x, r), Utf8(24 + k))
                                    = State(-1, 0, [r EXCEPT ![k] = x + Rest(e)])
<1>. DEFINE s == State(e, x, r)
<1>1. s.digit = e /\ s.sum = x /\ s.read = r /\ s \in [digit : -1 .. 9, sum : Int, read : Counts]
  BY DEF State
<1>2. \A c \in Int : (\E d \in Digits : Utf8(c) = KansujiDigit(d)) <=> c \in 11 .. 20
  <2>1. \A c \in Int, d \in Digits : Utf8(c) = KansujiDigit(d) <=> c = 11 + d
    <3>1. \A d \in Digits : d \in Int /\ 11 + d \in Int
      BY DEF Digits
    <3>. QED
      BY <3>1, LetterNumbers
  <2>2. \A c \in Int : (\E d \in 0 .. 9 : c = 11 + d) <=> c \in 11 .. 20
    <3>1. \A c \in 11 .. 20 : c - 11 \in 0 .. 9 /\ c = 11 + (c - 11)
      OBVIOUS
    <3>. QED
      BY <3>1
  <2>. QED
    BY <2>1, <2>2 DEF Digits
<1>3. \A c \in Int : (\E u \in 1 .. 3 : Utf8(c) = JapaneseKeta4[u + 1]) <=> c \in 22 .. 24
  <2>1. \A c \in Int, u \in 1 .. 3 : Utf8(c) = JapaneseKeta4[u + 1] <=> c = 21 + u
    <3>1. \A u \in 1 .. 3 : 21 + u \in Int
      OBVIOUS
    <3>. QED
      BY <3>1, LetterNumbers
  <2>2. \A c \in Int : (\E u \in 1 .. 3 : c = 21 + u) <=> c \in 22 .. 24
    <3>1. \A c \in 22 .. 24 : c - 21 \in 1 .. 3 /\ c = 21 + (c - 21)
      OBVIOUS
    <3>. QED
      BY <3>1
  <2>. QED
    BY <2>1, <2>2
<1>4. ASSUME NEW d \in 0 .. 9 PROVE ReadLetter(s, Utf8(11 + d)) = State(d, x, r)
  <2>1. PICK c \in Int : c = 11 + d
    OBVIOUS
  <2>2. \A a \in Digits : Utf8(c) = KansujiDigit(a) <=> a = d
    <3>1. \A a \in Digits : a \in Int /\ 11 + a \in Int /\ (c = 11 + a <=> a = d)
      BY <2>1 DEF Digits
    <3>2. \A a \in Int : KansujiDigit(a) = Utf8(11 + a)
      BY LetterNumbers
    <3>3. \A b \in Int : Utf8(c) = Utf8(b) <=> c = b
      BY LetterNumbers
    <3>. QED
      BY <3>1, <3>2, <3>3, Zenon
  <2>3. (CHOOSE a \in Digits : Utf8(c) = KansujiDigit(a)) = d
    BY <2>2 DEF Digits
  <2>4. \E a \in Digits : Utf8(c) = KansujiDigit(a)
    BY <2>2 DEF Digits
  <2>5. ReadLetter(s, Utf8(c)) = [s EXCEPT !.digit = d]
    <3>. HIDE DEF s
    <3>. QED
      BY <2>3, <2>4, Zenon DEF ReadLetter
  <2>6. [s EXCEPT !.digit = d] = State(d, x, r)
    BY DEF State
  <2>. QED
    BY <2>1, <2>5, <2>6
<1>5. ASSUME NEW u \in 1 .. 3
      PROVE  ReadLetter(s, Utf8(21 + u)) = State(-1, x + Weight(Factor(e), u), r)
  <2>1. PICK c \in Int : c = 21 + u /\ c \notin 11 .. 20 /\ c \in 22 .. 24
    OBVIOUS
  <2>2. \A a \in 1 .. 3 : Utf8(c) = JapaneseKeta4[a + 1] <=> a = u
    <3>1. \A a \in 1 .. 3 : 21 + a \in Int /\ (c = 21 + a <=> a = u)
      BY <2>1
    <3>2. \A a \in 1 .. 3 : JapaneseKeta4[a + 1] = Utf8(21 + a)
      BY LetterNumbers
    <3>3. \A b \in Int : Utf8(c) = Utf8(b) <=> c = b
      BY LetterNumbers
    <3>. QED
      BY <3>1, <3>2, <3>3, Zenon
  <2>3. (CHOOSE a \in 1 .. 3 : Utf8(c) = JapaneseKeta4[a + 1]) = u
    BY <2>2
  <2>4. /\ ~ \E a \in Digits : Utf8(c) = KansujiDigit(a)
        /\ \E a \in 1 .. 3 : Utf8(c) = JapaneseKeta4[a + 1]
    BY <1>2, <1>3, <2>1
  <2>5. PICK y \in Int : y = Factor(e)
    BY DEF Factor
  <2>6. ReadLetter(s, Utf8(c)) = [digit |-> -1, read |-> r, sum |-> x + y * UnitValue[u]]
    <3>1. (IF s.digit = -1 THEN 1 ELSE s.digit) = y /\ s.read = r /\ s.sum = x
      BY <1>1, <2>5 DEF Factor
    <3>. HIDE DEF s
    <3>. QED
      BY <2>3, <2>4, <3>1, Zenon DEF ReadLetter
  <2>7. PICK z \in Int : z = y * UnitValue[u] /\ z = Weight(y, u)
    <3>1. PICK p : p = UnitValue[u]
      OBVIOUS
    <3>2. UnitValue[1] = 10 /\ UnitValue[2] = 100 /\ UnitValue[3] = 1000
      BY DEF UnitValue
    <3>3. (u = 1 /\ p = 10) \/ (u = 2 /\ p = 100) \/ (u = 3 /\ p = 1000)
      <4>1. u = 1 \/ u = 2 \/ u = 3
        OBVIOUS
      <4>. QED
        BY <3>1, <3>2, <4>1
    <3>4. y * p = Weight(y, u) /\ y * p \in Int
      BY <3>3 DEF Weight
    <3>. QED
      BY <3>1, <3>4
  <2>. QED
    BY <2>1, <2>5, <2>6, <2>7 DEF State
<1>6. ASSUME NEW k \in 1 .. 4
      PROVE  ReadLetter(s, Utf8(24 + k)) = State(-1, 0, [r EXCEPT ![k] = x + Rest(e)])
  <2>1. PICK c \in Int : c = 24 + k /\ c \notin 11 .. 20 /\ c \notin 22 .. 24
    OBVIOUS
  <2>2. \A a \in 1 .. 4 : Utf8(c) = JapaneseKetaMan[a + 1] <=> a = k
    <3>1. \A a \in 1 .. 4 : 24 + a \in Int /\ (c = 24 + a <=> a = k)
      BY <2>1
    <3>2. \A a \in 1 .. 4 : JapaneseKetaMan[a + 1] = Utf8(24 + a)
      BY LetterNumbers
    <3>3. \A b \in Int : Utf8(c) = Utf8(b) <=> c = b
      BY LetterNumbers
    <3>. QED
      BY <3>1, <3>2, <3>3, Zenon
  <2>3. (CHOOSE a \in 1 .. 4 : Utf8(c) = JapaneseKetaMan[a + 1]) = k
    BY <2>2
  <2>4. /\ ~ \E a \in Digits : Utf8(c) = KansujiDigit(a)
        /\ ~ \E a \in 1 .. 3 : Utf8(c) = JapaneseKeta4[a + 1]
    BY <1>2, <1>3, <2>1
  <2>5. PICK y \in Int : y = Rest(e)
    BY DEF Rest
  <2>6. ReadLetter(s, Utf8(c)) = [digit |-> -1, sum |-> 0, read |-> [r EXCEPT ![k] = x + y]]
    <3>1. (IF s.digit = -1 THEN 0 ELSE s.digit) = y /\ s.read = r /\ s.sum = x
      BY <1>1, <2>5 DEF Rest
    <3>. HIDE DEF s
    <3>. QED
      BY <2>3, <2>4, <3>1, Zenon DEF ReadLetter
  <2>. QED
    BY <2>1, <2>5, <2>6 DEF State
<1>. QED
  BY <1>4, <1>5, <1>6

\* The letters that may stand anywhere in a group: the digits from two on and the
\* three units.
Plain == 13 .. 20 \cup 22 .. 24

\* The piece of a digit before a unit adds what the digit counts.
LEMMA UnitReads ==
    ASSUME NEW d \in 0 .. 9, NEW u \in 1 .. 3
    PROVE  LET piece == IF d = 0 THEN <<>>
                        ELSE (IF d = 1 THEN <<>> ELSE KansujiDigit(d)) \o JapaneseKeta4[u + 1]
           IN  \E w : /\ Spells(piece, w) /\ \A i \in 1 .. Len(w) : w[i] \in Plain
                      /\ \A x \in Int, r \in Counts :
                             Reads(State(-1, x, r), w, State(-1, x + Weight(d, u), r))
<1>1. PICK t : t = JapaneseKeta4[u + 1]
  OBVIOUS
<1>2. PICK c \in 11 .. 28 : c = 21 + u
  OBVIOUS
<1>3. Spells(t, <<c>>)
  BY <1>1, <1>2, SpelledLetter, LetterNumbers
<1>4. c \in Plain /\ <<c>> \in Seq(11 .. 28) /\ Len(<<c>>) = 1 /\ <<c>>[1] = c /\ \A i \in 1 .. 1 : i = 1
  BY <1>2 DEF Plain
<1>5. \A e \in -1 .. 9, x \in Int, r \in Counts :
          ReadLetter(State(e, x, r), Utf8(c)) = State(-1, x + Weight(Factor(e), u), r)
  BY <1>2, ReadSteps
<1>6. CASE d = 0
  <2>1. Spells(<<>>, <<>>) /\ Len(<<>>) = 0
    BY SpelledLetter
  <2>2. \A x \in Int, r \in Counts : Reads(State(-1, x, r), <<>>, State(-1, x + Weight(d, u), r))
    <3>1. \A x \in Int : x + Weight(d, u) = x
      BY <1>6 DEF Weight
    <3>. QED
      BY <3>1, ReadOne
  <2>3. \A i \in 1 .. Len(<<>>) : <<>>[i] \in Plain
    BY <2>1
  <2>. QED
    BY <1>6, <2>1, <2>2, <2>3, Zenon
<1>7. CASE d = 1
  <2>1. \A x \in Int, r \in Counts : Reads(State(-1, x, r), <<c>>, State(-1, x + Weight(d, u), r))
    <3>1. Factor(-1) = 1 /\ -1 \in -1 .. 9
      BY DEF Factor
    <3>2. \A x \in Int, r \in Counts : ReadLetter(State(-1, x, r), Utf8(c)) = State(-1, x + Weight(d, u), r)
      BY <1>5, <1>7, <3>1
    <3>. QED
      BY <3>2, ReadOne, Zenon
  <2>2. <<>> \o t = t
    BY <1>3 DEF Spells
  <2>3. \A i \in 1 .. Len(<<c>>) : <<c>>[i] \in Plain
    BY <1>4, Zenon
  <2>4. 1 # 0
    OBVIOUS
  <2>. QED
    BY <1>1, <1>3, <1>7, <2>1, <2>2, <2>3, <2>4, Zenon
<1>8. CASE d # 0 /\ d # 1
  <2>1. PICK b \in 11 .. 28 : b = 11 + d /\ b \in Plain
    BY <1>8 DEF Plain
  <2>2. PICK k : k = KansujiDigit(d)
    OBVIOUS
  <2>3. k = Utf8(b)
    BY <2>1, <2>2, LetterNumbers
  <2>4. Spells(k, <<b>>)
    BY <2>3, SpelledLetter
  <2>5. PICK w : w = <<b>> \o <<c>>
    OBVIOUS
  <2>6. Spells(k \o t, w)
    BY <1>3, <2>4, <2>5, SpelledJoined
  <2>7. Len(w) = 2 /\ w[1] = b /\ w[2] = c
    BY <2>5
  <2>8. \A i \in 1 .. Len(w) : w[i] \in Plain
    BY <1>4, <2>1, <2>7
  <2>9. ASSUME NEW x \in Int, NEW r \in Counts
        PROVE  Reads(State(-1, x, r), w, State(-1, x + Weight(d, u), r))
    <3>1. -1 \in -1 .. 9 /\ d \in -1 .. 9 /\ Factor(d) = d
      BY DEF Factor
    <3>2. ReadLetter(State(-1, x, r), Utf8(b)) = State(d, x, r)
      BY <2>1, <3>1, ReadSteps
    <3>3. ReadLetter(State(d, x, r), Utf8(c)) = State(-1, x + Weight(d, u), r)
      BY <1>5, <3>1, Zenon
    <3>4. Reads(State(-1, x, r), <<b>>, State(d, x, r))
      BY <3>2, ReadOne, Zenon
    <3>5. Reads(State(d, x, r), <<c>>, State(-1, x + Weight(d, u), r))
      BY <3>3, ReadOne, Zenon
    <3>6. <<b>> \in Seq(11 .. 28) /\ <<c>> \in Seq(11 .. 28)
      OBVIOUS
    <3>. QED
      BY <2>5, <3>4, <3>5, <3>6, ReadJoined, Zenon
  <2>. QED
    BY <1>1, <1>8, <2>2, <2>6, <2>8, <2>9, Zenon
<1>. QED
  BY <1>6, <1>7, <1>8

\* The last digit of a group, in front of nothing.
LEMMA OnesRead ==
    ASSUME NEW d \in 0 .. 9
    PROVE  LET piece == IF d = 0 THEN <<>> ELSE KansujiDigit(d)
           IN  \E w : /\ Spells(piece, w) /\ Len(w) <= 1 /\ \A i \in 1 .. Len(w) : w[i] \in {12} \cup Plain
                      /\ \A x \in Int, r \in Counts :
                             \E e \in -1 .. 9 : Reads(State(-1, x, r), w, State(e, x, r)) /\ Rest(e) = d
<1>1. CASE d = 0
  <2>1. Spells(<<>>, <<>>) /\ Len(<<>>) = 0 /\ Len(<<>>) <= 1 /\ \A i \in 1 .. Len(<<>>) : <<>>[i] \in {12} \cup Plain
    BY SpelledLetter
  <2>2. -1 \in -1 .. 9 /\ Rest(-1) = 0
    BY DEF Rest
  <2>3. \A x \in Int, r \in Counts : Reads(State(-1, x, r), <<>>, State(-1, x, r))
    BY ReadOne
  <2>. QED
    BY <1>1, <2>1, <2>2, <2>3, Zenon
<1>2. CASE d # 0
  <2>1. PICK b \in 11 .. 28 : b = 11 + d /\ b \in {12} \cup Plain
    BY <1>2 DEF Plain
  <2>2. Spells(KansujiDigit(d), <<b>>)
    <3>1. PICK k : k = KansujiDigit(d)
      OBVIOUS
    <3>2. k = Utf8(b)
      BY <2>1, <3>1, LetterNumbers
    <3>. QED
      BY <3>1, <3>2, SpelledLetter
  <2>3. Len(<<b>>) = 1 /\ Len(<<b>>) <= 1 /\ \A i \in 1 .. Len(<<b>>) : <<b>>[i] \in {12} \cup Plain
    BY <2>1
  <2>4. d \in -1 .. 9 /\ -1 \in -1 .. 9 /\ Rest(d) = d
    BY DEF Rest
  <2>5. \A x \in Int, r \in Counts : Reads(State(-1, x, r), <<b>>, State(d, x, r))
    <3>1. \A x \in Int, r \in Counts : ReadLetter(State(-1, x, r), Utf8(b)) = State(d, x, r)
      BY <2>1, <2>4, ReadSteps
    <3>. QED
      BY <3>1, ReadOne, Zenon
  <2>. QED
    BY <1>2, <2>2, <2>3, <2>4, <2>5, Zenon
<1>. QED
  BY <1>1, <1>2

\* The letters of v, m of them, with those of w, n of them, behind.
Joins(v, w, m, n) ==
    /\ m = Len(v) /\ n = Len(w) /\ v \o w \in Seq(11 .. 28) /\ Len(v \o w) = m + n
    /\ \A i \in 1 .. m : (v \o w)[i] = v[i]
    /\ \A i \in 1 .. m + n : i \in 1 .. m \/ (i - m \in 1 .. n /\ (v \o w)[i] = w[i - m])

\* The letters of two texts, one behind the other.
LEMMA JoinedLetters ==
    ASSUME NEW v \in Seq(11 .. 28), NEW w \in Seq(11 .. 28)
    PROVE  \E m \in Nat, n \in Nat : Joins(v, w, m, n)
<1>1. /\ v \o w \in Seq(11 .. 28) /\ Len(v \o w) = Len(v) + Len(w)
      /\ \A i \in 1 .. Len(v) + Len(w) : (v \o w)[i] = IF i <= Len(v) THEN v[i] ELSE w[i - Len(v)]
  BY ConcatProperties
<1>2. PICK m \in Nat, n \in Nat : m = Len(v) /\ n = Len(w)
  OBVIOUS
<1>3. \A i \in 1 .. m + n : (v \o w)[i] = IF i <= m THEN v[i] ELSE w[i - m]
  BY <1>1, <1>2
<1>4. \A i \in 1 .. m : i \in 1 .. m + n /\ i <= m
  OBVIOUS
<1>5. \A i \in 1 .. m + n : i \in 1 .. m \/ (i - m \in 1 .. n /\ ~ (i <= m))
  OBVIOUS
<1>6. Len(v \o w) = m + n
  BY <1>1, <1>2
<1>. QED
  BY <1>1, <1>2, <1>3, <1>4, <1>5, <1>6, Zenon DEF Joins

\* The digit of src that counts for the j-th place.
Place(src, j) == IF j < Len(src) THEN Digit(src[Len(src) - j]) ELSE 0

\* What the places from the j-th on count, before the ones are read.
Above(src, j) ==
    (IF j <= 1 THEN 10 * Place(src, 1) ELSE 0) + (IF j <= 2 THEN 100 * Place(src, 2) ELSE 0)
    + (IF j <= 3 THEN 1000 * Place(src, 3) ELSE 0)

\* Places of a group of up to four digits.
LEMMA Places ==
    ASSUME NEW src \in Seq(Int), NEW n \in 1 .. 4, Len(src) = n, AllDigits(src)
    PROVE  /\ \A j \in 0 .. 3 : Place(src, j) \in 0 .. 9
           /\ Above(src, n) = 0
           /\ \A u \in 1 .. 3 : Above(src, u) = Above(src, u + 1) + Weight(Place(src, u), u)
           /\ \A j \in 1 .. 4 : Above(src, j) \in Int
           /\ FourDigits(src, 0) = Above(src, 1) + Place(src, 0)
<1>1. ASSUME NEW j \in 0 .. 3 PROVE Place(src, j) \in 0 .. 9 /\ (j >= n => Place(src, j) = 0)
  <2>1. CASE j < n
    <3>1. PICK i \in 1 .. n : i = n - j
      BY <2>1
    <3>2. DOMAIN src = 1 .. n
      OBVIOUS
    <3>3. src[i] \in 48 .. 57
      BY <3>1, <3>2, CharCodes DEF AllDigits
    <3>4. Digit(src[i]) \in 0 .. 9
      BY <3>3, AsciiAssumption DEF Digit
    <3>. QED
      BY <2>1, <3>1, <3>4 DEF Place
  <2>2. CASE ~ (j < n)
    BY <2>2 DEF Place
  <2>. QED
    BY <2>1, <2>2
<1>2. PICK a \in 0 .. 9, b \in 0 .. 9, c \in 0 .. 9, d \in 0 .. 9 :
          a = Place(src, 0) /\ b = Place(src, 1) /\ c = Place(src, 2) /\ d = Place(src, 3)
  <2>1. /\ Place(src, 0) \in 0 .. 9 /\ Place(src, 1) \in 0 .. 9
        /\ Place(src, 2) \in 0 .. 9 /\ Place(src, 3) \in 0 .. 9
    BY <1>1
  <2>. QED
    BY <2>1
<1>3. /\ \A j \in 1 .. 4 : Above(src, j) = (IF j <= 1 THEN 10 * b ELSE 0) + (IF j <= 2 THEN 100 * c ELSE 0)
                                           + (IF j <= 3 THEN 1000 * d ELSE 0)
  BY <1>2 DEF Above
<1>4. \A j \in 1 .. 4 : Above(src, j) \in Int
  BY <1>3
<1>5. /\ n <= 1 => b = 0
      /\ n <= 2 => c = 0
      /\ n <= 3 => d = 0
  BY <1>1, <1>2
<1>6. Above(src, n) = 0
  BY <1>3, <1>5
<1>7. /\ Above(src, 1) = 10 * b + 100 * c + 1000 * d
      /\ Above(src, 2) = 100 * c + 1000 * d
      /\ Above(src, 3) = 1000 * d
      /\ Above(src, 4) = 0
  BY <1>3
<1>8. /\ Weight(b, 1) = 10 * b /\ Weight(c, 2) = 100 * c /\ Weight(d, 3) = 1000 * d
  BY DEF Weight
<1>9. /\ Above(src, 1) = Above(src, 2) + Weight(b, 1)
      /\ Above(src, 2) = Above(src, 3) + Weight(c, 2)
      /\ Above(src, 3) = Above(src, 4) + Weight(d, 3)
  BY <1>7, <1>8
<1>10. ASSUME NEW u \in 1 .. 3 PROVE Above(src, u) = Above(src, u + 1) + Weight(Place(src, u), u)
  <2>1. u = 1 \/ u = 2 \/ u = 3
    OBVIOUS
  <2>2. 1 + 1 = 2 /\ 2 + 1 = 3 /\ 3 + 1 = 4
    OBVIOUS
  <2>. QED
    BY <1>2, <1>9, <2>1, <2>2, Zenon
<1>11. FourDigits(src, 0) = Above(src, 1) + Place(src, 0)
  <2>1. \A j \in 0 .. 3 : (IF 4 * 0 + j < Len(src) THEN Digit(src[Len(src) - 4 * 0 - j]) ELSE 0) = Place(src, j)
    <3>1. \A j \in 0 .. 3 : 4 * 0 + j = j /\ n - 4 * 0 - j = n - j
      OBVIOUS
    <3>. QED
      BY <3>1 DEF Place
  <2>2. FourDigits(src, 0) = Place(src, 0) + 10 * Place(src, 1) + 100 * Place(src, 2) + 1000 * Place(src, 3)
    <3>. DEFINE digit(j) == IF 4 * 0 + j < Len(src) THEN Digit(src[Len(src) - 4 * 0 - j]) ELSE 0
    <3>1. FourDigits(src, 0) = digit(0) + 10 * digit(1) + 100 * digit(2) + 1000 * digit(3)
      BY Zenon DEF FourDigits
    <3>2. 0 \in 0 .. 3 /\ 1 \in 0 .. 3 /\ 2 \in 0 .. 3 /\ 3 \in 0 .. 3
      OBVIOUS
    <3>3. /\ digit(0) = Place(src, 0) /\ digit(1) = Place(src, 1)
          /\ digit(2) = Place(src, 2) /\ digit(3) = Place(src, 3)
      BY <2>1, <3>2, Zenon
    <3>. HIDE DEF digit
    <3>. QED
      BY <3>1, <3>3
  <2>3. FourDigits(src, 0) = a + 10 * b + 100 * c + 1000 * d
    BY <1>2, <2>2
  <2>. QED
    BY <1>2, <1>7, <2>3
<1>. QED
  BY <1>1, <1>4, <1>6, <1>10, <1>11

\* A group of digits reads as its value, and a one stands only at its end.
LEMMA GroupReads ==
    ASSUME NEW src \in Seq(Int), NEW n \in 1 .. 4, Len(src) = n, AllDigits(src)
    PROVE  \E v : /\ Spells(Kanji4Digits(src), v)
                  /\ \A i \in 1 .. Len(v) : v[i] \in {12} \cup Plain /\ (v[i] = 12 => i = Len(v))
                  /\ \A r \in Counts : \E e \in -1 .. 9, x \in Int :
                         Reads(State(-1, 0, r), v, State(e, x, r)) /\ x + Rest(e) = FourDigits(src, 0)
<1>. DEFINE unit(i) == JapaneseKeta4[Len(src) - i + 1]
            digit(i) == IF Digit(src[i]) = 1 /\ i < Len(src) THEN <<>> ELSE KansujiDigit(Digit(src[i]))
            piece(i) == IF Digit(src[i]) = 0 THEN <<>> ELSE digit(i) \o unit(i)
            ps == [i \in 1 .. n |-> piece(i)]
<1>0. /\ \A j \in 0 .. 3 : Place(src, j) \in 0 .. 9
      /\ Above(src, n) = 0
      /\ \A u \in 1 .. 3 : Above(src, u) = Above(src, u + 1) + Weight(Place(src, u), u)
      /\ \A j \in 1 .. 4 : Above(src, j) \in Int
      /\ FourDigits(src, 0) = Above(src, 1) + Place(src, 0)
  BY Places
<1>1. Kanji4Digits(src) = FlattenSeq(ps)
  <2>1. DOMAIN src = 1 .. n
    OBVIOUS
  <2>. QED
    BY <2>1 DEF Kanji4Digits
<1>2. ASSUME NEW i \in 1 .. n, NEW u \in 0 .. 3, u = n - i
      PROVE  /\ Place(src, u) = Digit(src[i]) /\ Place(src, u) \in 0 .. 9
             /\ u = 0 => piece(i) = IF Place(src, 0) = 0 THEN <<>> ELSE KansujiDigit(Place(src, 0))
             /\ u # 0 => piece(i) = IF Place(src, u) = 0 THEN <<>>
                                    ELSE (IF Place(src, u) = 1 THEN <<>> ELSE KansujiDigit(Place(src, u)))
                                         \o JapaneseKeta4[u + 1]
  <2>1. u < n /\ n - u = i /\ n - i + 1 = u + 1
    BY <1>2
  <2>2. Place(src, u) = Digit(src[i])
    BY <2>1 DEF Place
  <2>3. PICK d \in 0 .. 9 : d = Place(src, u)
    <3>1. Place(src, u) \in 0 .. 9
      BY <1>0
    <3>. QED
      BY <3>1
  <2>4. unit(i) = JapaneseKeta4[u + 1]
    BY <2>1
  <2>5. ASSUME u = 0 PROVE piece(i) = IF d = 0 THEN <<>> ELSE KansujiDigit(d)
    <3>1. ~ (i < Len(src))
      BY <1>2, <2>5
    <3>2. unit(i) = <<>>
      BY <2>4, <2>5, LetterNumbers
    <3>3. KansujiDigit(d) \o <<>> = KansujiDigit(d)
      <4>1. KansujiDigit(d) \in Seq(Int)
        BY Characters
      <4>. QED
        BY <4>1, ConcatEmptySeq
    <3>. HIDE DEF unit
    <3>. QED
      BY <2>2, <2>3, <3>1, <3>2, <3>3, Zenon
  <2>6. ASSUME u # 0
        PROVE  piece(i) = IF d = 0 THEN <<>>
                          ELSE (IF d = 1 THEN <<>> ELSE KansujiDigit(d)) \o JapaneseKeta4[u + 1]
    <3>1. i < Len(src)
      BY <1>2, <2>6
    <3>. HIDE DEF unit
    <3>. QED
      BY <2>2, <2>3, <2>4, <3>1, Zenon
  <2>. HIDE DEF piece
  <2>. QED
    BY <2>2, <2>3, <2>5, <2>6
<1>. HIDE DEF piece
<1>3. ASSUME NEW i \in 1 .. n PROVE \E w : Spells(piece(i), w)
  <2>1. PICK u \in 0 .. 3 : u = n - i
    OBVIOUS
  <2>2. PICK d \in 0 .. 9 : d = Place(src, u)
    <3>1. Place(src, u) \in 0 .. 9
      BY <1>0
    <3>. QED
      BY <3>1
  <2>3. CASE u = 0
    <3>1. piece(i) = IF d = 0 THEN <<>> ELSE KansujiDigit(d)
      BY <1>2, <2>1, <2>2, <2>3
    <3>. QED
      BY <3>1, OnesRead
  <2>4. CASE u # 0
    <3>1. u \in 1 .. 3
      BY <2>4
    <3>2. piece(i) = IF d = 0 THEN <<>>
                     ELSE (IF d = 1 THEN <<>> ELSE KansujiDigit(d)) \o JapaneseKeta4[u + 1]
      BY <1>2, <2>1, <2>2, <2>4
    <3>. QED
      BY <3>1, <3>2, UnitReads
  <2>. QED
    BY <2>3, <2>4
<1>4. ps \in Seq(Seq(Int)) /\ Len(ps) = n /\ \A i \in 1 .. n : ps[i] = piece(i)
  <2>1. \A i \in 1 .. n : piece(i) \in Seq(Int)
    BY <1>3 DEF Spells
  <2>2. ps \in [1 .. n -> Seq(Int)]
    BY <2>1
  <2>3. n \in Nat
    OBVIOUS
  <2>. HIDE DEF ps
  <2>4. ps \in Seq(Seq(Int)) /\ Len(ps) = n
    BY <2>2, <2>3, Sequence
  <2>. QED
    BY <2>4 DEF ps
<1>. HIDE DEF ps
<1>5. PICK f \in [0 .. n -> Seq(Int)] : /\ f[0] = <<>>
                                        /\ \A i \in 1 .. n : f[i] = f[i - 1] \o ps[i]
                                        /\ FlattenSeq(ps) = f[n]
  <2>1. n \in Nat
    OBVIOUS
  <2>. QED
    BY <1>4, <2>1, FlattenIsFold
<1>. DEFINE Begins(i, v) == /\ Spells(f[i], v) /\ \A k \in 1 .. Len(v) : v[k] \in Plain
                            /\ \A r \in Counts : Reads(State(-1, 0, r), v, State(-1, Above(src, n - i), r))
            T == {m \in Nat : \A i \in 0 .. n - 1 : i = m => \E v : Begins(i, v)}
<1>6. 0 \in T
  <2>1. Begins(0, <<>>)
    <3>1. Spells(f[0], <<>>) /\ Len(<<>>) = 0 /\ n - 0 = n
      BY <1>5, SpelledLetter
    <3>2. \A r \in Counts : Reads(State(-1, 0, r), <<>>, State(-1, Above(src, n - 0), r))
      BY <1>0, <3>1, ReadOne
    <3>. QED
      BY <3>1, <3>2
  <2>. HIDE DEF Begins
  <2>. QED
    BY <2>1
<1>7. ASSUME NEW m \in Nat, m \in T PROVE m + 1 \in T
  <2>. SUFFICES ASSUME NEW i \in 0 .. n - 1, i = m + 1 PROVE \E v : Begins(i, v)
    OBVIOUS
  <2>1. i - 1 \in 0 .. n - 1 /\ i - 1 = m /\ i \in 1 .. n
    OBVIOUS
  <2>2. PICK v : Begins(i - 1, v)
    <3>. HIDE DEF Begins
    <3>. QED
      BY <1>7, <2>1
  <2>3. PICK u \in 1 .. 3 : u = n - i /\ n - (i - 1) = u + 1
    OBVIOUS
  <2>4. PICK d \in 0 .. 9 : d = Place(src, u)
    <3>1. u \in 0 .. 3
      OBVIOUS
    <3>2. Place(src, u) \in 0 .. 9
      BY <1>0, <3>1
    <3>. QED
      BY <3>2
  <2>5. PICK w : /\ Spells(piece(i), w) /\ \A k \in 1 .. Len(w) : w[k] \in Plain
                 /\ \A x \in Int, r \in Counts : Reads(State(-1, x, r), w, State(-1, x + Weight(d, u), r))
    <3>1. u # 0 /\ u \in 0 .. 3
      OBVIOUS
    <3>2. piece(i) = IF d = 0 THEN <<>> ELSE (IF d = 1 THEN <<>> ELSE KansujiDigit(d)) \o JapaneseKeta4[u + 1]
      BY <1>2, <2>1, <2>3, <2>4, <3>1
    <3>. QED
      BY <3>2, UnitReads
  <2>6. v \in Seq(11 .. 28) /\ w \in Seq(11 .. 28)
    BY <2>2, <2>5 DEF Spells
  <2>7. Spells(f[i], v \o w)
    <3>1. f[i] = f[i - 1] \o piece(i)
      BY <1>4, <1>5, <2>1
    <3>. QED
      BY <2>2, <2>5, <3>1, SpelledJoined
  <2>8. \A k \in 1 .. Len(v \o w) : (v \o w)[k] \in Plain
    <3>1. PICK a \in Nat, b \in Nat : Joins(v, w, a, b)
      BY <2>6, JoinedLetters
    <3>. QED
      BY <2>2, <2>5, <3>1, Zenon DEF Joins
  <2>9. ASSUME NEW r \in Counts PROVE Reads(State(-1, 0, r), v \o w, State(-1, Above(src, n - i), r))
    <3>1. PICK x \in Int : x = Above(src, u + 1)
      <4>1. u + 1 \in 1 .. 4
        OBVIOUS
      <4>2. Above(src, u + 1) \in Int
        BY <1>0, <4>1
      <4>. QED
        BY <4>2
    <3>2. Reads(State(-1, 0, r), v, State(-1, x, r))
      BY <2>2, <2>3, <3>1
    <3>3. Reads(State(-1, x, r), w, State(-1, x + Weight(d, u), r))
      BY <2>5
    <3>4. x + Weight(d, u) = Above(src, n - i)
      BY <1>0, <2>3, <2>4, <3>1
    <3>. QED
      BY <2>6, <3>2, <3>3, <3>4, ReadJoined
  <2>. QED
    BY <2>7, <2>8, <2>9
<1>8. PICK v : Begins(n - 1, v)
  <2>1. n - 1 \in Nat /\ n - 1 \in 0 .. n - 1
    OBVIOUS
  <2>2. Nat \subseteq T
    <3>. HIDE DEF T
    <3>. QED
      BY <1>6, <1>7, Induction
  <2>. HIDE DEF Begins
  <2>. QED
    BY <2>1, <2>2
<1>9. PICK d \in 0 .. 9 : d = Place(src, 0)
  <2>1. Place(src, 0) \in 0 .. 9
    BY <1>0
  <2>. QED
    BY <2>1
<1>10. PICK w : /\ Spells(piece(n), w) /\ Len(w) <= 1 /\ \A k \in 1 .. Len(w) : w[k] \in {12} \cup Plain
                /\ \A x \in Int, r \in Counts :
                       \E e \in -1 .. 9 : Reads(State(-1, x, r), w, State(e, x, r)) /\ Rest(e) = d
  <2>1. n \in 1 .. n /\ 0 = n - n /\ 0 \in 0 .. 3
    OBVIOUS
  <2>2. piece(n) = IF d = 0 THEN <<>> ELSE KansujiDigit(d)
    BY <1>2, <1>9, <2>1
  <2>. QED
    BY <2>2, OnesRead
<1>11. v \in Seq(11 .. 28) /\ w \in Seq(11 .. 28)
  BY <1>8, <1>10 DEF Spells
<1>12. Spells(Kanji4Digits(src), v \o w)
  <2>1. n \in 1 .. n
    OBVIOUS
  <2>2. Kanji4Digits(src) = f[n - 1] \o piece(n)
    BY <1>1, <1>4, <1>5, <2>1
  <2>. QED
    BY <1>8, <1>10, <2>2, SpelledJoined
<1>13. \A k \in 1 .. Len(v \o w) : (v \o w)[k] \in {12} \cup Plain /\ ((v \o w)[k] = 12 => k = Len(v \o w))
  <2>1. PICK a \in Nat, b \in Nat : Joins(v, w, a, b)
    BY <1>11, JoinedLetters
  <2>2. b <= 1
    BY <1>10, <2>1 DEF Joins
  <2>3. \A k \in 1 .. a : (v \o w)[k] \in Plain /\ (v \o w)[k] # 12
    <3>1. \A c \in Plain : c # 12
      BY DEF Plain
    <3>. QED
      BY <1>8, <2>1, <3>1, Zenon DEF Joins
  <2>4. \A k \in 1 .. a + b : k - a \in 1 .. b => k = a + b
    <3>1. b = 0 \/ b = 1
      BY <2>2
    <3>. QED
      BY <3>1
  <2>. QED
    BY <1>10, <2>1, <2>3, <2>4, Zenon DEF Joins
<1>14. ASSUME NEW r \in Counts
       PROVE  \E e \in -1 .. 9, x \in Int :
                  Reads(State(-1, 0, r), v \o w, State(e, x, r)) /\ x + Rest(e) = FourDigits(src, 0)
  <2>1. PICK x \in Int : x = Above(src, 1) /\ x + d = FourDigits(src, 0)
    <3>1. 1 \in 1 .. 4
      OBVIOUS
    <3>2. Above(src, 1) \in Int
      BY <1>0, <3>1
    <3>. QED
      BY <1>0, <1>9, <3>2
  <2>2. Reads(State(-1, 0, r), v, State(-1, x, r))
    <3>1. n - (n - 1) = 1
      OBVIOUS
    <3>. QED
      BY <1>8, <2>1, <3>1
  <2>3. PICK e \in -1 .. 9 : Reads(State(-1, x, r), w, State(e, x, r)) /\ Rest(e) = d
    BY <1>10
  <2>4. Reads(State(-1, 0, r), v \o w, State(e, x, r))
    BY <1>11, <2>2, <2>3, ReadJoined
  <2>. QED
    BY <2>1, <2>3, <2>4
<1>. QED
  BY <1>12, <1>13, <1>14

Myriads == 25 .. 28

\* The letters of a group that is not empty, in front of the k-th myriad: no zero,
\* a one only at the end or before a thousand alone, which it must precede when a
\* myriad follows.
Block(b, k) ==
    /\ b # <<>>
    /\ \A i \in 1 .. Len(b) : b[i] \in {12} \cup Plain \cup Myriads
    /\ \A i \in 1 .. Len(b) : b[i] \in Myriads => i = Len(b)
    /\ k # 0 => b[Len(b)] \in Myriads
    /\ \A i \in 1 .. Len(b) : b[i] = 12 /\ i # Len(b) =>
           b[i + 1] \in Myriads \/ (i = 1 /\ Len(b) = 3 /\ b[2] = 24 /\ b[3] \in Myriads)
    /\ ~ (Len(b) = 2 /\ b[1] = 24 /\ b[2] \in Myriads)

\* The letters of a numeral: what OnesAndZeros says of them.
Numeral(w) ==
    /\ \A i \in 1 .. Len(w) : w[i] \in {12} \cup Plain \cup Myriads
    /\ \A i \in 1 .. Len(w) : w[i] = 12 /\ i # Len(w) => w[i + 1] \in {24} \cup Myriads
    /\ \A i \in 1 .. Len(w) : w[i] = 24 /\ i # 1 /\ w[i - 1] = 12 =>
           i # Len(w) /\ w[i + 1] \in Myriads /\ (i = 2 \/ w[i - 2] \in Myriads)
    /\ \A i \in 1 .. Len(w) : ~ (w[i] = 24 /\ (i = 1 \/ w[i - 1] \in Myriads) /\ i # Len(w) /\ w[i + 1] \in Myriads)

\* Nothing, or letters that end with a myriad.
EndsGroup(w) == w = <<>> \/ w[Len(w)] \in Myriads

\* A group goes on with a numeral.
LEMMA NumeralJoined ==
    ASSUME NEW w \in Seq(11 .. 28), NEW b \in Seq(11 .. 28), NEW k,
           Numeral(w), EndsGroup(w), Block(b, k)
    PROVE  Numeral(w \o b) /\ (k # 0 => EndsGroup(w \o b))
<1>1. PICK m \in Nat, n \in Nat : Joins(w, b, m, n)
  BY JoinedLetters
<1>2. PICK z : z = w \o b
  OBVIOUS
<1>3. /\ m = Len(w) /\ n = Len(b) /\ Len(z) = m + n /\ \A i \in 1 .. m : z[i] = w[i]
      /\ \A i \in 1 .. m + n : i \in 1 .. m \/ (i - m \in 1 .. n /\ z[i] = b[i - m])
  BY <1>1, <1>2, Zenon DEF Joins
<1>4. ASSUME NEW j \in 1 .. n PROVE z[m + j] = b[j]
  <2>1. m + j \in 1 .. m + n /\ m + j \notin 1 .. m /\ (m + j) - m = j
    OBVIOUS
  <2>. QED
    BY <1>3, <2>1
<1>5. n >= 1 /\ 1 \in 1 .. n
  BY <1>3 DEF Block
<1>6. m = 0 \/ w[m] \in Myriads
  BY <1>3 DEF EndsGroup
<1>7. \A c \in Myriads : c # 12 /\ c # 24
  BY DEF Myriads
<1>8. \A i \in 1 .. m : i # m => i + 1 \in 1 .. m /\ i # m + n
  BY <1>5
<1>9. \A i \in 1 .. m : i # 1 => i - 1 \in 1 .. m
  OBVIOUS
<1>10. \A i \in 1 .. m + n : i \in 1 .. m \/ \E j \in 1 .. n : i = m + j /\ z[i] = b[j]
  <2>1. \A i \in 1 .. m + n : i - m \in 1 .. n => i = m + (i - m)
    OBVIOUS
  <2>. QED
    BY <1>3, <2>1
<1>11. \A j \in 1 .. n : (m + j = m + n <=> j = n) /\ (j # n => j + 1 \in 1 .. n /\ m + j + 1 = m + (j + 1))
  OBVIOUS
<1>12. \A i \in 1 .. m + n : z[i] \in {12} \cup Plain \cup Myriads
  BY <1>3, <1>10 DEF Numeral, Block
<1>13. ASSUME NEW i \in 1 .. m + n, z[i] = 12, i # m + n PROVE z[i + 1] \in {24} \cup Myriads
  <2>1. CASE i \in 1 .. m
    <3>1. i # m
      BY <1>3, <1>6, <1>7, <1>13, <2>1
    <3>2. w[i + 1] \in {24} \cup Myriads
      BY <1>3, <1>13, <2>1, <3>1 DEF Numeral
    <3>. QED
      BY <1>3, <1>8, <2>1, <3>1, <3>2
  <2>2. CASE i \notin 1 .. m
    <3>1. PICK j \in 1 .. n : i = m + j /\ z[i] = b[j]
      BY <1>10, <2>2
    <3>2. j # n /\ j + 1 \in 1 .. n /\ z[i + 1] = b[j + 1]
      BY <1>4, <1>11, <1>13, <3>1
    <3>3. b[j + 1] \in {24} \cup Myriads
      <4>1. b[j + 1] \in Myriads \/ (j = 1 /\ b[2] = 24)
        BY <1>3, <1>13, <3>1, <3>2 DEF Block
      <4>. QED
        BY <4>1
    <3>. QED
      BY <3>2, <3>3
  <2>. QED
    BY <2>1, <2>2
<1>14. ASSUME NEW i \in 1 .. m + n, z[i] = 24, i # 1, z[i - 1] = 12
       PROVE  i # m + n /\ z[i + 1] \in Myriads /\ (i = 2 \/ z[i - 2] \in Myriads)
  <2>1. CASE i \in 1 .. m
    <3>1. i # m
      BY <1>3, <1>6, <1>7, <1>14, <2>1
    <3>2. z[i - 1] = w[i - 1] /\ z[i] = w[i]
      BY <1>3, <1>9, <1>14, <2>1
    <3>3. w[i + 1] \in Myriads /\ (i = 2 \/ w[i - 2] \in Myriads)
      BY <1>3, <1>14, <2>1, <3>1, <3>2 DEF Numeral
    <3>4. i = 2 \/ i - 2 \in 1 .. m
      BY <1>14, <2>1
    <3>. QED
      BY <1>3, <1>8, <2>1, <3>1, <3>3, <3>4
  <2>2. CASE i \notin 1 .. m
    <3>1. PICK j \in 1 .. n : i = m + j /\ z[i] = b[j]
      BY <1>10, <2>2
    <3>2. j # 1
      <4>1. ASSUME j = 1 PROVE FALSE
        <5>1. i - 1 = m /\ m # 0 /\ m \in 1 .. m
          BY <1>14, <3>1, <4>1
        <5>2. z[i - 1] = w[m]
          BY <1>3, <5>1
        <5>. QED
          BY <1>6, <1>7, <1>14, <5>1, <5>2
      <4>. QED
        BY <4>1
    <3>3. j - 1 \in 1 .. n /\ i - 1 = m + (j - 1) /\ j - 1 # n /\ (j - 1) + 1 = j
      BY <3>1, <3>2
    <3>4. b[j - 1] = 12 /\ b[j] = 24
      BY <1>4, <1>14, <3>1, <3>3
    <3>5. j - 1 = 1 /\ n = 3 /\ b[3] \in Myriads
      <4>1. b[(j - 1) + 1] \in Myriads \/ (j - 1 = 1 /\ n = 3 /\ b[2] = 24 /\ b[3] \in Myriads)
        BY <1>3, <3>3, <3>4 DEF Block
      <4>2. b[(j - 1) + 1] \notin Myriads
        BY <1>7, <3>3, <3>4
      <4>. QED
        BY <4>1, <4>2
    <3>6. j = 2 /\ i = m + 2 /\ i + 1 = m + 3 /\ i - 2 = m /\ 3 \in 1 .. n
      <4>1. j = 2
        BY <3>5
      <4>2. i = m + 2
        BY <3>1, <4>1
      <4>3. i + 1 = m + 3 /\ i - 2 = m
        BY <4>2
      <4>4. 3 \in 1 .. 3
        OBVIOUS
      <4>. QED
        BY <3>5, <4>1, <4>2, <4>3, <4>4
    <3>7. z[i + 1] \in Myriads
      BY <1>4, <3>5, <3>6
    <3>8. i = 2 \/ z[i - 2] \in Myriads
      <4>1. CASE m = 0
        BY <3>6, <4>1
      <4>2. CASE m # 0
        <5>1. m \in 1 .. m
          BY <4>2
        <5>. QED
          BY <1>3, <1>6, <3>6, <4>2, <5>1
      <4>. QED
        BY <4>1, <4>2
    <3>. QED
      BY <3>5, <3>6, <3>7, <3>8
  <2>. QED
    BY <2>1, <2>2
<1>15. ASSUME NEW i \in 1 .. m + n, z[i] = 24, i = 1 \/ z[i - 1] \in Myriads, i # m + n, z[i + 1] \in Myriads
       PROVE  FALSE
  <2>1. CASE i \in 1 .. m
    <3>1. i # m
      BY <1>3, <1>6, <1>7, <1>15, <2>1
    <3>2. w[i] = 24 /\ w[i + 1] \in Myriads
      BY <1>3, <1>8, <1>15, <2>1, <3>1
    <3>3. i = 1 \/ w[i - 1] \in Myriads
      BY <1>3, <1>9, <1>15, <2>1
    <3>. QED
      BY <1>3, <2>1, <3>1, <3>2, <3>3 DEF Numeral
  <2>2. CASE i \notin 1 .. m
    <3>1. PICK j \in 1 .. n : i = m + j /\ z[i] = b[j]
      BY <1>10, <2>2
    <3>2. j # n /\ j + 1 \in 1 .. n /\ z[i + 1] = b[j + 1]
      BY <1>4, <1>11, <1>15, <3>1
    <3>3. j + 1 = n
      BY <1>3, <1>15, <3>2 DEF Block
    <3>4. CASE j = 1
      <4>1. n = 2 /\ b[1] = 24 /\ b[2] \in Myriads
        BY <1>15, <3>1, <3>2, <3>3, <3>4
      <4>. QED
        BY <1>3, <4>1 DEF Block
    <3>5. CASE j # 1
      <4>1. j - 1 \in 1 .. n /\ j - 1 # n /\ i - 1 = m + (j - 1) /\ i # 1
        BY <3>1, <3>5
      <4>2. b[j - 1] \in Myriads
        BY <1>4, <1>15, <4>1
      <4>. QED
        BY <1>3, <4>1, <4>2 DEF Block
    <3>. QED
      BY <3>4, <3>5
  <2>. QED
    BY <2>1, <2>2
<1>16. ASSUME k # 0 PROVE EndsGroup(z)
  <2>1. n \in 1 .. n /\ b[n] \in Myriads
    BY <1>3, <1>5, <1>16 DEF Block
  <2>. QED
    BY <1>3, <1>4, <2>1 DEF EndsGroup
<1>17. Numeral(z)
  BY <1>3, <1>12, <1>13, <1>14, <1>15 DEF Numeral
<1>. QED
  BY <1>2, <1>16, <1>17

\* The letters a, b and c.
Three(w, a, b, c) == Len(w) = 3 /\ w[1] = a /\ w[2] = b /\ w[3] = c

\* One letter as a sequence, and three letters one behind the other.
LEMMA FewLetters ==
    /\ \A c \in 11 .. 28 : <<c>> \in Seq(11 .. 28) /\ Len(<<c>>) = 1 /\ <<c>>[1] = c
    /\ \A a, b, c \in 11 .. 28 : Three((<<a>> \o <<b>>) \o <<c>>, a, b, c)
    /\ \A w \in Seq(11 .. 28) : w = <<>> <=> Len(w) = 0
<1>1. ASSUME NEW a \in 11 .. 28, NEW b \in 11 .. 28, NEW c \in 11 .. 28 PROVE Three((<<a>> \o <<b>>) \o <<c>>, a, b, c)
  <2>1. PICK z : z = <<a>> \o <<b>>
    OBVIOUS
  <2>2. Len(z) = 2 /\ z[1] = a /\ z[2] = b
    BY <2>1
  <2>3. z \in Seq(11 .. 28)
    BY <2>1
  <2>4. <<c>> \in Seq(11 .. 28) /\ Len(<<c>>) = 1 /\ <<c>>[1] = c
    OBVIOUS
  <2>5. PICK m \in Nat, n \in Nat : Joins(z, <<c>>, m, n)
    BY <2>3, <2>4, JoinedLetters
  <2>6. PICK w : w = z \o <<c>>
    OBVIOUS
  <2>7. m = 2 /\ n = 1 /\ 1 \in 1 .. 2 /\ 2 \in 1 .. 2 /\ 3 \in 1 .. 3 /\ 3 \notin 1 .. 2 /\ 3 - 2 = 1 /\ 2 + 1 = 3
    BY <2>2, <2>4, <2>5 DEF Joins
  <2>8. Len(w) = 3 /\ w[1] = a /\ w[2] = b /\ w[3] = c
    BY <2>2, <2>4, <2>5, <2>6, <2>7 DEF Joins
  <2>. QED
    BY <2>1, <2>6, <2>8, Zenon DEF Three
<1>2. \A w \in Seq(11 .. 28) : w = <<>> <=> Len(w) = 0
  BY EmptySeq
<1>3. \A c \in 11 .. 28 : <<c>> \in Seq(11 .. 28) /\ Len(<<c>>) = 1 /\ <<c>>[1] = c
  OBVIOUS
<1>. QED
  BY <1>1, <1>2, <1>3

\* A text is a bare thousand when its only letter is one.
LEMMA BareThousand ==
    ASSUME NEW t, NEW v, Spells(t, v)
    PROVE  t = Thousand <=> v = <<24>>
<1>1. Thousand = Utf8(24) /\ 24 \in 11 .. 28
  BY LetterNumbers
<1>2. Spells(Thousand, <<24>>) /\ <<24>> \in Seq(11 .. 28) /\ Len(<<24>>) = 1 /\ <<24>>[1] = 24
  BY <1>1, SpelledLetter, FewLetters
<1>3. PICK s : s = Thousand
  OBVIOUS
<1>4. PICK u : u = <<24>>
  OBVIOUS
<1>5. Spells(s, u) /\ u \in Seq(11 .. 28) /\ Len(u) = 1 /\ u[1] = 24
  BY <1>2, <1>3, <1>4
<1>6. PICK m \in Nat : m = Len(v)
  BY DEF Spells
<1>7. ASSUME t = s PROVE v = u
  <2>1. Spells(t, u)
    BY <1>5, <1>7
  <2>2. m = Len(Letters(t)) /\ 1 = Len(Letters(t)) /\ v \in Seq(11 .. 28)
        /\ \A i \in 1 .. Len(v) : Letters(t)[i] = Utf8(v[i])
    BY <1>5, <1>6, <2>1, SpelledLetters
  <2>3. \A i \in 1 .. Len(u) : Letters(t)[i] = Utf8(u[i])
    BY <2>1, SpelledLetters
  <2>4. m = 1 /\ 1 \in 1 .. 1 /\ \A i \in 1 .. 1 : i = 1
    <3>1. m = 1
      BY <2>2
    <3>2. 1 \in 1 .. 1 /\ \A i \in 1 .. 1 : i = 1
      OBVIOUS
    <3>. QED
      BY <3>1, <3>2
  <2>5. Utf8(v[1]) = Utf8(u[1])
    BY <1>5, <1>6, <2>2, <2>3, <2>4
  <2>6. v[1] \in Int /\ u[1] \in Int
    <3>1. v[1] \in 11 .. 28
      BY <1>6, <2>2, <2>4, ElementOfSeq
    <3>. QED
      BY <1>5, <3>1
  <2>7. v[1] = u[1]
    BY <2>5, <2>6, LetterNumbers
  <2>8. Len(v) = Len(u) /\ \A i \in 1 .. Len(v) : v[i] = u[i]
    BY <1>5, <1>6, <2>4, <2>7
  <2>. QED
    BY <1>5, <2>2, <2>8, SeqEqual
<1>8. ASSUME v = u PROVE t = s
  <2>1. Spells(t, u)
    BY <1>8
  <2>2. t \in Seq(Int) /\ Len(t) = 3 /\ s \in Seq(Int) /\ Len(s) = 3
    <3>1. 3 * 1 = 3
      OBVIOUS
    <3>2. \A z : Spells(z, u) => z \in Seq(Int) /\ Len(z) = 3
      BY <1>5, <3>1, Zenon DEF Spells
    <3>. QED
      BY <1>5, <2>1, <3>2
  <2>3. 1 \in 1 .. 1 /\ 3 * 1 - 2 = 1 /\ 3 * 1 - 1 = 2 /\ 3 * 1 = 3 /\ \A i \in 1 .. 3 : i = 1 \/ i = 2 \/ i = 3
    OBVIOUS
  <2>4. t[1] = s[1] /\ t[2] = s[2] /\ t[3] = s[3]
    <3>1. t[1] = -u[1] /\ t[2] = -128 /\ t[3] = -128
      BY <1>5, <2>1, <2>3 DEF Spells
    <3>2. s[1] = -u[1] /\ s[2] = -128 /\ s[3] = -128
      BY <1>5, <2>3 DEF Spells
    <3>. QED
      BY <3>1, <3>2
  <2>5. Len(t) = Len(s) /\ \A i \in 1 .. Len(t) : t[i] = s[i]
    BY <2>2, <2>3, <2>4
  <2>. QED
    BY <2>2, <2>5, SeqEqual
<1>. QED
  BY <1>3, <1>4, <1>7, <1>8

\* A thousand, alone and behind its one.
LEMMA ThousandReads ==
    ASSUME NEW r \in Counts
    PROVE  /\ \A z : Reads(State(-1, 0, r), <<24>>, z) <=> z = State(-1, 1000, r)
           /\ Reads(State(-1, 0, r), <<12>>, State(1, 0, r))
           /\ Reads(State(1, 0, r), <<24>>, State(-1, 1000, r))
<1>1. Weight(1, 3) = 1000 /\ Factor(1) = 1 /\ Factor(-1) = 1
  BY DEF Weight, Factor
<1>2. ASSUME NEW e \in -1 .. 9, Factor(e) = 1
      PROVE  ReadLetter(State(e, 0, r), Utf8(24)) = State(-1, 1000, r)
  <2>1. ReadLetter(State(e, 0, r), Utf8(21 + 3)) = State(-1, 0 + Weight(Factor(e), 3), r)
    <3>1. \A x \in Int, q \in 1 .. 3 : ReadLetter(State(e, x, r), Utf8(21 + q)) = State(-1, x + Weight(Factor(e), q), r)
      BY ReadSteps
    <3>2. 3 \in 1 .. 3 /\ 0 \in Int
      OBVIOUS
    <3>. QED
      BY <3>1, <3>2
  <2>2. 21 + 3 = 24 /\ 0 + Weight(Factor(e), 3) = 1000
    BY <1>1, <1>2
  <2>. QED
    BY <2>1, <2>2
<1>3. ReadLetter(State(-1, 0, r), Utf8(12)) = State(1, 0, r)
  <2>1. \A e \in -1 .. 9, x \in Int, d \in 0 .. 9 : ReadLetter(State(e, x, r), Utf8(11 + d)) = State(d, x, r)
    BY ReadSteps
  <2>2. -1 \in -1 .. 9 /\ 0 \in Int /\ 1 \in 0 .. 9 /\ 11 + 1 = 12
    OBVIOUS
  <2>. QED
    BY <2>1, <2>2
<1>4. ReadLetter(State(-1, 0, r), Utf8(24)) = State(-1, 1000, r) /\ ReadLetter(State(1, 0, r), Utf8(24)) = State(-1, 1000, r)
  <2>1. -1 \in -1 .. 9 /\ 1 \in -1 .. 9
    OBVIOUS
  <2>. QED
    BY <1>1, <1>2, <2>1
<1>5. \A c \in 11 .. 28 : \A s, z : Reads(s, <<c>>, z) <=> z = ReadLetter(s, Utf8(c))
  BY ReadOne
<1>6. /\ \A s, z : Reads(s, <<24>>, z) <=> z = ReadLetter(s, Utf8(24))
      /\ \A s, z : Reads(s, <<12>>, z) <=> z = ReadLetter(s, Utf8(12))
  <2>1. 24 \in 11 .. 28 /\ 12 \in 11 .. 28
    OBVIOUS
  <2>. QED
    BY <1>5, <2>1
<1>. QED
  BY <1>3, <1>4, <1>6

\* The letters b of the text t are a group of this value in front of the k-th
\* myriad, and are read as that.
Writes(t, b, k, value) ==
    /\ Spells(t, b) /\ (b = <<>> => value = 0) /\ (b # <<>> => Block(b, k))
    /\ k = 0 => \A r \in Counts : \E e \in -1 .. 9, x \in Int :
                    Reads(State(-1, 0, r), b, State(e, x, r)) /\ x + Rest(e) = value
    /\ k # 0 /\ b # <<>> =>
           k \in 1 .. 4 /\ \A r \in Counts : Reads(State(-1, 0, r), b, State(-1, 0, [r EXCEPT ![k] = value]))

\* A group as the program writes it.
LEMMA GroupTextReads ==
    ASSUME NEW src \in Seq(Int), NEW n \in 1 .. 4, Len(src) = n, AllDigits(src),
           NEW k \in Nat, k <= 4 \/ Kanji4Digits(src) = <<>>
    PROVE  \E b : Writes(GroupText(src, k), b, k, FourDigits(src, 0))
<1>1. PICK t, value, u : t = Kanji4Digits(src) /\ value = FourDigits(src, 0) /\ u = JapaneseKetaMan[k + 1]
  OBVIOUS
<1>2. PICK v : /\ Spells(t, v)
               /\ \A i \in 1 .. Len(v) : v[i] \in {12} \cup Plain /\ (v[i] = 12 => i = Len(v))
               /\ \A r \in Counts : \E e \in -1 .. 9, x \in Int :
                      Reads(State(-1, 0, r), v, State(e, x, r)) /\ x + Rest(e) = value
  <2>1. \E v : /\ Spells(Kanji4Digits(src), v)
               /\ \A i \in 1 .. Len(v) : v[i] \in {12} \cup Plain /\ (v[i] = 12 => i = Len(v))
               /\ \A r \in Counts : \E e \in -1 .. 9, x \in Int :
                      Reads(State(-1, 0, r), v, State(e, x, r)) /\ x + Rest(e) = FourDigits(src, 0)
    BY GroupReads
  <2>. QED
    BY <1>1, <2>1, Zenon
<1>3. PICK m \in Nat : m = Len(v)
  BY <1>2 DEF Spells
<1>4. v \in Seq(11 .. 28) /\ t \in Seq(Int) /\ Len(t) = 3 * m
  BY <1>2, <1>3 DEF Spells
<1>5. PICK r0 \in Counts : TRUE
  <2>1. [j \in 0 .. 4 |-> 0] \in Counts
    BY DEF Counts
  <2>. QED
    BY <2>1
<1>6. PICK end : end = IF t = Thousand /\ k # 0 THEN KansujiDigit(1) ELSE <<>>
  OBVIOUS
<1>7. GroupText(src, k) = IF t = <<>> THEN <<>> ELSE end \o t \o u
  BY <1>1, <1>6, Zenon DEF GroupText
<1>8. (t = <<>> <=> v = <<>>) /\ (v = <<>> <=> m = 0)
  <2>1. t = <<>> <=> Len(t) = 0
    BY <1>4, EmptySeq
  <2>2. v = <<>> <=> m = 0
    BY <1>3, <1>4, FewLetters
  <2>3. 3 * m = 0 <=> m = 0
    OBVIOUS
  <2>. QED
    BY <1>4, <2>1, <2>2, <2>3
<1>9. t = Thousand <=> v = <<24>>
  BY <1>2, BareThousand
<1>10. \A c \in {12} \cup Plain : c \notin Myriads
  BY DEF Plain, Myriads
<1>11. -1 \in -1 .. 9 /\ 0 \in Int /\ 24 \in 11 .. 28 /\ 12 \in 11 .. 28
  OBVIOUS
<1>12. CASE v = <<>>
  <2>1. GroupText(src, k) = <<>>
    BY <1>7, <1>8, <1>12
  <2>2. Spells(<<>>, <<>>)
    BY SpelledLetter
  <2>3. value = 0
    <3>1. PICK e \in -1 .. 9, x \in Int : Reads(State(-1, 0, r0), v, State(e, x, r0)) /\ x + Rest(e) = value
      BY <1>2
    <3>2. State(e, x, r0) = State(-1, 0, r0)
      <4>1. Reads(State(-1, 0, r0), <<>>, State(e, x, r0))
        BY <1>12, <3>1
      <4>. QED
        BY <4>1, ReadOne, Zenon
    <3>3. e = -1 /\ x = 0
      BY <3>2 DEF State
    <3>. QED
      BY <3>1, <3>3 DEF Rest
  <2>4. Writes(<<>>, <<>>, k, value)
    <3>1. \A r \in Counts : \E e \in -1 .. 9, x \in Int :
              Reads(State(-1, 0, r), <<>>, State(e, x, r)) /\ x + Rest(e) = value
      BY <1>2, <1>12
    <3>. QED
      BY <2>2, <2>3, <3>1, Zenon DEF Writes
  <2>. QED
    BY <1>1, <2>1, <2>4, Zenon
<1>13. CASE v # <<>> /\ k = 0
  <2>1. GroupText(src, k) = t
    <3>1. u = <<>> /\ end = <<>>
      BY <1>1, <1>6, <1>13, LetterNumbers
    <3>2. GroupText(src, k) = <<>> \o t \o <<>>
      BY <1>7, <1>8, <1>13, <3>1, Zenon
    <3>. QED
      BY <1>4, <3>2, ConcatEmptySeq
  <2>2. Block(v, k)
    <3>1. \A i \in 1 .. Len(v) : v[i] \notin Myriads /\ v[i] \in {12} \cup Plain \cup Myriads
      BY <1>2, <1>10
    <3>2. \A i \in 1 .. Len(v) : v[i] = 12 => i = Len(v)
      BY <1>2
    <3>3. ~ (Len(v) = 2 /\ v[2] \in Myriads)
      <4>1. 2 \in 1 .. 2
        OBVIOUS
      <4>. QED
        BY <3>1, <4>1, Zenon
    <3>. QED
      BY <1>13, <3>1, <3>2, <3>3, Zenon DEF Block
  <2>3. Writes(t, v, k, value)
    BY <1>2, <1>13, <2>2, Zenon DEF Writes
  <2>. QED
    BY <1>1, <2>1, <2>3, Zenon
<1>14. CASE v # <<>> /\ k # 0
  <2>1. k \in 1 .. 4
    <3>1. t # <<>>
      BY <1>8, <1>14
    <3>. QED
      BY <1>1, <1>14, <3>1
  <2>2. PICK c \in 11 .. 28 : c = 24 + k
    BY <2>1
  <2>3. c \in Myriads /\ c # 12
    BY <2>1, <2>2 DEF Myriads
  <2>4. u = Utf8(c)
    BY <1>1, <2>1, <2>2, LetterNumbers
  <2>5. Spells(u, <<c>>) /\ <<c>> \in Seq(11 .. 28) /\ Len(<<c>>) = 1 /\ <<c>>[1] = c
    BY <2>4, SpelledLetter, FewLetters
  <2>6. \A e \in -1 .. 9, x \in Int, r \in Counts :
            Reads(State(e, x, r), <<c>>, State(-1, 0, [r EXCEPT ![k] = x + Rest(e)]))
    <3>1. \A e \in -1 .. 9, x \in Int, r \in Counts :
              ReadLetter(State(e, x, r), Utf8(c)) = State(-1, 0, [r EXCEPT ![k] = x + Rest(e)])
      BY <2>1, <2>2, ReadSteps
    <3>. QED
      BY <3>1, ReadOne, Zenon
  <2>7. CASE v = <<24>>
    <3>1. PICK o : o = <<12>>
      OBVIOUS
    <3>2. Spells(end, o) /\ o \in Seq(11 .. 28)
      <4>1. end = Utf8(12)
        <5>1. end = KansujiDigit(1)
          BY <1>6, <1>9, <1>14, <2>7
        <5>2. \A d \in Int : KansujiDigit(d) = Utf8(11 + d)
          BY LetterNumbers
        <5>3. KansujiDigit(1) = Utf8(11 + 1)
          BY <5>2
        <5>. QED
          BY <5>1, <5>3
      <4>. QED
        BY <1>11, <3>1, <4>1, SpelledLetter, FewLetters, Zenon
    <3>3. PICK b : b = (o \o v) \o <<c>>
      OBVIOUS
    <3>4. Spells(end \o t, o \o v) /\ o \o v \in Seq(11 .. 28)
      <4>1. Spells(end \o t, o \o v)
        BY <1>2, <3>2, SpelledJoined
      <4>. QED
        BY <4>1 DEF Spells
    <3>5. Spells(GroupText(src, k), b)
      <4>1. GroupText(src, k) = end \o t \o u
        BY <1>7, <1>8, <1>14, Zenon
      <4>. QED
        BY <2>5, <3>3, <3>4, <4>1, SpelledJoined
    <3>6. Len(b) = 3 /\ b[1] = 12 /\ b[2] = 24 /\ b[3] = c
      <4>1. b = (<<12>> \o <<24>>) \o <<c>>
        BY <2>7, <3>1, <3>3
      <4>2. PICK p \in 11 .. 28, q \in 11 .. 28 : p = 12 /\ q = 24
        BY <1>11
      <4>3. Three((<<p>> \o <<q>>) \o <<c>>, p, q, c)
        BY FewLetters
      <4>4. Three(b, 12, 24, c)
        BY <4>1, <4>2, <4>3, Zenon
      <4>. QED
        BY <4>4 DEF Three
    <3>7. b # <<>>
      <4>1. Len(<<>>) = 0
        OBVIOUS
      <4>. QED
        BY <3>6, <4>1, SMTT(30)
    <3>8. Block(b, k)
      <4>1. \A i \in 1 .. 3 : i = 1 \/ i = 2 \/ i = 3
        OBVIOUS
      <4>2. 24 \in Plain /\ 24 # 12 /\ 24 \notin Myriads /\ 12 \notin Myriads /\ 3 # 2 /\ 1 + 1 = 2
        BY DEF Plain, Myriads
      <4>. QED
        BY <2>3, <3>6, <3>7, <4>1, <4>2, Zenon DEF Block
    <3>9. value = 1000
      <4>1. PICK e \in -1 .. 9, x \in Int : Reads(State(-1, 0, r0), v, State(e, x, r0)) /\ x + Rest(e) = value
        BY <1>2
      <4>2. State(e, x, r0) = State(-1, 1000, r0)
        BY <2>7, <4>1, ThousandReads
      <4>3. e = -1 /\ x = 1000
        BY <4>2 DEF State
      <4>. QED
        BY <4>1, <4>3 DEF Rest
    <3>10. ASSUME NEW r \in Counts PROVE Reads(State(-1, 0, r), b, State(-1, 0, [r EXCEPT ![k] = value]))
      <4>1. Reads(State(-1, 0, r), o, State(1, 0, r)) /\ Reads(State(1, 0, r), v, State(-1, 1000, r))
        BY <2>7, <3>1, ThousandReads
      <4>2. Reads(State(-1, 0, r), o \o v, State(-1, 1000, r))
        BY <1>4, <3>2, <4>1, ReadJoined
      <4>3. Reads(State(-1, 1000, r), <<c>>, State(-1, 0, [r EXCEPT ![k] = value]))
        <5>1. \A x \in Int : Reads(State(-1, x, r), <<c>>, State(-1, 0, [r EXCEPT ![k] = x + Rest(-1)]))
          BY <1>11, <2>6
        <5>2. 1000 \in Int /\ 1000 + Rest(-1) = value
          BY <3>9 DEF Rest
        <5>. QED
          BY <5>1, <5>2
      <4>4. PICK p, q, s, z : /\ p = o \o v /\ q = <<c>> /\ s = State(-1, 0, r)
                              /\ z = State(-1, 0, [r EXCEPT ![k] = value])
        OBVIOUS
      <4>5. Reads(s, p \o q, z)
        <5>1. p \in Seq(11 .. 28) /\ q \in Seq(11 .. 28)
          BY <2>5, <3>4, <4>4
        <5>2. Reads(s, p, State(-1, 1000, r)) /\ Reads(State(-1, 1000, r), q, z)
          BY <4>2, <4>3, <4>4
        <5>. QED
          BY <5>1, <5>2, ReadJoined
      <4>. QED
        BY <3>3, <4>4, <4>5
    <3>11. Writes(GroupText(src, k), b, k, value)
      BY <1>14, <2>1, <3>5, <3>7, <3>8, <3>10, Zenon DEF Writes
    <3>. QED
      BY <1>1, <3>11, Zenon
  <2>8. CASE v # <<24>>
    <3>1. GroupText(src, k) = t \o u
      <4>1. end = <<>>
        BY <1>6, <1>9, <2>8
      <4>2. GroupText(src, k) = <<>> \o t \o u
        BY <1>7, <1>8, <1>14, <4>1, Zenon
      <4>3. <<>> \o t = t
        BY <1>4, ConcatEmptySeq
      <4>. QED
        BY <4>2, <4>3, Zenon
    <3>2. PICK b : b = v \o <<c>>
      OBVIOUS
    <3>3. Spells(GroupText(src, k), b)
      BY <1>2, <2>5, <3>1, <3>2, SpelledJoined
    <3>4. Len(b) = m + 1 /\ b[m + 1] = c /\ \A i \in 1 .. m : b[i] = v[i]
      <4>1. PICK p \in Nat, q \in Nat : Joins(v, <<c>>, p, q)
        BY <1>4, <2>5, JoinedLetters
      <4>2. p = m /\ q = 1 /\ Len(b) = p + q /\ \A i \in 1 .. m : b[i] = v[i]
        BY <1>3, <2>5, <3>2, <4>1 DEF Joins
      <4>3. m + 1 \in 1 .. m + 1 /\ m + 1 \notin 1 .. m /\ (m + 1) - m = 1
        OBVIOUS
      <4>4. b[m + 1] = <<c>>[1]
        <5>1. \A i \in 1 .. m + 1 : i \in 1 .. m \/ (i - m \in 1 .. 1 /\ b[i] = <<c>>[i - m])
          BY <3>2, <4>1, <4>2 DEF Joins
        <5>. QED
          BY <4>3, <5>1
      <4>. QED
        BY <2>5, <4>2, <4>4
    <3>5. \A i \in 1 .. m : b[i] \in {12} \cup Plain /\ b[i] \notin Myriads /\ (b[i] = 12 => i = m)
      BY <1>2, <1>3, <1>10, <3>4
    <3>6. b # <<>>
      <4>1. Len(<<>>) = 0 /\ m + 1 # 0
        OBVIOUS
      <4>. QED
        BY <3>4, <4>1
    <3>7. Block(b, k)
      <4>1. \A i \in 1 .. m + 1 : i \in 1 .. m \/ i = m + 1
        OBVIOUS
      <4>2. \A i \in 1 .. m + 1 : b[i] \in {12} \cup Plain \cup Myriads /\ (b[i] \in Myriads => i = m + 1)
        BY <2>3, <3>4, <3>5, <4>1
      <4>3. \A i \in 1 .. m + 1 : b[i] = 12 /\ i # m + 1 => b[i + 1] \in Myriads
        BY <2>3, <3>4, <3>5, <4>1
      <4>4. ~ (m + 1 = 2 /\ b[1] = 24)
        <5>1. SUFFICES ASSUME m + 1 = 2, b[1] = 24 PROVE FALSE
          OBVIOUS
        <5>2. m = 1 /\ 1 \in 1 .. m
          BY <5>1
        <5>3. v[1] = 24
          BY <3>4, <5>1, <5>2
        <5>4. PICK w : w = <<24>>
          OBVIOUS
        <5>5. w \in Seq(11 .. 28) /\ Len(w) = 1 /\ w[1] = 24
          BY <1>11, <5>4, FewLetters
        <5>6. \A i \in 1 .. 1 : i = 1
          OBVIOUS
        <5>7. Len(v) = Len(w) /\ \A i \in 1 .. Len(v) : v[i] = w[i]
          BY <1>3, <5>2, <5>3, <5>5, <5>6
        <5>8. v = w
          BY <1>4, <5>5, <5>7, SeqEqual
        <5>. QED
          BY <2>8, <5>4, <5>8
      <4>5. b[m + 1] \in Myriads
        BY <2>3, <3>4
      <4>6. Len(b) = m + 1
        BY <3>4
      <4>. QED
        BY <3>6, <4>2, <4>3, <4>4, <4>5, <4>6, Zenon DEF Block
    <3>8. ASSUME NEW r \in Counts PROVE Reads(State(-1, 0, r), b, State(-1, 0, [r EXCEPT ![k] = value]))
      <4>1. PICK e \in -1 .. 9, x \in Int : Reads(State(-1, 0, r), v, State(e, x, r)) /\ x + Rest(e) = value
        BY <1>2
      <4>2. Reads(State(e, x, r), <<c>>, State(-1, 0, [r EXCEPT ![k] = x + Rest(e)]))
        BY <2>6
      <4>3. Reads(State(-1, 0, r), b, State(-1, 0, [r EXCEPT ![k] = x + Rest(e)]))
        BY <1>4, <2>5, <3>2, <4>1, <4>2, ReadJoined, Zenon
      <4>. QED
        BY <4>1, <4>3, Zenon
    <3>9. Writes(GroupText(src, k), b, k, value)
      BY <1>14, <2>1, <3>3, <3>6, <3>7, <3>8, Zenon DEF Writes
    <3>. QED
      BY <1>1, <3>9, Zenon
  <2>. QED
    BY <2>7, <2>8
<1>. QED
  BY <1>12, <1>13, <1>14

-----------------------------------------------------------------------------
(* The numeral                                                               *)

\* The four digits of the k-th myriad by their places.
LEMMA FourDigitsPlaces ==
    ASSUME NEW src \in Seq(Int), NEW k \in Nat
    PROVE  FourDigits(src, k) = Place(src, 4 * k) + 10 * Place(src, 4 * k + 1)
                                + 100 * Place(src, 4 * k + 2) + 1000 * Place(src, 4 * k + 3)
<1>. DEFINE digit(j) == IF 4 * k + j < Len(src) THEN Digit(src[Len(src) - 4 * k - j]) ELSE 0
<1>1. FourDigits(src, k) = digit(0) + 10 * digit(1) + 100 * digit(2) + 1000 * digit(3)
  BY Zenon DEF FourDigits
<1>2. PICK L \in Nat : L = Len(src)
  OBVIOUS
<1>3. \A j \in 0 .. 3 : digit(j) = Place(src, 4 * k + j)
  <2>1. \A j \in 0 .. 3 : L - 4 * k - j = L - (4 * k + j)
    OBVIOUS
  <2>. QED
    BY <1>2, <2>1 DEF Place
<1>4. 0 \in 0 .. 3 /\ 1 \in 0 .. 3 /\ 2 \in 0 .. 3 /\ 3 \in 0 .. 3 /\ 4 * k + 0 = 4 * k
  OBVIOUS
<1>. HIDE DEF digit
<1>5. /\ digit(0) = Place(src, 4 * k) /\ digit(1) = Place(src, 4 * k + 1)
      /\ digit(2) = Place(src, 4 * k + 2) /\ digit(3) = Place(src, 4 * k + 3)
  BY <1>3, <1>4
<1>. QED
  BY <1>1, <1>5

\* Behind the number there are no digits.
LEMMA NoDigits ==
    ASSUME NEW src \in Seq(Int), NEW k \in Nat, Len(src) <= 4 * k
    PROVE  FourDigits(src, k) = 0
<1>1. PICK L \in Nat : L = Len(src)
  OBVIOUS
<1>2. ~ (4 * k < L) /\ ~ (4 * k + 1 < L) /\ ~ (4 * k + 2 < L) /\ ~ (4 * k + 3 < L)
  BY <1>1
<1>3. /\ Place(src, 4 * k) = 0 /\ Place(src, 4 * k + 1) = 0 /\ Place(src, 4 * k + 2) = 0
      /\ Place(src, 4 * k + 3) = 0
  BY <1>1, <1>2 DEF Place
<1>4. FourDigits(src, k) = Place(src, 4 * k) + 10 * Place(src, 4 * k + 1)
                           + 100 * Place(src, 4 * k + 2) + 1000 * Place(src, 4 * k + 3)
  BY FourDigitsPlaces
<1>. QED
  BY <1>3, <1>4

\* A group holds the digits of its myriad.
LEMMA GroupValue ==
    ASSUME NEW src \in Seq(Int), AllDigits(src), NEW k \in Nat,
           NEW s \in 1 .. 4, NEW y, NEW end, IsGroup(src, y, s, end), end = Len(src) - 4 * k
    PROVE  AllDigits(y) /\ FourDigits(y, 0) = FourDigits(src, k)
<1>0. PICK L \in Nat : L = Len(src)
  OBVIOUS
<1>1. PICK e \in Nat : e = L - 4 * k /\ s <= e /\ (s = 4 \/ s = e)
  <2>1. s <= L - 4 * k /\ (s = 4 \/ s = L - 4 * k)
    BY <1>0 DEF IsGroup
  <2>2. L - 4 * k \in Nat
    BY <2>1
  <2>. QED
    BY <2>1, <2>2
<1>2. y \in Seq(Int) /\ Len(y) = s /\ DOMAIN y = 1 .. s /\ DOMAIN src = 1 .. L
  BY <1>0 DEF IsGroup
<1>3. \A i \in 1 .. s : y[i] = src[e - s + i] /\ e - s + i \in 1 .. L
  BY <1>0, <1>1 DEF IsGroup
<1>4. AllDigits(y)
  BY <1>2, <1>3 DEF AllDigits
<1>5. ASSUME NEW j \in 0 .. 3 PROVE Place(y, j) = Place(src, 4 * k + j)
  <2>1. CASE j < s
    <3>1. s - j \in 1 .. s /\ e - s + (s - j) = L - (4 * k + j) /\ 4 * k + j < L
      BY <1>1, <2>1
    <3>2. y[s - j] = src[L - (4 * k + j)]
      BY <1>3, <3>1
    <3>. QED
      BY <1>0, <1>2, <2>1, <3>1, <3>2 DEF Place
  <2>2. CASE ~ (j < s)
    <3>1. ~ (4 * k + j < L)
      BY <1>1, <2>2
    <3>. QED
      BY <1>0, <1>2, <2>2, <3>1 DEF Place
  <2>. QED
    BY <2>1, <2>2
<1>6. 0 \in 0 .. 3 /\ 1 \in 0 .. 3 /\ 2 \in 0 .. 3 /\ 3 \in 0 .. 3 /\ 4 * k + 0 = 4 * k
      /\ 4 * 0 = 0 /\ 0 + 1 = 1 /\ 0 + 2 = 2 /\ 0 + 3 = 3 /\ 0 \in Nat
  OBVIOUS
<1>7. FourDigits(y, 0) = Place(y, 4 * 0) + 10 * Place(y, 4 * 0 + 1) + 100 * Place(y, 4 * 0 + 2) + 1000 * Place(y, 4 * 0 + 3)
  BY <1>2, <1>6, FourDigitsPlaces
<1>8. FourDigits(y, 0) = Place(y, 0) + 10 * Place(y, 1) + 100 * Place(y, 2) + 1000 * Place(y, 3)
  BY <1>6, <1>7
<1>9. /\ Place(y, 0) = Place(src, 4 * k) /\ Place(y, 1) = Place(src, 4 * k + 1)
      /\ Place(y, 2) = Place(src, 4 * k + 2) /\ Place(y, 3) = Place(src, 4 * k + 3)
  BY <1>5, <1>6
<1>10. FourDigits(y, 0) = FourDigits(src, k)
  BY <1>8, <1>9, FourDigitsPlaces
<1>. QED
  BY <1>4, <1>10

\* The myriads from the m-th on.
Upper(src, m) == [k \in 0 .. 4 |-> IF k >= m /\ k # 0 THEN FourDigits(src, k) ELSE 0]

\* How they grow by a group.
LEMMA UpperSteps ==
    ASSUME NEW src \in Seq(Int), NEW n \in Nat, Len(src) <= 4 * n, AllDigits(src)
    PROVE  /\ ReadStart = State(-1, 0, Upper(src, n))
           /\ \A m \in Nat : Upper(src, m) \in Counts
           /\ \A k \in 1 .. 4 : Upper(src, k) = [Upper(src, k + 1) EXCEPT ![k] = FourDigits(src, k)]
           /\ \A k \in Nat : k # 0 /\ (FourDigits(src, k) = 0 \/ k > 4) => Upper(src, k) = Upper(src, k + 1)
           /\ [Upper(src, 1) EXCEPT ![0] = FourDigits(src, 0)] = [k \in 0 .. 4 |-> FourDigits(src, k)]
<1>1. PICK L \in Nat : L = Len(src) /\ DOMAIN src = 1 .. L
  OBVIOUS
<1>2. ASSUME NEW k \in 0 .. 4 PROVE FourDigits(src, k) \in Int
  <2>1. \A p \in Nat : Place(src, p) \in Int
    <3>1. ASSUME NEW p \in Nat PROVE Place(src, p) \in Int
      <4>1. p < L => L - p \in 1 .. L
        OBVIOUS
      <4>2. \A i \in 1 .. L : Digit(src[i]) \in Int
        BY <1>1, AsciiAssumption DEF Digit
      <4>. QED
        BY <1>1, <4>1, <4>2 DEF Place
    <3>. QED
      BY <3>1
  <2>2. 4 * k \in Nat /\ 4 * k + 1 \in Nat /\ 4 * k + 2 \in Nat /\ 4 * k + 3 \in Nat /\ k \in Nat
    OBVIOUS
  <2>3. PICK a \in Int, b \in Int, c \in Int, d \in Int :
            /\ a = Place(src, 4 * k) /\ b = Place(src, 4 * k + 1)
            /\ c = Place(src, 4 * k + 2) /\ d = Place(src, 4 * k + 3)
    BY <2>1, <2>2
  <2>4. FourDigits(src, k) = Place(src, 4 * k) + 10 * Place(src, 4 * k + 1)
                             + 100 * Place(src, 4 * k + 2) + 1000 * Place(src, 4 * k + 3)
    BY <2>2, FourDigitsPlaces
  <2>5. FourDigits(src, k) = a + 10 * b + 100 * c + 1000 * d
    BY <2>3, <2>4
  <2>. QED
    BY <2>5
<1>3. \A k \in 0 .. 4 : k >= n => FourDigits(src, k) = 0
  <2>1. ASSUME NEW k \in 0 .. 4, k >= n PROVE FourDigits(src, k) = 0
    <3>1. k \in Nat /\ Len(src) <= 4 * k
      BY <1>1, <2>1
    <3>. QED
      BY <3>1, NoDigits
  <2>. QED
    BY <2>1
<1>4. \A m \in Nat : Upper(src, m) \in Counts
  BY <1>2 DEF Upper, Counts
<1>5. ReadStart = State(-1, 0, Upper(src, n))
  <2>1. Upper(src, n) = [k \in 0 .. 4 |-> 0]
    BY <1>3 DEF Upper
  <2>. QED
    BY <2>1 DEF ReadStart, State
<1>6. ASSUME NEW k \in 1 .. 4 PROVE Upper(src, k) = [Upper(src, k + 1) EXCEPT ![k] = FourDigits(src, k)]
  <2>1. \A j \in 0 .. 4 : (j >= k /\ j # 0 <=> j = k \/ (j >= k + 1 /\ j # 0)) /\ (j = k => ~ (j >= k + 1) /\ j # 0)
    OBVIOUS
  <2>. QED
    BY <2>1 DEF Upper
<1>7. ASSUME NEW k \in Nat, k # 0, FourDigits(src, k) = 0 \/ k > 4 PROVE Upper(src, k) = Upper(src, k + 1)
  <2>1. \A j \in 0 .. 4 : (j >= k /\ j # 0) => (j >= k + 1 /\ j # 0) \/ (j = k /\ ~ (k > 4))
    BY <1>7
  <2>2. \A j \in 0 .. 4 : (j >= k + 1 /\ j # 0) => (j >= k /\ j # 0)
    OBVIOUS
  <2>3. \A j \in 0 .. 4 : (IF j >= k /\ j # 0 THEN FourDigits(src, j) ELSE 0)
                          = (IF j >= k + 1 /\ j # 0 THEN FourDigits(src, j) ELSE 0)
    BY <1>7, <2>1, <2>2
  <2>. QED
    BY <2>3 DEF Upper
<1>8. [Upper(src, 1) EXCEPT ![0] = FourDigits(src, 0)] = [k \in 0 .. 4 |-> FourDigits(src, k)]
  <2>1. \A j \in 0 .. 4 : j = 0 \/ (j >= 1 /\ j # 0)
    OBVIOUS
  <2>. QED
    BY <2>1 DEF Upper
<1>. QED
  BY <1>4, <1>5, <1>6, <1>7, <1>8

\* What stands in front of the group i: the numeral w of the myriads before it.
Begun(src, t, w, m) ==
    Spells(t, w) /\ Numeral(w) /\ EndsGroup(w) /\ Reads(ReadStart, w, State(-1, 0, Upper(src, m)))

\* A group in front of a myriad goes on with what was begun.
LEMMA GroupJoined ==
    ASSUME NEW src \in Seq(Int), NEW n \in Nat, Len(src) <= 4 * n, AllDigits(src), NEW k \in Nat, k # 0,
           NEW t, NEW w, Begun(src, t, w, k + 1), NEW u, NEW b, Writes(u, b, k, FourDigits(src, k))
    PROVE  Begun(src, t \o u, w \o b, k)
<1>1. PICK m \in Nat : m = k + 1
  OBVIOUS
<1>2. Spells(t, w) /\ w \in Seq(11 .. 28) /\ Spells(u, b) /\ b \in Seq(11 .. 28)
  BY DEF Begun, Writes, Spells
<1>3. Spells(t \o u, w \o b)
  BY <1>2, SpelledJoined
<1>4. Numeral(w) /\ EndsGroup(w) /\ Reads(ReadStart, w, State(-1, 0, Upper(src, m)))
  BY <1>1 DEF Begun
<1>5. Upper(src, m) \in Counts
  BY <1>1, UpperSteps
<1>6. CASE b = <<>>
  <2>1. w \o b = w
    BY <1>2, <1>6
  <2>2. FourDigits(src, k) = 0
    BY <1>6 DEF Writes
  <2>3. Upper(src, k) = Upper(src, m)
    BY <1>1, <2>2, UpperSteps
  <2>. QED
    BY <1>3, <1>4, <2>1, <2>3 DEF Begun
<1>7. CASE b # <<>>
  <2>1. /\ Block(b, k) /\ k \in 1 .. 4
        /\ \A r \in Counts : Reads(State(-1, 0, r), b, State(-1, 0, [r EXCEPT ![k] = FourDigits(src, k)]))
    BY <1>7 DEF Writes
  <2>2. Numeral(w \o b) /\ EndsGroup(w \o b)
    BY <1>2, <1>4, <2>1, NumeralJoined
  <2>3. Reads(State(-1, 0, Upper(src, m)), b, State(-1, 0, Upper(src, k)))
    <3>1. Upper(src, k) = [Upper(src, m) EXCEPT ![k] = FourDigits(src, k)]
      BY <1>1, <2>1, UpperSteps
    <3>. QED
      BY <1>5, <2>1, <3>1
  <2>4. Reads(ReadStart, w \o b, State(-1, 0, Upper(src, k)))
    BY <1>2, <1>4, <2>3, ReadJoined
  <2>. QED
    BY <1>3, <2>2, <2>4 DEF Begun
<1>. QED
  BY <1>6, <1>7

\* The letters of t are w, and they are read as the number src.
ReadsAs(t, w, src) ==
    /\ Spells(t, w)
    /\ \E e \in -1 .. 9, x \in Int, r \in Counts :
           /\ Reads(ReadStart, w, State(e, x, r))
           /\ [r EXCEPT ![0] = x + Rest(e)] = [k \in 0 .. 4 |-> FourDigits(src, k)]

\* The text of the groups is a numeral, and reads as the number.
LEMMA GroupsRead ==
    ASSUME NEW src \in Seq(Int), src # <<>>, AllDigits(src), NEW n \in Nat, n = Len(Groups(src)),
           \A g \in 1 .. n : n - g >= 5 => Kanji4Digits(Groups(src)[g]) = <<>>
    PROVE  LET text == FlattenSeq([g \in DOMAIN Groups(src) |->
                                     GroupText(Groups(src)[g], Len(Groups(src)) - g)])
           IN  \E w : Numeral(w) /\ ReadsAs(text, w, src)
<1>1. PICK L \in Nat : L = Len(src)
  OBVIOUS
<1>2. /\ DOMAIN Groups(src) = 1 .. n /\ n >= 1 /\ Len(src) <= 4 * n
      /\ \A g \in 1 .. n : \E s \in 1 .. 4 : IsGroup(src, Groups(src)[g], s, L - 4 * (n - g))
  BY <1>1, GroupsFacts
<1>. DEFINE ps == [g \in 1 .. n |-> GroupText(Groups(src)[g], n - g)]
<1>3. ASSUME NEW g \in 1 .. n, NEW k \in Nat, k = n - g
      PROVE  \E b : Writes(ps[g], b, k, FourDigits(src, k))
  <2>1. PICK y : y = Groups(src)[g]
    OBVIOUS
  <2>2. PICK s \in 1 .. 4 : IsGroup(src, y, s, L - 4 * k)
    BY <1>2, <1>3, <2>1
  <2>3. AllDigits(y) /\ FourDigits(y, 0) = FourDigits(src, k) /\ y \in Seq(Int) /\ Len(y) = s
    <3>1. AllDigits(y) /\ FourDigits(y, 0) = FourDigits(src, k)
      <4>. HIDE DEF ps
      <4>1. PICK end : end = Len(src) - 4 * k /\ IsGroup(src, y, s, end)
        BY <1>1, <2>2
      <4>. QED
        BY <4>1, GroupValue
    <3>. QED
      BY <2>2, <3>1 DEF IsGroup
  <2>4. k <= 4 \/ Kanji4Digits(y) = <<>>
    BY <1>3, <2>1
  <2>5. \E b : Writes(GroupText(y, k), b, k, FourDigits(y, 0))
    BY <2>3, <2>4, GroupTextReads
  <2>6. ps[g] = GroupText(y, k)
    BY <1>3, <2>1
  <2>. QED
    BY <2>3, <2>5, <2>6
<1>4. ps \in Seq(Seq(Int)) /\ Len(ps) = n
  <2>1. \A g \in 1 .. n : ps[g] \in Seq(Int)
    <3>1. ASSUME NEW g \in 1 .. n PROVE ps[g] \in Seq(Int)
      <4>1. PICK k \in Nat : k = n - g
        <5>1. n - g \in Nat
          OBVIOUS
        <5>. QED
          BY <5>1
      <4>2. PICK b : Writes(ps[g], b, k, FourDigits(src, k))
        BY <1>3, <4>1
      <4>. HIDE DEF ps
      <4>. QED
        BY <4>2 DEF Writes, Spells
    <3>. QED
      BY <3>1
  <2>2. ps \in [1 .. n -> Seq(Int)]
    BY <2>1
  <2>. HIDE DEF ps
  <2>. QED
    BY <2>2, Sequence
<1>5. FlattenSeq([g \in DOMAIN Groups(src) |-> GroupText(Groups(src)[g], Len(Groups(src)) - g)]) = FlattenSeq(ps)
  BY <1>2
<1>. HIDE DEF ps
<1>6. PICK f \in [0 .. n -> Seq(Int)] : /\ f[0] = <<>>
                                        /\ \A i \in 1 .. n : f[i] = f[i - 1] \o ps[i]
                                        /\ FlattenSeq(ps) = f[n]
  BY <1>4, FlattenIsFold
<1>. DEFINE T == {m \in Nat : \A i \in 0 .. n - 1 : i = m => \E w : Begun(src, f[i], w, n - i)}
<1>7. 0 \in T
  <2>1. Len(<<>>) = 0 /\ n - 0 = n
    OBVIOUS
  <2>2. Numeral(<<>>) /\ EndsGroup(<<>>)
    <3>1. \A i \in 1 .. 0 : FALSE
      OBVIOUS
    <3>. QED
      BY <2>1, <3>1, Zenon DEF Numeral, EndsGroup
  <2>3. Reads(ReadStart, <<>>, State(-1, 0, Upper(src, n)))
    <3>1. ReadStart = State(-1, 0, Upper(src, n))
      BY <1>2, UpperSteps
    <3>2. \A s : Reads(s, <<>>, s)
      BY ReadOne, Zenon
    <3>. QED
      BY <3>1, <3>2
  <2>4. Begun(src, f[0], <<>>, n - 0)
    BY <1>6, <2>1, <2>2, <2>3, SpelledLetter DEF Begun
  <2>. QED
    BY <2>4
<1>8. ASSUME NEW m \in Nat, m \in T PROVE m + 1 \in T
  <2>. SUFFICES ASSUME NEW i \in 0 .. n - 1, i = m + 1 PROVE \E w : Begun(src, f[i], w, n - i)
    OBVIOUS
  <2>1. i - 1 \in 0 .. n - 1 /\ i - 1 = m /\ i \in 1 .. n
    OBVIOUS
  <2>2. PICK w : Begun(src, f[i - 1], w, n - (i - 1))
    BY <1>8, <2>1
  <2>3. PICK k \in Nat : k = n - i /\ k # 0 /\ n - (i - 1) = k + 1
    <3>1. n - i \in Nat /\ n - i # 0 /\ n - (i - 1) = (n - i) + 1
      OBVIOUS
    <3>. QED
      BY <3>1
  <2>4. PICK b : Writes(ps[i], b, k, FourDigits(src, k))
    BY <1>3, <2>1, <2>3
  <2>5. Begun(src, f[i - 1], w, k + 1)
    BY <2>2, <2>3
  <2>6. Begun(src, f[i - 1] \o ps[i], w \o b, k)
    BY <1>2, <2>3, <2>4, <2>5, GroupJoined
  <2>. QED
    BY <1>6, <2>1, <2>3, <2>6
<1>9. PICK w : Begun(src, f[n - 1], w, 1)
  <2>1. n - 1 \in Nat /\ n - 1 \in 0 .. n - 1 /\ n - (n - 1) = 1
    BY <1>2
  <2>2. Nat \subseteq T
    <3>. HIDE DEF T
    <3>. QED
      BY <1>7, <1>8, Induction
  <2>3. \E w : Begun(src, f[n - 1], w, n - (n - 1))
    BY <2>1, <2>2
  <2>. QED
    BY <2>1, <2>3
<1>10. PICK b : Writes(ps[n], b, 0, FourDigits(src, 0))
  <2>1. n \in 1 .. n /\ 0 = n - n /\ 0 \in Nat
    BY <1>2
  <2>. QED
    BY <1>3, <2>1
<1>11. FlattenSeq(ps) = f[n - 1] \o ps[n]
  <2>1. n \in 1 .. n
    BY <1>2
  <2>. QED
    BY <1>6, <2>1
<1>12. w \in Seq(11 .. 28) /\ b \in Seq(11 .. 28)
  BY <1>9, <1>10 DEF Begun, Writes, Spells
<1>13. Spells(FlattenSeq(ps), w \o b)
  BY <1>9, <1>10, <1>11, SpelledJoined DEF Begun, Writes
<1>14. Numeral(w \o b)
  <2>1. CASE b = <<>>
    <3>1. w \o b = w
      BY <1>12, <2>1
    <3>. QED
      BY <1>9, <3>1 DEF Begun
  <2>2. CASE b # <<>>
    <3>1. Block(b, 0) /\ Numeral(w) /\ EndsGroup(w)
      BY <1>9, <1>10, <2>2 DEF Begun, Writes
    <3>. QED
      BY <1>12, <3>1, NumeralJoined
  <2>. QED
    BY <2>1, <2>2
<1>15. PICK r \in Counts : r = Upper(src, 1)
  <2>1. 1 \in Nat
    OBVIOUS
  <2>2. Upper(src, 1) \in Counts
    BY <1>2, <2>1, UpperSteps
  <2>. QED
    BY <2>2
<1>16. PICK e \in -1 .. 9, x \in Int : Reads(State(-1, 0, r), b, State(e, x, r)) /\ x + Rest(e) = FourDigits(src, 0)
  BY <1>10 DEF Writes
<1>17. Reads(ReadStart, w \o b, State(e, x, r))
  <2>1. Reads(ReadStart, w, State(-1, 0, r))
    BY <1>9, <1>15 DEF Begun
  <2>. QED
    BY <1>12, <1>16, <2>1, ReadJoined
<1>18. [r EXCEPT ![0] = x + Rest(e)] = [k \in 0 .. 4 |-> FourDigits(src, k)]
  <2>1. [Upper(src, 1) EXCEPT ![0] = FourDigits(src, 0)] = [k \in 0 .. 4 |-> FourDigits(src, k)]
    BY <1>2, UpperSteps
  <2>. QED
    BY <1>15, <1>16, <2>1
<1>19. ReadsAs(FlattenSeq(ps), w \o b, src)
  BY <1>13, <1>17, <1>18 DEF ReadsAs
<1>. QED
  BY <1>5, <1>14, <1>19

\* What reads as the number, ReadKanji reads as the number.
LEMMA ReadBack ==
    ASSUME NEW t, NEW w, NEW src, ReadsAs(t, w, src)
    PROVE  ReadKanji(t) = [k \in 0 .. 4 |-> FourDigits(src, k)]
<1>1. Spells(t, w)
  BY DEF ReadsAs
<1>2. PICK e \in -1 .. 9, x \in Int, r \in Counts :
          /\ Reads(ReadStart, w, State(e, x, r))
          /\ [r EXCEPT ![0] = x + Rest(e)] = [k \in 0 .. 4 |-> FourDigits(src, k)]
  BY DEF ReadsAs
<1>3. PICK z : z = FoldStep(ReadLetter, ReadStart, Letters(t))
  OBVIOUS
<1>4. z = State(e, x, r)
  BY <1>1, <1>2, <1>3, ReadIsFold, Zenon
<1>5. z.digit = e /\ z.sum = x /\ z.read = r
  BY <1>4 DEF State
<1>6. ReadKanji(t) = [z.read EXCEPT ![0] = z.sum + (IF z.digit = -1 THEN 0 ELSE z.digit)]
  BY <1>3, Zenon DEF ReadKanji
<1>7. ReadKanji(t) = [r EXCEPT ![0] = x + Rest(e)]
  BY <1>5, <1>6, Zenon DEF Rest
<1>. QED
  BY <1>2, <1>7

\* The zero is read as a number without groups.
LEMMA ZeroReads ==
    ASSUME NEW w, NEW src, ReadsAs(<<>>, w, src)
    PROVE  ReadsAs(KansujiDigit(0), <<11>>, src)
<1>1. PICK e \in -1 .. 9, x \in Int, r \in Counts :
          /\ Reads(ReadStart, w, State(e, x, r))
          /\ [r EXCEPT ![0] = x + Rest(e)] = [k \in 0 .. 4 |-> FourDigits(src, k)]
  BY DEF ReadsAs
<1>2. w = <<>>
  <2>1. w \in Seq(11 .. 28) /\ Len(<<>>) = 3 * Len(w)
    BY DEF ReadsAs, Spells
  <2>2. PICK n \in Nat : n = Len(w)
    BY <2>1
  <2>3. n = 0
    BY <2>1, <2>2
  <2>. QED
    BY <2>1, <2>2, <2>3, EmptySeq
<1>3. ReadStart = State(e, x, r)
  BY <1>1, <1>2, ReadOne, Zenon
<1>4. PICK k : k = KansujiDigit(0)
  OBVIOUS
<1>5. 0 \in Int /\ 11 + 0 = 11 /\ 11 \in 11 .. 28 /\ 0 \in 0 .. 9 /\ 0 \in -1 .. 9
  OBVIOUS
<1>6. k = Utf8(11)
  <2>1. \A d \in Int : KansujiDigit(d) = Utf8(11 + d)
    BY LetterNumbers
  <2>2. KansujiDigit(0) = Utf8(11 + 0)
    BY <1>5, <2>1
  <2>. QED
    BY <1>4, <1>5, <2>2
<1>7. Spells(k, <<11>>)
  BY <1>5, <1>6, SpelledLetter
<1>8. ReadLetter(State(e, x, r), Utf8(11)) = State(0, x, r)
  <2>1. \A d \in 0 .. 9 : ReadLetter(State(e, x, r), Utf8(11 + d)) = State(d, x, r)
    BY ReadSteps
  <2>2. ReadLetter(State(e, x, r), Utf8(11 + 0)) = State(0, x, r)
    BY <1>5, <2>1
  <2>. QED
    BY <1>5, <2>2
<1>9. Reads(ReadStart, <<11>>, State(0, x, r))
  <2>1. \A c \in 11 .. 28 : \A s, z : Reads(s, <<c>>, z) <=> z = ReadLetter(s, Utf8(c))
    BY ReadOne
  <2>2. \A s, z : Reads(s, <<11>>, z) <=> z = ReadLetter(s, Utf8(11))
    BY <1>5, <2>1
  <2>. QED
    BY <1>3, <1>8, <2>2
<1>10. Rest(0) = Rest(e)
  <2>1. e = -1
    BY <1>3 DEF ReadStart, State
  <2>. QED
    BY <2>1 DEF Rest
<1>11. [r EXCEPT ![0] = x + Rest(0)] = [j \in 0 .. 4 |-> FourDigits(src, j)]
  BY <1>1, <1>10
<1>. QED
  BY <1>4, <1>5, <1>7, <1>9, <1>11 DEF ReadsAs

\* A number that type 3 writes.
LEMMA Type3Reads ==
    ASSUME NEW num \in Seq(Int), NEW size \in Int, Type3(num, size).code = "ok"
    PROVE  \E w : (w = <<11>> \/ Numeral(w)) /\ ReadsAs(Type3(num, size).text, w, num)
<1>. DEFINE text == FlattenSeq([g \in DOMAIN Groups(num) |-> GroupText(Groups(num)[g], Len(Groups(num)) - g)])
            leaves == \E g \in DOMAIN Groups(num) :
                          Len(Groups(num)) - g >= Len(JapaneseKetaMan) /\ Kanji4Digits(Groups(num)[g]) # <<>>
<1>1. Type3(num, size) =
          IF KetaRefused(num) THEN Failed
          ELSE IF ~ AllDigits(num) \/ leaves THEN OutOfTable
          ELSE IF text = <<>>
          THEN IF Len(KansujiDigit(0)) > size THEN Failed ELSE Written(KansujiDigit(0))
          ELSE IF Len(text) > size THEN Failed ELSE Written(text)
  BY Zenon DEF Type3
<1>2. Failed.code # "ok" /\ OutOfTable.code # "ok" /\ \A t : Written(t).text = t
  BY DEF Failed, OutOfTable, Written
<1>3. ~ KetaRefused(num) /\ AllDigits(num) /\ ~ leaves
  <2>. HIDE DEF text, leaves
  <2>. QED
    BY <1>1, <1>2, Zenon
<1>4. Type3(num, size).text = IF text = <<>> THEN KansujiDigit(0) ELSE text
  <2>. HIDE DEF text, leaves
  <2>. QED
    BY <1>1, <1>2, Zenon
<1>5. num # <<>>
  BY <1>3 DEF KetaRefused
<1>6. PICK n \in Nat : n = Len(Groups(num)) /\ DOMAIN Groups(num) = 1 .. n
  BY <1>5, GroupsFacts
<1>7. \A g \in 1 .. n : n - g >= 5 => Kanji4Digits(Groups(num)[g]) = <<>>
  <2>1. Len(JapaneseKetaMan) = 5
    BY Characters
  <2>. QED
    BY <1>3, <1>6, <2>1
<1>8. PICK w : Numeral(w) /\ ReadsAs(text, w, num)
  BY <1>3, <1>5, <1>6, <1>7, GroupsRead
<1>. HIDE DEF text, leaves
<1>9. CASE text = <<>>
  <2>1. ReadsAs(KansujiDigit(0), <<11>>, num)
    BY <1>8, <1>9, ZeroReads
  <2>. QED
    BY <1>4, <1>9, <2>1, Zenon
<1>10. CASE text # <<>>
  BY <1>4, <1>8, <1>10, Zenon
<1>. QED
  BY <1>9, <1>10

\* The spelling of zero is its one letter.
IsZero(w) == w = <<11>>

\* Ones and zeros stand in a numeral where they are spoken.
LEMMA NumeralOnes ==
    ASSUME NEW text, NEW w, Spells(text, w), IsZero(w) \/ Numeral(w), NEW t, t = Letters(text)
    PROVE  LET at(i, letter) == i \in DOMAIN t /\ t[i] = letter
               myriad(i) == \E k \in 2 .. 5 : at(i, JapaneseKetaMan[k])
               begins(i) == i = 1 \/ myriad(i - 1)
           IN  /\ (\E i \in DOMAIN t : at(i, KansujiDigit(0))) => t = <<KansujiDigit(0)>>
               /\ \A i \in DOMAIN t : at(i, KansujiDigit(1)) =>
                       ~ at(i + 1, JapaneseKeta4[2]) /\ ~ at(i + 1, JapaneseKeta4[3])
               /\ \A i \in DOMAIN t : at(i, Thousand) =>
                       /\ at(i - 1, KansujiDigit(1)) => begins(i - 1) /\ myriad(i + 1)
                       /\ ~ (begins(i) /\ myriad(i + 1))
<1>. DEFINE at(i, letter) == i \in DOMAIN t /\ t[i] = letter
            myriad(i) == \E k \in 2 .. 5 : at(i, JapaneseKetaMan[k])
            begins(i) == i = 1 \/ myriad(i - 1)
<1>1. w = <<11>> \/ Numeral(w)
  BY DEF IsZero
<1>2. PICK n \in Nat : n = Len(w)
  BY DEF Spells
<1>3. /\ w \in Seq(11 .. 28) /\ t \in Seq(Seq(Int)) /\ Len(t) = n /\ DOMAIN t = 1 .. n
      /\ \A i \in 1 .. n : t[i] = Utf8(w[i])
  BY <1>2, SpelledLetters
<1>4. \A i \in 1 .. n : w[i] \in 11 .. 28
  BY <1>2, <1>3, ElementOfSeq
<1>5. \A c \in Int : \A i : at(i, Utf8(c)) <=> i \in 1 .. n /\ w[i] = c
  <2>1. \A i \in 1 .. n, c \in Int : t[i] = Utf8(c) <=> w[i] = c
    <3>1. \A i \in 1 .. n : w[i] \in Int
      BY <1>4
    <3>. QED
      BY <1>3, <3>1, LetterNumbers
  <2>. QED
    BY <1>3, <2>1
<1>6. /\ KansujiDigit(0) = Utf8(11) /\ KansujiDigit(1) = Utf8(12) /\ Thousand = Utf8(24)
      /\ JapaneseKeta4[2] = Utf8(22) /\ JapaneseKeta4[3] = Utf8(23)
      /\ \A k \in 2 .. 5 : JapaneseKetaMan[k] = Utf8(23 + k)
  <2>1. KansujiDigit(0) = Utf8(11 + 0) /\ KansujiDigit(1) = Utf8(11 + 1)
    <3>1. \A d \in Int : KansujiDigit(d) = Utf8(11 + d)
      BY LetterNumbers
    <3>. QED
      BY <3>1
  <2>2. JapaneseKeta4[1 + 1] = Utf8(21 + 1) /\ JapaneseKeta4[2 + 1] = Utf8(21 + 2)
    <3>1. \A u \in 1 .. 3 : JapaneseKeta4[u + 1] = Utf8(21 + u)
      BY LetterNumbers
    <3>. QED
      BY <3>1
  <2>3. ASSUME NEW k \in 2 .. 5 PROVE JapaneseKetaMan[k] = Utf8(23 + k)
    <3>1. PICK j \in 1 .. 4 : j + 1 = k /\ 24 + j = 23 + k
      <4>1. k - 1 \in 1 .. 4 /\ (k - 1) + 1 = k /\ 24 + (k - 1) = 23 + k
        OBVIOUS
      <4>. QED
        BY <4>1
    <3>2. JapaneseKetaMan[j + 1] = Utf8(24 + j)
      BY LetterNumbers
    <3>. QED
      BY <3>1, <3>2
  <2>4. 11 + 0 = 11 /\ 11 + 1 = 12 /\ 1 + 1 = 2 /\ 2 + 1 = 3 /\ 21 + 1 = 22 /\ 21 + 2 = 23
    OBVIOUS
  <2>. QED
    BY <2>1, <2>2, <2>3, <2>4, LetterNumbers
<1>. HIDE DEF at
<1>7. \A i : myriad(i) <=> i \in 1 .. n /\ w[i] \in Myriads
  <2>1. \A c \in Myriads : \E k \in 2 .. 5 : c = 23 + k
    <3>1. \A c \in Myriads : c - 23 \in 2 .. 5 /\ c = 23 + (c - 23)
      BY DEF Myriads
    <3>. QED
      BY <3>1
  <2>2. \A k \in 2 .. 5 : 23 + k \in Myriads /\ 23 + k \in Int
    BY DEF Myriads
  <2>3. \A k \in 2 .. 5 : \A i : at(i, JapaneseKetaMan[k]) <=> i \in 1 .. n /\ w[i] = 23 + k
    BY <1>5, <1>6, <2>2
  <2>. QED
    BY <2>1, <2>2, <2>3
<1>8. /\ \A i : at(i, KansujiDigit(0)) <=> i \in 1 .. n /\ w[i] = 11
      /\ \A i : at(i, KansujiDigit(1)) <=> i \in 1 .. n /\ w[i] = 12
      /\ \A i : at(i, Thousand) <=> i \in 1 .. n /\ w[i] = 24
      /\ \A i : at(i, JapaneseKeta4[2]) <=> i \in 1 .. n /\ w[i] = 22
      /\ \A i : at(i, JapaneseKeta4[3]) <=> i \in 1 .. n /\ w[i] = 23
  BY <1>5, <1>6
<1>. HIDE DEF myriad
<1>9. (\E i \in DOMAIN t : at(i, KansujiDigit(0))) => t = <<KansujiDigit(0)>>
  <2>. SUFFICES ASSUME NEW i \in 1 .. n, w[i] = 11 PROVE t = <<KansujiDigit(0)>>
    BY <1>3, <1>8
  <2>1. w = <<11>>
    <3>1. 11 \notin {12} \cup Plain \cup Myriads
      BY DEF Plain, Myriads
    <3>. QED
      BY <1>1, <1>2, <3>1 DEF Numeral
  <2>2. n = 1 /\ w[1] = 11
    BY <1>2, <2>1
  <2>3. Len(t) = 1 /\ t[1] = KansujiDigit(0)
    BY <1>3, <1>6, <2>2
  <2>4. PICK k \in Seq(Int) : k = KansujiDigit(0)
    BY Characters
  <2>5. PICK s : s = <<k>>
    OBVIOUS
  <2>6. s \in Seq(Seq(Int)) /\ Len(s) = 1 /\ s[1] = k
    BY <2>5
  <2>7. \A j \in 1 .. 1 : j = 1
    OBVIOUS
  <2>8. Len(t) = Len(s) /\ \A j \in 1 .. Len(t) : t[j] = s[j]
    BY <2>3, <2>4, <2>6, <2>7
  <2>9. t = s
    BY <1>3, <2>6, <2>8, SeqEqual
  <2>. QED
    BY <2>4, <2>5, <2>9
<1>10. w = <<11>> => \A i \in 1 .. n : w[i] = 11
  <2>1. w = <<11>> => n = 1 /\ w[1] = 11
    BY <1>2
  <2>2. \A i \in 1 .. 1 : i = 1
    OBVIOUS
  <2>. QED
    BY <2>1, <2>2
<1>11. \A i \in DOMAIN t : at(i, KansujiDigit(1)) => ~ at(i + 1, JapaneseKeta4[2]) /\ ~ at(i + 1, JapaneseKeta4[3])
  <2>. SUFFICES ASSUME NEW i \in 1 .. n, w[i] = 12 PROVE ~ at(i + 1, JapaneseKeta4[2]) /\ ~ at(i + 1, JapaneseKeta4[3])
    BY <1>3, <1>8
  <2>1. Numeral(w)
    BY <1>1, <1>10
  <2>2. i # n => w[i + 1] \in {24} \cup Myriads
    BY <1>2, <2>1 DEF Numeral
  <2>3. 22 \notin {24} \cup Myriads /\ 23 \notin {24} \cup Myriads
    BY DEF Myriads
  <2>4. i = n => i + 1 \notin 1 .. n
    OBVIOUS
  <2>. QED
    BY <1>8, <2>2, <2>3, <2>4
<1>12. \A i \in DOMAIN t : at(i, Thousand) =>
           /\ at(i - 1, KansujiDigit(1)) => begins(i - 1) /\ myriad(i + 1)
           /\ ~ (begins(i) /\ myriad(i + 1))
  <2>. SUFFICES ASSUME NEW i \in 1 .. n, w[i] = 24
                PROVE  /\ at(i - 1, KansujiDigit(1)) => begins(i - 1) /\ myriad(i + 1)
                       /\ ~ (begins(i) /\ myriad(i + 1))
    BY <1>3, <1>8
  <2>1. Numeral(w)
    BY <1>1, <1>10
  <2>2. i # n => i + 1 \in 1 .. n
    OBVIOUS
  <2>3. ASSUME at(i - 1, KansujiDigit(1)) PROVE begins(i - 1) /\ myriad(i + 1)
    <3>1. i - 1 \in 1 .. n /\ w[i - 1] = 12 /\ i # 1
      BY <1>8, <2>3
    <3>2. i # n /\ w[i + 1] \in Myriads /\ (i = 2 \/ w[i - 2] \in Myriads)
      BY <1>2, <2>1, <3>1 DEF Numeral
    <3>3. i = 2 \/ (i - 2 \in 1 .. n /\ (i - 1) - 1 = i - 2)
      BY <3>1
    <3>4. i = 2 => i - 1 = 1
      OBVIOUS
    <3>. QED
      BY <1>7, <2>2, <3>2, <3>3, <3>4
  <2>4. ASSUME begins(i), myriad(i + 1) PROVE FALSE
    <3>1. i = 1 \/ w[i - 1] \in Myriads
      BY <1>7, <2>4
    <3>2. i + 1 \in 1 .. n /\ w[i + 1] \in Myriads
      BY <1>7, <2>4
    <3>3. i # n
      BY <3>2
    <3>. QED
      BY <1>2, <2>1, <3>1, <3>2, <3>3 DEF Numeral
  <2>. QED
    BY <2>3, <2>4
<1>. USE DEF at, myriad
<1>. QED
  BY <1>9, <1>11, <1>12, Zenon
-----------------------------------------------------------------------------
(* The calls                                                                 *)

\* The inductive invariant: the request is one that a caller may make, and an
\* answer is what the function called returns for it.
Inv ==
    /\ \/ /\ request.fn = "check_num_str"
          /\ request.num \in Seq(Int) /\ request.num_only_p \in BOOLEAN
       \/ /\ request.fn = "skk_num_exp"
          /\ request.num \in Seq(Int) /\ request.size \in Int /\ request.size > 0
    /\ \/ answer = NONE
       \/ /\ request.fn = "check_num_str"
          /\ answer = [code |-> CheckNumStr(request.num, request.num_only_p), text |-> <<>>]
       \/ /\ request.fn = "skk_num_exp"
          /\ answer = SkkNumExp(request.num, request.type, request.size)

\* It holds of the requests.
LEMMA InvInit == Init => Inv
<1>. SUFFICES ASSUME Init PROVE Inv
  OBVIOUS
<1>1. answer = NONE
  BY DEF Init
<1>2. CASE request \in ScanRequests
  <2>1. PICK num \in SeqOf(ScanTexts, ScanLength), num_only_p \in BOOLEAN :
            request = [fn |-> "check_num_str", num |-> num, num_only_p |-> num_only_p]
    BY <1>2 DEF ScanRequests
  <2>2. PICK m \in 0 .. ScanLength : num \in [1 .. m -> ScanTexts]
    BY DEF SeqOf
  <2>3. num \in Seq(Int)
    <3>a. ScanTexts \subseteq Int /\ ScanLength \in Nat
      BY TextAssumption
    <3>b. m \in Nat /\ 1 .. m \subseteq Nat
      BY <3>a
    <3>c. [1 .. m -> ScanTexts] \subseteq [1 .. m -> Int]
      BY <3>a
    <3>. QED
      BY <2>2, <3>b, <3>c, Sequence
  <2>. QED
    BY <1>1, <2>1, <2>3 DEF Inv
<1>3. CASE request \in {q \in NumRequests : q.size > 0}
  <2>1. PICK num \in NumberTexts, type \in NumTypes : request \in NumRequestsOf(num, type)
    BY <1>3 DEF NumRequests
  <2>2. num \in Seq(Int)
    BY TextAssumption
  <2>3. PICK needed \in Nat : needed = Len(SkkNumExp(num, type, TMP_BUFFSIZE).text)
    <3>1. Answers(num, type, TMP_BUFFSIZE, SkkNumExp(num, type, TMP_BUFFSIZE))
      BY <2>2, BufferAssumption, SkkNumExpAnswers
    <3>2. SkkNumExp(num, type, TMP_BUFFSIZE).text \in Seq(Int)
      BY <3>1 DEF Answers
    <3>. QED
      BY <3>2
  <2>4. PICK size \in NumSizes(num, type) :
            request = [fn |-> "skk_num_exp", num |-> num, type |-> type, size |-> size]
    BY <2>1 DEF NumRequestsOf
  <2>5. size \in Int
    <3>1. TMP_BUFFSIZE \in Int /\ Rooms \subseteq Int
      BY BufferAssumption, TextAssumption
    <3>. QED
      BY <2>3, <3>1 DEF NumSizes
  <2>6. request.size > 0
    BY <1>3
  <2>. QED
    BY <1>1, <2>2, <2>4, <2>5, <2>6 DEF Inv
<1>. QED
  BY <1>2, <1>3 DEF Init

\* A call keeps it.
LEMMA InvNext == Inv /\ [CallCheckNumStr \/ CallSkkNumExp]_vars => Inv'
  BY DEF Inv, CallCheckNumStr, CallSkkNumExp, vars

\* The invariant holds of every call.
THEOREM CallsAnswer == Spec => []Inv
  BY InvInit, InvNext, PTL DEF Spec

\* For every text, what check_num_str returns is what the longest number says
\* that the text begins with.
THEOREM NumbersAreRecognised == Spec => []ScansNumbers
<1>1. Inv => ScansNumbers
  <2>. SUFFICES ASSUME Inv, request.fn = "check_num_str", answer # NONE PROVE ScansNumbers
    BY DEF ScansNumbers
  <2>1. /\ request.num \in Seq(Int) /\ request.num_only_p \in BOOLEAN
        /\ answer.code = CheckNumStr(request.num, request.num_only_p)
    BY DEF Inv
  <2>. QED
    BY <2>1, CheckNumStrIsRight DEF ScansNumbers
<1>. QED
  BY <1>1, CallsAnswer, PTL

\* What skk_num_exp has answered.
LEMMA AnswersHold ==
    ASSUME Inv, request.fn = "skk_num_exp", answer # NONE
    PROVE  /\ request.num \in Seq(Int) /\ request.size \in Int /\ request.size > 0
           /\ Answers(request.num, request.type, request.size, answer)
<1>1. /\ request.num \in Seq(Int) /\ request.size \in Int /\ request.size > 0
      /\ answer = SkkNumExp(request.num, request.type, request.size)
  BY DEF Inv
<1>. QED
  BY <1>1, SkkNumExpAnswers

\* For every number and buffer: no text is longer than the buffer, and those of up
\* to twenty digits stay far below the size the callers pass.
THEOREM BuffersSuffice == Spec => []TextsFit
<1>1. Inv => TextsFit
  <2>. SUFFICES ASSUME Inv, request.fn = "skk_num_exp", answer.code = "ok" PROVE TextsFit
    BY DEF TextsFit
  <2>1. answer # NONE
    BY DEF NONE
  <2>2. PICK size \in Int : size = request.size /\ size > 0
    BY <2>1, AnswersHold
  <2>3. PICK l \in Nat : l = Len(answer.text)
    <3>1. Answers(request.num, request.type, request.size, answer)
      BY <2>1, AnswersHold
    <3>2. answer.text \in Seq(Int)
      BY <3>1 DEF Answers
    <3>. QED
      BY <3>2
  <2>4. l + (IF request.type = 3 THEN 0 ELSE 1) <= size /\ (Len(request.num) <= 20 => l <= 150)
    <3>1. Answers(request.num, request.type, size, answer)
      BY <2>1, <2>2, AnswersHold
    <3>. QED
      BY <2>2, <2>3, <3>1 DEF Answers
  <2>5. size = TMP_BUFFSIZE /\ l <= 150 => 3 * l < TMP_BUFFSIZE
    BY <2>2, BufferAssumption
  <2>. QED
    BY <2>2, <2>3, <2>4, <2>5 DEF TextsFit
<1>. QED
  BY <1>1, CallsAnswer, PTL

\* For every number: a table is read behind its end only by type ten and by type
\* three for numbers from 10^20 up.
THEOREM TablesAreLongEnough == Spec => []TablesSuffice
<1>1. Inv => TablesSuffice
  <2>. SUFFICES ASSUME Inv, request.fn = "skk_num_exp", AllDigits(request.num), answer.code = "undefined"
                PROVE  TablesSuffice
    BY DEF TablesSuffice
  <2>1. answer # NONE
    BY DEF NONE
  <2>. QED
    BY <2>1, AnswersHold DEF Answers, TablesSuffice
<1>. QED
  BY <1>1, CallsAnswer, PTL

\* What type 3 has written.
LEMMA Written3Reads ==
    ASSUME Inv, Written3
    PROVE  \E w : (w = <<11>> \/ Numeral(w)) /\ ReadsAs(answer.text, w, request.num)
<1>1. answer # NONE
  BY DEF Written3, NONE
<1>2. /\ request.num \in Seq(Int) /\ request.size \in Int /\ request.type = 3
      /\ answer = SkkNumExp(request.num, request.type, request.size)
  BY <1>1 DEF Inv, Written3
<1>3. answer = Type3(request.num, request.size) /\ answer.code = "ok"
  <2>1. \A num, size : SkkNumExp(num, 3, size) = Type3(num, size)
    BY DEF SkkNumExp, SkkNumTypes
  <2>. QED
    BY <1>2, <2>1 DEF Written3
<1>. QED
  BY <1>2, <1>3, Type3Reads

\* For every number that skk_num_exp writes in kanji: read aloud, the text is that
\* number, whatever digits are zero and whatever groups are empty.
THEOREM KanjiIsReadBack == Spec => []KanjiReadsBack
<1>1. Inv => KanjiReadsBack
  <2>. SUFFICES ASSUME Inv, Written3 PROVE KanjiReadsBack
    BY DEF KanjiReadsBack
  <2>1. PICK w : ReadsAs(answer.text, w, request.num)
    BY Written3Reads
  <2>. QED
    BY <2>1, ReadBack DEF KanjiReadsBack
<1>. QED
  BY <1>1, CallsAnswer, PTL

\* For every number: its numeral has a zero only when it is zero, and ones where
\* they are spoken.
THEOREM OnesAreSpoken == Spec => []OnesAndZeros
<1>1. Inv => OnesAndZeros
  <2>. SUFFICES ASSUME Inv, Written3 PROVE OnesAndZeros
    BY DEF OnesAndZeros
  <2>1. PICK w : (IsZero(w) \/ Numeral(w)) /\ Spells(answer.text, w)
    BY Written3Reads DEF ReadsAs, IsZero
  <2>2. PICK t : t = Letters(answer.text)
    OBVIOUS
  <2>. QED
    BY <2>1, <2>2, NumeralOnes, Zenon DEF OnesAndZeros
<1>. QED
  BY <1>1, CallsAnswer, PTL
=============================================================================
