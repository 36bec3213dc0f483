----------------------------- MODULE ReaderProofs -----------------------------
(***************************************************************************)
(* For every text: the C stack of the reader holds no more lists than      *)
(* READER_MAX_NESTING_LEVEL, and all its calls together have taken a char  *)
(* of the text each; the cursor passes the NUL at the end of the text only *)
(* by an escape that takes it; and what is read is what the grammar says.  *)
(***************************************************************************)
EXTENDS ReaderMeaning, Lemmas

\* How many of the calls waiting are lists.
OpenLists(s) == Cardinality(OfKind(s, "list"))

\* The inductive invariant.  The counter is never taken back, so it bounds the
\* lists that wait; and the loop of reader_list runs in a list.
IInv ==
    /\ IsStack(open)
    /\ nesting_level \in Nat
    /\ OpenLists(open) <= nesting_level
    /\ OpenLists(open) <= READER_MAX_NESTING_LEVEL
    /\ reading = Loop => open # <<>> /\ Top.kind = "list"

\* What Init establishes.
LEMMA InitEstablishes == Init => IInv
<1>. SUFFICES ASSUME Init PROVE IInv
  OBVIOUS
<1>1. IsStack(<<>>)
  BY DEF IsStack
<1>2. OfKind(<<>>, "list") = {}
  BY DEF OfKind
<1>3. OpenLists(open) = 0
  BY <1>2, FS_EmptySet DEF OpenLists, Init
<1>. QED
  BY <1>1, <1>3, NestingAssumption DEF IInv, Init, Sexp, Loop

\* The number of lists on a stack that is pushed on or popped from.
LEMMA Counts ==
    ASSUME NEW s, IsStack(s)
    PROVE  /\ OpenLists(s) \in Nat
           /\ \A x : OpenLists(Append(s, x)) = OpenLists(s) + (IF x.kind = "list" THEN 1 ELSE 0)
           /\ \A x : IsStack(Append(s, x)) /\ Append(s, x) # <<>> /\ Last(Append(s, x)) = x
           /\ s # <<>> => /\ IsStack(Front(s))
                          /\ OpenLists(Front(s)) = OpenLists(s) - (IF Last(s).kind = "list" THEN 1 ELSE 0)
<1>1. OpenLists(s) \in Nat
  BY StackFinite DEF OpenLists
<1>2. \A x : OpenLists(Append(s, x)) = OpenLists(s) + (IF x.kind = "list" THEN 1 ELSE 0)
  BY PushedKinds DEF OpenLists
<1>3. ASSUME NEW x PROVE IsStack(Append(s, x)) /\ Append(s, x) # <<>> /\ Last(Append(s, x)) = x
  <2>1. /\ IsStack(Append(s, x)) /\ Len(Append(s, x)) = Len(s) + 1 /\ Len(s) \in Nat
        /\ Append(s, x)[Len(s) + 1] = x
    BY Pushed
  <2>2. Append(s, x) # <<>>
    BY <2>1
  <2>. QED
    BY <2>1, <2>2 DEF Last
<1>4. s # <<>> => /\ IsStack(Front(s))
                  /\ OpenLists(Front(s)) = OpenLists(s) - (IF Last(s).kind = "list" THEN 1 ELSE 0)
  BY Popped, PoppedKinds DEF OpenLists
<1>. QED
  BY <1>1, <1>2, <1>3, <1>4

\* Popping a frame, and going on with anything but the loop.
LEMMA PopKeeps ==
    ASSUME IInv, open # <<>>, open' = Front(open), UNCHANGED nesting_level, reading' # Loop
    PROVE  IInv'
<1>1. /\ IsStack(open') /\ OpenLists(open) \in Nat
      /\ OpenLists(open') = OpenLists(open) - (IF Last(open).kind = "list" THEN 1 ELSE 0)
  BY Counts DEF IInv
<1>2. OpenLists(open') \in Int /\ OpenLists(open') <= OpenLists(open)
  BY <1>1
<1>. QED
  BY <1>1, <1>2, NestingAssumption DEF IInv

\* Every step keeps the invariant.
LEMMA NextKeeps == IInv /\ [Next]_vars => IInv'
<1>. SUFFICES ASSUME IInv, [Next]_vars PROVE IInv'
  OBVIOUS
<1>. USE DEF Sexp, Loop, Return
<1>0. CASE UNCHANGED vars
  BY <1>0 DEF IInv, vars, Top
<1>1. CASE ReadEnd
  BY <1>1 DEF ReadEnd, IInv, Top
<1>2. CASE ReadAtom
  BY <1>2 DEF ReadAtom, Give, IInv, Top
<1>3. CASE ReadQuoted
  <2>1. /\ open' = Append(open, QuoteFrame) /\ QuoteFrame.kind = "quote"
        /\ reading' # Loop /\ UNCHANGED nesting_level
    BY <1>3 DEF ReadQuoted, QuoteFrame
  <2>2. PICK x : x = QuoteFrame /\ x.kind # "list"
    BY <2>1
  <2>3. IsStack(open') /\ OpenLists(open') = OpenLists(open) + 0
    BY <2>1, <2>2, Counts DEF IInv
  <2>4. OpenLists(open) \in Nat
    BY Counts DEF IInv
  <2>. QED
    BY <2>1, <2>3, <2>4 DEF IInv
<1>4. CASE ReadList
  <2>1. nesting_level' = nesting_level + 1
    BY <1>4 DEF ReadList
  <2>2. CASE nesting_level' > READER_MAX_NESTING_LEVEL
    <3>1. UNCHANGED open /\ reading' # Loop
      BY <1>4, <2>2 DEF ReadList
    <3>. QED
      BY <2>1, <3>1, Counts DEF IInv
  <2>3. CASE ~ (nesting_level' > READER_MAX_NESTING_LEVEL)
    <3>1. open' = Append(open, ListFrame(<<>>)) /\ ListFrame(<<>>).kind = "list"
      BY <1>4, <2>3 DEF ReadList, ListFrame
    <3>2. IsStack(open') /\ OpenLists(open') = OpenLists(open) + 1
          /\ OpenLists(open) \in Nat /\ open' # <<>> /\ Top'.kind = "list"
      BY <3>1, Counts DEF IInv, Top
    <3>. QED
      BY <2>1, <2>3, <3>2, NestingAssumption DEF IInv
  <2>. QED
    BY <2>2, <2>3
<1>5. CASE ListTooLong
  BY <1>5, PopKeeps DEF ListTooLong, IInv
<1>6. CASE NextItem
  BY <1>6 DEF NextItem, IInv
<1>7. CASE CloseList
  BY <1>7, PopKeeps DEF CloseList, Give, IInv
<1>8. CASE ReturnToList
  <2>1. open # <<>> /\ Last(open).kind = "list" /\ reading # Loop /\ UNCHANGED nesting_level
    BY <1>8 DEF ReturnToList, Returning, Top
  <2>2. CASE IsError(reading.obj)
    BY <1>8, <2>1, <2>2, PopKeeps DEF ReturnToList
  <2>3. CASE ~ IsError(reading.obj)
    <3>1. PICK x : open' = Append(Front(open), x) /\ x.kind = "list"
      BY <1>8, <2>3 DEF ReturnToList, ListFrame
    <3>2. IsStack(Front(open)) /\ OpenLists(Front(open)) = OpenLists(open) - 1
          /\ OpenLists(open) \in Nat
      BY <2>1, Counts DEF IInv
    <3>3. IsStack(open') /\ OpenLists(open') = OpenLists(Front(open)) + 1
          /\ open' # <<>> /\ Top'.kind = "list"
      BY <3>1, <3>2, Counts DEF Top
    <3>. QED
      BY <2>1, <3>2, <3>3 DEF IInv
  <2>. QED
    BY <2>2, <2>3
<1>9. CASE ReturnToQuoted
  BY <1>9, PopKeeps DEF ReturnToQuoted, Returning, Give
<1>. QED
  BY <1>0, <1>1, <1>2, <1>3, <1>4, <1>5, <1>6, <1>7, <1>8, <1>9 DEF Next

\* The invariant holds of every text, however long and however broken.
THEOREM InvariantHolds == Spec => []IInv
  BY InitEstablishes, NextKeeps, PTL DEF Spec

\* The recursion of reader_list is bounded (reader.c:219), although the counter
\* that bounds it is not the depth.
THEOREM NestingIsLimited == Spec => []ListsNestWithinLimit
<1>1. IInv => ListsNestWithinLimit
  BY DEF IInv, ListsNestWithinLimit, OpenLists, OfKind
<1>. QED
  BY <1>1, InvariantHolds, PTL
-----------------------------------------------------------------------------
(* Places in the memory                                                      *)

\* The text has a length, and so has what is behind it.
SourceOK == Len(source.text) \in Nat /\ Len(source.behind) \in Nat

\* The text ends in the one char that makes the reader step over its NUL.
EndsInBackslash == SubSeq(source.text, Len(source.text), Len(source.text)) = "\\"

\* Going from p to q, the reader stays in the memory, and in the text.
GoesTo(p, q) ==
    /\ q \in p .. MemoryEnd(source)
    /\ p <= TextEnd(source) => q <= TextEnd(source) \/ EndsInBackslash

\* The numbers behind the definitions of the memory.
LEMMA Lengths ==
    ASSUME SourceOK
    PROVE  \E n, k \in Nat : /\ n = Len(source.text) /\ k = Len(source.behind)
                             /\ TextEnd(source) = n + 1 /\ MemoryEnd(source) = TextEnd(source) + k + 2
  BY DEF SourceOK, TextEnd, MemoryEnd

\* Places are numbers, and the ends of the text and of the memory are NULs.
LEMMA PlaceFacts ==
    ASSUME SourceOK
    PROVE  /\ TextEnd(source) \in Nat /\ MemoryEnd(source) \in Nat
           /\ 1 <= TextEnd(source) /\ TextEnd(source) + 2 <= MemoryEnd(source)
           /\ At(source, TextEnd(source)) = NUL /\ At(source, MemoryEnd(source)) = NUL /\ At(source, MemoryEnd(source) - 1) = NUL
<1>1. PICK n, k \in Nat : /\ n = Len(source.text) /\ k = Len(source.behind)
                         /\ TextEnd(source) = n + 1 /\ MemoryEnd(source) = TextEnd(source) + k + 2
  BY Lengths
<1>2. k = Len(source.behind)
  BY <1>1
<1>3. TextEnd(source) = n + 1 /\ MemoryEnd(source) = n + 1 + k + 2
  BY <1>1
<1>4. ASSUME NEW p, ~ (p < TextEnd(source)), p - TextEnd(source) \notin 1 .. k PROVE At(source, p) = NUL
  BY <1>2, <1>4 DEF At
<1>5. \A p \in {n + 1, n + 1 + k + 1, n + 1 + k + 2} : ~ (p < TextEnd(source)) /\ p - TextEnd(source) \notin 1 .. k
  BY <1>3
<1>6. At(source, n + 1) = NUL /\ At(source, n + 1 + k + 1) = NUL /\ At(source, n + 1 + k + 2) = NUL
  BY <1>4, <1>5
<1>. QED
  BY <1>3, <1>6

\* A char that is no NUL has the memory's end before it, and the text's if it
\* is in the text.
LEMMA CharFacts ==
    ASSUME SourceOK, NEW p \in Places(source), At(source, p) # NUL
    PROVE  /\ p + 2 <= MemoryEnd(source)
           /\ p <= TextEnd(source) => p + 1 <= TextEnd(source)
           /\ p <= TextEnd(source) /\ At(source, p) = "\\" => p + 2 <= TextEnd(source) \/ EndsInBackslash
<1>1. PICK n, k \in Nat : /\ n = Len(source.text) /\ k = Len(source.behind)
                         /\ TextEnd(source) = n + 1 /\ MemoryEnd(source) = TextEnd(source) + k + 2
  BY Lengths
<1>2. k = Len(source.behind) /\ n = Len(source.text)
  BY <1>1
<1>3. TextEnd(source) = n + 1 /\ MemoryEnd(source) = n + 1 + k + 2
  BY <1>1
<1>4. p \in Nat
  BY <1>3 DEF Places
<1>5. p < TextEnd(source) \/ p - TextEnd(source) \in 1 .. k
  BY <1>2 DEF At
<1>6. ASSUME p = n, At(source, p) = "\\" PROVE EndsInBackslash
  <2>1. p < TextEnd(source) /\ p - TextEnd(source) \notin 1 .. k
    BY <1>3, <1>6
  <2>2. At(source, p) = SubSeq(source.text, p, p)
    BY <1>2, <2>1, Zenon DEF At
  <2>. QED
    BY <1>2, <1>6, <2>2 DEF EndsInBackslash
<1>. QED
  BY <1>3, <1>4, <1>5, <1>6

\* The reader goes on from where it went to.
LEMMA Goes ==
    ASSUME SourceOK, NEW p \in Places(source)
    PROVE  /\ GoesTo(p, p)
           /\ \A q, r : GoesTo(p, q) /\ GoesTo(q, r) => GoesTo(p, r)
           /\ At(source, p) # NUL => GoesTo(p, p + 1)
           /\ At(source, p) = "\\" => GoesTo(p, p + 2)
           /\ \A q : GoesTo(p, q) => q \in Places(source)
<1>1. TextEnd(source) \in Nat /\ MemoryEnd(source) \in Nat /\ p \in 1 .. MemoryEnd(source)
  BY PlaceFacts DEF Places
<1>2. GoesTo(p, p)
  BY <1>1 DEF GoesTo
<1>3. \A q, r : GoesTo(p, q) /\ GoesTo(q, r) => GoesTo(p, r)
  BY <1>1 DEF GoesTo
<1>4. At(source, p) # NUL => GoesTo(p, p + 1)
  BY <1>1, CharFacts DEF GoesTo
<1>5. At(source, p) = "\\" => GoesTo(p, p + 2)
  <2>1. At(source, p) = "\\" => At(source, p) # NUL
    BY DEF NUL
  <2>. QED
    BY <1>1, <2>1, CharFacts DEF GoesTo
<1>6. \A q : GoesTo(p, q) => q \in Places(source)
  BY <1>1 DEF GoesTo, Places
<1>. QED
  BY <1>2, <1>3, <1>4, <1>5, <1>6

\* There is a first place from p on that is in a set with both ends, and the
\* reader may go there.
LEMMA FirstStop ==
    ASSUME SourceOK, NEW S, TextEnd(source) \in S, MemoryEnd(source) \in S, NEW p \in Places(source)
    PROVE  /\ \E q \in p .. MemoryEnd(source) : q \in S /\ \A r \in p .. q - 1 : r \notin S
           /\ \A q \in p .. MemoryEnd(source) : (\A r \in p .. q - 1 : r \notin S) => GoesTo(p, q)
<1>1. TextEnd(source) \in Nat /\ MemoryEnd(source) \in Nat /\ p \in Nat /\ p <= MemoryEnd(source)
  BY PlaceFacts DEF Places
<1>2. PICK stops : stops = {q \in Nat : q \in S /\ p <= q}
  OBVIOUS
<1>3. stops \in SUBSET Nat /\ MemoryEnd(source) \in stops
  BY <1>1, <1>2
<1>4. PICK q \in stops : \A e \in stops : q <= e
  BY <1>3, Least
<1>5. q \in p .. MemoryEnd(source) /\ q \in S /\ \A r \in p .. q - 1 : r \notin S
  BY <1>1, <1>2, <1>3, <1>4
<1>6. ASSUME NEW x \in p .. MemoryEnd(source), \A r \in p .. x - 1 : r \notin S
      PROVE  GoesTo(p, x)
  BY <1>1, <1>6 DEF GoesTo
<1>. QED
  BY <1>5, <1>6

\* FirstFrom, for each of the ways it is called: the end of a comment, the end
\* of a token, and the end of the digits.
LEMMA CommentEnds ==
    ASSUME SourceOK, NEW p \in Places(source)
    PROVE  LET q == FirstFrom(source, p, LAMBDA c : c \in {"\n", NUL})
           IN  GoesTo(p, q) /\ At(source, q) \in {"\n", NUL}
<1>. DEFINE S == {q \in Places(source) : At(source, q) \in {"\n", NUL}}
            first(q) == At(source, q) \in {"\n", NUL} /\ \A r \in p .. q - 1 : ~ (At(source, r) \in {"\n", NUL})
            q == CHOOSE q \in p .. MemoryEnd(source) : first(q)
<1>1. TextEnd(source) \in S /\ MemoryEnd(source) \in S /\ MemoryEnd(source) \in Nat /\ p \in Nat
  BY PlaceFacts DEF Places
<1>2. \A x \in p .. MemoryEnd(source) : x \in Places(source) /\ \A r \in p .. x - 1 : r \in Places(source)
  BY <1>1 DEF Places
<1>3. \A x \in p .. MemoryEnd(source) : first(x) <=> x \in S /\ \A r \in p .. x - 1 : r \notin S
  BY <1>2
<1>. HIDE DEF S, first
<1>4. \E x \in p .. MemoryEnd(source) : first(x)
  BY <1>1, <1>3, FirstStop
<1>5. q \in p .. MemoryEnd(source) /\ first(q)
  BY <1>4
<1>6. FirstFrom(source, p, LAMBDA c : c \in {"\n", NUL}) = q
  BY DEF FirstFrom, first
<1>. HIDE DEF q
<1>7. GoesTo(p, q)
  BY <1>1, <1>3, <1>5, FirstStop
<1>. QED
  BY <1>5, <1>6, <1>7 DEF first

\* The same for the end of a token.
LEMMA TokenEnds ==
    ASSUME SourceOK, NEW p \in Places(source)
    PROVE  GoesTo(p, FirstFrom(source, p, IsStartToken))
<1>. DEFINE S == {q \in Places(source) : IsStartToken(At(source, q))}
            first(q) == IsStartToken(At(source, q)) /\ \A r \in p .. q - 1 : ~ IsStartToken(At(source, r))
            q == CHOOSE q \in p .. MemoryEnd(source) : first(q)
<1>1. IsStartToken(NUL)
  BY Zenon DEF IsStartToken
<1>2. TextEnd(source) \in S /\ MemoryEnd(source) \in S /\ MemoryEnd(source) \in Nat /\ p \in Nat
  BY <1>1, PlaceFacts DEF Places
<1>3. \A x \in p .. MemoryEnd(source) : x \in Places(source) /\ \A r \in p .. x - 1 : r \in Places(source)
  BY <1>2 DEF Places
<1>4. \A x \in p .. MemoryEnd(source) : first(x) <=> x \in S /\ \A r \in p .. x - 1 : r \notin S
  BY <1>3
<1>. HIDE DEF S, first
<1>5. \E x \in p .. MemoryEnd(source) : first(x)
  BY <1>2, <1>4, FirstStop
<1>6. q \in p .. MemoryEnd(source) /\ first(q)
  BY <1>5
<1>7. FirstFrom(source, p, IsStartToken) = q
  BY DEF FirstFrom, first
<1>. HIDE DEF q
<1>. QED
  BY <1>2, <1>4, <1>6, <1>7, FirstStop

\* The same for the end of the digits, and of the digits an escape may have.
LEMMA DigitsEnds ==
    ASSUME SourceOK, NEW p \in Places(source), NEW digits, NEW most \in Nat
    PROVE  GoesTo(p, DigitsEnd(source, p, digits, most))
<1>. DEFINE S == {q \in Places(source) : ~ IsIn(digits, At(source, q))}
            first(q) == ~ IsIn(digits, At(source, q)) /\ \A r \in p .. q - 1 : ~ (~ IsIn(digits, At(source, r)))
            q == CHOOSE q \in p .. MemoryEnd(source) : first(q)
<1>1. ~ IsIn(digits, NUL)
  BY DEF IsIn
<1>2. TextEnd(source) \in S /\ MemoryEnd(source) \in S /\ MemoryEnd(source) \in Nat /\ TextEnd(source) \in Nat /\ p \in Nat
  BY <1>1, PlaceFacts DEF Places
<1>3. \A x \in p .. MemoryEnd(source) : x \in Places(source) /\ \A r \in p .. x - 1 : r \in Places(source)
  BY <1>2 DEF Places
<1>4. \A x \in p .. MemoryEnd(source) : first(x) <=> x \in S /\ \A r \in p .. x - 1 : r \notin S
  BY <1>3
<1>. HIDE DEF S, first
<1>5. \E x \in p .. MemoryEnd(source) : first(x)
  BY <1>2, <1>4, FirstStop
<1>6. q \in p .. MemoryEnd(source) /\ first(q)
  BY <1>5
<1>7. FirstFrom(source, p, LAMBDA c : ~ IsIn(digits, c)) = q
  BY DEF FirstFrom, first
<1>. HIDE DEF q
<1>8. GoesTo(p, q)
  BY <1>2, <1>4, <1>6, FirstStop
<1>9. DigitsEnd(source, p, digits, most) = IF q > p + most THEN p + most ELSE q
  BY <1>7 DEF DigitsEnd, With
<1>. QED
  BY <1>2, <1>8, <1>9 DEF GoesTo

\* reader_skip_spaces_and_comment stays in the text, and there is nothing left
\* to skip.  The function Skip is defined by exists: it is built from the end
\* of the memory to its beginning.
LEMMA SkipGoes ==
    ASSUME SourceOK, NEW from \in Places(source)
    PROVE  GoesTo(from, Skip(source, from)) /\ Skip(source, Skip(source, from)) = Skip(source, from)
<1>. DEFINE M == MemoryEnd(source)
            Space(p) == IsSpace(At(source, p))
            Comment(p) == At(source, p) = ";"
            End(p) == FirstFrom(source, p, LAMBDA c : c \in {"\n", NUL})
            Value(f, p) == IF Space(p) THEN f[p + 1] ELSE IF Comment(p) THEN f[End(p)] ELSE p
            Solves(f, k) == \A p \in k .. M : f[p] = Value(f, p)
            C == CHOOSE f : f = [p \in 1 .. M |-> Value(f, p)]
<1>1. M \in Nat /\ 1 \in 1 .. M /\ Places(source) = 1 .. M /\ At(source, M) = NUL
  BY PlaceFacts DEF Places
<1>2. \A p \in 1 .. M : Space(p) => GoesTo(p, p + 1)
  <2>1. \A c : IsSpace(c) => c # NUL
    BY Zenon DEF IsSpace, NUL
  <2>. QED
    BY <1>1, <2>1, Goes
<1>3. \A p \in 1 .. M : Comment(p) => GoesTo(p, End(p)) /\ End(p) # p
  <2>1. \A c : c = ";" => c \notin {"\n", NUL}
    BY Zenon DEF NUL
  <2>. QED
    BY <1>1, <2>1, CommentEnds, Zenon
<1>4. \A p : Skip(source, p) = C[p]
  BY <1>1, Zenon DEF Skip
<1>. HIDE DEF M, Space, Comment, End
<1>5. \A p \in 1 .. M : /\ Space(p) => p + 1 \in p + 1 .. M
                        /\ Comment(p) => End(p) \in p + 1 .. M
  BY <1>1, <1>2, <1>3 DEF GoesTo, M
<1>6. \E f : Solves(f, 1)
  <2>. DEFINE S == {k \in 1 .. M : \E f : Solves(f, k)}
  <2>1. ASSUME NEW k \in 1 .. M, \A q \in k + 1 .. M : q \in S PROVE k \in S
    <3>1. PICK f : Solves(f, k + 1)
      <4>1. CASE k + 1 \in k + 1 .. M
        <5>. HIDE DEF Solves
        <5>. QED
          BY <2>1, <4>1
      <4>2. CASE k + 1 .. M = {}
        BY <4>2
      <4>. HIDE DEF Solves
      <4>. QED
        BY <1>1, <4>1, <4>2
    <3>2. PICK v : v = Value(f, k)
      OBVIOUS
    <3>3. PICK g : g = [p \in k .. M |-> IF p = k THEN v ELSE f[p]]
      OBVIOUS
    <3>4. g[k] = v /\ \A p \in k + 1 .. M : p \in k .. M /\ p # k /\ g[p] = f[p]
      BY <1>1, <3>3
    <3>5. \A p \in k .. M : Value(g, p) = Value(f, p)
      BY <1>1, <1>5, <3>4
    <3>6. \A p \in k .. M : p = k \/ p \in k + 1 .. M
      BY <1>1
    <3>7. \A p \in k .. M : g[p] = Value(f, p)
      <4>. HIDE DEF Value
      <4>. QED
        BY <3>1, <3>2, <3>4, <3>6
    <3>8. Solves(g, k)
      BY <3>5, <3>7, Zenon
    <3>. HIDE DEF Solves
    <3>. QED
      BY <3>8
  <2>. HIDE DEF S
  <2>2. 1 \in S
    BY <1>1, <2>1, InductionFromTheEnd
  <2>. QED
    BY <2>2 DEF S
<1>7. C = [p \in 1 .. M |-> Value(C, p)]
  <2>1. PICK f : Solves(f, 1)
    BY <1>6
  <2>2. PICK g : g = [p \in 1 .. M |-> f[p]]
    OBVIOUS
  <2>3. \A p \in 1 .. M : g[p] = f[p] /\ Value(g, p) = Value(f, p)
    BY <1>1, <1>5, <2>2
  <2>4. g = [p \in 1 .. M |-> Value(g, p)]
    <3>. HIDE DEF Value
    <3>. QED
      BY <2>1, <2>2, <2>3
  <2>. QED
    BY <2>4, Zenon
<1>. HIDE DEF C
<1>8. \A p \in 1 .. M : C[p] = Value(C, p)
  BY <1>7
<1>9. from \in {p \in 1 .. M : GoesTo(p, C[p]) /\ C[C[p]] = C[p]}
  <2>. DEFINE S == {p \in 1 .. M : GoesTo(p, C[p]) /\ C[C[p]] = C[p]}
  <2>1. ASSUME NEW p \in 1 .. M, \A q \in p + 1 .. M : q \in S PROVE p \in S
    <3>1. CASE Space(p)
      BY <1>1, <1>2, <1>5, <1>8, <2>1, <3>1, Goes
    <3>2. CASE ~ Space(p) /\ Comment(p)
      BY <1>1, <1>3, <1>5, <1>8, <2>1, <3>2, Goes
    <3>3. CASE ~ Space(p) /\ ~ Comment(p)
      BY <1>1, <1>8, <3>3, Goes
    <3>. QED
      BY <3>1, <3>2, <3>3
  <2>. HIDE DEF S
  <2>2. from \in S
    BY <1>1, <2>1, InductionFromTheEnd
  <2>. QED
    BY <2>2 DEF S
<1>. QED
  BY <1>4, <1>9

\* An escape ends in the text, unless it is the NUL that is escaped.
LEMMA EscapeGoes ==
    ASSUME SourceOK, NEW b \in Places(source), At(source, b) = "\\"
    PROVE  GoesTo(b, Escape(source, b + 1).next) /\ Escape(source, b + 1).next # b
<1>. DEFINE p == b + 1
<1>1. At(source, b) # NUL
  BY DEF NUL
<1>2. GoesTo(b, p) /\ GoesTo(b, p + 1) /\ p \in Places(source) /\ b \in Nat
  BY <1>1, Goes, PlaceFacts DEF Places
<1>3. \/ Escape(source, p).next = DigitsEnd(source, p, OctDigits, 3)
      \/ At(source, p) = "x" /\ Escape(source, p).next = DigitsEnd(source, p + 1, HexDigits, 2)
      \/ Escape(source, p).next = p + 1
  <2>. DEFINE Blank == At(source, p) \in {" ", "\n"}
              Stored(x, next) == [bytes |-> <<x>>, next |-> next]
              Octal == With(DigitsEnd(source, p, OctDigits, 3), LAMBDA q : Stored(ToChar(ValueOfDigits(source, p, q, 8)), q))
              Hex == With(DigitsEnd(source, p + 1, HexDigits, 2), LAMBDA q : Stored(ToChar(ValueOfDigits(source, p + 1, q, 16)), q))
              byte == CASE At(source, p) = "n" -> Code["\n"] [] At(source, p) = NUL -> 0 [] OTHER -> Code[At(source, p)]
  <2>1. Escape(source, p) =
            IF IsIn(OctDigits, At(source, p)) THEN Octal
            ELSE IF At(source, p) = "x" THEN Hex
            ELSE IF Blank THEN [bytes |-> <<>>, next |-> p + 1]
            ELSE Stored(byte, p + 1)
    BY Zenon DEF Escape
  <2>2. \A x, next : Stored(x, next).next = next
    OBVIOUS
  <2>. HIDE DEF Stored, p
  <2>3. Octal = Stored(ToChar(ValueOfDigits(source, p, DigitsEnd(source, p, OctDigits, 3), 8)), DigitsEnd(source, p, OctDigits, 3))
    BY DEF With
  <2>4. Hex = Stored(ToChar(ValueOfDigits(source, p + 1, DigitsEnd(source, p + 1, HexDigits, 2), 16)), DigitsEnd(source, p + 1, HexDigits, 2))
    BY DEF With
  <2>. HIDE DEF Blank, Octal, Hex, byte
  <2>. QED
    BY <2>1, <2>2, <2>3, <2>4
<1>. HIDE DEF p
<1>4. At(source, p) = "x" => GoesTo(p, p + 1) /\ p + 1 \in Places(source)
  BY <1>2, Goes DEF NUL
<1>5. GoesTo(p, DigitsEnd(source, p, OctDigits, 3))
  BY <1>2, DigitsEnds
<1>6. At(source, p) = "x" => GoesTo(p, DigitsEnd(source, p + 1, HexDigits, 2))
  BY <1>2, <1>4, DigitsEnds, Goes
<1>7. GoesTo(p, Escape(source, p).next) \/ Escape(source, p).next = p + 1
  BY <1>3, <1>5, <1>6
<1>8. GoesTo(b, Escape(source, p).next)
  BY <1>2, <1>7, Goes
<1>9. Escape(source, p).next # b
  BY <1>2, <1>7 DEF GoesTo, p
<1>. QED
  BY <1>8, <1>9 DEF p

\* So does a string, closed or not.
LEMMA StringBytesGoes ==
    ASSUME SourceOK, NEW from \in Places(source)
    PROVE  GoesTo(from, StringBytes(source, from).next)
<1>. DEFINE M == MemoryEnd(source)
            Stop(p) == At(source, p) \in {NUL, "\""}
            Base(p) == [bytes |-> <<>>, closed |-> At(source, p) # NUL, next |-> IF At(source, p) = NUL THEN p ELSE p + 1]
            Item(p) == IF At(source, p) = "\\" THEN Escape(source, p + 1) ELSE [bytes |-> <<Code[At(source, p)]>>, next |-> p + 1]
            Body(f, p) ==
                IF Stop(p) THEN Base(p)
                ELSE With(Item(p), LAMBDA c : With(f[c.next], LAMBDA rest : [rest EXCEPT !.bytes = c.bytes \o @]))
            Longer(p, rest) == [rest EXCEPT !.bytes = Item(p).bytes \o @]
            Value(f, p) == IF Stop(p) THEN Base(p) ELSE Longer(p, f[Item(p).next])
            Solves(f, k) == \A p \in k .. M : f[p] = Value(f, p)
            C == CHOOSE f : f = [p \in Places(source) |-> Body(f, p)]
<1>1. M \in Nat /\ 1 \in 1 .. M /\ Places(source) = 1 .. M /\ At(source, M) = NUL
  BY PlaceFacts DEF Places
<1>2. StringBytes(source, from) = C[from]
  BY Zenon DEF StringBytes
<1>3. ASSUME NEW p \in 1 .. M, Stop(p) PROVE GoesTo(p, Base(p).next) /\ "next" \in DOMAIN Base(p)
  <2>1. Base(p).next = IF At(source, p) = NUL THEN p ELSE p + 1
    OBVIOUS
  <2>. QED
    BY <1>1, <2>1, Goes
<1>4. ASSUME NEW p \in 1 .. M, ~ Stop(p) PROVE GoesTo(p, Item(p).next) /\ Item(p).next # p
  <2>1. At(source, p) # NUL
    BY <1>4, Zenon
  <2>2. CASE At(source, p) = "\\"
    BY <1>1, <2>2, EscapeGoes
  <2>3. CASE At(source, p) # "\\"
    BY <1>1, <2>1, <2>3, Goes
  <2>. QED
    BY <2>2, <2>3
<1>. HIDE DEF M, Stop, Base, Item
<1>5. \A p, rest : "next" \in DOMAIN rest => Longer(p, rest).next = rest.next /\ "next" \in DOMAIN Longer(p, rest)
  OBVIOUS
<1>6. \A p \in 1 .. M : ~ Stop(p) => Item(p).next \in p + 1 .. M
  BY <1>1, <1>4 DEF GoesTo, M
<1>7. \A f, p : Body(f, p) = Value(f, p)
  BY DEF With
<1>. HIDE DEF Body, Longer
<1>8. \E f : Solves(f, 1)
  <2>. DEFINE S == {k \in 1 .. M : \E f : Solves(f, k)}
  <2>1. ASSUME NEW k \in 1 .. M, \A q \in k + 1 .. M : q \in S PROVE k \in S
    <3>1. PICK f : Solves(f, k + 1)
      <4>1. CASE k + 1 \in k + 1 .. M
        <5>. HIDE DEF Solves
        <5>. QED
          BY <2>1, <4>1
      <4>2. CASE k + 1 .. M = {}
        BY <4>2
      <4>. HIDE DEF Solves
      <4>. QED
        BY <1>1, <4>1, <4>2
    <3>2. PICK v : v = Value(f, k)
      OBVIOUS
    <3>3. PICK g : g = [p \in k .. M |-> IF p = k THEN v ELSE f[p]]
      OBVIOUS
    <3>4. g[k] = v /\ \A p \in k + 1 .. M : p \in k .. M /\ p # k /\ g[p] = f[p]
      BY <1>1, <3>3
    <3>5. \A p \in k .. M : Value(g, p) = Value(f, p)
      BY <1>1, <1>6, <3>4
    <3>6. \A p \in k .. M : p = k \/ p \in k + 1 .. M
      BY <1>1
    <3>7. \A p \in k .. M : g[p] = Value(f, p)
      <4>. HIDE DEF Value
      <4>. QED
        BY <3>1, <3>2, <3>4, <3>6
    <3>8. Solves(g, k)
      BY <3>5, <3>7, Zenon
    <3>. HIDE DEF Solves
    <3>. QED
      BY <3>8
  <2>. HIDE DEF S
  <2>2. 1 \in S
    BY <1>1, <2>1, InductionFromTheEnd
  <2>. QED
    BY <2>2 DEF S
<1>9. C = [p \in Places(source) |-> Body(C, p)]
  <2>1. PICK f : Solves(f, 1)
    BY <1>8
  <2>2. PICK g : g = [p \in 1 .. M |-> f[p]]
    OBVIOUS
  <2>3. \A p \in 1 .. M : g[p] = f[p] /\ Value(g, p) = Value(f, p)
    BY <1>1, <1>6, <2>2
  <2>4. g = [p \in Places(source) |-> Body(g, p)]
    <3>. HIDE DEF Value
    <3>. QED
      BY <1>1, <1>7, <2>1, <2>2, <2>3
  <2>. QED
    BY <2>4, Zenon
<1>. HIDE DEF C
<1>10. \A p \in 1 .. M : C[p] = Value(C, p)
  BY <1>1, <1>7, <1>9
<1>11. from \in {p \in 1 .. M : GoesTo(p, C[p].next) /\ "next" \in DOMAIN C[p]}
  <2>. DEFINE S == {p \in 1 .. M : GoesTo(p, C[p].next) /\ "next" \in DOMAIN C[p]}
  <2>1. ASSUME NEW p \in 1 .. M, \A q \in p + 1 .. M : q \in S PROVE p \in S
    <3>1. CASE Stop(p)
      BY <1>3, <1>10, <3>1
    <3>2. CASE ~ Stop(p)
      <4>1. PICK q \in p + 1 .. M : q = Item(p).next
        BY <1>6, <3>2
      <4>2. GoesTo(q, C[q].next) /\ "next" \in DOMAIN C[q]
        BY <2>1
      <4>3. C[p] = Longer(p, C[q])
        BY <1>10, <3>2, <4>1
      <4>4. C[p].next = C[q].next /\ "next" \in DOMAIN C[p]
        BY <1>5, <4>2, <4>3
      <4>5. GoesTo(p, q) /\ p \in Places(source)
        BY <1>1, <1>4, <3>2, <4>1
      <4>. QED
        BY <4>2, <4>4, <4>5, Goes
    <3>. QED
      BY <3>1, <3>2
  <2>. HIDE DEF S
  <2>2. from \in S
    BY <1>1, <2>1, InductionFromTheEnd
  <2>. QED
    BY <2>2 DEF S
<1>. QED
  BY <1>2, <1>11

\* So does an atom of each kind: reader_string, reader_char, reader_hashnum and
\* reader_maybe_symbol.
LEMMA AtomGoes ==
    ASSUME SourceOK, NEW p \in Places(source), At(source, p) # NUL, NEW m
    PROVE  GoesTo(p, AtomAt(source, m, p).next)
<1>1. GoesTo(p, p + 1) /\ p + 1 \in Places(source) /\ p \in Nat /\ READER_BUFSIZE \in Nat /\ MemoryEnd(source) \in Nat
  BY Goes, PlaceFacts, SourceAssumption DEF Places
<1>2. At(source, p + 1) # NUL => GoesTo(p, p + 2) /\ p + 2 \in Places(source)
  <2>1. p + 1 + 1 = p + 2
    BY <1>1
  <2>. QED
    BY <1>1, <2>1, Goes
<1>3. \A r, next : Atom(r, next).next = next
  BY DEF Atom
<1>4. GoesTo(p, String(source, m, p).next)
  <2>1. PICK s : s = StringBytes(source, p + 1)
    OBVIOUS
  <2>2. String(source, m, p).next = s.next
    BY <1>3, <2>1 DEF String, With
  <2>. QED
    BY <1>1, <2>1, <2>2, StringBytesGoes, Goes
<1>5. GoesTo(p, Char(source, m, p).next)
  BY <1>1, <1>2, <1>3 DEF Char
<1>6. GoesTo(p, HashNum(source, m, p).next)
  <2>1. CASE At(source, p + 1) \notin {"x", "o"}
    BY <1>1, <1>3, <2>1 DEF HashNum
  <2>2. CASE At(source, p + 1) \in {"x", "o"}
    <3>1. At(source, p + 1) # NUL
      BY <2>2 DEF NUL
    <3>2. PICK digits : HashNum(source, m, p).next = DigitsEnd(source, p + 2, digits, MemoryEnd(source))
      BY <1>3, <2>2 DEF HashNum, With
    <3>. QED
      BY <1>1, <1>2, <3>1, <3>2, DigitsEnds, Goes
  <2>. QED
    BY <2>1, <2>2
<1>7. GoesTo(p, MaybeSymbol(source, m, p).next)
  <2>1. PICK q : q = FirstFrom(source, p, IsStartToken)
    OBVIOUS
  <2>2. GoesTo(p, q)
    BY <2>1, TokenEnds
  <2>3. MaybeSymbol(source, m, p).next = IF q - p >= READER_BUFSIZE THEN p + READER_BUFSIZE ELSE q
    BY <1>3, <2>1 DEF MaybeSymbol, With
  <2>4. q - p >= READER_BUFSIZE => GoesTo(p, p + READER_BUFSIZE)
    BY <1>1, <2>2, PlaceFacts DEF GoesTo
  <2>. QED
    BY <2>2, <2>3, <2>4
<1>8. AtomAt(source, m, p) \in {String(source, m, p), Char(source, m, p), HashNum(source, m, p), MaybeSymbol(source, m, p)}
  BY Zenon DEF AtomAt
<1>. QED
  BY <1>4, <1>5, <1>6, <1>7, <1>8
-----------------------------------------------------------------------------
(* The cursor                                                                *)

\* The inductive invariant: the reader came from the beginning of the text, and
\* every call that waits has a char of its own behind it.
CursorInv ==
    /\ source \in Sources
    /\ GoesTo(1, cursor)
    /\ Len(open) < cursor

\* Where the spaces and comments lead to.
LEMMA HereFacts ==
    ASSUME CursorInv
    PROVE  /\ SourceOK /\ cursor \in Nat /\ Here \in Places(source) /\ cursor <= Here
           /\ GoesTo(1, Here)
           /\ At(source, Here) # NUL => GoesTo(1, Here + 1)
<1>1. SourceOK
  BY SourceAssumption DEF CursorInv, SourceOK
<1>2. 1 \in Places(source) /\ MemoryEnd(source) \in Nat
  BY <1>1, PlaceFacts DEF Places
<1>3. cursor \in Places(source) /\ GoesTo(1, cursor)
  BY <1>1, <1>2, Goes DEF CursorInv
<1>4. GoesTo(cursor, Here)
  BY <1>1, <1>3, SkipGoes DEF Here
<1>5. GoesTo(1, Here) /\ Here \in Places(source)
  BY <1>1, <1>2, <1>3, <1>4, Goes
<1>6. cursor <= Here /\ cursor \in Nat
  BY <1>2, <1>3, <1>4 DEF GoesTo, Places
<1>. QED
  BY <1>1, <1>2, <1>5, <1>6, Goes

\* Every step of the reader keeps it.
LEMMA CursorStep == IInv /\ CursorInv /\ [Next]_vars => CursorInv'
<1>. SUFFICES ASSUME IInv, CursorInv, [Next]_vars PROVE CursorInv'
  OBVIOUS
<1>1. source' = source
  BY DEF Next, vars, ReadEnd, ReadAtom, ReadQuoted, ReadList, ListTooLong, NextItem, CloseList,
         ReturnToList, ReturnToQuoted
<1>2. \A p, q : GoesTo(p, q) <=> GoesTo(p, q)'
  BY <1>1 DEF GoesTo, MemoryEnd, TextEnd, EndsInBackslash
<1>3. Len(open) \in Nat /\ Len(open) < cursor
  BY DEF IInv, IsStack, CursorInv
<1>4. ASSUME open # <<>> PROVE Len(Front(open)) < Len(open) /\ Len(Front(open)) \in Nat
  BY <1>4, Popped DEF IInv
<1>5. \A x : Len(Append(open, x)) = Len(open) + 1
  BY Pushed DEF IInv
<1>6. \A c \in {"'", "(", ")"} : c # NUL
  BY Zenon DEF NUL
<1>7. ASSUME cursor' = Here, Len(open') <= Len(open), Len(open') \in Nat
      PROVE  CursorInv'
  <2>1. Here \in Nat /\ cursor \in Nat /\ cursor <= Here /\ GoesTo(1, Here)
    BY HereFacts, PlaceFacts DEF Places
  <2>. QED
    BY <1>1, <1>2, <1>3, <1>7, <2>1 DEF CursorInv
<1>8. ASSUME cursor' = Here + 1, At(source, Here) # NUL, Len(open') <= Len(open) + 1, Len(open') \in Nat
      PROVE  CursorInv'
  <2>1. Here \in Nat /\ cursor \in Nat /\ cursor <= Here /\ GoesTo(1, Here + 1)
    BY <1>8, HereFacts, PlaceFacts DEF Places
  <2>. QED
    BY <1>1, <1>2, <1>3, <1>8, <2>1 DEF CursorInv
<1>9. ASSUME cursor' = cursor, Len(open') <= Len(open), Len(open') \in Nat
      PROVE  CursorInv'
  BY <1>1, <1>2, <1>3, <1>9, HereFacts DEF CursorInv
<1>10. CASE ReadEnd
  BY <1>3, <1>7, <1>10 DEF ReadEnd
<1>11. CASE ReadAtom
  <2>1. cursor' = AtomAt(source, mem, Here).next /\ At(source, Here) # NUL /\ open' = open
    BY <1>11 DEF ReadAtom
  <2>2. GoesTo(Here, cursor')
    BY <2>1, AtomGoes, HereFacts
  <2>3. GoesTo(1, cursor')
    <3>1. 1 \in Places(source)
      BY HereFacts, PlaceFacts DEF Places
    <3>. QED
      BY <2>2, <3>1, HereFacts, Goes
  <2>4. cursor <= cursor' /\ cursor' \in Nat /\ cursor \in Nat
    BY <2>2, HereFacts, PlaceFacts DEF GoesTo, Places
  <2>. QED
    BY <1>1, <1>2, <1>3, <2>1, <2>3, <2>4 DEF CursorInv
<1>12. CASE ReadQuoted
  <2>1. At(source, Here) # NUL /\ cursor' = Here + 1 /\ open' = Append(open, QuoteFrame)
    BY <1>6, <1>12, Zenon DEF ReadQuoted
  <2>. QED
    BY <1>3, <1>5, <1>8, <2>1
<1>13. CASE ReadList
  <2>1. At(source, Here) # NUL
    BY <1>6, <1>13, Zenon DEF ReadList
  <2>2. \/ cursor' = Here /\ open' = open
        \/ cursor' = Here + 1 /\ open' = Append(open, ListFrame(<<>>))
    BY <1>13, Zenon DEF ReadList
  <2>. QED
    BY <1>3, <1>5, <1>7, <1>8, <2>1, <2>2
<1>14. CASE ListTooLong
  BY <1>3, <1>4, <1>9, <1>14 DEF ListTooLong, IInv
<1>15. CASE NextItem
  <2>1. cursor' = Here /\ open' = open
    BY <1>15, Zenon DEF NextItem
  <2>. QED
    BY <1>3, <1>7, <2>1
<1>16. CASE CloseList
  <2>1. At(source, Here) # NUL /\ cursor' = Here + 1 /\ open' = Front(open) /\ reading = Loop
    BY <1>6, <1>16, Zenon DEF CloseList
  <2>. QED
    BY <1>3, <1>4, <1>8, <2>1 DEF IInv
<1>17. CASE ReturnToList
  <2>1. open # <<>> /\ cursor' = cursor
    BY <1>17 DEF ReturnToList, Returning
  <2>2. \/ open' = Front(open)
        \/ \E x : open' = Append(Front(open), x)
    BY <1>17 DEF ReturnToList
  <2>3. \A x : Len(Append(Front(open), x)) = Len(Front(open)) + 1
    BY <2>1, Popped, Pushed DEF IInv
  <2>4. Len(open') <= Len(open) /\ Len(open') \in Nat
    BY <1>3, <1>4, <2>1, <2>2, <2>3
  <2>. QED
    BY <1>9, <2>1, <2>4
<1>18. CASE ReturnToQuoted
  BY <1>3, <1>4, <1>9, <1>18 DEF ReturnToQuoted, Returning
<1>19. CASE UNCHANGED vars
  BY <1>3, <1>9, <1>19 DEF vars
<1>. QED
  BY <1>10, <1>11, <1>12, <1>13, <1>14, <1>15, <1>16, <1>17, <1>18, <1>19 DEF Next

\* The reader enters at the first char.
LEMMA CursorStarts == Init => CursorInv
<1>. SUFFICES ASSUME Init PROVE CursorInv
  OBVIOUS
<1>1. SourceOK
  BY SourceAssumption DEF Init, SourceOK
<1>2. 1 \in Places(source)
  BY <1>1, PlaceFacts DEF Places
<1>. QED
  BY <1>1, <1>2, Goes DEF Init, CursorInv

\* The invariant holds of every text.
THEOREM CursorInvariantHolds == Spec => []CursorInv
  BY CursorStarts, CursorStep, InvariantHolds, PTL DEF Spec

\* The reader stops at the NUL, whatever it is in the middle of there: a token,
\* a number, a comment or a string, but for the one escape that takes a NUL.
THEOREM TheEndIsRespected == Spec => []CursorStaysInText
<1>1. CursorInv => CursorStaysInText
  <2>. SUFFICES ASSUME CursorInv PROVE CursorStaysInText
    OBVIOUS
  <2>1. 1 <= TextEnd(source)
    BY HereFacts, PlaceFacts
  <2>. QED
    BY <2>1 DEF CursorInv, GoesTo, CursorStaysInText, EndsInBackslash
<1>. QED
  BY <1>1, CursorInvariantHolds, PTL

\* The C stack is bounded: by READER_MAX_NESTING_LEVEL for the lists, and for
\* lists and quotes together by the text, a char of which each of them has taken.
THEOREM RecursionIsBounded == Spec => []RecursionConsumesText
<1>1. CursorInv /\ ListsNestWithinLimit => RecursionConsumesText
  BY DEF CursorInv, RecursionConsumesText
<1>. QED
  BY <1>1, CursorInvariantHolds, NestingIsLimited, PTL
-----------------------------------------------------------------------------
(* Atoms, with little memory and with much                                  *)

\* The shape of the reader's memory.
IsMemory(m) ==
    /\ m = [free |-> m.free, symbols |-> m.symbols, refused |-> m.refused]
    /\ m.refused \in BOOLEAN

\* The reader gets a value and says of the memory what was said before, or it is
\* refused what it asks for and says so.
Gives(r, value, m) ==
    /\ IsMemory(r.mem)
    /\ \/ r.val = value /\ r.mem.refused = m.refused
       \/ r.val = MemoryError /\ r.mem.refused

\* A result that asks for nothing, and one that is refused.
LEMMA ResultGives ==
    ASSUME NEW m, IsMemory(m)
    PROVE  /\ \A x : Gives(Result(x, m), x, m)
           /\ \A x : Gives(Refused(MemoryError, m), x, m)
<1>1. \A x : Gives(Result(x, m), x, m)
  BY DEF Gives, Result
<1>2. PICK n : n = [m EXCEPT !.refused = TRUE]
  OBVIOUS
<1>3. n = [free |-> m.free, symbols |-> m.symbols, refused |-> TRUE]
  BY <1>2 DEF IsMemory
<1>4. IsMemory(n) /\ n.refused
  BY <1>3 DEF IsMemory
<1>5. \A x : Gives(Refused(MemoryError, m), x, m)
  BY <1>2, <1>4 DEF Gives, Refused, Result
<1>. QED
  BY <1>1, <1>5

\* What is spent changes nothing but what is free.
LEMMA SpendSays ==
    ASSUME NEW m, IsMemory(m), NEW pool, NEW n
    PROVE  IsMemory(Spend(m, pool, n)) /\ Spend(m, pool, n).refused = m.refused
<1>1. PICK f : f = [m.free EXCEPT ![pool] = @ - n]
  OBVIOUS
<1>2. Spend(m, pool, n) = [free |-> f, symbols |-> m.symbols, refused |-> m.refused]
  BY <1>1 DEF IsMemory, Spend
<1>. QED
  BY <1>2 DEF IsMemory

\* A string, a float, a list or a symbol: there is room for it or there is not.
LEMMA NewGives ==
    ASSUME NEW m, IsMemory(m)
    PROVE  /\ \A str : Gives(NewString(m, str), LispString(str), m)
           /\ \A x : Gives(NewFloat(m, x), LispFloat(x), m)
           /\ \A xs : Gives(NewList(m, xs, MemoryError), LispCList(xs), m)
           /\ \A name : Gives(InternCopy(m, name), LispSymbol(name), m)
<1>1. \A n, x : IsMemory(n) /\ n.refused = m.refused => Gives(Result(x, n), x, m)
  BY DEF Gives, Result
<1>2. \A x : Gives(Refused(MemoryError, m), x, m) /\ Gives(Result(x, m), x, m)
  BY ResultGives
<1>3. \A pool, n : IsMemory(Spend(m, pool, n)) /\ Spend(m, pool, n).refused = m.refused
  BY SpendSays
<1>4. \A pool, n, pool2, n2 : /\ IsMemory(Spend(Spend(m, pool, n), pool2, n2))
                             /\ Spend(Spend(m, pool, n), pool2, n2).refused = m.refused
  BY <1>3, SpendSays
<1>5. ASSUME NEW str PROVE Gives(NewString(m, str), LispString(str), m)
  <2>1. NewString(m, str) = NewStringArea(m, str, Len(str))
    BY DEF NewString, With
  <2>. QED
    BY <1>1, <1>2, <1>3, <2>1 DEF NewStringArea
<1>6. ASSUME NEW x PROVE Gives(NewFloat(m, x), LispFloat(x), m)
  BY <1>1, <1>2, <1>3 DEF NewFloat
<1>7. ASSUME NEW xs PROVE Gives(NewList(m, xs, MemoryError), LispCList(xs), m)
  BY <1>1, <1>2, <1>4 DEF NewList
<1>8. ASSUME NEW name PROVE Gives(InternCopy(m, name), LispSymbol(name), m)
  <2>1. PICK n : n = Spend(Spend(m, "string", Len(name) + 1), "symbol", 1)
    OBVIOUS
  <2>2. IsMemory(n) /\ n.refused = m.refused
    BY <1>4, <2>1
  <2>3. [n EXCEPT !.symbols = @ \cup {name}]
            = [free |-> n.free, symbols |-> n.symbols \cup {name}, refused |-> n.refused]
    BY <2>2 DEF IsMemory
  <2>4. PICK known : known = [n EXCEPT !.symbols = @ \cup {name}]
    OBVIOUS
  <2>5. IsMemory(known) /\ known.refused = m.refused
    BY <2>2, <2>3, <2>4 DEF IsMemory
  <2>6. \/ InternCopy(m, name) = Refused(MemoryError, m)
        \/ InternCopy(m, name) = Result(LispSymbol(name), m)
        \/ InternCopy(m, name) = Result(LispSymbol(name), known)
    BY <2>1, <2>4 DEF InternCopy
  <2>. QED
    BY <1>1, <1>2, <2>5, <2>6
<1>. QED
  BY <1>5, <1>6, <1>7, <1>8

\* Which object an atom is and where it ends.
Reads(r, value, next, m) == Gives(r, value, m) /\ r.next = next

\* What a token is that fits the buffer does not depend on the memory; whether
\* there is room for it does.
LEMMA TokenFixed ==
    ASSUME NEW token, NEW str
    PROVE  \E value : \A m : IsMemory(m) => Gives(AtomOf(m, token, str), value, m)
<1>1. CheckNumStr(str, TRUE) \in {"R_INT", "R_FLOAT", "R_NOTNUM"}
  BY DEF CheckNumStr
<1>2. CASE CheckNumStr(str, TRUE) = "R_INT"
  <2>1. PICK value : value = IF InRange(str) THEN LispInt(StrToL(str)) ELSE ReaderError
    OBVIOUS
  <2>2. \A m : AtomOf(m, token, str) = Result(value, m)
    BY <1>2, <2>1 DEF AtomOf
  <2>. QED
    BY <2>2, ResultGives
<1>3. CASE CheckNumStr(str, TRUE) = "R_FLOAT"
  <2>1. \A m : AtomOf(m, token, str) = NewFloat(m, StrToD[str])
    BY <1>3 DEF AtomOf
  <2>. QED
    BY <2>1, NewGives
<1>4. CASE CheckNumStr(str, TRUE) = "R_NOTNUM"
  <2>1. \A m : AtomOf(m, token, str) = IF token = "nil" THEN Result(LispNil, m) ELSE InternCopy(m, token)
    BY <1>4 DEF AtomOf
  <2>. QED
    BY <2>1, NewGives, ResultGives
<1>. QED
  BY <1>1, <1>2, <1>3, <1>4

\* The same for an atom of each kind.
LEMMA AtomFixed ==
    ASSUME NEW s, NEW p
    PROVE  \E value, next : \A m : IsMemory(m) => Reads(AtomAt(s, m, p), value, next, m)
<1>1. \A r, x, m, next : Gives(r, x, m) => Reads(Atom(r, next), x, next, m)
  BY DEF Gives, Atom, Reads
<1>2. \A x, m, next : IsMemory(m) => Reads(Atom(Result(x, m), next), x, next, m)
  BY <1>1, ResultGives
<1>3. \E value, next : \A m : IsMemory(m) => Reads(Char(s, m, p), value, next, m)
  <2>1. CASE At(s, p + 1) = NUL
    <3>1. \A m : Char(s, m, p) = Atom(Result(ReaderError, m), p + 1)
      BY <2>1 DEF Char
    <3>. QED
      BY <1>2, <3>1
  <2>2. CASE At(s, p + 1) # NUL
    <3>1. \A m : Char(s, m, p) = Atom(Result(LispInt(Code[At(s, p + 1)]), m), p + 2)
      BY <2>2 DEF Char
    <3>. QED
      BY <1>2, <3>1
  <2>. QED
    BY <2>1, <2>2
<1>4. \E value, next : \A m : IsMemory(m) => Reads(HashNum(s, m, p), value, next, m)
  <2>1. CASE At(s, p + 1) \notin {"x", "o"}
    <3>1. \A m : HashNum(s, m, p) = Atom(Result(ReaderError, m), p + 1)
      BY <2>1 DEF HashNum
    <3>. QED
      BY <1>2, <3>1
  <2>2. CASE At(s, p + 1) \in {"x", "o"}
    <3>1. PICK base, digits : /\ base = IF At(s, p + 1) = "x" THEN 16 ELSE 8
                             /\ digits = IF At(s, p + 1) = "x" THEN HexDigits ELSE OctDigits
      OBVIOUS
    <3>2. PICK q : q = DigitsEnd(s, p + 2, digits, MemoryEnd(s))
      OBVIOUS
    <3>3. PICK n : n = LispInt(ValueOfDigits(s, p + 2, q, base))
      OBVIOUS
    <3>4. \A m : HashNum(s, m, p) =
                     Atom(IF ~ IsStartToken(At(s, q)) THEN Result(ReaderError, m) ELSE Result(n, m), q)
      BY <2>2, <3>1, <3>2, <3>3 DEF HashNum, With
    <3>. QED
      BY <1>2, <3>4
  <2>. QED
    BY <2>1, <2>2
<1>5. \E value, next : \A m : IsMemory(m) => Reads(String(s, m, p), value, next, m)
  <2>1. PICK str : str = StringBytes(s, p + 1)
    OBVIOUS
  <2>2. \A m : IsMemory(m) => Reads(Atom(NewString(m, UpToNul(str.bytes)), str.next),
                                    LispString(UpToNul(str.bytes)), str.next, m)
    BY <1>1, NewGives
  <2>3. CASE Len(str.bytes) > READER_BUFSIZE \/ (str.closed /\ Len(str.bytes) = READER_BUFSIZE)
    <3>1. \A m : String(s, m, p) = Atom(Result(MemoryError, m), str.next)
      BY <2>1, <2>3 DEF String, With
    <3>. QED
      BY <1>2, <3>1
  <2>4. CASE ~ (Len(str.bytes) > READER_BUFSIZE \/ (str.closed /\ Len(str.bytes) = READER_BUFSIZE))
    <3>1. CASE str.closed
      <4>1. \A m : String(s, m, p) = Atom(NewString(m, UpToNul(str.bytes)), str.next)
        BY <2>1, <2>4, <3>1 DEF String, With
      <4>. QED
        BY <2>2, <4>1
    <3>2. CASE ~ str.closed
      <4>1. \A m : String(s, m, p) = Atom(Result(ReaderError, m), str.next)
        BY <2>1, <2>4, <3>2 DEF String, With
      <4>. QED
        BY <1>2, <4>1
    <3>. QED
      BY <3>1, <3>2
  <2>. QED
    BY <2>3, <2>4
<1>6. \E value, next : \A m : IsMemory(m) => Reads(MaybeSymbol(s, m, p), value, next, m)
  <2>1. PICK q : q = FirstFrom(s, p, IsStartToken)
    OBVIOUS
  <2>2. PICK token, str : token = Slice(s, p, q) /\ str = Chars(token)
    OBVIOUS
  <2>3. PICK value : \A m : IsMemory(m) => Gives(AtomOf(m, token, str), value, m)
    BY TokenFixed
  <2>4. \A m : MaybeSymbol(s, m, p) = IF q - p >= READER_BUFSIZE
                                      THEN Atom(Result(ReaderError, m), p + READER_BUFSIZE)
                                      ELSE Atom(AtomOf(m, token, str), q)
    BY <2>1, <2>2 DEF MaybeSymbol, With
  <2>5. \A m : IsMemory(m) => Reads(Atom(AtomOf(m, token, str), q), value, q, m)
    BY <1>1, <2>3
  <2>6. CASE q - p >= READER_BUFSIZE
    BY <1>2, <2>4, <2>6
  <2>7. CASE ~ (q - p >= READER_BUFSIZE)
    BY <2>4, <2>5, <2>7
  <2>. QED
    BY <2>6, <2>7
<1>7. \/ \A m : AtomAt(s, m, p) = String(s, m, p)
      \/ \A m : AtomAt(s, m, p) = Char(s, m, p)
      \/ \A m : AtomAt(s, m, p) = HashNum(s, m, p)
      \/ \A m : AtomAt(s, m, p) = MaybeSymbol(s, m, p)
  BY Zenon DEF AtomAt
<1>8. CASE \A m : AtomAt(s, m, p) = String(s, m, p)
  BY <1>5, <1>8
<1>9. CASE \A m : AtomAt(s, m, p) = Char(s, m, p)
  BY <1>3, <1>9
<1>10. CASE \A m : AtomAt(s, m, p) = HashNum(s, m, p)
  BY <1>4, <1>10
<1>11. CASE \A m : AtomAt(s, m, p) = MaybeSymbol(s, m, p)
  BY <1>6, <1>11
<1>. QED
  BY <1>7, <1>8, <1>9, <1>10, <1>11

\* An atom that is an object with all the memory it needs is that object with
\* less, or it is refused.
LEMMA AtomAgrees ==
    ASSUME NEW s, NEW p, NEW m, IsMemory(m), ~ AtomAt(s, Unlimited(s), p).mem.refused
    PROVE  /\ Gives(AtomAt(s, m, p), AtomAt(s, Unlimited(s), p).val, m)
           /\ AtomAt(s, m, p).next = AtomAt(s, Unlimited(s), p).next
<1>1. PICK value, next : \A n : IsMemory(n) => Reads(AtomAt(s, n, p), value, next, n)
  BY AtomFixed
<1>2. IsMemory(Unlimited(s))
  BY DEF IsMemory, Unlimited, Memory
<1>3. Reads(AtomAt(s, Unlimited(s), p), value, next, Unlimited(s))
  BY <1>1, <1>2
<1>4. AtomAt(s, Unlimited(s), p).val = value /\ AtomAt(s, Unlimited(s), p).next = next
  BY <1>3 DEF Reads, Gives
<1>5. Reads(AtomAt(s, m, p), value, next, m)
  BY <1>1
<1>. QED
  BY <1>4, <1>5 DEF Reads

-----------------------------------------------------------------------------
(* The tokens of a text and what the grammar says of them                   *)

\* The tokens from one place on: the first of them and the others.
LEMMA FromFacts ==
    ASSUME NEW V, NEW s, s.tokens \in Seq(V), NEW n \in Nat, n = Len(s.tokens)
    PROVE  /\ TokensFrom(s, 1) = s.tokens
           /\ TokensFrom(s, n + 1) = <<>>
           /\ \A k \in 1 .. n :
                  /\ TokensFrom(s, k) # <<>>
                  /\ Head(TokensFrom(s, k)) = s.tokens[k]
                  /\ Tail(TokensFrom(s, k)) = TokensFrom(s, k + 1)
           /\ \A k \in 1 .. n + 1 :
                  /\ TokensFrom(s, k) \in Seq(V)
                  /\ Len(TokensFrom(s, k)) = n + 1 - k
                  /\ \A i \in 1 .. n + 1 - k : TokensFrom(s, k)[i] = s.tokens[k + i - 1]
<1>1. TokensFrom(s, 1) = s.tokens
  BY SubSeqFull DEF TokensFrom
<1>2. TokensFrom(s, n + 1) = <<>>
  BY SubSeqEmpty DEF TokensFrom
<1>3. ASSUME NEW k \in 1 .. n + 1
      PROVE  /\ TokensFrom(s, k) \in Seq(V)
             /\ Len(TokensFrom(s, k)) = n + 1 - k
             /\ \A i \in 1 .. n + 1 - k : TokensFrom(s, k)[i] = s.tokens[k + i - 1]
  <2>1. \A i \in k .. n : s.tokens[i] \in V
    OBVIOUS
  <2>2. /\ SubSeq(s.tokens, k, n) \in Seq(V)
        /\ Len(SubSeq(s.tokens, k, n)) = IF k <= n THEN n - k + 1 ELSE 0
        /\ \A i \in 1 .. n - k + 1 : SubSeq(s.tokens, k, n)[i] = s.tokens[k + i - 1]
    BY <2>1, SubSeqProperties
  <2>3. n - k + 1 = n + 1 - k /\ (IF k <= n THEN n - k + 1 ELSE 0) = n + 1 - k
    OBVIOUS
  <2>. QED
    BY <2>2, <2>3 DEF TokensFrom
<1>4. ASSUME NEW k \in 1 .. n
      PROVE  /\ TokensFrom(s, k) # <<>>
             /\ Head(TokensFrom(s, k)) = s.tokens[k]
             /\ Tail(TokensFrom(s, k)) = TokensFrom(s, k + 1)
  <2>1. Len(TokensFrom(s, k)) = n + 1 - k /\ n + 1 - k # 0
    BY <1>3
  <2>2. TokensFrom(s, k) # <<>>
    BY <2>1
  <2>. QED
    <3>1. /\ Head(SubSeq(s.tokens, k, n)) = s.tokens[k]
          /\ Tail(SubSeq(s.tokens, k, n)) = SubSeq(s.tokens, k + 1, n)
      <4>1. PICK t \in Seq(V) : t = s.tokens
        OBVIOUS
      <4>2. k \in 1 .. Len(t) /\ n \in k .. Len(t)
        BY <4>1
      <4>3. Head(SubSeq(t, k, n)) = t[k] /\ Tail(SubSeq(t, k, n)) = SubSeq(t, k + 1, n)
        BY <4>2, HeadTailOfSubSeq
      <4>. QED
        BY <4>1, <4>3
    <3>2. TokensFrom(s, k) = SubSeq(s.tokens, k, n) /\ TokensFrom(s, k + 1) = SubSeq(s.tokens, k + 1, n)
      BY Zenon DEF TokensFrom
    <3>. QED
      BY <2>2, <3>1, <3>2, Zenon
<1>. QED
  BY <1>1, <1>2, <1>3, <1>4

\* The parentheses opened from one place on.
LEMMA OpenFacts ==
    ASSUME NEW V, NEW s, s.tokens \in Seq(V), NEW n \in Nat, n = Len(s.tokens)
    PROVE  /\ \A k \in 1 .. n + 1 : OpenParens(TokensFrom(s, k)) \in Nat
           /\ \A k \in 1 .. n : OpenParens(TokensFrom(s, k))
                  = OpenParens(TokensFrom(s, k + 1)) + (IF s.tokens[k] = OpenParen THEN 1 ELSE 0)
<1>. DEFINE B(k) == {j \in k .. n : s.tokens[j] = OpenParen}
<1>1. \A k \in 1 .. n + 1 : IsFiniteSet(B(k)) /\ Cardinality(B(k)) \in Nat
  <2>1. ASSUME NEW k \in 1 .. n + 1 PROVE IsFiniteSet(B(k)) /\ Cardinality(B(k)) \in Nat
    <3>1. B(k) \in SUBSET (1 .. n)
      OBVIOUS
    <3>2. IsFiniteSet(1 .. n)
      BY FS_Interval
    <3>3. PICK b : b = B(k)
      OBVIOUS
    <3>4. IsFiniteSet(b)
      BY <3>1, <3>2, <3>3, FS_Subset
    <3>. QED
      BY <3>3, <3>4, FS_CardinalityType
  <2>. QED
    BY <2>1
<1>2. ASSUME NEW k \in 1 .. n + 1 PROVE OpenParens(TokensFrom(s, k)) = Cardinality(B(k))
  <2>. DEFINE A == {i \in 1 .. n + 1 - k : s.tokens[k + i - 1] = OpenParen}
              f == [j \in B(k) |-> j + 1 - k]
  <2>1. DOMAIN TokensFrom(s, k) = 1 .. n + 1 - k
    BY FromFacts
  <2>2. {i \in DOMAIN TokensFrom(s, k) : TokensFrom(s, k)[i] = OpenParen} = A
    <3>1. \A i \in 1 .. n + 1 - k : TokensFrom(s, k)[i] = s.tokens[k + i - 1]
      BY FromFacts
    <3>. QED
      BY <2>1, <3>1
  <2>3. f \in [B(k) -> A]
    <3>1. ASSUME NEW j \in B(k) PROVE j + 1 - k \in A
      <4>1. j \in k .. n /\ k + (j + 1 - k) - 1 = j /\ j + 1 - k \in 1 .. n + 1 - k
        OBVIOUS
      <4>. QED
        BY <4>1
    <3>. QED
      BY <3>1
  <2>4. \A x, y \in B(k) : f[x] = f[y] => x = y
    OBVIOUS
  <2>5. ASSUME NEW i \in A PROVE \E j \in B(k) : f[j] = i
    <3>1. k + i - 1 \in B(k) /\ (k + i - 1) + 1 - k = i
      OBVIOUS
    <3>. QED
      BY <3>1
  <2>6. f \in Bijection(B(k), A)
    <3>. HIDE DEF f, A
    <3>. QED
      BY <2>3, <2>4, <2>5 DEF Bijection, Injection, Surjection, IsInjective
  <2>7. ExistsBijection(B(k), A)
    BY <2>6 DEF ExistsBijection
  <2>8. Cardinality(A) = Cardinality(B(k))
    <3>. HIDE DEF A
    <3>. QED
      BY <1>1, <2>7, FS_Bijection
  <2>. QED
    BY <2>2, <2>8 DEF OpenParens
<1>3. ASSUME NEW k \in 1 .. n
      PROVE  Cardinality(B(k)) = Cardinality(B(k + 1)) + (IF s.tokens[k] = OpenParen THEN 1 ELSE 0)
  <2>1. k + 1 \in 1 .. n + 1 /\ k \notin B(k + 1)
    OBVIOUS
  <2>2. B(k) = IF s.tokens[k] = OpenParen THEN B(k + 1) \cup {k} ELSE B(k + 1)
    OBVIOUS
  <2>3. PICK b : b = B(k + 1)
    OBVIOUS
  <2>4. IsFiniteSet(b) /\ Cardinality(b) \in Nat /\ k \notin b
    BY <1>1, <2>1, <2>3
  <2>5. Cardinality(b \cup {k}) = Cardinality(b) + 1
    BY <2>4, FS_AddElement
  <2>6. B(k) = IF s.tokens[k] = OpenParen THEN b \cup {k} ELSE b
    BY <2>2, <2>3
  <2>. HIDE DEF B
  <2>7. CASE s.tokens[k] = OpenParen
    BY <2>3, <2>5, <2>6, <2>7
  <2>8. CASE s.tokens[k] # OpenParen
    BY <2>3, <2>4, <2>6, <2>8
  <2>. QED
    BY <2>7, <2>8
<1>. HIDE DEF B
<1>4. \A k \in 1 .. n : k \in 1 .. n + 1 /\ k + 1 \in 1 .. n + 1
  OBVIOUS
<1>. QED
  BY <1>1, <1>2, <1>3, <1>4

\* The grammar from the k-th token on.
ParseAt(s, k, levels) == Parse(TokensFrom(s, k), levels, READER_ARRAY_BUFSIZE)
ItemsAt(s, k, levels, items) == ParseItems(TokensFrom(s, k), levels, READER_ARRAY_BUFSIZE, items)

\* The levels taken before the k-th token.
Opened(s, k) == OpenParens(s.tokens) - OpenParens(TokensFrom(s, k))

\* The tokens of a source are a sequence.
LEMMA TokensFacts ==
    ASSUME NEW s \in Sources
    PROVE  \E V : \E n \in Nat : s.tokens \in Seq(V) /\ n = Len(s.tokens)
<1>1. PICK V : s.tokens \in Seq(V)
  BY TokensAssumption, Zenon
<1>2. Len(s.tokens) \in Nat
  BY <1>1
<1>. QED
  BY <1>1, <1>2

\* The three marks are different, and no blanks.
LEMMA MarksDiffer ==
    /\ OpenParen # CloseParen /\ OpenParen # QuoteMark /\ CloseParen # QuoteMark
    /\ OpenParen \notin Blanks /\ CloseParen \notin Blanks /\ QuoteMark \notin Blanks
    /\ OpenParen.text = "(" /\ CloseParen.text = ")" /\ QuoteMark.text = "'"
<1>1. \A x : Mark(x).text = x
  BY DEF Mark, Token
<1>2. OpenParen.text = "(" /\ CloseParen.text = ")" /\ QuoteMark.text = "'"
  BY <1>1, Zenon DEF OpenParen, CloseParen, QuoteMark
<1>3. \A t \in Blanks : t.text \in {"\n ", ";x\n"}
  BY <1>1, Zenon DEF Blanks
<1>4. \A t \in Blanks : t.text # "(" /\ t.text # ")" /\ t.text # "'"
  BY <1>3, Zenon
<1>. QED
  BY <1>2, <1>4, Zenon

\* What the grammar says of a token of each kind.
GrammarSays(s, k, levels) ==
    LET token == s.tokens[k]
        next == ParseAt(s, k + 1, levels)
    IN  /\ token \in Blanks => ParseAt(s, k, levels) = next
        /\ token = CloseParen => ParseAt(s, k, levels) = Parsed(LispSymbol(""), TokensFrom(s, k))
        /\ token = QuoteMark => ParseAt(s, k, levels) =
               IF IsError(next.obj) THEN next
               ELSE Parsed(LispCList(<<LispSymbol("quote"), next.obj>>), next.rest)
        /\ token = OpenParen => ParseAt(s, k, levels) =
               IF levels = 0 THEN Parsed(ReaderError, <<>>) ELSE ItemsAt(s, k + 1, levels - 1, <<>>)
        /\ token \notin Blanks \cup Marks => ParseAt(s, k, levels) = Parsed(token.obj, TokensFrom(s, k + 1))

\* It says so of each token, and of the end.
LEMMA GrammarAt ==
    ASSUME GrammarIsByParts, NEW s \in Sources, NEW n \in Nat, n = Len(s.tokens), NEW levels \in Nat
    PROVE  /\ ParseAt(s, n + 1, levels) = Parsed(ReaderError, <<>>)
           /\ \A k \in 1 .. n : GrammarSays(s, k, levels)
<1>1. PICK V : s.tokens \in Seq(V)
  BY TokensFacts
<1>2. ASSUME NEW k \in 1 .. n + 1
      PROVE  ParseAt(s, k, levels) = ParseByParts(TokensFrom(s, k), levels, READER_ARRAY_BUFSIZE)
  BY <1>2 DEF GrammarIsByParts, ParsedByParts, ParseAt
<1>3. ParseAt(s, n + 1, levels) = Parsed(ReaderError, <<>>)
  <2>1. TokensFrom(s, n + 1) = <<>> /\ n + 1 \in 1 .. n + 1
    BY <1>1, FromFacts
  <2>. QED
    BY <1>2, <2>1 DEF ParseByParts
<1>4. ASSUME NEW k \in 1 .. n PROVE GrammarSays(s, k, levels)
  <2>. DEFINE token == s.tokens[k]
              next == ParseAt(s, k + 1, levels)
  <2>1. /\ TokensFrom(s, k) # <<>> /\ Head(TokensFrom(s, k)) = token
        /\ Tail(TokensFrom(s, k)) = TokensFrom(s, k + 1) /\ k \in 1 .. n + 1
    BY <1>1, FromFacts
  <2>2. ParseAt(s, k, levels) =
            IF token \in Blanks THEN next
            ELSE IF token = CloseParen THEN Parsed(LispSymbol(""), TokensFrom(s, k))
            ELSE IF token = QuoteMark
            THEN IF IsError(next.obj) THEN next
                 ELSE Parsed(LispCList(<<LispSymbol("quote"), next.obj>>), next.rest)
            ELSE IF token = OpenParen
            THEN IF levels = 0 THEN Parsed(ReaderError, <<>>) ELSE ItemsAt(s, k + 1, levels - 1, <<>>)
            ELSE Parsed(token.obj, TokensFrom(s, k + 1))
    BY <1>2, <2>1, Zenon DEF ParseByParts, ParseAt, ItemsAt
  <2>. HIDE DEF token, next
  <2>3. token \in Blanks => ParseAt(s, k, levels) = next
    BY <2>2
  <2>4. token = CloseParen => ParseAt(s, k, levels) = Parsed(LispSymbol(""), TokensFrom(s, k))
    BY <2>2, MarksDiffer, Zenon
  <2>5. token = QuoteMark => ParseAt(s, k, levels) =
            IF IsError(next.obj) THEN next
            ELSE Parsed(LispCList(<<LispSymbol("quote"), next.obj>>), next.rest)
    BY <2>2, MarksDiffer
  <2>6. token = OpenParen => ParseAt(s, k, levels) =
            IF levels = 0 THEN Parsed(ReaderError, <<>>) ELSE ItemsAt(s, k + 1, levels - 1, <<>>)
    BY <2>2, MarksDiffer
  <2>7. token \notin Blanks \cup Marks => ParseAt(s, k, levels) = Parsed(token.obj, TokensFrom(s, k + 1))
    BY <2>2 DEF Marks
  <2>. QED
    BY <2>3, <2>4, <2>5, <2>6, <2>7 DEF token, next, GrammarSays
<1>. QED
  BY <1>3, <1>4

\* An atom is an object if it has all the memory it needs.
Alone(s, p, obj, next) ==
    /\ AtomAt(s, Unlimited(s), p).val = obj
    /\ ~ AtomAt(s, Unlimited(s), p).mem.refused
    /\ ~ IsError(obj) => Skip(s, AtomAt(s, Unlimited(s), p).next) = Skip(s, next)

\* No atom begins with these chars.
OpensAtom(c) == c \notin {NUL, "(", ")", "'"}

\* What the text says of a token of each kind.
TextSays(s, token, p, q) ==
    /\ token \in Blanks => Skip(s, p) = Skip(s, q)
    /\ token \in Marks => At(s, Skip(s, p)) = token.text /\ q = Skip(s, p) + 1
    /\ token = CloseParen => Alone(s, Skip(s, p), LispSymbol(""), Skip(s, p))
    /\ token \notin Blanks \cup Marks => OpensAtom(At(s, Skip(s, p))) /\ Alone(s, Skip(s, p), token.obj, q)

\* It says so of one that stands there.
LEMMA TextAt ==
    ASSUME NEW token, NEW s, NEW p, NEW q, Stands(s, token, p, q)
    PROVE  TextSays(s, token, p, q)
<1>1. token \in Marks => token \notin Blanks
  BY MarksDiffer DEF Marks
<1>2. CloseParen \in Marks
  BY DEF Marks
<1>. QED
  BY <1>1, <1>2, Zenon DEF Stands, Alone, OpensAtom, TextSays

\* There is nothing but blanks between two places, in the text and in the
\* grammar, and none at the second.
BlanksBetween(s, i, j) ==
    /\ j = Len(s.tokens) + 1 \/ s.tokens[j] \notin Blanks
    /\ \A h \in i .. j - 1 : s.tokens[h] \in Blanks
    /\ Skip(s, Begins(s)[i]) = Skip(s, Begins(s)[j])
    /\ OpenParens(TokensFrom(s, i)) = OpenParens(TokensFrom(s, j))
    /\ \A levels \in Nat : ParseAt(s, i, levels) = ParseAt(s, j, levels)

\* From each place on, blanks lead to the end or to a token that is none.
LEMMA FirstToken ==
    ASSUME GrammarIsByParts, NEW s \in Sources, TokensStand(s), NEW n \in Nat, n = Len(s.tokens),
           NEW k \in 1 .. n + 1
    PROVE  \E j \in k .. n + 1 : BlanksBetween(s, k, j)
<1>. DEFINE S == {i \in 1 .. n + 1 : \E j \in i .. n + 1 : BlanksBetween(s, i, j)}
<1>0. PICK V : s.tokens \in Seq(V)
  BY TokensFacts
<1>1. ASSUME NEW i \in 1 .. n + 1, \A h \in i + 1 .. n + 1 : h \in S PROVE i \in S
  <2>1. CASE i = n + 1 \/ s.tokens[i] \notin Blanks
    <3>1. i \in i .. n + 1 /\ \A h \in i .. i - 1 : FALSE
      OBVIOUS
    <3>2. BlanksBetween(s, i, i)
      BY <2>1, <3>1 DEF BlanksBetween
    <3>. QED
      BY <3>1, <3>2
  <2>2. CASE i # n + 1 /\ s.tokens[i] \in Blanks
    <3>1. i \in 1 .. n /\ i + 1 \in i + 1 .. n + 1
      BY <2>2
    <3>2. PICK j \in i + 1 .. n + 1 : BlanksBetween(s, i + 1, j)
      BY <1>1, <3>1
    <3>3. PICK token, p, q : /\ token = s.tokens[i] /\ p = Begins(s)[i] /\ q = Begins(s)[i + 1]
                            /\ Stands(s, token, p, q)
      BY <3>1 DEF TokensStand, TokensStandAt
    <3>4. Skip(s, Begins(s)[i]) = Skip(s, Begins(s)[i + 1])
      <4>1. TextSays(s, token, p, q)
        BY <3>3, TextAt
      <4>. QED
        BY <2>2, <3>3, <4>1 DEF TextSays
    <3>5. OpenParens(TokensFrom(s, i)) = OpenParens(TokensFrom(s, i + 1))
      <4>1. s.tokens[i] # OpenParen
        BY <2>2, MarksDiffer
      <4>2. OpenParens(TokensFrom(s, i)) = OpenParens(TokensFrom(s, i + 1)) + 0
        BY <1>0, <3>1, <4>1, OpenFacts
      <4>3. OpenParens(TokensFrom(s, i + 1)) \in Nat
        <5>1. i + 1 \in 1 .. n + 1
          BY <3>1
        <5>. QED
          BY <1>0, <5>1, OpenFacts
      <4>. QED
        BY <4>2, <4>3
    <3>6. ASSUME NEW levels \in Nat PROVE ParseAt(s, i, levels) = ParseAt(s, i + 1, levels)
      <4>1. GrammarSays(s, i, levels)
        BY <3>1, GrammarAt
      <4>. QED
        BY <2>2, <4>1 DEF GrammarSays
    <3>7. \A h \in i .. j - 1 : h = i \/ h \in i + 1 .. j - 1
      BY <3>1
    <3>8. j \in i .. n + 1
      BY <3>1
    <3>9. BlanksBetween(s, i, j)
      BY <2>2, <3>2, <3>4, <3>5, <3>6, <3>7, Zenon DEF BlanksBetween
    <3>. QED
      BY <3>8, <3>9
  <2>. QED
    BY <2>1, <2>2
<1>2. k \in S
  <2>. HIDE DEF S
  <2>1. PICK M \in Nat : M = n + 1
    OBVIOUS
  <2>2. 1 .. M \subseteq S
    BY <1>1, <2>1, InductionFromTheEnd
  <2>. QED
    BY <2>1, <2>2
<1>. QED
  BY <1>2

\* What the grammar says of the items of a list from the k-th token on, of which
\* the j-th is the first one that is no blank.
ItemsSay(s, k, j, levels, items) ==
    LET item == ParseAt(s, k, levels)
        opened == OpenParens(TokensFrom(s, k)) - OpenParens(item.rest)
    IN  ItemsAt(s, k, levels, items) =
            IF Len(items) = READER_ARRAY_BUFSIZE THEN Parsed(ReaderError, <<>>)
            ELSE IF j # Len(s.tokens) + 1 /\ s.tokens[j] = CloseParen
            THEN Parsed(LispCList(items), TokensFrom(s, j + 1))
            ELSE IF IsError(item.obj) THEN item
            ELSE ParseItems(item.rest, levels - opened, READER_ARRAY_BUFSIZE, Append(items, item.obj))

\* It says so.
LEMMA ItemsGrammar ==
    ASSUME GrammarIsByParts, NEW s \in Sources, NEW n \in Nat, n = Len(s.tokens),
           NEW k \in 1 .. n + 1, NEW j \in k .. n + 1, j = n + 1 \/ s.tokens[j] \notin Blanks,
           \A i \in k .. j - 1 : s.tokens[i] \in Blanks, NEW levels \in Nat, NEW items
    PROVE  ItemsSay(s, k, j, levels, items)
<1>0. j \in Nat /\ k \in Nat /\ k <= j /\ j <= n + 1
  OBVIOUS
<1>1. PICK V : s.tokens \in Seq(V)
  BY TokensFacts
<1>2. PICK t : t = TokensFrom(s, k)
  OBVIOUS
<1>3. t \in Seq(V) /\ Len(t) = n + 1 - k /\ \A i \in 1 .. n + 1 - k : t[i] = s.tokens[k + i - 1]
  <2>1. TokensFrom(s, k) \in Seq(V) /\ Len(TokensFrom(s, k)) = n + 1 - k
    BY <1>1, FromFacts
  <2>2. \A i \in 1 .. n + 1 - k : TokensFrom(s, k)[i] = s.tokens[k + i - 1]
    BY <1>1, FromFacts, SMTT(30)
  <2>. QED
    BY <1>2, <2>1, <2>2
<1>4. PICK starts : starts = SelectInSeq(t, LAMBDA x : x \notin Blanks)
  OBVIOUS
<1>5. starts = IF j = n + 1 THEN 0 ELSE j + 1 - k
  <2>. DEFINE I == {i \in 1 .. Len(t) : t[i] \notin Blanks}
  <2>1. starts = IF I # {} THEN Min(I) ELSE 0
    BY <1>4 DEF SelectInSeq
  <2>2. \A i \in 1 .. j - k : t[i] \in Blanks
    <3>1. ASSUME NEW i \in 1 .. j - k PROVE t[i] \in Blanks
      <4>1. i \in 1 .. n + 1 - k /\ k + i - 1 \in k .. j - 1
        OBVIOUS
      <4>. QED
        BY <1>3, <4>1
    <3>. QED
      BY <3>1
  <2>3. CASE j = n + 1
    <3>1. I = {}
      BY <1>3, <2>2, <2>3
    <3>. HIDE DEF I
    <3>. QED
      BY <2>1, <2>3, <3>1
  <2>4. CASE j # n + 1
    <3>1. j + 1 - k \in 1 .. n + 1 - k /\ k + (j + 1 - k) - 1 = j
      BY <2>4
    <3>2. t[j + 1 - k] = s.tokens[j]
      BY <1>3, <3>1
    <3>3. j + 1 - k \in I
      BY <1>3, <2>4, <3>1, <3>2
    <3>4. \A i \in I : i \in Int /\ j + 1 - k <= i
      BY <1>3, <2>2
    <3>5. I # {}
      BY <3>3
    <3>. HIDE DEF I
    <3>6. \A x \in I : (\A y \in I : x =< y) => x = j + 1 - k
      BY <3>3, <3>4
    <3>7. Min(I) = j + 1 - k
      BY <3>3, <3>4, <3>6 DEF Min
    <3>. QED
      BY <2>1, <2>4, <3>5, <3>7
  <2>. QED
    BY <2>3, <2>4
<1>6. ASSUME j # n + 1
      PROVE  /\ starts # 0 /\ t[starts] = s.tokens[j]
             /\ SubSeq(t, starts + 1, Len(t)) = TokensFrom(s, j + 1)
  <2>1. starts = j + 1 - k /\ starts \in 1 .. n + 1 - k /\ k + starts - 1 = j
    BY <1>5, <1>6
  <2>2. t[starts] = s.tokens[j]
    BY <1>3, <2>1
  <2>3. SubSeq(t, starts + 1, Len(t)) = TokensFrom(s, j + 1)
    <3>0. PICK a \in Int : a = starts + 1
      BY <2>1
    <3>1. PICK b \in Int : b = n + 1 - k
      OBVIOUS
    <3>2. Len(t) = b /\ \A i \in a .. b : t[i] \in V
      BY <1>3, <2>1, <3>0, <3>1
    <3>3. /\ SubSeq(t, a, b) \in Seq(V)
          /\ Len(SubSeq(t, a, b)) = IF a <= b THEN b - a + 1 ELSE 0
          /\ \A i \in 1 .. b - a + 1 : SubSeq(t, a, b)[i] = t[a + i - 1]
      BY <3>2, SubSeqProperties
    <3>4. b - a + 1 = n - j /\ (a <= b => b - a + 1 = n - j) /\ (~ (a <= b) => 0 = n - j)
      BY <1>6, <2>1, <3>0, <3>1
    <3>5. /\ TokensFrom(s, j + 1) \in Seq(V) /\ Len(TokensFrom(s, j + 1)) = n - j
          /\ \A i \in 1 .. n - j : TokensFrom(s, j + 1)[i] = s.tokens[j + 1 + i - 1]
      <4>1. PICK h \in 1 .. n + 1 : h = j + 1
        BY <1>6
      <4>2. TokensFrom(s, h) \in Seq(V) /\ Len(TokensFrom(s, h)) = n + 1 - h
        BY <1>1, FromFacts
      <4>3. \A i \in 1 .. n + 1 - h : TokensFrom(s, h)[i] = s.tokens[h + i - 1]
        BY <1>1, FromFacts
      <4>4. n + 1 - h = n - j
        <5>1. \A x, y \in Int : y + 1 - (x + 1) = y - x
          OBVIOUS
        <5>2. j \in Int /\ n \in Int
          BY <1>0
        <5>3. n + 1 - (j + 1) = n - j
          BY <5>1, <5>2
        <5>. QED
          BY <4>1, <5>3
      <4>. QED
        BY <4>1, <4>2, <4>3, <4>4
    <3>6. ASSUME NEW i \in 1 .. n - j PROVE SubSeq(t, a, b)[i] = TokensFrom(s, j + 1)[i]
      <4>1. a + i - 1 \in 1 .. n + 1 - k /\ k + (a + i - 1) - 1 = j + 1 + i - 1
        BY <1>6, <2>1, <3>0, <3>1
      <4>2. SubSeq(t, a, b)[i] = t[a + i - 1]
        BY <3>3, <3>4
      <4>3. t[a + i - 1] = s.tokens[j + 1 + i - 1]
        BY <1>3, <4>1
      <4>. QED
        BY <3>5, <4>2, <4>3
    <3>7. PICK u, v \in Seq(V) : u = SubSeq(t, a, b) /\ v = TokensFrom(s, j + 1)
      BY <3>3, <3>5
    <3>8. Len(u) = Len(v) /\ \A i \in 1 .. Len(u) : u[i] = v[i]
      BY <3>3, <3>4, <3>5, <3>6, <3>7
    <3>9. u = v
      BY <3>8, SeqEqual
    <3>. QED
      BY <3>0, <3>2, <3>7, <3>9
  <2>4. starts # 0
    BY <2>1
  <2>. QED
    BY <2>2, <2>3, <2>4, Zenon
<1>7. starts # 0 <=> j # n + 1
  BY <1>5
<1>8. ItemsAt(s, k, levels, items) = ParseItemsByParts(t, levels, READER_ARRAY_BUFSIZE, items)
  BY <1>2 DEF GrammarIsByParts, ParsedByParts, ItemsAt
<1>. DEFINE item == ParseAt(s, k, levels)
            opened == OpenParens(TokensFrom(s, k)) - OpenParens(item.rest)
<1>9. ItemsAt(s, k, levels, items) =
          IF Len(items) = READER_ARRAY_BUFSIZE THEN Parsed(ReaderError, <<>>)
          ELSE IF starts # 0 /\ t[starts] = CloseParen
          THEN Parsed(LispCList(items), SubSeq(t, starts + 1, Len(t)))
          ELSE IF IsError(item.obj) THEN item
          ELSE ParseItems(item.rest, levels - opened, READER_ARRAY_BUFSIZE, Append(items, item.obj))
  BY <1>2, <1>4, <1>8, Zenon DEF ParseItemsByParts, ParseAt
<1>. HIDE DEF item, opened
<1>10. ItemsAt(s, k, levels, items) =
          IF Len(items) = READER_ARRAY_BUFSIZE THEN Parsed(ReaderError, <<>>)
          ELSE IF j # n + 1 /\ s.tokens[j] = CloseParen
          THEN Parsed(LispCList(items), TokensFrom(s, j + 1))
          ELSE IF IsError(item.obj) THEN item
          ELSE ParseItems(item.rest, levels - opened, READER_ARRAY_BUFSIZE, Append(items, item.obj))
  BY <1>6, <1>7, <1>9, Zenon
<1>. QED
  BY <1>10 DEF item, opened, ItemsSay

-----------------------------------------------------------------------------
(* The calls that wait                                                      *)

\* What the call that waits in a frame makes of the value it is given.
Passes(s, frame, value, result) ==
    /\ IsError(value.obj) => result = value
    /\ ~ IsError(value.obj) /\ frame.kind = "quote" =>
           result = Parsed(LispCList(<<LispSymbol("quote"), value.obj>>), value.rest)
    /\ ~ IsError(value.obj) /\ frame.kind = "list" =>
           \E k \in 1 .. Len(s.tokens) + 1 :
               result = ParseItems(value.rest,
                                   READER_MAX_NESTING_LEVEL - Opened(s, k)
                                       - (OpenParens(TokensFrom(s, k)) - OpenParens(value.rest)),
                                   READER_ARRAY_BUFSIZE, Append(frame.buffer, value.obj))

\* The calls that wait make of a value what the whole text means.
Leads(s, stack, value) ==
    \E values : /\ values[Len(stack)] = value
                /\ values[0].obj = Parse(s.tokens, READER_MAX_NESTING_LEVEL, READER_ARRAY_BUFSIZE).obj
                /\ \A i \in 1 .. Len(stack) : Passes(s, stack[i], values[i], values[i - 1])

\* A call that waits for a value it makes this one of.
LEMMA LeadsPushed ==
    ASSUME NEW s, NEW stack, IsStack(stack), NEW frame, NEW value, NEW result,
           Leads(s, stack, result), Passes(s, frame, value, result)
    PROVE  Leads(s, Append(stack, frame), value)
<1>1. PICK values : /\ values[Len(stack)] = result
                    /\ values[0].obj = Parse(s.tokens, READER_MAX_NESTING_LEVEL, READER_ARRAY_BUFSIZE).obj
                    /\ \A i \in 1 .. Len(stack) : Passes(s, stack[i], values[i], values[i - 1])
  BY DEF Leads
<1>2. PICK n \in Nat : n = Len(stack) /\ Len(Append(stack, frame)) = n + 1
  BY Pushed
<1>3. PICK next : next = [i \in 0 .. n + 1 |-> IF i = n + 1 THEN value ELSE values[i]]
  OBVIOUS
<1>4. next[n + 1] = value /\ \A i \in 0 .. n : next[i] = values[i]
  BY <1>3
<1>5. PICK longer : longer = Append(stack, frame)
  OBVIOUS
<1>6. \A i \in 1 .. n : longer[i] = stack[i]
  BY <1>2, <1>5, Pushed
<1>7. longer[n + 1] = frame
  BY <1>2, <1>5, Pushed
<1>8. ASSUME NEW i \in 1 .. n + 1 PROVE Passes(s, longer[i], next[i], next[i - 1])
  <2>1. CASE i = n + 1
    <3>1. i - 1 = n /\ n \in 0 .. n
      BY <2>1
    <3>. QED
      BY <1>1, <1>2, <1>4, <1>7, <2>1, <3>1
  <2>2. CASE i # n + 1
    <3>1. i \in 1 .. n /\ i \in 0 .. n /\ i - 1 \in 0 .. n
      BY <2>2
    <3>. QED
      BY <1>1, <1>2, <1>4, <1>6, <3>1
  <2>. QED
    BY <2>1, <2>2
<1>9. next[0] = values[0]
  BY <1>4
<1>. QED
  BY <1>1, <1>2, <1>4, <1>5, <1>8, <1>9 DEF Leads

\* The innermost call that waits makes something of its value that the others
\* make the meaning of the text of.
LEMMA LeadsPopped ==
    ASSUME NEW s, NEW stack, IsStack(stack), stack # <<>>, NEW value, Leads(s, stack, value)
    PROVE  \E result : Passes(s, Last(stack), value, result) /\ Leads(s, Front(stack), result)
<1>1. PICK values : /\ values[Len(stack)] = value
                    /\ values[0].obj = Parse(s.tokens, READER_MAX_NESTING_LEVEL, READER_ARRAY_BUFSIZE).obj
                    /\ \A i \in 1 .. Len(stack) : Passes(s, stack[i], values[i], values[i - 1])
  BY DEF Leads
<1>2. PICK n \in Nat \ {0} : n = Len(stack) /\ Len(Front(stack)) = n - 1
  BY Popped
<1>3. PICK shorter : shorter = Front(stack)
  OBVIOUS
<1>4. \A i \in 1 .. n - 1 : shorter[i] = stack[i] /\ i \in 1 .. n
  BY <1>2, <1>3, Popped
<1>5. n \in 1 .. n /\ Last(stack) = stack[n]
  BY <1>2 DEF Last
<1>6. Passes(s, Last(stack), value, values[n - 1])
  BY <1>1, <1>2, <1>5
<1>7. \A i \in 1 .. n - 1 : Passes(s, shorter[i], values[i], values[i - 1])
  BY <1>1, <1>2, <1>4
<1>8. Leads(s, shorter, values[n - 1])
  BY <1>1, <1>2, <1>3, <1>7 DEF Leads
<1>. QED
  BY <1>3, <1>6, <1>8

\* Where no call waits, the value is the meaning.
LEMMA LeadsHome ==
    ASSUME NEW s, NEW value, Leads(s, <<>>, value)
    PROVE  value.obj = Parse(s.tokens, READER_MAX_NESTING_LEVEL, READER_ARRAY_BUFSIZE).obj
  BY DEF Leads

\* A refused request has made the reader return Memory_Error.
MemoryInv ==
    /\ IsMemory(mem)
    /\ mem.refused => reading = Return(MemoryError)

\* The cursor is before the k-th token, and the counter has counted the
\* parentheses before it.
StandsAt(k) ==
    /\ k \in 1 .. Len(source.tokens) + 1
    /\ Here = Skip(source, Begins(source)[k])
    /\ nesting_level = Opened(source, k)
    /\ nesting_level <= READER_MAX_NESTING_LEVEL

LevelsLeft == READER_MAX_NESTING_LEVEL - nesting_level

\* What the reader has read, it has read as the grammar says, and what the
\* grammar says of the rest is what the calls that wait make the meaning of.
MeaningInv ==
    TokensStand(source) /\ ~ mem.refused =>
        /\ reading.step = "sexp" =>
               \E k : StandsAt(k) /\ Leads(source, open, ParseAt(source, k, LevelsLeft))
        /\ reading.step = "loop" =>
               \E k : StandsAt(k) /\ Leads(source, Front(open), ItemsAt(source, k, LevelsLeft, Top.buffer))
        /\ reading.step = "return" =>
               \E value : /\ value.obj = reading.obj
                          /\ Leads(source, open, value)
                          /\ ~ IsError(reading.obj) => \E k : StandsAt(k) /\ value.rest = TokensFrom(source, k)

\* The reader enters before the first token.
LEMMA MeaningStarts ==
    ASSUME Init
    PROVE  MemoryInv /\ MeaningInv
<1>1. MemoryInv
  <2>1. PICK budget : mem = Memory(budget, ReservedSymbols)
    BY DEF Init
  <2>. QED
    BY <2>1 DEF MemoryInv, IsMemory, Memory
<1>2. ASSUME TokensStand(source)
      PROVE  \E k : StandsAt(k) /\ Leads(source, open, ParseAt(source, k, LevelsLeft))
  <2>0. source \in Sources
    BY DEF Init
  <2>01. PICK V : \E n \in Nat : source.tokens \in Seq(V) /\ n = Len(source.tokens)
    BY <2>0, TokensFacts
  <2>1. PICK n \in Nat : source.tokens \in Seq(V) /\ n = Len(source.tokens)
    BY <2>01
  <2>2. TokensFrom(source, 1) = source.tokens
    BY <2>1, FromFacts
  <2>3. 1 \in 1 .. n + 1 /\ OpenParens(TokensFrom(source, 1)) \in Nat
    BY <2>1, OpenFacts
  <2>4. Opened(source, 1) = 0
    BY <2>2, <2>3 DEF Opened
  <2>5. Begins(source)[1] = 1
    BY <1>2 DEF TokensStand, TokensStandAt
  <2>6. StandsAt(1)
    BY <2>1, <2>3, <2>4, <2>5, NestingAssumption DEF StandsAt, Init, Here
  <2>7. PICK v : v = ParseAt(source, 1, LevelsLeft)
    OBVIOUS
  <2>8. LevelsLeft = READER_MAX_NESTING_LEVEL
    BY NestingAssumption DEF LevelsLeft, Init
  <2>9. v = Parse(source.tokens, READER_MAX_NESTING_LEVEL, READER_ARRAY_BUFSIZE)
    BY <2>2, <2>7, <2>8 DEF ParseAt
  <2>10. Len(open) = 0
    BY DEF Init
  <2>11. PICK values : values = [i \in {0} |-> v]
    OBVIOUS
  <2>12. values[0] = v /\ \A i \in 1 .. 0 : FALSE
    BY <2>11
  <2>13. Leads(source, open, v)
    BY <2>9, <2>10, <2>12 DEF Leads
  <2>. QED
    BY <2>6, <2>7, <2>13
<1>3. reading.step = "sexp"
  BY DEF Init, Sexp
<1>. QED
  BY <1>1, <1>2, <1>3 DEF MeaningInv

-----------------------------------------------------------------------------
(* What the reader sees                                                     *)

\* A stack is its top on what is below.
LEMMA Refilled ==
    ASSUME NEW s, IsStack(s), s # <<>>
    PROVE  Append(Front(s), Last(s)) = s
<1>1. PICK V : s \in Seq(V)
  BY DEF IsStack
<1>2. PICK n \in Nat \ {0} : n = Len(s) /\ Len(Front(s)) = n - 1
  BY Popped
<1>3. \A i \in 1 .. n - 1 : Front(s)[i] = s[i]
  BY <1>2, Popped
<1>4. PICK f, x : f = Front(s) /\ x = Last(s)
  OBVIOUS
<1>5. x = s[n]
  BY <1>2, <1>4 DEF Last
<1>6. IsStack(f) /\ Len(f) = n - 1
  BY <1>2, <1>4, Popped
<1>7. PICK t : t = Append(f, x)
  OBVIOUS
<1>8. IsStack(t) /\ Len(t) = n /\ t[n] = x /\ \A i \in 1 .. n - 1 : t[i] = f[i]
  BY <1>6, <1>7, Pushed
<1>9. \A i \in 1 .. n : t[i] = s[i]
  BY <1>3, <1>4, <1>5, <1>8
<1>10. PICK W : t \in Seq(W)
  BY <1>8 DEF IsStack
<1>11. t = s
  BY <1>1, <1>2, <1>8, <1>9, <1>10, SeqEqual
<1>. QED
  BY <1>4, <1>7, <1>11

\* What the reader sees where it stands before a token that is no blank.
Sees(token, q) ==
    /\ token \notin Blanks
    /\ token \in Marks => At(source, Here) = token.text /\ q = Here + 1
    /\ token = CloseParen => Alone(source, Here, LispSymbol(""), Here)
    /\ token \notin Marks => OpensAtom(At(source, Here)) /\ Alone(source, Here, token.obj, q)

\* Over the blanks, the reader stands before the end or before a token it sees.
LEMMA Ahead ==
    ASSUME GrammarIsByParts, CursorInv, TokensStand(source), NEW n \in Nat, n = Len(source.tokens),
           NEW k, StandsAt(k)
    PROVE  \E j \in k .. n + 1 :
               /\ StandsAt(j)
               /\ j = n + 1 \/ source.tokens[j] \notin Blanks
               /\ \A i \in k .. j - 1 : source.tokens[i] \in Blanks
               /\ \A levels \in Nat : ParseAt(source, k, levels) = ParseAt(source, j, levels)
               /\ j = n + 1 => At(source, Here) = NUL
               /\ j # n + 1 => Sees(source.tokens[j], Begins(source)[j + 1])
<1>1. k \in 1 .. n + 1 /\ Here = Skip(source, Begins(source)[k]) /\ source \in Sources
  BY DEF StandsAt, CursorInv
<1>2. PICK j \in k .. n + 1 : BlanksBetween(source, k, j)
  BY <1>1, FirstToken
<1>3. j \in 1 .. n + 1
  BY <1>1
<1>4. StandsAt(j)
  BY <1>1, <1>2, <1>3 DEF StandsAt, Opened, BlanksBetween
<1>5. Here = Skip(source, Begins(source)[j])
  BY <1>4 DEF StandsAt
<1>6. j = n + 1 => At(source, Here) = NUL
  BY <1>5 DEF TokensStand, TokensStandAt
<1>7. ASSUME j # n + 1 PROVE Sees(source.tokens[j], Begins(source)[j + 1])
  <2>1. j \in 1 .. n
    BY <1>3, <1>7
  <2>2. PICK token, p, q : /\ token = source.tokens[j] /\ p = Begins(source)[j] /\ q = Begins(source)[j + 1]
                          /\ Stands(source, token, p, q)
    BY <2>1 DEF TokensStand, TokensStandAt
  <2>3. token \notin Blanks /\ Skip(source, p) = Here
    BY <1>2, <1>5, <1>7, <2>2 DEF BlanksBetween
  <2>4. TextSays(source, token, p, q)
    BY <2>2, TextAt
  <2>5. Sees(token, q)
    BY <2>3, <2>4, Zenon DEF Sees, TextSays
  <2>. QED
    BY <2>2, <2>5
<1>. QED
  BY <1>2, <1>4, <1>6, <1>7 DEF BlanksBetween

\* A mark is seen for what it is, and nothing else is taken for it.
LEMMA SeesMarks ==
    ASSUME NEW token, NEW q, Sees(token, q)
    PROVE  /\ At(source, Here) # NUL
           /\ At(source, Here) = "(" => token = OpenParen /\ q = Here + 1
           /\ At(source, Here) = "'" => token = QuoteMark /\ q = Here + 1
           /\ At(source, Here) = ")" => token = CloseParen /\ q = Here + 1 /\ Alone(source, Here, LispSymbol(""), Here)
           /\ token = CloseParen => At(source, Here) = ")"
           /\ At(source, Here) \notin {"(", ")", "'"} =>
                  token \notin Blanks \cup Marks /\ Alone(source, Here, token.obj, q)
<1>1. PICK c : c = At(source, Here)
  OBVIOUS
<1>2. token \in Marks => c = token.text /\ q = Here + 1
  BY <1>1 DEF Sees
<1>3. token \notin Marks => OpensAtom(c) /\ Alone(source, Here, token.obj, q)
  BY <1>1, Zenon DEF Sees
<1>4. token = CloseParen => Alone(source, Here, LispSymbol(""), Here)
  BY Zenon DEF Sees
<1>5. token \in Marks <=> token = OpenParen \/ token = CloseParen \/ token = QuoteMark
  BY DEF Marks
<1>6. /\ token = OpenParen => c = "(" /\ q = Here + 1
      /\ token = CloseParen => c = ")" /\ q = Here + 1
      /\ token = QuoteMark => c = "'" /\ q = Here + 1
  BY <1>2, <1>5, MarksDiffer, Zenon
<1>7. "(" # ")" /\ "(" # "'" /\ ")" # "'" /\ NUL # "(" /\ NUL # ")" /\ NUL # "'"
  BY Zenon DEF NUL
<1>8. token \notin Blanks
  BY DEF Sees
<1>9. CASE token = OpenParen
  BY <1>1, <1>6, <1>7, <1>9, MarksDiffer, Zenon
<1>10. CASE token = CloseParen
  BY <1>1, <1>4, <1>6, <1>7, <1>10, MarksDiffer, Zenon
<1>11. CASE token = QuoteMark
  BY <1>1, <1>6, <1>7, <1>11, MarksDiffer, Zenon
<1>12. CASE token \notin Marks
  <2>1. c # NUL /\ c # "(" /\ c # ")" /\ c # "'"
    BY <1>3, <1>12, Zenon DEF OpensAtom
  <2>2. token # CloseParen
    BY <1>5, <1>12
  <2>. QED
    BY <1>1, <1>3, <1>8, <1>12, <2>1, <2>2, Zenon
<1>. QED
  BY <1>5, <1>9, <1>10, <1>11, <1>12

\* Behind a token, the reader stands before the next one.
LEMMA Beyond ==
    ASSUME CursorInv, NEW n \in Nat, n = Len(source.tokens), NEW j \in 1 .. n, StandsAt(j),
           source' = source, Skip(source, cursor') = Skip(source, Begins(source)[j + 1]),
           nesting_level' = nesting_level + (IF source.tokens[j] = OpenParen THEN 1 ELSE 0),
           nesting_level' <= READER_MAX_NESTING_LEVEL
    PROVE  StandsAt(j + 1)'
<1>1. source \in Sources
  BY DEF CursorInv
<1>2. PICK V : source.tokens \in Seq(V)
  BY <1>1, TokensFacts
<1>3. 1 \in 1 .. n + 1 /\ j + 1 \in 1 .. n + 1 /\ j \in 1 .. n + 1
  OBVIOUS
<1>4. PICK a, b, c \in Nat : /\ a = OpenParens(TokensFrom(source, j)) /\ b = OpenParens(TokensFrom(source, j + 1))
                            /\ c = OpenParens(source.tokens)
  <2>1. TokensFrom(source, 1) = source.tokens
    BY <1>2, FromFacts
  <2>2. OpenParens(TokensFrom(source, 1)) \in Nat /\ OpenParens(TokensFrom(source, j)) \in Nat
        /\ OpenParens(TokensFrom(source, j + 1)) \in Nat
    BY <1>2, <1>3, OpenFacts
  <2>. QED
    BY <2>1, <2>2
<1>5. a = b + (IF source.tokens[j] = OpenParen THEN 1 ELSE 0)
  BY <1>2, <1>4, OpenFacts
<1>6. nesting_level = c - a
  BY <1>4 DEF StandsAt, Opened
<1>7. nesting_level' = c - b
  BY <1>4, <1>5, <1>6, SMTT(60)
<1>8. nesting_level' = Opened(source, j + 1)
  BY <1>4, <1>7 DEF Opened
<1>. QED
  BY <1>3, <1>8 DEF StandsAt, Here

\* So does it where it only skips the blanks, or stays.
LEMMA Stays ==
    ASSUME CursorInv, NEW k, StandsAt(k), source' = source, cursor' \in {cursor, Here},
           nesting_level' = nesting_level
    PROVE  StandsAt(k)'
<1>1. SourceOK /\ cursor \in Places(source)
  <2>1. SourceOK /\ GoesTo(1, cursor)
    BY SourceAssumption DEF CursorInv, SourceOK
  <2>2. 1 \in Places(source)
    BY <2>1, PlaceFacts DEF Places
  <2>. QED
    BY <2>1, <2>2, Goes
<1>2. Skip(source, Here) = Here
  BY <1>1, SkipGoes DEF Here
<1>3. Here' = Here
  BY <1>2 DEF Here
<1>. QED
  BY <1>3 DEF StandsAt

\* What the levels are worth: the numbers behind them.
LEMMA LevelFacts ==
    ASSUME CursorInv, NEW k, StandsAt(k)
    PROVE  /\ LevelsLeft = READER_MAX_NESTING_LEVEL - Opened(source, k)
           /\ LevelsLeft \in Nat /\ nesting_level \in Int
<1>1. PICK V : \E m \in Nat : source.tokens \in Seq(V) /\ m = Len(source.tokens)
  BY TokensFacts DEF CursorInv
<1>2. PICK n \in Nat : source.tokens \in Seq(V) /\ n = Len(source.tokens)
  BY <1>1
<1>3. 1 \in 1 .. n + 1 /\ k \in 1 .. n + 1
  BY <1>2 DEF StandsAt
<1>4. OpenParens(TokensFrom(source, 1)) \in Nat /\ OpenParens(TokensFrom(source, k)) \in Nat
  BY <1>2, <1>3, OpenFacts
<1>5. TokensFrom(source, 1) = source.tokens
  BY <1>2, FromFacts
<1>6. Opened(source, k) \in Int
  BY <1>4, <1>5 DEF Opened
<1>. QED
  BY <1>6, NestingAssumption DEF StandsAt, LevelsLeft

-----------------------------------------------------------------------------
(* What the frames and the memory are                                       *)

\* What is pushed is on top of what was there.
LEMMA Uncovered ==
    ASSUME NEW s, IsStack(s), NEW x
    PROVE  /\ IsStack(Append(s, x)) /\ Append(s, x) # <<>>
           /\ Front(Append(s, x)) = s /\ Last(Append(s, x)) = x
<1>1. PICK V : s \in Seq(V)
  BY DEF IsStack
<1>2. PICK n \in Nat : n = Len(s)
  BY <1>1
<1>3. PICK t : t = Append(s, x)
  OBVIOUS
<1>4. IsStack(t) /\ Len(t) = n + 1 /\ t[n + 1] = x /\ \A i \in 1 .. n : t[i] = s[i]
  BY <1>2, <1>3, Pushed
<1>5. t # <<>>
  BY <1>4
<1>6. PICK f : f = Front(t)
  OBVIOUS
<1>7. IsStack(f) /\ Len(f) = n /\ \A i \in 1 .. n : f[i] = t[i]
  <2>1. IsStack(f) /\ Len(f) = (n + 1) - 1 /\ \A i \in 1 .. (n + 1) - 1 : f[i] = t[i]
    BY <1>4, <1>5, <1>6, Popped
  <2>. QED
    BY <2>1
<1>8. \A i \in 1 .. n : f[i] = s[i]
  BY <1>4, <1>7
<1>9. PICK W : f \in Seq(W)
  BY <1>7 DEF IsStack
<1>10. f = s
  BY <1>1, <1>2, <1>7, <1>8, <1>9, SeqEqual
<1>11. Last(t) = x
  BY <1>4 DEF Last
<1>. QED
  BY <1>3, <1>4, <1>5, <1>6, <1>10, <1>11

\* The buffer of a list that waits is a sequence.
FramesInv == \A i \in 1 .. Len(open) : open[i].kind = "list" => IsStack(open[i].buffer)

\* Every step keeps that.
LEMMA FramesStep ==
    ASSUME IInv, FramesInv, [Next]_vars
    PROVE  FramesInv'
<1>1. ASSUME open' = open PROVE FramesInv'
  BY <1>1 DEF FramesInv
<1>2. ASSUME open # <<>> PROVE \A i \in 1 .. Len(Front(open)) : Front(open)[i].kind = "list" => IsStack(Front(open)[i].buffer)
  <2>1. PICK n \in Nat \ {0} : n = Len(open) /\ Len(Front(open)) = n - 1
    BY <1>2, Popped DEF IInv
  <2>2. \A i \in 1 .. n - 1 : Front(open)[i] = open[i] /\ i \in 1 .. n
    BY <1>2, <2>1, Popped DEF IInv
  <2>. QED
    BY <2>1, <2>2 DEF FramesInv
<1>3. ASSUME NEW s, IsStack(s), \A i \in 1 .. Len(s) : s[i].kind = "list" => IsStack(s[i].buffer),
             NEW x, x.kind = "list" => IsStack(x.buffer), open' = Append(s, x)
      PROVE  FramesInv'
  <2>1. PICK n \in Nat : n = Len(s) /\ Len(open') = n + 1
    BY <1>3, Pushed
  <2>2. open'[n + 1] = x /\ \A i \in 1 .. n : open'[i] = s[i]
    BY <1>3, <2>1, Pushed
  <2>3. \A i \in 1 .. n + 1 : i = n + 1 \/ i \in 1 .. n
    BY <2>1
  <2>4. \A i \in 1 .. n + 1 : open'[i].kind = "list" => IsStack(open'[i].buffer)
    BY <1>3, <2>1, <2>2, <2>3
  <2>. QED
    BY <2>1, <2>4 DEF FramesInv
<1>4. ASSUME open # <<>>, open' = Front(open) PROVE FramesInv'
  BY <1>2, <1>4 DEF FramesInv
<1>5. CASE UNCHANGED vars \/ ReadEnd \/ ReadAtom \/ NextItem
  BY <1>1, <1>5 DEF vars, ReadEnd, ReadAtom, NextItem
<1>6. CASE ReadQuoted
  <2>1. QuoteFrame.kind # "list"
    BY DEF QuoteFrame
  <2>. QED
    BY <1>3, <1>6, <2>1 DEF ReadQuoted, FramesInv, IInv
<1>7. CASE ReadList
  <2>1. ListFrame(<<>>).buffer = <<>> /\ IsStack(<<>>)
    BY DEF ListFrame, IsStack
  <2>2. open' = open \/ open' = Append(open, ListFrame(<<>>))
    BY <1>7 DEF ReadList
  <2>. QED
    BY <1>1, <1>3, <2>1, <2>2 DEF FramesInv, IInv
<1>8. CASE ListTooLong \/ CloseList \/ ReturnToQuoted
  BY <1>4, <1>8 DEF ListTooLong, CloseList, ReturnToQuoted, Returning, IInv
<1>9. CASE ReturnToList
  <2>1. open # <<>> /\ Top.kind = "list"
    BY <1>9 DEF ReturnToList, Returning
  <2>2. CASE open' = Front(open)
    BY <1>4, <2>1, <2>2
  <2>3. CASE open' = Append(Front(open), ListFrame(Append(Top.buffer, reading.obj)))
    <3>1. IsStack(Top.buffer)
      <4>1. PICK n \in Nat \ {0} : n = Len(open)
        BY <2>1, Popped DEF IInv
      <4>2. n \in 1 .. Len(open) /\ Top = open[n]
        BY <4>1 DEF Top, Last
      <4>. QED
        BY <2>1, <4>2 DEF FramesInv
    <3>2. PICK b : b = Append(Top.buffer, reading.obj)
      OBVIOUS
    <3>3. IsStack(b)
      BY <3>1, <3>2, Pushed
    <3>4. PICK x : x = ListFrame(b)
      OBVIOUS
    <3>5. x.buffer = b
      BY <3>4 DEF ListFrame
    <3>6. IsStack(Front(open)) /\ open' = Append(Front(open), x)
      BY <2>1, <2>3, <3>2, <3>4, Popped DEF IInv
    <3>. QED
      BY <1>2, <1>3, <2>1, <3>3, <3>5, <3>6
  <2>. QED
    BY <1>9, <2>2, <2>3 DEF ReturnToList
<1>. QED
  BY <1>5, <1>6, <1>7, <1>8, <1>9 DEF Next

\* The buffer of the innermost list has a length, which is below the limit or
\* is the limit.
LEMMA TopFacts ==
    ASSUME IInv, FramesInv, open # <<>>, Top.kind = "list"
    PROVE  IsStack(Top.buffer) /\ Len(Top.buffer) \in Nat
<1>1. PICK n \in Nat \ {0} : n = Len(open)
  BY Popped DEF IInv
<1>2. n \in 1 .. Len(open) /\ Top = open[n]
  BY <1>1 DEF Top, Last
<1>3. IsStack(Top.buffer)
  BY <1>2 DEF FramesInv
<1>. QED
  BY <1>3 DEF IsStack

\* What is given is returned, unless it is refused.
LEMMA GivenKeeps ==
    ASSUME MemoryInv, ~ mem.refused, NEW r, NEW value, Gives(r, value, mem),
           reading' = Return(r.val), mem' = r.mem
    PROVE  MemoryInv' /\ (~ mem'.refused => r.val = value)
<1>1. IsMemory(mem') /\ mem.refused = FALSE
  BY DEF MemoryInv, IsMemory, Gives
<1>2. (r.val = value /\ mem'.refused = FALSE) \/ (r.val = MemoryError /\ mem'.refused)
  BY <1>1 DEF Gives
<1>. QED
  BY <1>1, <1>2 DEF MemoryInv

\* The memory is refused to the reader only where it returns that.
LEMMA MemoryStep ==
    ASSUME MemoryInv, [Next]_vars
    PROVE  MemoryInv'
<1>. USE DEF Sexp, Loop, Return
<1>1. ASSUME mem' = mem, reading' = reading PROVE MemoryInv'
  BY <1>1 DEF MemoryInv
<1>2. ASSUME mem' = mem, reading.step # "return" PROVE MemoryInv'
  BY <1>2 DEF MemoryInv
<1>3. ASSUME ~ mem.refused, NEW r, NEW value, Gives(r, value, mem), reading' = Return(r.val), mem' = r.mem
      PROVE  MemoryInv'
  <2>. HIDE DEF Return
  <2>. QED
    BY <1>3, GivenKeeps
<1>4. reading.step # "return" => ~ mem.refused
  BY DEF MemoryInv
<1>5. CASE UNCHANGED vars
  BY <1>1, <1>5 DEF vars
<1>6. CASE ReadEnd \/ ReadQuoted \/ ReadList \/ ListTooLong \/ NextItem
  BY <1>2, <1>6 DEF ReadEnd, ReadQuoted, ReadList, ListTooLong, NextItem
<1>7. CASE ReadAtom
  <2>1. PICK r : r = AtomAt(source, mem, Here) /\ reading' = Return(r.val) /\ mem' = r.mem
    BY <1>7 DEF ReadAtom, Give
  <2>2. ~ mem.refused /\ IsMemory(mem)
    BY <1>4, <1>7 DEF ReadAtom, MemoryInv
  <2>3. PICK m, s, p : m = mem /\ s = source /\ p = Here
    OBVIOUS
  <2>4. PICK value, next : \A x : IsMemory(x) => Reads(AtomAt(s, x, p), value, next, x)
    BY AtomFixed
  <2>5. Gives(r, value, mem)
    BY <2>1, <2>2, <2>3, <2>4 DEF Reads
  <2>. QED
    BY <1>3, <2>1, <2>2, <2>5
<1>8. CASE CloseList
  <2>1. PICK r : r = NewList(mem, Top.buffer, MemoryError) /\ reading' = Return(r.val) /\ mem' = r.mem
    BY <1>8 DEF CloseList, Give
  <2>2. ~ mem.refused /\ IsMemory(mem)
    BY <1>4, <1>8 DEF CloseList, MemoryInv
  <2>3. Gives(r, LispCList(Top.buffer), mem)
    BY <2>1, <2>2, NewGives
  <2>. QED
    BY <1>3, <2>1, <2>2, <2>3
<1>9. CASE ReturnToList
  <2>1. CASE IsError(reading.obj)
    BY <1>1, <1>9, <2>1 DEF ReturnToList
  <2>2. CASE ~ IsError(reading.obj)
    <3>1. ~ mem.refused /\ mem' = mem
      BY <1>9, <2>2 DEF ReturnToList, MemoryInv, IsError, MemoryError, LispError
    <3>. QED
      BY <3>1 DEF MemoryInv
  <2>. QED
    BY <2>1, <2>2
<1>10. CASE ReturnToQuoted
  <2>1. CASE IsError(reading.obj)
    <3>1. mem' = mem /\ reading' = Return(reading.obj)
      BY <1>10, <2>1 DEF ReturnToQuoted, Give, Result
    <3>. QED
      BY <3>1 DEF MemoryInv
  <2>2. CASE ~ IsError(reading.obj)
    <3>1. ~ mem.refused /\ IsMemory(mem)
      BY <1>10, <2>2 DEF MemoryInv, IsError, MemoryError, LispError
    <3>2. PICK xs : xs = <<LispSymbol("quote"), reading.obj>>
      OBVIOUS
    <3>3. PICK r : r = NewList(mem, xs, MemoryError) /\ reading' = Return(r.val) /\ mem' = r.mem
      BY <1>10, <2>2, <3>2 DEF ReturnToQuoted, Give
    <3>4. Gives(r, LispCList(xs), mem)
      BY <3>1, <3>3, NewGives
    <3>. QED
      BY <1>3, <3>1, <3>3, <3>4
  <2>. QED
    BY <2>1, <2>2
<1>. QED
  BY <1>5, <1>6, <1>7, <1>8, <1>9, <1>10 DEF Next

-----------------------------------------------------------------------------
(* The errors of the reader                                                  *)

\* An error that is one of the reader's two.
OwnError(x) == IsError(x) => x \in {ReaderError, MemoryError}

\* No atom is another error.
LEMMA AtomErrors == \A s, m, p : OwnError(AtomAt(s, m, p).val)
<1>1. \A r, next : OwnError(r.val) => OwnError(Atom(r, next).val)
  BY DEF Atom
<1>2. \A x, m : OwnError(x) => OwnError(Result(x, m).val) /\ OwnError(Refused(x, m).val)
  BY DEF Result, Refused
<1>3. /\ \A n : OwnError(LispInt(n)) /\ OwnError(LispString(n)) /\ OwnError(LispFloat(n)) /\ OwnError(LispSymbol(n))
      /\ OwnError(LispNil) /\ OwnError(ReaderError) /\ OwnError(MemoryError)
  BY DEF OwnError, IsError, LispInt, LispString, LispFloat, LispSymbol, LispNil
<1>4. \A m, str : OwnError(NewString(m, str).val)
  BY <1>2, <1>3 DEF NewString, NewStringArea, With
<1>5. \A m, x : OwnError(NewFloat(m, x).val)
  BY <1>2, <1>3 DEF NewFloat
<1>6. \A m, name : OwnError(InternCopy(m, name).val)
  BY <1>2, <1>3 DEF InternCopy
<1>7. ASSUME NEW m, NEW token, NEW str PROVE OwnError(AtomOf(m, token, str).val)
  <2>1. CheckNumStr(str, TRUE) \in {"R_INT", "R_FLOAT", "R_NOTNUM"}
    BY DEF CheckNumStr
  <2>. QED
    BY <1>2, <1>3, <1>5, <1>6, <2>1 DEF AtomOf
<1>8. \A s, m, p : OwnError(MaybeSymbol(s, m, p).val)
  BY <1>1, <1>2, <1>3, <1>7 DEF MaybeSymbol, With
<1>9. \A s, m, p : OwnError(Char(s, m, p).val)
  BY <1>1, <1>2, <1>3 DEF Char
<1>10. \A s, m, p : OwnError(HashNum(s, m, p).val)
  BY <1>1, <1>2, <1>3 DEF HashNum, With
<1>11. \A s, m, p : OwnError(String(s, m, p).val)
  BY <1>1, <1>2, <1>3, <1>4 DEF String, With
<1>. QED
  BY <1>8, <1>9, <1>10, <1>11, Zenon DEF AtomAt

\* An error the reader returns is one of its own.
ErrorsInv == reading.step = "return" => OwnError(reading.obj)

\* Every step keeps that.
LEMMA ErrorsStep ==
    ASSUME ErrorsInv, [Next]_vars
    PROVE  ErrorsInv'
<1>. USE DEF Sexp, Loop, Return
<1>1. OwnError(ReaderError) /\ OwnError(MemoryError) /\ \A xs : OwnError(LispCList(xs))
  BY DEF OwnError, IsError, LispCList
<1>2. \A x : OwnError(x) <=> OwnError(x)'
  BY DEF OwnError
<1>3. \A m, xs : OwnError(NewList(m, xs, MemoryError).val)
  BY <1>1 DEF NewList, Result, Refused
<1>4. ASSUME NEW r, OwnError(r.val), Give(r) PROVE ErrorsInv'
  BY <1>4 DEF Give, ErrorsInv
<1>5. CASE ReadEnd \/ ReadList \/ ListTooLong
  BY <1>1, <1>5 DEF ErrorsInv, ReadEnd, ReadList, ListTooLong
<1>6. CASE ReadQuoted \/ NextItem \/ UNCHANGED vars
  BY <1>6 DEF ErrorsInv, ReadQuoted, NextItem, vars
<1>7. CASE ReadAtom
  BY <1>4, <1>7, AtomErrors DEF ReadAtom
<1>8. CASE CloseList
  BY <1>3, <1>4, <1>8 DEF CloseList
<1>9. CASE ReturnToList
  BY <1>9 DEF ReturnToList, ErrorsInv
<1>10. CASE ReturnToQuoted
  <2>1. CASE IsError(reading.obj)
    <3>1. OwnError(reading.obj)
      BY <1>10 DEF ReturnToQuoted, Returning, ErrorsInv
    <3>2. Give(Result(reading.obj, mem)) /\ Result(reading.obj, mem).val = reading.obj
      BY <1>10, <2>1 DEF ReturnToQuoted, Result
    <3>. QED
      BY <1>4, <3>1, <3>2
  <2>2. CASE ~ IsError(reading.obj)
    <3>1. Give(NewList(mem, <<LispSymbol("quote"), reading.obj>>, MemoryError))
      BY <1>10, <2>2 DEF ReturnToQuoted
    <3>. QED
      BY <1>3, <1>4, <3>1
  <2>. QED
    BY <2>1, <2>2
<1>. QED
  BY <1>5, <1>6, <1>7, <1>8, <1>9, <1>10 DEF Next

-----------------------------------------------------------------------------
(* What is read is what is meant                                            *)

\* The reader stands before an expression, in the loop of a list, or behind an
\* object it returns.
BeforeAnExpression ==
    \E k : StandsAt(k) /\ Leads(source, open, ParseAt(source, k, LevelsLeft))

InTheLoop ==
    \E k : StandsAt(k) /\ Leads(source, Front(open), ItemsAt(source, k, LevelsLeft, Top.buffer))

BehindTheObject ==
    \E value : /\ value.obj = reading.obj
               /\ Leads(source, open, value)
               /\ ~ IsError(reading.obj) => \E k : StandsAt(k) /\ value.rest = TokensFrom(source, k)

\* At the end of the text, and where an atom or a quote begins.
LEMMA ReadsOn ==
    ASSUME GrammarIsByParts, IInv, CursorInv, MemoryInv, TokensStand(source), BeforeAnExpression
    PROVE  /\ ReadEnd => BehindTheObject'
           /\ ReadAtom => mem'.refused \/ BehindTheObject'
           /\ ReadQuoted => BeforeAnExpression'
<1>. USE DEF Sexp, Return
<1>0. PICK V : \E m \in Nat : source.tokens \in Seq(V) /\ m = Len(source.tokens)
  BY TokensFacts DEF CursorInv
<1>1. PICK n \in Nat : source.tokens \in Seq(V) /\ n = Len(source.tokens)
  BY <1>0
<1>2. PICK k : StandsAt(k) /\ Leads(source, open, ParseAt(source, k, LevelsLeft))
  BY DEF BeforeAnExpression
<1>3. PICK j \in k .. n + 1 :
          /\ StandsAt(j)
          /\ \A levels \in Nat : ParseAt(source, k, levels) = ParseAt(source, j, levels)
          /\ j = n + 1 => At(source, Here) = NUL
          /\ j # n + 1 => Sees(source.tokens[j], Begins(source)[j + 1])
  BY <1>1, <1>2, Ahead
<1>4. LevelsLeft \in Nat /\ nesting_level \in Int /\ source \in Sources
  BY <1>2, LevelFacts DEF CursorInv
<1>5. Leads(source, open, ParseAt(source, j, LevelsLeft))
  BY <1>2, <1>3, <1>4
<1>6. j # n + 1 => j \in 1 .. n
  BY <1>1, <1>3 DEF StandsAt
<1>11. j \in 1 .. n => GrammarSays(source, j, LevelsLeft)
  BY <1>1, <1>4, GrammarAt
<1>7. ASSUME ReadEnd PROVE BehindTheObject'
  <2>1. j = n + 1
    BY <1>3, <1>7, SeesMarks DEF ReadEnd
  <2>2. PICK value : value = Parsed(ReaderError, <<>>)
    OBVIOUS
  <2>3. ParseAt(source, n + 1, LevelsLeft) = value
    BY <1>1, <1>4, <2>2, GrammarAt
  <2>4. reading'.obj = value.obj /\ IsError(value.obj) /\ open' = open /\ source' = source
    BY <1>7, <2>2 DEF ReadEnd, Parsed, IsError, ReaderError, LispError
  <2>5. Leads(source, open, value)
    BY <1>5, <2>1, <2>3
  <2>. QED
    BY <2>4, <2>5 DEF BehindTheObject
<1>8. ASSUME ReadAtom PROVE mem'.refused \/ BehindTheObject'
  <2>1. At(source, Here) \notin {NUL, "'", "("} /\ source' = source /\ open' = open /\ nesting_level' = nesting_level
    BY <1>8, Zenon DEF ReadAtom
  <2>2. PICK token, q : token = source.tokens[j] /\ q = Begins(source)[j + 1]
    OBVIOUS
  <2>3. j \in 1 .. n /\ Sees(token, q)
    <3>1. At(source, Here) # NUL
      BY <2>1, Zenon
    <3>. QED
      BY <1>3, <1>6, <2>2, <3>1
  <2>4. PICK r : r = AtomAt(source, mem, Here) /\ reading' = Return(r.val) /\ mem' = r.mem /\ cursor' = r.next
    BY <1>8 DEF ReadAtom, Give
  <2>5. ~ mem.refused /\ IsMemory(mem)
    BY <1>8 DEF MemoryInv, ReadAtom
  <2>6. ASSUME NEW obj, NEW next, Alone(source, Here, obj, next), ~ mem'.refused
        PROVE  reading'.obj = obj /\ (~ IsError(obj) => Skip(source, cursor') = Skip(source, next))
    <3>1. /\ Gives(r, AtomAt(source, Unlimited(source), Here).val, mem)
          /\ r.next = AtomAt(source, Unlimited(source), Here).next
      BY <2>4, <2>5, <2>6, AtomAgrees DEF Alone
    <3>2. r.val = AtomAt(source, Unlimited(source), Here).val
      <4>. HIDE DEF Return
      <4>. QED
        BY <2>4, <2>5, <2>6, <3>1, GivenKeeps
    <3>. QED
      BY <2>4, <2>6, <3>1, <3>2 DEF Alone
  <2>7. CASE At(source, Here) = ")"
    <3>1. token = CloseParen /\ Alone(source, Here, LispSymbol(""), Here)
      BY <2>3, <2>7, SeesMarks, Zenon
    <3>2. PICK obj, value : obj = LispSymbol("") /\ value = Parsed(obj, TokensFrom(source, j))
      OBVIOUS
    <3>3. ParseAt(source, j, LevelsLeft) = value
      <4>1. ParseAt(source, j, LevelsLeft) = Parsed(LispSymbol(""), TokensFrom(source, j))
        BY <1>11, <2>2, <2>3, <3>1 DEF GrammarSays
      <4>. QED
        BY <3>2, <4>1
    <3>4. value.obj = obj /\ value.rest = TokensFrom(source, j) /\ ~ IsError(obj) /\ Leads(source, open, value)
      <4>1. \A x : ~ IsError(LispSymbol(x))
        BY DEF IsError, LispSymbol
      <4>2. value.obj = obj /\ value.rest = TokensFrom(source, j)
        BY <3>2 DEF Parsed
      <4>. QED
        BY <1>5, <3>2, <3>3, <4>1, <4>2
    <3>5. CASE ~ mem'.refused
      <4>1. reading'.obj = obj /\ Skip(source, cursor') = Skip(source, Here)
        BY <2>6, <3>1, <3>2, <3>4, <3>5
      <4>2. StandsAt(j)'
        <5>1. Skip(source, Here) = Here
          <6>1. SourceOK /\ 1 \in Places(source) /\ GoesTo(1, cursor)
            BY HereFacts, PlaceFacts DEF CursorInv, Places
          <6>2. cursor \in Places(source)
            BY <6>1, Goes
          <6>. QED
            BY <6>1, <6>2, SkipGoes DEF Here
        <5>2. Here' = Here
          BY <2>1, <4>1, <5>1 DEF Here
        <5>. QED
          BY <1>3, <2>1, <5>2 DEF StandsAt
      <4>. QED
        BY <2>1, <3>4, <4>1, <4>2 DEF BehindTheObject
    <3>. QED
      BY <3>5
  <2>8. CASE At(source, Here) # ")"
    <3>1. token \notin Blanks \cup Marks /\ Alone(source, Here, token.obj, q)
      BY <2>1, <2>3, <2>8, SeesMarks, Zenon
    <3>2. PICK value : value = Parsed(token.obj, TokensFrom(source, j + 1))
      OBVIOUS
    <3>3. ParseAt(source, j, LevelsLeft) = value
      BY <1>11, <2>2, <2>3, <3>1, <3>2 DEF GrammarSays
    <3>4. value.obj = token.obj /\ value.rest = TokensFrom(source, j + 1) /\ Leads(source, open, value)
      BY <1>5, <3>2, <3>3 DEF Parsed
    <3>5. CASE ~ mem'.refused
      <4>1. reading'.obj = token.obj /\ (~ IsError(token.obj) => Skip(source, cursor') = Skip(source, q))
        BY <2>6, <3>1, <3>5
      <4>2. ASSUME ~ IsError(token.obj) PROVE StandsAt(j + 1)'
        <5>1. token # OpenParen
          BY <3>1 DEF Marks
        <5>2. nesting_level' = nesting_level + (IF source.tokens[j] = OpenParen THEN 1 ELSE 0)
          BY <1>4, <2>1, <2>2, <5>1
        <5>3. nesting_level' <= READER_MAX_NESTING_LEVEL
          BY <1>3, <2>1 DEF StandsAt
        <5>. QED
          BY <1>1, <1>3, <2>1, <2>2, <2>3, <4>1, <4>2, <5>2, <5>3, Beyond
      <4>. QED
        BY <2>1, <3>4, <4>1, <4>2 DEF BehindTheObject
    <3>. QED
      BY <3>5
  <2>. QED
    BY <2>7, <2>8
<1>9. ASSUME ReadQuoted PROVE BeforeAnExpression'
  <2>1. /\ At(source, Here) = "'" /\ source' = source /\ cursor' = Here + 1
        /\ open' = Append(open, QuoteFrame) /\ nesting_level' = nesting_level
    BY <1>9, Zenon DEF ReadQuoted
  <2>2. PICK token, q : token = source.tokens[j] /\ q = Begins(source)[j + 1]
    OBVIOUS
  <2>3. j \in 1 .. n /\ Sees(token, q)
    <3>1. At(source, Here) # NUL
      BY <2>1, Zenon DEF NUL
    <3>. QED
      BY <1>3, <1>6, <2>2, <3>1
  <2>4. token = QuoteMark /\ q = Here + 1
    BY <2>1, <2>3, SeesMarks, Zenon
  <2>5. PICK value : value = ParseAt(source, j + 1, LevelsLeft)
    OBVIOUS
  <2>6. ParseAt(source, j, LevelsLeft) =
            IF IsError(value.obj) THEN value
            ELSE Parsed(LispCList(<<LispSymbol("quote"), value.obj>>), value.rest)
    BY <1>11, <2>2, <2>3, <2>4, <2>5 DEF GrammarSays
  <2>7. Passes(source, QuoteFrame, value, ParseAt(source, j, LevelsLeft))
    BY <2>6 DEF Passes, QuoteFrame
  <2>8. Leads(source, open', value)
    BY <1>5, <2>1, <2>7, LeadsPushed DEF IInv
  <2>9. StandsAt(j + 1)'
    <3>1. token # OpenParen
      BY <2>4, MarksDiffer
    <3>2. nesting_level' = nesting_level + (IF source.tokens[j] = OpenParen THEN 1 ELSE 0)
      BY <1>4, <2>1, <2>2, <3>1
    <3>3. nesting_level' <= READER_MAX_NESTING_LEVEL
      BY <1>3, <2>1 DEF StandsAt
    <3>4. Skip(source, cursor') = Skip(source, q)
      BY <2>1, <2>4
    <3>. QED
      BY <1>1, <1>3, <2>1, <2>2, <2>3, <3>2, <3>3, <3>4, Beyond
  <2>10. LevelsLeft' = LevelsLeft
    BY <2>1 DEF LevelsLeft
  <2>. QED
    BY <2>1, <2>5, <2>8, <2>9, <2>10 DEF BeforeAnExpression
<1>. QED
  BY <1>7, <1>8, <1>9

\* Where a list begins.
LEMMA BeginsList ==
    ASSUME GrammarIsByParts, IInv, CursorInv, TokensStand(source), BeforeAnExpression, ReadList
    PROVE  (reading' = Loop /\ InTheLoop') \/ (reading' = Return(ReaderError) /\ BehindTheObject')
<1>0. PICK V : \E m \in Nat : source.tokens \in Seq(V) /\ m = Len(source.tokens)
  BY TokensFacts DEF CursorInv
<1>1. PICK n \in Nat : source.tokens \in Seq(V) /\ n = Len(source.tokens)
  BY <1>0
<1>2. PICK k : StandsAt(k) /\ Leads(source, open, ParseAt(source, k, LevelsLeft))
  BY DEF BeforeAnExpression
<1>3. PICK j \in k .. n + 1 :
          /\ StandsAt(j)
          /\ \A levels \in Nat : ParseAt(source, k, levels) = ParseAt(source, j, levels)
          /\ j = n + 1 => At(source, Here) = NUL
          /\ j # n + 1 => Sees(source.tokens[j], Begins(source)[j + 1])
  BY <1>1, <1>2, Ahead
<1>4. LevelsLeft \in Nat /\ nesting_level \in Int /\ source \in Sources
  BY <1>2, LevelFacts DEF CursorInv
<1>5. Leads(source, open, ParseAt(source, j, LevelsLeft))
  BY <1>2, <1>3, <1>4
<1>6. j # n + 1 => j \in 1 .. n
  BY <1>1, <1>3 DEF StandsAt
<1>7. At(source, Here) = "(" /\ nesting_level' = nesting_level + 1 /\ source' = source
  BY Zenon DEF ReadList
<1>8. PICK token, q : token = source.tokens[j] /\ q = Begins(source)[j + 1]
  OBVIOUS
<1>9. j \in 1 .. n /\ Sees(token, q)
  <2>1. At(source, Here) # NUL
    BY <1>7, Zenon DEF NUL
  <2>. QED
    BY <1>3, <1>6, <1>8, <2>1
<1>10. token = OpenParen /\ q = Here + 1
  BY <1>7, <1>9, SeesMarks, Zenon
<1>11. GrammarSays(source, j, LevelsLeft)
  BY <1>1, <1>4, <1>9, GrammarAt
<1>12. ParseAt(source, j, LevelsLeft) =
           IF LevelsLeft = 0 THEN Parsed(ReaderError, <<>>) ELSE ItemsAt(source, j + 1, LevelsLeft - 1, <<>>)
  BY <1>8, <1>10, <1>11 DEF GrammarSays
<1>13. LevelsLeft = 0 <=> nesting_level' > READER_MAX_NESTING_LEVEL
  BY <1>4, <1>7, NestingAssumption DEF LevelsLeft
<1>14. CASE nesting_level' > READER_MAX_NESTING_LEVEL
  <2>1. PICK value : value = Parsed(ReaderError, <<>>)
    OBVIOUS
  <2>2. reading' = Return(ReaderError) /\ open' = open
    BY <1>14 DEF ReadList
  <2>3. value.obj = ReaderError /\ IsError(ReaderError) /\ Return(ReaderError).obj = ReaderError
    BY <2>1 DEF Parsed, IsError, ReaderError, LispError, Return
  <2>4. Leads(source, open, value)
    BY <1>5, <1>12, <1>13, <1>14, <2>1
  <2>. QED
    BY <1>7, <2>2, <2>3, <2>4 DEF BehindTheObject
<1>15. CASE ~ (nesting_level' > READER_MAX_NESTING_LEVEL)
  <2>1. reading' = Loop /\ cursor' = Here + 1 /\ open' = Append(open, ListFrame(<<>>))
    BY <1>15 DEF ReadList
  <2>2. PICK frame : frame = ListFrame(<<>>)
    OBVIOUS
  <2>3. frame.buffer = <<>>
    BY <2>2 DEF ListFrame
  <2>4. Front(open') = open /\ Top' = frame
    <3>1. open' = Append(open, frame)
      BY <2>1, <2>2
    <3>. QED
      BY <3>1, Uncovered DEF IInv, Top
  <2>5. StandsAt(j + 1)'
    <3>1. Skip(source, cursor') = Skip(source, q)
      BY <1>10, <2>1
    <3>2. nesting_level' = nesting_level + (IF source.tokens[j] = OpenParen THEN 1 ELSE 0)
      BY <1>4, <1>7, <1>8, <1>10
    <3>3. nesting_level' <= READER_MAX_NESTING_LEVEL
      BY <1>4, <1>7, <1>15, NestingAssumption
    <3>. QED
      BY <1>1, <1>3, <1>7, <1>8, <1>9, <3>1, <3>2, <3>3, Beyond
  <2>6. LevelsLeft' = LevelsLeft - 1
    BY <1>4, <1>7, NestingAssumption DEF LevelsLeft
  <2>7. Leads(source, open, ItemsAt(source, j + 1, LevelsLeft - 1, <<>>))
    BY <1>5, <1>12, <1>13, <1>15
  <2>8. PICK h, levels, buffer : h = j + 1 /\ levels = LevelsLeft - 1 /\ buffer = <<>>
    OBVIOUS
  <2>9. Leads(source, open, ItemsAt(source, h, levels, buffer))
    BY <2>7, <2>8
  <2>10. StandsAt(h)' /\ levels = LevelsLeft' /\ buffer = Top'.buffer
    BY <2>3, <2>4, <2>5, <2>6, <2>8
  <2>11. Leads(source, Front(open)', ItemsAt(source, h, LevelsLeft', Top'.buffer))
    BY <2>4, <2>9, <2>10
  <2>. QED
    BY <1>7, <2>1, <2>10, <2>11 DEF InTheLoop
<1>. QED
  BY <1>14, <1>15

\* Each iteration of its loop.
LEMMA LoopsOn ==
    ASSUME GrammarIsByParts, IInv, CursorInv, FramesInv, MemoryInv, TokensStand(source), InTheLoop,
           reading = Loop
    PROVE  /\ ListTooLong => BehindTheObject'
           /\ NextItem => BeforeAnExpression'
           /\ CloseList => mem'.refused \/ BehindTheObject'
<1>0. PICK V : \E m \in Nat : source.tokens \in Seq(V) /\ m = Len(source.tokens)
  BY TokensFacts DEF CursorInv
<1>1. PICK n \in Nat : source.tokens \in Seq(V) /\ n = Len(source.tokens)
  BY <1>0
<1>2. PICK k : StandsAt(k) /\ Leads(source, Front(open), ItemsAt(source, k, LevelsLeft, Top.buffer))
  BY DEF InTheLoop
<1>3. PICK j \in k .. n + 1 :
          /\ StandsAt(j)
          /\ j = n + 1 \/ source.tokens[j] \notin Blanks
          /\ \A i \in k .. j - 1 : source.tokens[i] \in Blanks
          /\ j = n + 1 => At(source, Here) = NUL
          /\ j # n + 1 => Sees(source.tokens[j], Begins(source)[j + 1])
  BY <1>1, <1>2, Ahead
<1>4. /\ LevelsLeft = READER_MAX_NESTING_LEVEL - Opened(source, k)
      /\ LevelsLeft \in Nat /\ nesting_level \in Int /\ source \in Sources
  BY <1>2, LevelFacts DEF CursorInv
<1>5. k \in 1 .. n + 1 /\ (j # n + 1 => j \in 1 .. n)
  BY <1>1, <1>2, <1>3 DEF StandsAt
<1>6. open # <<>> /\ Top.kind = "list" /\ Len(Top.buffer) \in Nat /\ IsStack(open)
  BY TopFacts DEF IInv
<1>7. PICK levels, items, item, opened, list :
          /\ levels = LevelsLeft /\ items = Top.buffer
          /\ item = ParseAt(source, k, LevelsLeft)
          /\ opened = OpenParens(TokensFrom(source, k)) - OpenParens(item.rest)
          /\ list = ItemsAt(source, k, LevelsLeft, Top.buffer)
  OBVIOUS
<1>8. list = IF Len(items) = READER_ARRAY_BUFSIZE THEN Parsed(ReaderError, <<>>)
             ELSE IF j # n + 1 /\ source.tokens[j] = CloseParen
             THEN Parsed(LispCList(items), TokensFrom(source, j + 1))
             ELSE IF IsError(item.obj) THEN item
             ELSE ParseItems(item.rest, levels - opened, READER_ARRAY_BUFSIZE, Append(items, item.obj))
  <2>1. ItemsSay(source, k, j, LevelsLeft, Top.buffer)
    BY <1>1, <1>3, <1>4, <1>5, ItemsGrammar
  <2>. QED
    BY <1>1, <1>7, <2>1 DEF ItemsSay
<1>9. Leads(source, Front(open), list)
  BY <1>2, <1>7
<1>10. j # n + 1 /\ source.tokens[j] = CloseParen <=> At(source, Here) = ")"
  <2>1. NUL # ")"
    BY Zenon DEF NUL
  <2>2. CASE j = n + 1
    BY <1>3, <2>1, <2>2, Zenon
  <2>3. CASE j # n + 1
    <3>1. PICK token, q : token = source.tokens[j] /\ q = Begins(source)[j + 1] /\ Sees(token, q)
      BY <1>3, <2>3
    <3>2. token = CloseParen <=> At(source, Here) = ")"
      BY <3>1, SeesMarks, Zenon
    <3>. QED
      BY <2>3, <3>1, <3>2, Zenon
  <2>. QED
    BY <2>2, <2>3
<1>11. ASSUME ListTooLong PROVE BehindTheObject'
  <2>1. /\ Len(items) = READER_ARRAY_BUFSIZE /\ reading' = Return(ReaderError) /\ open' = Front(open)
        /\ source' = source
    BY <1>7, <1>11 DEF ListTooLong
  <2>2. PICK value : value = Parsed(ReaderError, <<>>)
    OBVIOUS
  <2>3. value.obj = ReaderError /\ IsError(ReaderError) /\ Return(ReaderError).obj = ReaderError
    BY <2>2 DEF Parsed, IsError, ReaderError, LispError, Return
  <2>4. Leads(source, open', value)
    BY <1>8, <1>9, <2>1, <2>2
  <2>. QED
    BY <2>1, <2>3, <2>4 DEF BehindTheObject
<1>12. ASSUME NextItem PROVE BeforeAnExpression'
  <2>1. /\ Len(Top.buffer) < READER_ARRAY_BUFSIZE /\ At(source, Here) # ")" /\ cursor' = Here
        /\ source' = source /\ nesting_level' = nesting_level /\ open' = open
    BY <1>12, Zenon DEF NextItem
  <2>2. Len(items) # READER_ARRAY_BUFSIZE
    BY <1>6, <1>7, <2>1
  <2>3. list = IF IsError(item.obj) THEN item
               ELSE ParseItems(item.rest, levels - opened, READER_ARRAY_BUFSIZE, Append(items, item.obj))
    <3>1. ~ (j # n + 1 /\ source.tokens[j] = CloseParen)
      BY <1>10, <2>1, Zenon
    <3>. QED
      BY <1>8, <2>2, <3>1, Zenon
  <2>4. k \in 1 .. Len(source.tokens) + 1
    BY <1>1, <1>5
  <2>5. Passes(source, Top, item, list)
    <3>1. IsError(item.obj) => list = item
      BY <2>3
    <3>2. ~ IsError(item.obj) =>
              list = ParseItems(item.rest,
                                READER_MAX_NESTING_LEVEL - Opened(source, k)
                                    - (OpenParens(TokensFrom(source, k)) - OpenParens(item.rest)),
                                READER_ARRAY_BUFSIZE, Append(Top.buffer, item.obj))
      BY <1>4, <1>7, <2>3
    <3>3. Top.kind # "quote"
      BY <1>6
    <3>. QED
      BY <2>4, <3>1, <3>2, <3>3 DEF Passes
  <2>6. Leads(source, open, item)
    <3>1. PICK f, t : f = Front(open) /\ t = Top
      OBVIOUS
    <3>2. IsStack(f) /\ Append(f, t) = open
      BY <1>6, <3>1, Popped, Refilled DEF Top
    <3>3. Leads(source, Append(f, t), item)
      BY <1>9, <2>5, <3>1, <3>2, LeadsPushed
    <3>. QED
      BY <3>2, <3>3
  <2>7. StandsAt(k)'
    BY <1>2, <2>1, Stays
  <2>8. LevelsLeft' = LevelsLeft
    BY <2>1 DEF LevelsLeft
  <2>. QED
    BY <1>7, <2>1, <2>6, <2>7, <2>8 DEF BeforeAnExpression
<1>13. ASSUME CloseList PROVE mem'.refused \/ BehindTheObject'
  <2>1. /\ Len(Top.buffer) < READER_ARRAY_BUFSIZE /\ At(source, Here) = ")" /\ cursor' = Here + 1
        /\ source' = source /\ nesting_level' = nesting_level /\ open' = Front(open)
    BY <1>13, Zenon DEF CloseList
  <2>2. PICK r : r = NewList(mem, items, MemoryError) /\ reading' = Return(r.val) /\ mem' = r.mem
    BY <1>7, <1>13 DEF CloseList, Give
  <2>3. ~ mem.refused /\ IsMemory(mem)
    BY DEF MemoryInv, Loop, Return
  <2>4. Gives(r, LispCList(items), mem)
    BY <2>2, <2>3, NewGives
  <2>5. ~ mem'.refused => r.val = LispCList(items)
    BY <2>2, <2>3, <2>4, GivenKeeps
  <2>6. PICK value : value = Parsed(LispCList(items), TokensFrom(source, j + 1))
    OBVIOUS
  <2>7. list = value
    <3>1. Len(items) # READER_ARRAY_BUFSIZE
      BY <1>6, <1>7, <2>1
    <3>2. j # n + 1 /\ source.tokens[j] = CloseParen
      BY <1>10, <2>1, Zenon
    <3>. QED
      BY <1>8, <2>6, <3>1, <3>2, Zenon
  <2>8. value.obj = LispCList(items) /\ value.rest = TokensFrom(source, j + 1)
    BY <2>6 DEF Parsed
  <2>9. StandsAt(j + 1)'
    <3>1. PICK token, q : token = source.tokens[j] /\ q = Begins(source)[j + 1]
      OBVIOUS
    <3>2. j \in 1 .. n /\ Sees(token, q) /\ token = CloseParen
      <4>1. j # n + 1 /\ source.tokens[j] = CloseParen
        BY <1>10, <2>1, Zenon
      <4>. QED
        BY <1>3, <1>5, <3>1, <4>1
    <3>3. q = Here + 1
      BY <3>2 DEF Sees, Marks
    <3>4. token # OpenParen
      BY <3>2, MarksDiffer
    <3>5. nesting_level' = nesting_level + (IF source.tokens[j] = OpenParen THEN 1 ELSE 0)
      BY <1>4, <2>1, <3>1, <3>4
    <3>6. nesting_level' <= READER_MAX_NESTING_LEVEL
      BY <1>3, <2>1 DEF StandsAt
    <3>7. Skip(source, cursor') = Skip(source, q)
      BY <2>1, <3>3
    <3>. QED
      BY <1>1, <1>3, <2>1, <3>1, <3>2, <3>5, <3>6, <3>7, Beyond
  <2>10. Leads(source, open', value)
    BY <1>9, <2>1, <2>7
  <2>11. Return(r.val).obj = r.val
    BY DEF Return
  <2>12. CASE ~ mem'.refused
    <3>1. value.obj = reading'.obj
      BY <2>2, <2>5, <2>8, <2>11, <2>12
    <3>. QED
      BY <2>1, <2>8, <2>9, <2>10, <3>1 DEF BehindTheObject
  <2>. QED
    BY <2>12
<1>. QED
  BY <1>11, <1>12, <1>13

\* The call that waits is given the object.
LEMMA Returns ==
    ASSUME IInv, CursorInv, FramesInv, MemoryInv, BehindTheObject, reading.step = "return"
    PROVE  /\ ReturnToList => \/ reading'.step = "return" /\ BehindTheObject'
                              \/ reading' = Loop /\ InTheLoop'
           /\ ReturnToQuoted => mem'.refused \/ BehindTheObject'
<1>1. PICK value : /\ value.obj = reading.obj
                   /\ Leads(source, open, value)
                   /\ ~ IsError(reading.obj) => \E k : StandsAt(k) /\ value.rest = TokensFrom(source, k)
  BY DEF BehindTheObject
<1>2. IsStack(open)
  BY DEF IInv
<1>3. ASSUME open # <<>>
      PROVE  \E result : Passes(source, Top, value, result) /\ Leads(source, Front(open), result)
  BY <1>1, <1>2, <1>3, LeadsPopped DEF Top
<1>4. ASSUME ReturnToList
      PROVE  (reading'.step = "return" /\ BehindTheObject') \/ (reading' = Loop /\ InTheLoop')
  <2>1. /\ open # <<>> /\ Top.kind = "list" /\ source' = source /\ cursor' = cursor
        /\ nesting_level' = nesting_level
    BY <1>4 DEF ReturnToList, Returning
  <2>2. PICK result : Passes(source, Top, value, result) /\ Leads(source, Front(open), result)
    BY <1>3, <2>1
  <2>3. CASE IsError(reading.obj)
    <3>1. open' = Front(open) /\ reading' = reading
      BY <1>4, <2>3 DEF ReturnToList
    <3>2. result = value
      BY <1>1, <2>2, <2>3 DEF Passes
    <3>. QED
      BY <1>1, <2>1, <2>2, <2>3, <3>1, <3>2 DEF BehindTheObject
  <2>4. CASE ~ IsError(reading.obj)
    <3>1. reading' = Loop /\ open' = Append(Front(open), ListFrame(Append(Top.buffer, reading.obj)))
      BY <1>4, <2>4 DEF ReturnToList
    <3>2. PICK k : StandsAt(k) /\ value.rest = TokensFrom(source, k)
      BY <1>1, <2>4
    <3>3. PICK h \in 1 .. Len(source.tokens) + 1 :
              result = ParseItems(value.rest,
                                  READER_MAX_NESTING_LEVEL - Opened(source, h)
                                      - (OpenParens(TokensFrom(source, h)) - OpenParens(value.rest)),
                                  READER_ARRAY_BUFSIZE, Append(Top.buffer, value.obj))
      BY <1>1, <2>1, <2>2, <2>4 DEF Passes
    <3>4. READER_MAX_NESTING_LEVEL - Opened(source, h)
              - (OpenParens(TokensFrom(source, h)) - OpenParens(value.rest)) = LevelsLeft
      <4>0. PICK V : \E m \in Nat : source.tokens \in Seq(V) /\ m = Len(source.tokens)
        BY TokensFacts DEF CursorInv
      <4>1. PICK n \in Nat : source.tokens \in Seq(V) /\ n = Len(source.tokens)
        BY <4>0
      <4>2. 1 \in 1 .. n + 1 /\ h \in 1 .. n + 1 /\ k \in 1 .. n + 1
        BY <3>2, <4>1 DEF StandsAt
      <4>3. TokensFrom(source, 1) = source.tokens
        BY <4>1, FromFacts
      <4>4. PICK a, b, c \in Nat : /\ a = OpenParens(source.tokens) /\ b = OpenParens(TokensFrom(source, h))
                                  /\ c = OpenParens(TokensFrom(source, k))
        <5>1. /\ OpenParens(TokensFrom(source, 1)) \in Nat /\ OpenParens(TokensFrom(source, h)) \in Nat
              /\ OpenParens(TokensFrom(source, k)) \in Nat
          BY <4>1, <4>2, OpenFacts
        <5>. QED
          BY <4>3, <5>1
      <4>5. LevelsLeft = READER_MAX_NESTING_LEVEL - (a - c)
        BY <3>2, <4>4, LevelFacts DEF Opened
      <4>6. \A max, x, y, z \in Int : max - (x - y) - (y - z) = max - (x - z)
        OBVIOUS
      <4>7. a \in Int /\ b \in Int /\ c \in Int /\ READER_MAX_NESTING_LEVEL \in Int
        BY <4>4, NestingAssumption
      <4>8. READER_MAX_NESTING_LEVEL - (a - b) - (b - c) = READER_MAX_NESTING_LEVEL - (a - c)
        BY <4>6, <4>7
      <4>. QED
        BY <3>2, <4>4, <4>5, <4>8 DEF Opened
    <3>5. PICK buffer : buffer = Append(Top.buffer, reading.obj)
      OBVIOUS
    <3>6. result = ItemsAt(source, k, LevelsLeft, buffer)
      BY <1>1, <3>2, <3>3, <3>4, <3>5 DEF ItemsAt
    <3>7. Front(open') = Front(open) /\ Top'.buffer = buffer
      <4>1. PICK f, frame : f = Front(open) /\ frame = ListFrame(buffer)
        OBVIOUS
      <4>2. IsStack(f) /\ frame.buffer = buffer /\ open' = Append(f, frame)
        BY <1>2, <2>1, <3>1, <3>5, <4>1, Popped DEF ListFrame
      <4>. QED
        BY <4>1, <4>2, Uncovered DEF Top
    <3>8. StandsAt(k)'
      BY <2>1, <3>2, Stays
    <3>9. LevelsLeft' = LevelsLeft
      BY <2>1 DEF LevelsLeft
    <3>10. Leads(source, Front(open)', ItemsAt(source, k, LevelsLeft', Top'.buffer))
      BY <2>2, <3>6, <3>7, <3>9
    <3>. QED
      BY <2>1, <3>1, <3>8, <3>10 DEF InTheLoop
  <2>. QED
    BY <2>3, <2>4
<1>5. ASSUME ReturnToQuoted PROVE mem'.refused \/ BehindTheObject'
  <2>1. /\ open # <<>> /\ Top.kind = "quote" /\ source' = source /\ cursor' = cursor
        /\ nesting_level' = nesting_level /\ open' = Front(open)
    BY <1>5 DEF ReturnToQuoted, Returning
  <2>2. PICK result : Passes(source, Top, value, result) /\ Leads(source, Front(open), result)
    BY <1>3, <2>1
  <2>3. \A x : Return(x).obj = x
    BY DEF Return
  <2>4. CASE IsError(reading.obj)
    <3>1. reading' = Return(reading.obj)
      BY <1>5, <2>4 DEF ReturnToQuoted, Give, Result
    <3>2. result = value
      BY <1>1, <2>2, <2>4 DEF Passes
    <3>3. reading'.obj = value.obj
      BY <1>1, <2>3, <3>1
    <3>. QED
      BY <1>1, <2>1, <2>2, <2>4, <3>2, <3>3 DEF BehindTheObject
  <2>5. CASE ~ IsError(reading.obj)
    <3>1. PICK xs : xs = <<LispSymbol("quote"), reading.obj>>
      OBVIOUS
    <3>2. PICK r : r = NewList(mem, xs, MemoryError) /\ reading' = Return(r.val) /\ mem' = r.mem
      BY <1>5, <2>5, <3>1 DEF ReturnToQuoted, Give
    <3>3. ~ mem.refused /\ IsMemory(mem)
      BY <2>5 DEF MemoryInv, IsError, MemoryError, LispError, Return
    <3>4. Gives(r, LispCList(xs), mem)
      BY <3>2, <3>3, NewGives
    <3>5. ~ mem'.refused => r.val = LispCList(xs)
      BY <3>2, <3>3, <3>4, GivenKeeps
    <3>6. result = Parsed(LispCList(xs), value.rest)
      BY <1>1, <2>1, <2>2, <2>5, <3>1 DEF Passes
    <3>7. result.obj = LispCList(xs) /\ result.rest = value.rest
      BY <3>6 DEF Parsed
    <3>8. PICK k : StandsAt(k) /\ value.rest = TokensFrom(source, k)
      BY <1>1, <2>5
    <3>9. StandsAt(k)'
      BY <2>1, <3>8, Stays
    <3>10. CASE ~ mem'.refused
      <4>1. result.obj = reading'.obj
        BY <2>3, <3>2, <3>5, <3>7, <3>10
      <4>. QED
        BY <2>1, <2>2, <3>7, <3>8, <3>9, <4>1 DEF BehindTheObject
    <3>. QED
      BY <3>10
  <2>. QED
    BY <2>4, <2>5
<1>. QED
  BY <1>4, <1>5
-----------------------------------------------------------------------------
\* Every step keeps what has been read in line with the grammar.
LEMMA MeaningStep ==
    ASSUME GrammarIsByParts, IInv, CursorInv, FramesInv, MemoryInv, MeaningInv, [Next]_vars
    PROVE  MeaningInv'
<1>1. \A x : Return(x).step = "return"
  BY DEF Return
<1>2. Sexp.step = "sexp" /\ Loop.step = "loop"
  BY DEF Sexp, Loop
<1>3. source' = source
  BY DEF Next, vars, ReadEnd, ReadAtom, ReadQuoted, ReadList, ListTooLong, NextItem, CloseList,
         ReturnToList, ReturnToQuoted
<1>4. CASE UNCHANGED vars
  BY <1>4 DEF vars, MeaningInv, StandsAt, Here, LevelsLeft, Top
<1>. SUFFICES ASSUME TokensStand(source), ~ mem'.refused, Next PROVE MeaningInv'
  BY <1>3, <1>4 DEF MeaningInv
<1>5. ASSUME reading'.step = "sexp", BeforeAnExpression' PROVE MeaningInv'
  BY <1>5 DEF MeaningInv, BeforeAnExpression
<1>6. ASSUME reading'.step = "loop", InTheLoop' PROVE MeaningInv'
  BY <1>6 DEF MeaningInv, InTheLoop
<1>7. ASSUME reading'.step = "return", BehindTheObject' PROVE MeaningInv'
  BY <1>7 DEF MeaningInv, BehindTheObject
<1>8. reading.step # "return" => ~ mem.refused
  BY DEF MemoryInv, Return
<1>9. /\ reading = Sexp => BeforeAnExpression
      /\ reading = Loop => InTheLoop
      /\ reading.step = "return" /\ ~ mem.refused => BehindTheObject
  BY <1>2, <1>8 DEF MeaningInv, BeforeAnExpression, InTheLoop, BehindTheObject
<1>10. CASE ReadEnd
  <2>1. reading = Sexp /\ reading' = Return(ReaderError)
    BY <1>10 DEF ReadEnd
  <2>. QED
    BY <1>1, <1>7, <1>9, <1>10, <2>1, ReadsOn
<1>11. CASE ReadAtom
  <2>1. reading = Sexp /\ \E x : reading' = Return(x)
    BY <1>11 DEF ReadAtom, Give
  <2>. QED
    BY <1>1, <1>7, <1>9, <1>11, <2>1, ReadsOn
<1>12. CASE ReadQuoted
  <2>1. reading = Sexp /\ reading' = Sexp
    BY <1>12 DEF ReadQuoted
  <2>. QED
    BY <1>2, <1>5, <1>9, <1>12, <2>1, ReadsOn
<1>13. CASE ReadList
  <2>1. reading = Sexp
    BY <1>13 DEF ReadList
  <2>. QED
    BY <1>1, <1>2, <1>6, <1>7, <1>9, <1>13, <2>1, BeginsList
<1>14. CASE ListTooLong
  <2>1. reading = Loop /\ reading' = Return(ReaderError)
    BY <1>14 DEF ListTooLong
  <2>. QED
    BY <1>1, <1>7, <1>9, <1>14, <2>1, LoopsOn
<1>15. CASE NextItem
  <2>1. reading = Loop /\ reading' = Sexp
    BY <1>15 DEF NextItem
  <2>. QED
    BY <1>2, <1>5, <1>9, <1>15, <2>1, LoopsOn
<1>16. CASE CloseList
  <2>1. reading = Loop /\ \E x : reading' = Return(x)
    BY <1>16 DEF CloseList, Give
  <2>. QED
    BY <1>1, <1>7, <1>9, <1>16, <2>1, LoopsOn
<1>17. CASE ReturnToList
  <2>1. reading.step = "return" /\ ~ mem.refused
    BY <1>17 DEF ReturnToList, Returning
  <2>. QED
    BY <1>2, <1>6, <1>7, <1>9, <1>17, <2>1, Returns
<1>18. CASE ReturnToQuoted
  <2>1. reading.step = "return" /\ \E x : reading' = Return(x)
    BY <1>18 DEF ReturnToQuoted, Returning, Give
  <2>2. ~ mem.refused
    <3>1. mem.refused => reading.obj = MemoryError
      BY DEF MemoryInv, Return
    <3>2. mem.refused => mem' = mem
      BY <1>18, <3>1 DEF ReturnToQuoted, Give, Result, IsError, MemoryError, LispError
    <3>. QED
      BY <3>2
  <2>. QED
    BY <1>1, <1>7, <1>9, <1>18, <2>1, <2>2, Returns
<1>. QED
  BY <1>10, <1>11, <1>12, <1>13, <1>14, <1>15, <1>16, <1>17, <1>18 DEF Next

\* What the reader is about to return is the meaning, where no call waits.
LEMMA ReadIsMeant ==
    ASSUME MeaningInv, TokensStand(source), Done, ~ mem.refused
    PROVE  reading.obj = Meant
<1>1. PICK value : value.obj = reading.obj /\ Leads(source, open, value)
  BY DEF MeaningInv, Done
<1>2. Leads(source, <<>>, value)
  BY <1>1 DEF Done
<1>. QED
  BY <1>1, <1>2, LeadsHome DEF Meant

\* So it is whatever the text.
LEMMA MeaningHolds ==
    ASSUME GrammarIsByParts
    PROVE  Spec => [](MemoryInv /\ MeaningInv)
<1>1. Init => FramesInv /\ MemoryInv /\ MeaningInv
  <2>. SUFFICES ASSUME Init PROVE FramesInv /\ MemoryInv /\ MeaningInv
    OBVIOUS
  <2>1. FramesInv
    BY DEF FramesInv, Init
  <2>. QED
    BY <2>1, MeaningStarts
<1>2. IInv /\ CursorInv /\ FramesInv /\ MemoryInv /\ MeaningInv /\ [Next]_vars
          => FramesInv' /\ MemoryInv' /\ MeaningInv'
  BY FramesStep, MemoryStep, MeaningStep
<1>. QED
  BY <1>1, <1>2, InvariantHolds, CursorInvariantHolds, PTL DEF Spec

\* For every text of which the lexical part of the reader is right token by
\* token: the cursor, the stack and the counter of reader_sexp, reader_list and
\* reader_quoted put the tokens together as the grammar does.
THEOREM TextsAreRead ==
    ASSUME GrammarIsByParts
    PROVE  Spec => [](TokensStand(source) => ReadsAsGrammar)
<1>1. MeaningInv => (TokensStand(source) => ReadsAsGrammar)
  BY ReadIsMeant DEF ReadsAsGrammar
<1>2. Spec => [](MemoryInv /\ MeaningInv)
  BY MeaningHolds
<1>. QED
  BY <1>1, <1>2, PTL

\* A refusal always makes the reader return Memory_Error (mlisj.c:44), and
\* nothing else does but a text that means it: a string longer than the buffer.
THEOREM ShortageIsReported ==
    ASSUME GrammarIsByParts
    PROVE  Spec => [](TokensStand(source) => MemoryErrorIsShortage)
<1>1. MemoryInv /\ MeaningInv => (TokensStand(source) => MemoryErrorIsShortage)
  <2>. SUFFICES ASSUME MemoryInv, MeaningInv, TokensStand(source), Done
                PROVE  reading.obj = MemoryError <=> (mem.refused \/ Meant = MemoryError)
    BY DEF MemoryErrorIsShortage
  <2>1. CASE mem.refused
    BY <2>1 DEF MemoryInv, Return
  <2>2. CASE ~ mem.refused
    BY <2>2, ReadIsMeant
  <2>. QED
    BY <2>1, <2>2
<1>2. Spec => [](MemoryInv /\ MeaningInv)
  BY MeaningHolds
<1>. QED
  BY <1>1, <1>2, PTL
=============================================================================
