--------------------------- MODULE EvaluatorProofs ---------------------------
(***************************************************************************)
(* For every program, every amount of memory and every size of the stacks: *)
(* no refused request is mistaken for a value, every waiting call has been *)
(* paid for in nodes, errors fall through all frames, the bindings of      *)
(* lambdas nest, and what is returned is what the expression means.        *)
(*                                                                         *)
(* The first part shows of every built-in function that it is honest: it   *)
(* gives no node back, and if a request of it was refused it returns an    *)
(* error.  A function is a chain of steps, each of which is taken only if  *)
(* the one before succeeded (Then); the lemmas name the links of long      *)
(* chains from the last to the first.  The second part is the machine, the *)
(* third the bindings and the types.  The fourth is the meaning: a function*)
(* that is refused nothing returns what it returns with unlimited memory,  *)
(* and the frames make the meaning of the expression of what the machine   *)
(* computes.  The last parts put the reader before the evaluator and show  *)
(* the honesty of a whole call, from the text to the reply, and that the   *)
(* reply is what the text means.                                           *)
(***************************************************************************)
EXTENDS InterpreterMeaning, Lemmas

-----------------------------------------------------------------------------
(* Memory                                                                    *)

\* A record of the three parts of a memory, with so many free cells of each pool.
IsMemory(m) ==
    /\ m = [free |-> m.free, symbols |-> m.symbols, refused |-> m.refused]
    /\ m.free = [p \in MemPools |-> m.free[p]]
    /\ m.free["narray"] \in Int
    /\ \A p \in MemPools : m.free[p] \in Nat

\* A memory of at most so many free nodes in which no request was refused.
Sound(m, limit) == IsMemory(m) /\ ~ m.refused /\ m.free["narray"] <= limit

\* What was refused has become an error; at most so many nodes are free.
Honest(r, limit) ==
    /\ IsMemory(r.mem)
    /\ r.mem.free["narray"] <= limit
    /\ r.mem.refused => IsError(r.val)

\* Spending cells that are free refuses nothing and frees no node.
LEMMA SpendKeeps ==
    ASSUME NEW limit \in Int, NEW m, Sound(m, limit), NEW p \in MemPools, NEW n,
           HasFree(m, p, n), p = "narray" => n = 1
    PROVE  /\ Sound(Spend(m, p, n), limit)
           /\ \A q \in MemPools : q # p => Spend(m, p, n).free[q] = m.free[q]
<1>1. PICK f : f = [m.free EXCEPT ![p] = @ - n]
  OBVIOUS
<1>2. Spend(m, p, n) = [free |-> f, symbols |-> m.symbols, refused |-> m.refused]
  BY <1>1 DEF Sound, IsMemory, Spend
<1>3. f[p] = m.free[p] - n /\ \A q \in MemPools : q # p => f[q] = m.free[q]
  BY <1>1 DEF Sound, IsMemory
<1>4. f[p] \in Nat
  BY <1>3 DEF Sound, IsMemory, HasFree
<1>5. \A q \in MemPools : f[q] \in Nat
  BY <1>3, <1>4 DEF Sound, IsMemory
<1>6. "narray" \in MemPools
  BY DEF MemPools
<1>7. f = [q \in MemPools |-> f[q]]
  BY <1>1 DEF Sound, IsMemory
<1>8. f["narray"] \in Int /\ f["narray"] <= limit
  BY <1>3, <1>4, <1>5, <1>6 DEF Sound, IsMemory
<1>. QED
  BY <1>2, <1>3, <1>5, <1>7, <1>8 DEF Sound, IsMemory

\* A refused request that becomes an error is honest.
LEMMA RefusedIsHonest ==
    ASSUME NEW limit \in Int, NEW m, Sound(m, limit), NEW e, IsError(e)
    PROVE  Honest(Refused(e, m), limit)
  BY DEF Sound, IsMemory, Honest, Refused, Result

\* Returning a value without allocating is honest.
LEMMA ResultIsHonest ==
    ASSUME NEW limit \in Int, NEW m, Sound(m, limit), NEW v
    PROVE  Honest(Result(v, m), limit)
  BY DEF Sound, Honest, Result

\* What LispError makes is an error.
LEMMA ErrorsAreErrors == \A e : IsError(LispError(e))
  BY DEF IsError, LispError

\* CHECK_ALLOC in the allocation of strings: NULL becomes an error.
LEMMA NewStringAreaHonest ==
    ASSUME NEW limit \in Int, NEW m, Sound(m, limit), NEW s, NEW n
    PROVE  Honest(NewStringArea(m, s, n), limit)
  BY SpendKeeps, RefusedIsHonest, ResultIsHonest, ErrorsAreErrors
     DEF NewStringArea, MemoryError, MemPools

\* The same for a string that is copied.
LEMMA NewStringHonest ==
    ASSUME NEW limit \in Int, NEW m, Sound(m, limit), NEW s
    PROVE  Honest(NewString(m, s), limit)
  BY NewStringAreaHonest DEF NewString, With

\* CHECK_ALLOC in the allocation of floats.
LEMMA NewFloatHonest ==
    ASSUME NEW limit \in Int, NEW m, Sound(m, limit), NEW x
    PROVE  Honest(NewFloat(m, x), limit)
  BY SpendKeeps, RefusedIsHonest, ResultIsHonest, ErrorsAreErrors
     DEF NewFloat, MemoryError, MemPools

\* A caller of new_narray that makes an error of NULL is honest.
LEMMA NewListHonest ==
    ASSUME NEW limit \in Int, NEW m, Sound(m, limit), NEW xs, NEW e, IsError(e)
    PROVE  Honest(NewList(m, xs, e), limit)
<1>1. CASE HasFree(m, "narray", 1) /\ HasFree(m, "lispobject", Len(xs))
  <2>1. PICK n : n = Spend(m, "narray", 1)
    OBVIOUS
  <2>2. "narray" \in MemPools /\ "lispobject" \in MemPools
    BY DEF MemPools
  <2>3. /\ Sound(Spend(m, "narray", 1), limit)
        /\ \A q \in MemPools : q # "narray" => Spend(m, "narray", 1).free[q] = m.free[q]
    <3>1. HasFree(m, "narray", 1)
      BY <1>1
    <3>. QED
      BY <2>2, <3>1, SpendKeeps
  <2>4. HasFree(n, "lispobject", Len(xs))
    BY <1>1, <2>1, <2>2, <2>3 DEF HasFree
  <2>5. Sound(Spend(n, "lispobject", Len(xs)), limit)
    BY <2>1, <2>2, <2>3, <2>4, SpendKeeps
  <2>. QED
    BY <1>1, <2>1, <2>5, ResultIsHonest DEF NewList
<1>2. CASE ~ (HasFree(m, "narray", 1) /\ HasFree(m, "lispobject", Len(xs)))
  BY <1>2, RefusedIsHonest DEF NewList
<1>. QED
  BY <1>1, <1>2

\* Returning an evaluation error is honest.
LEMMA FailsHonest ==
    ASSUME NEW limit \in Int, NEW m, Sound(m, limit)
    PROVE  Honest(EvaluationFails(m), limit)
  BY ResultIsHonest DEF EvaluationFails

\* f_minus
LEMMA MinusHonest ==
    ASSUME NEW limit \in Int, NEW m, Sound(m, limit), NEW args
    PROVE  Honest(Minus(args, m), limit)
  BY ResultIsHonest, FailsHonest, NewFloatHonest DEF Minus

\* f_car
LEMMA CarHonest ==
    ASSUME NEW limit \in Int, NEW m, Sound(m, limit), NEW args
    PROVE  Honest(Car(args, m), limit)
  BY ResultIsHonest, FailsHonest DEF Car

\* f_concat
LEMMA ConcatHonest ==
    ASSUME NEW limit \in Int, NEW m, Sound(m, limit), NEW args
    PROVE  Honest(Concat(args, m), limit)
  BY ResultIsHonest, FailsHonest, NewStringHonest DEF Concat

\* Copying string after string takes the cells of the first n, all of them if all fit.
LEMMA WhatIsCopied ==
    ASSUME NEW strings, IsStack(strings)
    PROVE  \E size : \A m : m.free["string"] \in Nat =>
               \E n \in 0 .. Len(strings) :
                   /\ HasFree(m, "string", size[n])
                   /\ HasFree(m, "string", size[Len(strings)]) => n = Len(strings)
                   /\ CopyStrings(m, strings) =
                          IF n = Len(strings) THEN Result(LispNil, Spend(m, "string", size[n]))
                          ELSE Refused(MemoryError, Spend(m, "string", size[n]))
<1>. DEFINE size(n) == FoldLeft(LAMBDA sum, s : sum + Len(s) + 1, 0, SubSeq(strings, 1, n))
            Fitting(m) == {n \in 0 .. Len(strings) : HasFree(m, "string", size(n))}
            Copied(m, n) == LET left == Spend(m, "string", size(n))
                            IN  IF n = Len(strings) THEN Result(LispNil, left)
                                ELSE Refused(MemoryError, left)
<1>2. size(0) = 0
  <2>1. SubSeq(strings, 1, 0) = <<>>
    <3>1. PICK V : strings \in Seq(V)
      BY DEF IsStack
    <3>2. SubSeq(strings, 1, 0) \in Seq(V) /\ Len(SubSeq(strings, 1, 0)) = 0
      <4>1. \A i \in 1 .. 0 : strings[i] \in V
        OBVIOUS
      <4>2. SubSeq(strings, 1, 0) \in Seq(V) /\ Len(SubSeq(strings, 1, 0)) = IF 1 <= 0 THEN 0 - 1 + 1 ELSE 0
        BY <4>1, SubSeqProperties
      <4>. QED
        BY <4>2
    <3>. QED
      BY <3>2, EmptySeq
  <2>2. FoldLeft(LAMBDA sum, s : sum + Len(s) + 1, 0, <<>>) = 0
    <3>. DEFINE Sum(f, t) == IF t = {} THEN 0 ELSE f[t \ {Max(t)}] + Len(<<>>[Max(t)]) + 1
                C == CHOOSE f : f = [t \in SUBSET (DOMAIN <<>>) |-> Sum(f, t)]
    <3>1. FoldLeft(LAMBDA sum, s : sum + Len(s) + 1, 0, <<>>) = C[DOMAIN <<>>]
      BY Zenon DEF FoldLeft, MapThenFoldSet
    <3>2. DOMAIN <<>> = {}
      OBVIOUS
    <3>3. PICK f : f = [t \in SUBSET (DOMAIN <<>>) |-> 0]
      OBVIOUS
    <3>4. f = [t \in SUBSET (DOMAIN <<>>) |-> Sum(f, t)]
      BY <3>2, <3>3
    <3>5. C = [t \in SUBSET (DOMAIN <<>>) |-> Sum(C, t)]
      BY <3>4, Zenon
    <3>. HIDE DEF C
    <3>6. C[{}] = Sum(C, {})
      BY <3>2, <3>5
    <3>. QED
      BY <3>1, <3>2, <3>6
  <2>. QED
    BY <2>1, <2>2
<1>. HIDE DEF size
<1>3. PICK f : f = [n \in 0 .. Len(strings) |-> size(n)]
  OBVIOUS
<1>4. Len(strings) \in Nat
  BY DEF IsStack
<1>5. ASSUME NEW m, m.free["string"] \in Nat
      PROVE  \E n \in 0 .. Len(strings) :
                   /\ HasFree(m, "string", f[n])
                   /\ HasFree(m, "string", f[Len(strings)]) => n = Len(strings)
                   /\ CopyStrings(m, strings) =
                          IF n = Len(strings) THEN Result(LispNil, Spend(m, "string", f[n]))
                          ELSE Refused(MemoryError, Spend(m, "string", f[n]))
  <2>1. 0 \in Fitting(m)
    BY <1>2, <1>4, <1>5 DEF HasFree
  <2>2. \E x \in Fitting(m) : \A y \in Fitting(m) : x >= y
    BY <1>4, <2>1, Greatest
  <2>3. Max(Fitting(m)) \in Fitting(m) /\ \A y \in Fitting(m) : Max(Fitting(m)) >= y
    BY <2>2, Zenon DEF Max
  <2>4. PICK n : n = Max(Fitting(m))
    OBVIOUS
  <2>5. CopyStrings(m, strings) = Copied(m, n)
    <3>. DEFINE This(k) == Copied(m, k)
    <3>1. CopyStrings(m, strings) = With(Max(Fitting(m)), This)
      BY Zenon DEF CopyStrings, size
    <3>. HIDE DEF Fitting, This
    <3>2. CopyStrings(m, strings) = This(n)
      BY <2>4, <3>1 DEF With
    <3>. QED
      BY <3>2 DEF This
  <2>6. n \in 0 .. Len(strings) /\ HasFree(m, "string", size(n))
    BY <2>3, <2>4
  <2>7. HasFree(m, "string", size(Len(strings))) => n = Len(strings)
    <3>1. HasFree(m, "string", size(Len(strings))) => Len(strings) \in Fitting(m)
      BY <1>4
    <3>. QED
      BY <1>4, <2>3, <2>4, <2>6, <3>1
  <2>8. f[n] = size(n) /\ f[Len(strings)] = size(Len(strings))
    BY <1>3, <1>4, <2>6
  <2>. QED
    BY <2>5, <2>6, <2>7, <2>8
<1>. QED
  BY <1>5

\* Copying string after string stops with an error at the first that does not fit.
LEMMA CopyStringsHonest ==
    ASSUME NEW limit \in Int, NEW m, Sound(m, limit), NEW strings, IsStack(strings)
    PROVE  Honest(CopyStrings(m, strings), limit)
<1>0. "string" \in MemPools /\ m.free["string"] \in Nat
  BY DEF MemPools, Sound, IsMemory
<1>1. PICK size, n : /\ HasFree(m, "string", size[n])
                     /\ CopyStrings(m, strings) =
                            IF n = Len(strings) THEN Result(LispNil, Spend(m, "string", size[n]))
                            ELSE Refused(MemoryError, Spend(m, "string", size[n]))
  BY <1>0, WhatIsCopied
<1>2. Sound(Spend(m, "string", size[n]), limit)
  BY <1>0, <1>1, SpendKeeps
<1>. QED
  BY <1>1, <1>2, ResultIsHonest, RefusedIsHonest, ErrorsAreErrors DEF MemoryError

\* A chain goes on, after a success, with a memory that refused nothing.
LEMMA SucceededIsSound ==
    ASSUME NEW limit \in Int, NEW r, Honest(r, limit), ~ IsError(r.val)
    PROVE  Sound(r.mem, limit)
  BY DEF Sound, Honest

\* str2symbol, checked: a full table becomes an error.
LEMMA InternLiteralHonest ==
    ASSUME NEW limit \in Int, NEW m, Sound(m, limit), NEW s
    PROVE  Honest(InternLiteral(m, s), limit)
<1>1. PICK n : n = Spend(m, "symbol", 1)
  OBVIOUS
<1>2. CASE m.free["symbol"] = 0
  BY <1>2, RefusedIsHonest, ErrorsAreErrors DEF InternLiteral, MemoryError
<1>3. CASE m.free["symbol"] # 0
  <2>1. HasFree(m, "symbol", 1)
    BY <1>3 DEF Sound, IsMemory, MemPools, HasFree
  <2>2. Sound(n, limit)
    BY <1>1, <2>1, SpendKeeps DEF MemPools
  <2>3. PICK known : known = [n EXCEPT !.symbols = @ \cup {s}]
    OBVIOUS
  <2>4. known = [free |-> n.free, symbols |-> n.symbols \cup {s}, refused |-> n.refused]
    BY <2>2, <2>3 DEF Sound, IsMemory
  <2>5. Sound(known, limit)
    BY <2>2, <2>4 DEF Sound, IsMemory
  <2>. QED
    BY <1>1, <1>3, <2>3, <2>5, ResultIsHonest DEF InternLiteral
<1>. QED
  BY <1>2, <1>3

\* f_make_string
LEMMA MakeStringHonest ==
    ASSUME NEW limit \in Int, NEW m, Sound(m, limit), NEW args
    PROVE  Honest(MakeString(args, m), limit)
  BY FailsHonest, NewStringAreaHonest
     DEF MakeString

\* f_string_to_char
LEMMA StringToCharHonest ==
    ASSUME NEW limit \in Int, NEW m, Sound(m, limit), NEW args
    PROVE  Honest(StringToChar(args, m), limit)
  BY FailsHonest, ResultIsHonest
     DEF StringToChar

\* f_substring
LEMMA SubstringHonest ==
    ASSUME NEW limit \in Int, NEW m, Sound(m, limit), NEW args
    PROVE  Honest(Substring(args, m), limit)
  BY FailsHonest, NewStringHonest
     DEF Substring

\* f_string_to_number
LEMMA StringToNumberHonest ==
    ASSUME NEW limit \in Int, NEW m, Sound(m, limit), NEW args
    PROVE  Honest(StringToNumber(args, m), limit)
  BY FailsHonest, ResultIsHonest, NewFloatHonest
     DEF StringToNumber, CheckNumStr

\* f_current_time_string
LEMMA CurrentTimeHonest ==
    ASSUME NEW limit \in Int, NEW m, Sound(m, limit), NEW args
    PROVE  Honest(CurrentTime(args, m), limit)
  BY FailsHonest, NewStringHonest
     DEF CurrentTime

\* f_skk_times
LEMMA SkkTimesHonest ==
    ASSUME NEW limit \in Int, NEW m, Sound(m, limit), NEW args
    PROVE  Honest(SkkTimes(args, m), limit)
  BY FailsHonest, NewStringHonest
     DEF SkkTimes

\* f_skk_gadget_units_conversion
LEMMA UnitsHonest ==
    ASSUME NEW limit \in Int, NEW m, Sound(m, limit), NEW args
    PROVE  Honest(SkkGadgetUnitsConversion(args, m), limit)
  BY FailsHonest, NewStringHonest
     DEF SkkGadgetUnitsConversion

\* dv_skk_num_list: the list, then the copies of the numbers.
LEMMA NumListHonest ==
    ASSUME NEW limit \in Int, NEW m, Sound(m, limit)
    PROVE  Honest(NumListValue(m), limit)
<1>. DEFINE items == [i \in DOMAIN SkkNumList |-> LispString(SkkNumList[i])]
            Copies(list, mm) ==
                Then(CopyStrings(mm, SkkNumList), LAMBDA nil, left : Result(list, left))
<1>1. NumListValue(m) = IF SkkNumList = NoNumList THEN Result(LispNil, m)
                        ELSE Then(NewList(m, items, MemoryError), Copies)
  BY Zenon DEF NumListValue
<1>2. ASSUME SkkNumList # NoNumList, NEW list, NEW mm, Sound(mm, limit)
      PROVE  Honest(Copies(list, mm), limit)
  <2>1. IsStack(SkkNumList)
    BY <1>2, NumListAssumption DEF IsStack
  <2>. QED
    BY <1>2, <2>1, ResultIsHonest, CopyStringsHonest, SucceededIsSound DEF Then, With
<1>3. Honest(NewList(m, items, MemoryError), limit)
  BY NewListHonest, ErrorsAreErrors DEF MemoryError
<1>. HIDE DEF items, Copies
<1>. QED
  BY <1>1, <1>2, <1>3, ResultIsHonest, SucceededIsSound DEF Then, With

\* split_time_string
LEMMA SplitTimeStringHonest ==
    ASSUME NEW limit \in Int, NEW m, Sound(m, limit), NEW date
    PROVE  Honest(SplitTimeString(m, date), limit)
<1>1. PICK texts : texts = [i \in 1 .. 7 |-> date[<<4, 2, 3, 1, 5, 6, 7>>[i]]]
  OBVIOUS
<1>2. IsStack(texts)
  <2>1. PICK V : V = {texts[i] : i \in 1 .. 7}
    OBVIOUS
  <2>2. texts \in [1 .. 7 -> V]
    BY <1>1, <2>1
  <2>. QED
    BY <2>2, SeqDef DEF IsStack
<1>3. Honest(CopyStrings(m, texts), limit)
  BY <1>2, CopyStringsHonest
<1>. QED
  BY <1>1, <1>3, NewListHonest, SucceededIsSound, ErrorsAreErrors
     DEF SplitTimeString, Then, With, MemoryError

\* The first number of skk-num-list.
LEMMA FirstNumberHonest ==
    ASSUME NEW limit \in Int, NEW m, Sound(m, limit)
    PROVE  Honest(FirstNumber(m), limit)
  BY FailsHonest, ResultIsHonest
     DEF FirstNumber

\* The divider of f_skk_ad_to_gengo.
LEMMA DividerHonest ==
    ASSUME NEW limit \in Int, NEW m, Sound(m, limit), NEW x
    PROVE  Honest(Divider(x, m), limit)
  BY ResultIsHonest
     DEF Divider

\* ad_to_gengo_1
LEMMA AdToGengoHonest ==
    ASSUME NEW limit \in Int, NEW m, Sound(m, limit), NEW ad, NEW not_gannen, NEW month, NEW day
    PROVE  Honest(AdToGengo(m, ad, not_gannen, month, day), limit)
  BY ResultIsHonest, NewListHonest, ErrorsAreErrors
     DEF AdToGengo, MemoryError

\* f_skk_ad_to_gengo: number, era, divider, text.
LEMMA SkkAdToGengoHonest ==
    ASSUME NEW limit \in Int, NEW m, Sound(m, limit), NEW args
    PROVE  Honest(SkkAdToGengo(args, m), limit)
<1>. DEFINE tail == OptionalArg(args, 3)
            Text(v, divider, mm) ==
                LET nengo == v.items[3]
                IN  NewString(mm, v.items[args[1].int + 1].chars \o divider.chars
                                  \o (IF nengo.type = "int" THEN Decimal(nengo.int) ELSE nengo.chars)
                                  \o TextOf(tail))
            Divided(v, mm) ==
                Then(Divider(OptionalArg(args, 2), mm), LAMBDA divider, left : Text(v, divider, left))
            Era(ad, mm) ==
                Then(AdToGengo(mm, ad.int, OptionalArg(args, 4) # LispNil, 0, 0), Divided)
<1>1. \/ SkkAdToGengo(args, m) = EvaluationFails(m)
      \/ SkkAdToGengo(args, m) = Then(FirstNumber(m), Era)
  BY Zenon DEF SkkAdToGengo
<1>2. \A v, divider, mm : Sound(mm, limit) => Honest(Text(v, divider, mm), limit)
  BY NewStringHonest
<1>. HIDE DEF Text
<1>3. \A v, mm : Sound(mm, limit) => Honest(Divided(v, mm), limit)
  BY <1>2, DividerHonest, SucceededIsSound DEF Then, With
<1>. HIDE DEF Divided
<1>4. \A ad, mm : Sound(mm, limit) => Honest(Era(ad, mm), limit)
  BY <1>3, AdToGengoHonest, SucceededIsSound DEF Then, With
<1>. HIDE DEF Era
<1>. QED
  BY <1>1, <1>4, FirstNumberHonest, FailsHonest, SucceededIsSound DEF Then, With

\* f_skk_gengo_to_ad
LEMMA SkkGengoToAdHonest ==
    ASSUME NEW limit \in Int, NEW m, Sound(m, limit), NEW args
    PROVE  Honest(SkkGengoToAd(args, m), limit)
  BY FailsHonest, ResultIsHonest, FirstNumberHonest, NewStringHonest, SucceededIsSound
     DEF SkkGengoToAd, Then, With

\* snprintf into a buffer.
LEMMA SnprintfHonest ==
    ASSUME NEW limit \in Int, NEW m, Sound(m, limit), NEW format, NEW texts
    PROVE  Honest(Snprintf(format, texts, m), limit)
  BY ResultIsHonest, ErrorsAreErrors
     DEF Snprintf, With, MemoryError

\* skk_num_exp writes, fails, or leaves its table.
LEMMA NumExpCodes ==
    \A num, type, size : SkkNumExp(num, type, size).code \in {"ok", "failed", "undefined"}
<1>1. \A text : Written(text).code = "ok"
  BY DEF Written
<1>2. Failed.code = "failed" /\ OutOfTable.code = "undefined"
  BY DEF Failed, OutOfTable
<1>. QED
  BY <1>1, <1>2 DEF SkkNumExp, Type0, Type1, Type3

\* skk_num_exp into a buffer allocates nothing.
LEMMA NumTextHonest ==
    ASSUME NEW limit \in Int, NEW m, Sound(m, limit), NEW num, NEW num_type
    PROVE  Honest(NumText(num, num_type, m), limit)
<1>. DEFINE e == With(num, LAMBDA n : SkkNumExp(n, num_type, TMP_BUFFSIZE))
            Text(x) == CASE x.code = "ok" -> Result(LispString(x.text), m)
                         [] x.code = "failed" -> EvaluationFails(m)
                         [] x.code = "undefined" -> Result(Undefined, m)
<1>1. NumText(num, num_type, m) = With(e, Text)
  BY Zenon DEF NumText
<1>2. e.code \in {"ok", "failed", "undefined"}
  BY NumExpCodes DEF With
<1>. HIDE DEF e
<1>3. Honest(Text(e), limit)
  BY <1>2, FailsHonest, ResultIsHonest
<1>. HIDE DEF Text
<1>. QED
  BY <1>1, <1>3 DEF With

\* skk_num_exp, copied to the string pool.
LEMMA NumStringHonest ==
    ASSUME NEW limit \in Int, NEW m, Sound(m, limit), NEW num, NEW num_type
    PROVE  Honest(NumString(num, num_type, m), limit)
  BY NumTextHonest, NewStringHonest, SucceededIsSound
     DEF NumString, Then, With

\* The year of an era; a refused list becomes an evaluation error.
LEMMA EraYearHonest ==
    ASSUME NEW limit \in Int, NEW m, Sound(m, limit), NEW date, NEW num_type, NEW gengo_index
    PROVE  Honest(EraYear(date, num_type, gengo_index, m), limit)
<1>. DEFINE Year(list, mm) ==
                IF list.items[3].type = "string" THEN Result(list.items[3], mm)
                ELSE NumText(Decimal(list.items[3].int), num_type, mm)
            Text(list, mm) ==
                Then(Year(list, mm),
                     LAMBDA text, left :
                         NewString(left, list.items[gengo_index + 1].chars \o text.chars))
            Checked(v) ==
                IF IsError(v.val) THEN Result(EvaluationError, v.mem)
                ELSE IF gengo_index \notin 0 .. 2 THEN Result(Undefined, v.mem)
                ELSE IF v.val.items[gengo_index + 1].type # "string" THEN EvaluationFails(v.mem)
                ELSE Text(v.val, v.mem)
<1>1. EraYear(date, num_type, gengo_index, m)
          = With(AdToGengo(m, date.year, FALSE, date.month, date.day), Checked)
  BY Zenon DEF EraYear
<1>2. \A list, mm : Sound(mm, limit) => Honest(Year(list, mm), limit)
  BY NumTextHonest, ResultIsHonest
<1>. HIDE DEF Year
<1>3. \A list, mm : Sound(mm, limit) => Honest(Text(list, mm), limit)
  BY <1>2, NewStringHonest, SucceededIsSound DEF Then, With
<1>. HIDE DEF Text
<1>4. ASSUME NEW v, Honest(v, limit)
      PROVE  Honest(Checked(v), limit)
  <2>1. IsError(v.val) => Honest(Result(EvaluationError, v.mem), limit)
    BY <1>4, ErrorsAreErrors DEF Honest, Result, EvaluationError
  <2>. QED
    BY <1>3, <1>4, <2>1, SucceededIsSound, ResultIsHonest, FailsHonest
<1>. HIDE DEF Checked
<1>. QED
  BY <1>1, <1>4, AdToGengoHonest DEF With

\* skk_default_current_date: year, month, day, format, text.
LEMMA SkkDefaultCurrentDateHonest ==
    ASSUME NEW limit \in Int, NEW m, Sound(m, limit), NEW info, NEW format, NEW num_type,
           NEW gengo_p, NEW gengo_index, NEW dow_index
    PROVE  Honest(SkkDefaultCurrentDate(info, format, num_type, gengo_p, gengo_index, dow_index, m),
                  limit)
<1>. DEFINE Texts(date, year, month, day) ==
                <<year.chars, month.chars, day.chars,
                  IF dow_index = LispNil THEN date.dow ELSE DowJa(date.dow)>>
            Printed(texts, mm) ==
                Then(Snprintf(IF format = LispNil THEN DefaultFormat ELSE format.chars, texts, mm),
                     LAMBDA result, left : NewString(left, result.chars))
            Formatted(texts, mm) ==
                IF ~ IsText(format) THEN EvaluationFails(mm) ELSE Printed(texts, mm)
            Day(date, year, month, mm) ==
                Then(NumString(info.items[3].chars, num_type.int, mm),
                     LAMBDA day, left : Formatted(Texts(date, year, month, day), left))
            Month(date, year, mm) ==
                Then(NumString(Decimal(date.month), num_type.int, mm),
                     LAMBDA month, left : Day(date, year, month, left))
            Year(date) ==
                IF gengo_p = LispNil THEN NumString(info.items[1].chars, num_type.int, m)
                ELSE EraYear(date, num_type.int, gengo_index.int, m)
            Checked(date) ==
                IF ~ DateOK(info, date) THEN EvaluationFails(m)
                ELSE Then(Year(date), LAMBDA year, left : Month(date, year, left))
<1>1. \/ SkkDefaultCurrentDate(info, format, num_type, gengo_p, gengo_index, dow_index, m)
             = EvaluationFails(m)
      \/ SkkDefaultCurrentDate(info, format, num_type, gengo_p, gengo_index, dow_index, m)
             = With(DateOf(info), Checked)
  BY Zenon DEF SkkDefaultCurrentDate
<1>2. \A texts, mm : Sound(mm, limit) => Honest(Printed(texts, mm), limit)
  BY SnprintfHonest, NewStringHonest, SucceededIsSound DEF Then, With
<1>. HIDE DEF Printed
<1>3. \A texts, mm : Sound(mm, limit) => Honest(Formatted(texts, mm), limit)
  BY <1>2, FailsHonest
<1>. HIDE DEF Formatted, Texts
<1>4. \A date, year, month, mm : Sound(mm, limit) => Honest(Day(date, year, month, mm), limit)
  BY <1>3, NumStringHonest, SucceededIsSound DEF Then, With
<1>. HIDE DEF Day
<1>5. \A date, year, mm : Sound(mm, limit) => Honest(Month(date, year, mm), limit)
  BY <1>4, NumStringHonest, SucceededIsSound DEF Then, With
<1>. HIDE DEF Month
<1>6. \A date : Honest(Year(date), limit)
  BY NumStringHonest, EraYearHonest
<1>. HIDE DEF Year
<1>7. \A date : Honest(Checked(date), limit)
  BY <1>5, <1>6, FailsHonest, SucceededIsSound DEF Then, With
<1>. HIDE DEF Checked
<1>. QED
  BY <1>1, <1>7, FailsHonest DEF With

\* f_skk_default_current_date
LEMMA DefaultCurrentDateHonest ==
    ASSUME NEW limit \in Int, NEW m, Sound(m, limit), NEW args
    PROVE  Honest(DefaultCurrentDate(args, m), limit)
  BY FailsHonest, ResultIsHonest, SkkDefaultCurrentDateHonest
     DEF DefaultCurrentDate

\* skk_default_current_date as the date functions call it.
LEMMA DefaultDateHonest ==
    ASSUME NEW limit \in Int, NEW m, Sound(m, limit), NEW datetime
    PROVE  Honest(DefaultDate(datetime, m), limit)
  BY SkkDefaultCurrentDateHonest
     DEF DefaultDate

\* The three keywords of f_skk_relative_date.
LEMMA InternOffsetsHonest ==
    ASSUME NEW limit \in Int, NEW m, Sound(m, limit)
    PROVE  Honest(InternOffsets(m), limit)
  BY InternLiteralHonest, SucceededIsSound, ZenonT(60)
     DEF InternOffsets, Then, With

\* The date the date functions start from.
LEMMA DateListHonest ==
    ASSUME NEW limit \in Int, NEW m, Sound(m, limit), NEW f, NEW args
    PROVE  Honest(DateList(f, args, m), limit)
  BY FailsHonest, SplitTimeStringHonest, InternOffsetsHonest, SucceededIsSound
     DEF DateList, Then, With

\* The list passed to pp_function.
LEMMA LambdaArgsHonest ==
    ASSUME NEW limit \in Int, NEW m, Sound(m, limit), NEW f, NEW args, NEW date
    PROVE  Honest(LambdaArgs(f, args, date, m), limit)
  BY NewListHonest, ErrorsAreErrors
     DEF LambdaArgs, MemoryError

\* The functions behind dynamic variables.
LEMMA DynamicValueHonest ==
    ASSUME NEW limit \in Int, NEW m, Sound(m, limit), NEW f
    PROVE  Honest(DynamicValue(f, m), limit)
  BY NewStringHonest, NumListHonest, ResultIsHonest
     DEF DynamicValue

\* eval_symbol and f_symbol_value.
LEMMA ValueOfHonest ==
    ASSUME NEW limit \in Int, NEW m, Sound(m, limit), NEW s, NEW stack
    PROVE  Honest(ValueOf(s, stack, m), limit)
  BY DynamicValueHonest, ResultIsHonest
     DEF ValueOf

\* Every function that returns without evaluating anything is honest.
LEMMA CallSimpleHonest ==
    ASSUME NEW limit \in Int, NEW m, Sound(m, limit), NEW f \in SimpleFunctions, NEW args, NEW stack
    PROVE  Honest(CallSimple(f, args, stack, m), limit)
  BY MinusHonest, CarHonest, ConcatHonest, MakeStringHonest, StringToCharHonest, SubstringHonest,
     ValueOfHonest, FailsHonest, ResultIsHonest, CurrentTimeHonest, SkkTimesHonest,
     StringToNumberHonest, UnitsHonest, SkkAdToGengoHonest, SkkGengoToAdHonest,
     DefaultCurrentDateHonest
     DEF CallSimple, SimpleFunctions

\* eval_args is honest, and takes two nodes if it succeeds.
LEMMA MakeArgsPays ==
    ASSUME NEW limit \in Int, NEW m, Sound(m, limit), NEW args
    PROVE  /\ Honest(MakeArgs(m, args), limit)
           /\ ~ IsError(MakeArgs(m, args).val) => Sound(MakeArgs(m, args).mem, limit - 2)
<1>0. "narray" \in MemPools /\ "lispobject" \in MemPools
  BY DEF MemPools
<1>1. ASSUME NEW l \in Int, NEW n, Sound(n, l), HasFree(n, "narray", 1)
      PROVE  /\ Sound(Spend(n, "narray", 1), l - 1)
             /\ Spend(n, "narray", 1).free["lispobject"] = n.free["lispobject"]
  <2>1. PICK k : k = Spend(n, "narray", 1)
    OBVIOUS
  <2>2. Sound(k, l) /\ k.free["lispobject"] = n.free["lispobject"]
    <3>1. Sound(k, l) /\ \A q \in MemPools : q # "narray" => k.free[q] = n.free[q]
      BY <1>0, <1>1, <2>1, SpendKeeps
    <3>. QED
      BY <1>0, <3>1
  <2>3. k.free["narray"] = n.free["narray"] - 1
    BY <1>0, <1>1, <2>1 DEF Spend, Sound, IsMemory
  <2>. QED
    BY <1>1, <2>1, <2>2, <2>3 DEF Sound, IsMemory
<1>2. CASE ~ HasFree(m, "narray", 1)
  BY <1>2, RefusedIsHonest, ErrorsAreErrors DEF MakeArgs, EvaluationError, Refused, Result
<1>3. CASE HasFree(m, "narray", 1)
  <2>1. PICK n : n = Spend(m, "narray", 1)
    OBVIOUS
  <2>2. MakeArgs(m, args) = NewList(n, args, EvaluationError)
    BY <1>3, <2>1 DEF MakeArgs
  <2>3. Sound(n, limit - 1) /\ Sound(n, limit)
    <3>1. Sound(n, limit - 1)
      BY <1>1, <1>3, <2>1
    <3>. QED
      BY <3>1 DEF Sound, IsMemory
  <2>4. Honest(NewList(n, args, EvaluationError), limit)
    BY <2>3, NewListHonest, ErrorsAreErrors DEF EvaluationError
  <2>5. ASSUME ~ IsError(NewList(n, args, EvaluationError).val)
        PROVE  Sound(NewList(n, args, EvaluationError).mem, limit - 2)
    <3>1. HasFree(n, "narray", 1) /\ HasFree(n, "lispobject", Len(args))
      BY <2>5, ErrorsAreErrors DEF NewList, Refused, Result, EvaluationError
    <3>2. PICK n2 : n2 = Spend(n, "narray", 1)
      OBVIOUS
    <3>3. Sound(n2, limit - 1 - 1) /\ n2.free["lispobject"] = n.free["lispobject"]
      BY <1>1, <2>3, <3>1, <3>2
    <3>4. Sound(n2, limit - 2)
      BY <3>3 DEF Sound
    <3>5. HasFree(n2, "lispobject", Len(args))
      BY <3>1, <3>3 DEF HasFree
    <3>6. Sound(Spend(n2, "lispobject", Len(args)), limit - 2)
      BY <1>0, <3>4, <3>5, SpendKeeps
    <3>. QED
      BY <3>1, <3>2, <3>6 DEF NewList, Result
  <2>. QED
    BY <2>2, <2>4, <2>5
<1>. QED
  BY <1>2, <1>3
-----------------------------------------------------------------------------
(* The machine                                                               *)

\* Frames are of the two kinds, and an args frame waits for a known function.
FramesOK ==
    /\ IsStack(frames)
    /\ \A i \in DOMAIN frames :
           /\ frames[i].kind \in {"args", "body"}
           /\ frames[i].kind = "args" => frames[i].fn \in Functions

\* The functions called are the registered ones.
ControlOK ==
    /\ control.step \in {"eval", "return", "apply"}
    /\ control.step = "apply" => control.fn \in Functions

\* The reply is given when no frame waits any more, and an error leaves dest alone.
RepliedAtTheEnd ==
    reply # NONE =>
        /\ control.step = "return" /\ frames = <<>>
        /\ Failing => reply.dest = <<>> /\ reply.code # "OK"

\* The calls under way: those that wait and the one about to be made.
Calls == Len(frames) + (IF control.step = "apply" THEN 1 ELSE 0)

\* What call_lambda waits for has been paid for by the eval_args that returned
\* before it, so a call is counted from there on.
CallsPaid == 2 * Calls + mem.free["narray"] <= call.budget["narray"]

\* The inductive invariant.
IInv ==
    /\ IsMemory(mem)
    /\ call.budget["narray"] \in Int
    /\ FramesOK
    /\ ControlOK
    /\ CallsPaid
    /\ mem.refused => Failing
    /\ RepliedAtTheEnd

\* The calls that wait can be counted.
LEMMA CallsCounted == FramesOK => Len(frames) \in Nat /\ Len(frames) <= Calls /\ Calls \in Nat
  BY DEF FramesOK, IsStack, Calls

\* The evaluator's frames of a kind, as those of a stack.
LEMMA FramesOfKind == \A kind : FramesOf(kind) = OfKind(frames, kind)
  BY DEF FramesOf, OfKind

\* mlisj_eval enters eval_expr in the invariant.
LEMMA Establish == Init => IInv
<1>. SUFFICES ASSUME Init PROVE IInv
  OBVIOUS
<1>1. call.budget \in [MemPools -> Nat]
  BY BudgetAssumption DEF Init
<1>2. IsMemory(mem) /\ ~ mem.refused /\ mem.free = call.budget
  BY <1>1 DEF Init, Memory, IsMemory, MemPools
<1>3. FramesOK /\ ControlOK /\ RepliedAtTheEnd
  BY DEF Init, FramesOK, ControlOK, RepliedAtTheEnd, IsStack, Eval
<1>4. Calls = 0
  BY DEF Init, Calls, Eval
<1>. QED
  BY <1>1, <1>2, <1>3, <1>4 DEF IInv, CallsPaid, MemPools

\* Going on with the result of an honest function.
LEMMA ContinueKeeps ==
    ASSUME IInv, reply = NONE, UNCHANGED <<call, reply>>,
           NEW r, Honest(r, mem.free["narray"]), Continue(r)
    PROVE  IInv'
<1>1. control' = Return(r.val) /\ mem' = r.mem /\ frames' = frames
  BY DEF Continue
<1>2. IsMemory(mem') /\ mem'.free["narray"] <= mem.free["narray"]
  BY <1>1 DEF Honest
<1>3. FramesOK' /\ ControlOK' /\ RepliedAtTheEnd'
  BY <1>1 DEF IInv, FramesOK, ControlOK, RepliedAtTheEnd, Return
<1>4. mem'.refused => Failing'
  BY <1>1 DEF Honest, Failing, Return
<1>5. Calls' = Len(frames) /\ Calls' <= Calls /\ Calls \in Nat /\ Calls' \in Nat
  BY <1>1, CallsCounted DEF IInv, Calls, Return
<1>6. CallsPaid'
  BY <1>2, <1>5 DEF IInv, CallsPaid, IsMemory
<1>. QED
  BY <1>2, <1>3, <1>4, <1>6 DEF IInv

\* Pushing a frame, when an eval_args pays for it or has paid for it.
LEMMA PushKeeps ==
    ASSUME IInv, reply = NONE, UNCHANGED <<call, reply>>,
           NEW x, frames' = Append(frames, x), x.kind \in {"args", "body"},
           x.kind = "args" => x.fn \in Functions,
           x.kind = "body" => control.step = "apply", control'.step = "eval",
           NEW limit \in Int, Sound(mem', limit),
           limit + (IF x.kind = "args" THEN 2 ELSE 0) <= mem.free["narray"]
    PROVE  IInv'
<1>1. FramesOK'
  BY Pushed DEF IInv, FramesOK
<1>2. PICK n \in Nat : n = Len(frames) /\ Len(frames') = n + 1
  BY Pushed DEF IInv, FramesOK
<1>3. Calls' = n + 1 /\ Calls = n + (IF control.step = "apply" THEN 1 ELSE 0)
  BY <1>2 DEF Calls
<1>4. CallsPaid'
  <2>1. mem'.free["narray"] \in Int /\ mem.free["narray"] \in Int /\ mem'.free["narray"] <= limit
    BY DEF IInv, Sound, IsMemory
  <2>2. PICK c \in Nat : c = Calls
    BY <1>3
  <2>3. 2 * (n + 1) + mem'.free["narray"] <= 2 * c + mem.free["narray"]
    <3>1. CASE x.kind = "args"
      <4>1. n <= c
        BY <1>3, <2>2
      <4>. QED
        BY <2>1, <3>1, <4>1
    <3>2. CASE x.kind = "body"
      <4>1. c = n + 1
        BY <1>3, <2>2, <3>2
      <4>. QED
        BY <2>1, <3>2, <4>1
    <3>. QED
      BY <3>1, <3>2
  <2>4. 2 * c + mem.free["narray"] <= call.budget["narray"] /\ call.budget["narray"] \in Int
    BY <2>2 DEF IInv, CallsPaid
  <2>. QED
    BY <1>3, <2>1, <2>3, <2>4 DEF CallsPaid
<1>5. ControlOK' /\ RepliedAtTheEnd'
  BY DEF ControlOK, RepliedAtTheEnd
<1>. QED
  BY <1>1, <1>4, <1>5 DEF IInv, Sound

\* Popping a frame.
LEMMA PopKeeps ==
    ASSUME IInv, frames # <<>>, reply = NONE, UNCHANGED <<call, mem, reply>>,
           frames' = Front(frames), ControlOK', mem.refused => Failing'
    PROVE  IInv'
<1>1. FramesOK'
  <2>1. /\ IsStack(frames') /\ Len(frames) \in Nat \ {0}
        /\ DOMAIN frames = 1 .. Len(frames) /\ DOMAIN frames' = 1 .. Len(frames) - 1
        /\ \A i \in 1 .. Len(frames) - 1 : frames'[i] = frames[i]
    BY Popped DEF IInv, FramesOK
  <2>2. \A i \in DOMAIN frames' : i \in DOMAIN frames /\ frames'[i] = frames[i]
    BY <2>1
  <2>. QED
    BY <2>1, <2>2 DEF IInv, FramesOK
<1>2. PICK n \in Nat : Len(frames) = n + 1 /\ Len(frames') = n
  <2>1. Len(frames) \in Nat \ {0} /\ Len(frames') = Len(frames) - 1
    BY Popped DEF IInv, FramesOK
  <2>. QED
    BY <2>1
<1>3. Calls' <= n + 1 /\ n + 1 <= Calls /\ Calls \in Nat /\ Calls' \in Nat
  BY <1>2 DEF Calls
<1>4. CallsPaid'
  BY <1>3 DEF IInv, CallsPaid, IsMemory
<1>5. RepliedAtTheEnd'
  BY DEF RepliedAtTheEnd
<1>. QED
  BY <1>1, <1>4, <1>5 DEF IInv

\* Going on to the next argument or body form.
LEMMA ReplaceKeeps ==
    ASSUME IInv, ~ mem.refused, frames # <<>>, reply = NONE, UNCHANGED <<call, mem, reply>>,
           NEW x, frames' = ReplaceTop(x), x.kind = Top.kind, x.kind = "args" => x.fn \in Functions,
           control'.step = "eval"
    PROVE  IInv'
<1>1. /\ IsStack(Front(frames))
      /\ \A i \in DOMAIN Front(frames) : i \in DOMAIN frames /\ Front(frames)[i] = frames[i]
  BY Popped DEF IInv, FramesOK
<1>2. x.kind \in {"args", "body"}
  BY Popped DEF IInv, FramesOK, Top, Last
<1>3. FramesOK'
  BY <1>1, <1>2, Pushed DEF IInv, FramesOK, ReplaceTop
<1>4. PICK n \in Nat : n = Len(frames) /\ Len(frames') = n
  <2>1. Len(frames) \in Nat \ {0} /\ Len(Front(frames)) = Len(frames) - 1
    BY Popped DEF IInv, FramesOK
  <2>2. Len(Append(Front(frames), x)) = Len(Front(frames)) + 1
    BY <1>1, Pushed
  <2>. QED
    BY <2>1, <2>2 DEF ReplaceTop
<1>5. Calls' = n /\ n <= Calls /\ Calls \in Nat
  BY <1>4 DEF Calls
<1>6. 2 * Calls + mem.free["narray"] <= call.budget["narray"]
      /\ mem.free["narray"] \in Int /\ call.budget["narray"] \in Int
  BY DEF IInv, CallsPaid, IsMemory
<1>7. CallsPaid'
  <2>1. 2 * n + mem.free["narray"] <= call.budget["narray"]
    BY <1>5, <1>6
  <2>. QED
    BY <1>5, <2>1 DEF CallsPaid
<1>8. ControlOK' /\ RepliedAtTheEnd'
  BY DEF ControlOK, RepliedAtTheEnd
<1>. QED
  BY <1>3, <1>7, <1>8 DEF IInv

\* call_lambda: refusing, binding, and entering the body.
LEMMA CallLambdaKeeps ==
    ASSUME IInv, reply = NONE, control.step = "apply", UNCHANGED <<call, reply>>,
           NEW lambda, NEW args, NEW m, Sound(m, mem.free["narray"]), CallLambda(lambda, args, m)
    PROVE  IInv'
<1>. PICK limit \in Int : limit = mem.free["narray"]
  BY DEF IInv, IsMemory
<1>1. CASE ~ IsLambda(lambda, args)
  BY <1>1, FailsHonest, ContinueKeeps DEF CallLambda
<1>2. CASE IsLambda(lambda, args)
  <2>. DEFINE params == lambda.items[2].items
              body == SubSeq(lambda.items, 3, Len(lambda.items))
  <2>1. PICK n : LET bound == variable_stack \o [i \in 1 .. n |-> Binding(params[i].name, args[i])]
             IN  IF n < Len(args)
                 THEN /\ variable_stack' = bound
                      /\ Continue(IF params[n + 1].type = "symbol" THEN Refused(EvaluationError, m)
                                  ELSE EvaluationFails(m))
                 ELSE IF body = <<>>
                 THEN Continue(Result(LispNil, m)) /\ UNCHANGED variable_stack
                 ELSE /\ variable_stack' = bound
                      /\ frames' = Append(frames, BodyFrame(Tail(body), Len(variable_stack)))
                      /\ control' = Eval(Head(body))
                      /\ mem' = m
    BY <1>2 DEF CallLambda
  <2>. HIDE DEF params, body
  <2>2. CASE n < Len(args)
    <3>1. Honest(IF params[n + 1].type = "symbol" THEN Refused(EvaluationError, m)
                 ELSE EvaluationFails(m), limit)
      BY FailsHonest, RefusedIsHonest, ErrorsAreErrors DEF EvaluationError
    <3>. QED
      BY <2>1, <2>2, <3>1, ContinueKeeps
  <2>3. CASE ~ (n < Len(args)) /\ body = <<>>
    BY <2>1, <2>3, ResultIsHonest, ContinueKeeps
  <2>4. CASE ~ (n < Len(args)) /\ body # <<>>
    <3>. PICK x : x = BodyFrame(Tail(body), Len(variable_stack))
      OBVIOUS
    <3>1. x.kind = "body" /\ frames' = Append(frames, x) /\ control'.step = "eval" /\ mem' = m
      BY <2>1, <2>4 DEF BodyFrame, Eval
    <3>. QED
      BY <3>1, PushKeeps
  <2>. QED
    BY <2>2, <2>3, <2>4
<1>. QED
  BY <1>1, <1>2

\* Every step of the evaluator keeps the invariant.
LEMMA StepKeeps == IInv /\ [Next]_vars => IInv'
<1>. SUFFICES ASSUME IInv, [Next]_vars PROVE IInv'
  OBVIOUS
<1>. PICK limit \in Int : limit = mem.free["narray"]
  BY DEF IInv, IsMemory
<1>a. ASSUME control.step # "return" PROVE reply = NONE /\ ~ mem.refused /\ Sound(mem, limit)
  BY <1>a DEF IInv, RepliedAtTheEnd, Failing, Sound, IsMemory
<1>b. ASSUME frames # <<>> PROVE reply = NONE
  BY <1>b DEF IInv, RepliedAtTheEnd
<1>1. CASE EvalSelf
  <2>1. PICK r : r = Result(control.obj, mem)
    OBVIOUS
  <2>2. Honest(r, limit) /\ Continue(r) /\ UNCHANGED <<call, reply>> /\ reply = NONE
    BY <1>1, <1>a, <2>1, ResultIsHonest DEF EvalSelf, Evaluating, Continue, Result
  <2>. QED
    BY <2>2, ContinueKeeps
<1>2. CASE EvalSymbol
  <2>1. PICK r : r = IF control.obj.name \in Keywords THEN Result(control.obj, mem)
                     ELSE ValueOf(control.obj.name, variable_stack, mem)
    OBVIOUS
  <2>2. Honest(r, limit) /\ reply = NONE
    BY <1>2, <1>a, <2>1, ResultIsHonest, ValueOfHonest DEF EvalSymbol, Evaluating
  <2>3. Continue(r) /\ UNCHANGED <<call, reply>>
    BY <1>2, <2>1 DEF EvalSymbol
  <2>. QED
    BY <2>2, <2>3, ContinueKeeps
<1>3. CASE EvalSpecial
  <2>1. PICK v : control' = Return(v)
    BY <1>3 DEF EvalSpecial
  <2>2. PICK r : r = Result(v, mem)
    OBVIOUS
  <2>3. Honest(r, limit) /\ Continue(r) /\ UNCHANGED <<call, reply>> /\ reply = NONE
    BY <1>3, <1>a, <2>1, <2>2, ResultIsHonest DEF EvalSpecial, Evaluating, Continue, Result
  <2>. QED
    BY <2>3, ContinueKeeps
<1>4. CASE EvalCall
  <2>1. PICK f, todo, room :
            f = Items[1].name /\ todo = Tail(Items) /\ room = MakeArgs(mem, todo)
    OBVIOUS
  <2>2. /\ mem' = room.mem
        /\ IF IsError(room.val)
           THEN control' = Return(room.val) /\ UNCHANGED frames
           ELSE IF todo = <<>>
           THEN control' = Apply(f, <<>>) /\ UNCHANGED frames
           ELSE /\ control' = Eval(Head(todo))
                /\ frames' = Append(frames, ArgsFrame(f, Tail(todo), <<>>))
        /\ UNCHANGED <<call, variable_stack, reply>>
    BY <1>4, <2>1 DEF EvalCall
  <2>3. Honest(room, limit) /\ (~ IsError(room.val) => Sound(room.mem, limit - 2))
    BY <1>4, <1>a, <2>1, MakeArgsPays DEF EvalCall, Evaluating
  <2>4. reply = NONE
    BY <1>4, <1>a DEF EvalCall, Evaluating
  <2>5. f \in Functions
    BY <1>4, <2>1 DEF EvalCall, IsFunctionCall, HeadIs, LispSymbol
  <2>6. CASE IsError(room.val)
    BY <2>2, <2>3, <2>4, <2>6, ContinueKeeps DEF Continue
  <2>7. CASE ~ IsError(room.val) /\ todo = <<>>
    <3>1. control.step = "eval" /\ frames' = frames /\ control'.step = "apply"
      BY <1>4, <2>2, <2>7 DEF EvalCall, Evaluating, Apply
    <3>2. PICK n \in Nat : n = Calls /\ Calls' = n + 1
      BY <3>1, CallsCounted DEF IInv, Calls
    <3>3. IsMemory(mem') /\ ~ mem'.refused /\ mem'.free["narray"] <= limit - 2
      BY <2>2, <2>3, <2>7 DEF Sound
    <3>4. CallsPaid'
      BY <2>2, <3>2, <3>3 DEF IInv, CallsPaid, IsMemory
    <3>5. FramesOK' /\ ControlOK' /\ RepliedAtTheEnd'
      BY <2>2, <2>4, <2>5, <2>7 DEF IInv, FramesOK, ControlOK, RepliedAtTheEnd, Apply
    <3>. QED
      BY <2>2, <3>3, <3>4, <3>5 DEF IInv
  <2>8. CASE ~ IsError(room.val) /\ todo # <<>>
    <3>1. PICK x : x = ArgsFrame(f, Tail(todo), <<>>)
      OBVIOUS
    <3>2. x.kind = "args" /\ x.fn = f /\ frames' = Append(frames, x) /\ control'.step = "eval"
      BY <2>2, <2>8, <3>1 DEF ArgsFrame, Eval
    <3>3. Sound(mem', limit - 2)
      BY <2>2, <2>3, <2>8
    <3>. QED
      BY <2>2, <2>4, <2>5, <3>2, <3>3, PushKeeps
  <2>. QED
    BY <2>6, <2>7, <2>8
<1>5. CASE ReturnToArgs
  <2>1. frames # <<>> /\ reply = NONE /\ control.step = "return" /\ Top.kind = "args"
        /\ UNCHANGED <<call, mem, reply>>
    BY <1>5, <1>b DEF ReturnToArgs, Returning
  <2>2. Top.fn \in Functions
    BY <2>1, Popped DEF IInv, FramesOK, Top, Last
  <2>3. CASE IsError(control.obj)
    BY <1>5, <2>1, <2>3, PopKeeps DEF ReturnToArgs, IInv, ControlOK, Failing
  <2>4. CASE ~ IsError(control.obj) /\ Top.todo = <<>>
    <3>1. frames' = Front(frames) /\ ControlOK'
      BY <1>5, <2>2, <2>4 DEF ReturnToArgs, ControlOK, Apply
    <3>2. ~ mem.refused
      BY <2>4 DEF IInv, Failing
    <3>. QED
      BY <2>1, <3>1, <3>2, PopKeeps
  <2>5. CASE ~ IsError(control.obj) /\ Top.todo # <<>>
    <3>1. PICK x : x = ArgsFrame(Top.fn, Tail(Top.todo), Append(Top.done, control.obj))
      OBVIOUS
    <3>2. x.kind = "args" /\ x.fn = Top.fn /\ frames' = ReplaceTop(x) /\ control'.step = "eval"
      BY <1>5, <2>5, <3>1 DEF ReturnToArgs, ArgsFrame, Eval
    <3>3. ~ mem.refused
      BY <2>5 DEF IInv, Failing
    <3>. QED
      BY <2>1, <2>2, <3>2, <3>3, ReplaceKeeps
  <2>. QED
    BY <2>3, <2>4, <2>5
<1>6. CASE ReturnToBody
  <2>1. frames # <<>> /\ reply = NONE /\ control.step = "return" /\ Top.kind = "body"
        /\ UNCHANGED <<call, mem, reply>>
    BY <1>6, <1>b DEF ReturnToBody, Returning
  <2>2. CASE IsError(control.obj) \/ Top.todo = <<>>
    <3>1. frames' = Front(frames) /\ control' = control
      BY <1>6, <2>2 DEF ReturnToBody
    <3>. QED
      BY <2>1, <3>1, PopKeeps DEF IInv, ControlOK, Failing
  <2>3. CASE ~ (IsError(control.obj) \/ Top.todo = <<>>)
    <3>1. PICK x : x = BodyFrame(Tail(Top.todo), Top.saved)
      OBVIOUS
    <3>2. x.kind = "body" /\ frames' = ReplaceTop(x) /\ control'.step = "eval"
      BY <1>6, <2>3, <3>1 DEF ReturnToBody, BodyFrame, Eval
    <3>3. ~ mem.refused
      BY <2>3 DEF IInv, Failing
    <3>. QED
      BY <2>1, <3>2, <3>3, ReplaceKeeps
  <2>. QED
    BY <2>2, <2>3
<1>7. CASE ApplySimple
  <2>1. PICK r : r = CallSimple(control.fn, control.args, variable_stack, mem)
    OBVIOUS
  <2>2. control.fn \in SimpleFunctions
    BY <1>7 DEF ApplySimple, IInv, ControlOK, Functions
  <2>3. Honest(r, limit) /\ reply = NONE
    BY <1>7, <1>a, <2>1, <2>2, CallSimpleHonest DEF ApplySimple
  <2>4. Continue(r) /\ UNCHANGED <<call, reply>>
    BY <1>7, <2>1 DEF ApplySimple
  <2>. QED
    BY <2>3, <2>4, ContinueKeeps
<1>8. CASE ApplyDate
  <2>1. PICK date, pp_function :
            /\ date = DateList(control.fn, control.args, mem)
            /\ IF IsError(date.val)
               THEN Continue(date) /\ UNCHANGED variable_stack
               ELSE IF pp_function = LispNil
               THEN Continue(DefaultDate(date.val, date.mem)) /\ UNCHANGED variable_stack
               ELSE \E list \in {LambdaArgs(control.fn, control.args, date.val, date.mem)} :
                        IF IsError(list.val)
                        THEN Continue(list) /\ UNCHANGED variable_stack
                        ELSE CallLambda(pp_function, list.val.items, list.mem)
    BY <1>8 DEF ApplyDate
  <2>2. Honest(date, limit) /\ reply = NONE /\ control.step = "apply" /\ UNCHANGED <<call, reply>>
    BY <1>8, <1>a, <2>1, DateListHonest DEF ApplyDate
  <2>3. CASE IsError(date.val)
    BY <2>1, <2>2, <2>3, ContinueKeeps
  <2>4. CASE ~ IsError(date.val) /\ pp_function = LispNil
    <3>1. PICK r : r = DefaultDate(date.val, date.mem)
      OBVIOUS
    <3>2. Honest(r, limit) /\ Continue(r)
      BY <2>1, <2>2, <2>4, <3>1, SucceededIsSound, DefaultDateHonest
    <3>. QED
      BY <2>2, <3>2, ContinueKeeps
  <2>5. CASE ~ IsError(date.val) /\ pp_function # LispNil
    <3>1. PICK list : /\ list = LambdaArgs(control.fn, control.args, date.val, date.mem)
                      /\ IF IsError(list.val)
                         THEN Continue(list) /\ UNCHANGED variable_stack
                         ELSE CallLambda(pp_function, list.val.items, list.mem)
      BY <2>1, <2>5
    <3>2. Honest(list, limit)
      BY <2>2, <2>5, <3>1, SucceededIsSound, LambdaArgsHonest
    <3>3. CASE IsError(list.val)
      BY <2>2, <3>1, <3>2, <3>3, ContinueKeeps
    <3>4. CASE ~ IsError(list.val)
      BY <2>2, <3>1, <3>2, <3>4, SucceededIsSound, CallLambdaKeeps
    <3>. QED
      BY <3>3, <3>4
  <2>. QED
    BY <2>3, <2>4, <2>5
<1>9. CASE Finish
  <2>1. Failing => Reply(control.obj).dest = <<>> /\ Reply(control.obj).code # "OK"
    BY DEF Reply, Exit, Failing, IsError
  <2>2. UNCHANGED <<call, control, frames, variable_stack, mem>> /\ reply' = Reply(control.obj)
    BY <1>9 DEF Finish
  <2>3. RepliedAtTheEnd'
    BY <1>9, <2>1, <2>2 DEF RepliedAtTheEnd, Finish, Failing
  <2>5. CallsPaid'
    BY <2>2 DEF IInv, CallsPaid, Calls
  <2>. QED
    BY <2>2, <2>3, <2>5 DEF IInv, FramesOK, ControlOK, Failing
<1>10. CASE UNCHANGED vars
  <2>1. UNCHANGED <<call, control, frames, mem, reply>>
    BY <1>10 DEF vars
  <2>. QED
    BY <2>1 DEF IInv, FramesOK, ControlOK, Failing, RepliedAtTheEnd, CallsPaid, Calls
<1>. QED
  BY <1>1, <1>2, <1>3, <1>4, <1>5, <1>6, <1>7, <1>8, <1>9, <1>10 DEF Next

\* The evaluator keeps its invariant whatever the program and the memory.
THEOREM InvariantHolds == Spec => []IInv
  BY Establish, StepKeeps, PTL DEF Spec

\* The C stack is bounded by the node pool: eval_args takes two nodes before it
\* evaluates an argument, call_lambda is called by a function whose eval_args has
\* taken two and waits no more, and no function gives nodes back.
THEOREM EveryCallIsPaidFor == Spec => []CallsArePaidFor
<1>1. IInv => CallsArePaidFor
  BY CallsCounted DEF IInv, CallsPaid, CallsArePaidFor, IsMemory
<1>. QED
  BY <1>1, InvariantHolds, PTL

\* A refused allocation makes eval_expr return an error, and mlisj_eval leave
\* dest alone: every function checks what it allocates.
THEOREM RefusalsAreErrors == Spec => []ExhaustionIsAnError
<1>1. IInv => ExhaustionIsAnError
  BY DEF IInv, ExhaustionIsAnError, RepliedAtTheEnd, NONE
<1>. QED
  BY <1>1, InvariantHolds, PTL

\* What a step does while an error is on its way out.
LEMMA ErrorStep ==
    ASSUME IInv, Next, Failing
    PROVE  /\ UNCHANGED <<control, mem>>
           /\ frames' = IF frames = <<>> THEN <<>> ELSE Front(frames)
           /\ reply'.dest = <<>>
<1>1. control.step = "return" /\ IsError(control.obj)
  BY DEF Failing
<1>2. frames # <<>> => reply.dest = <<>>
  BY DEF IInv, RepliedAtTheEnd, NONE
<1>3. ReturnToArgs \/ ReturnToBody \/ Finish
  BY <1>1 DEF Next, EvalSelf, EvalSymbol, EvalSpecial, EvalCall, ApplySimple, ApplyDate, Evaluating
<1>4. CASE ReturnToArgs \/ ReturnToBody
  BY <1>1, <1>2, <1>4 DEF ReturnToArgs, ReturnToBody, Returning
<1>5. CASE Finish
  BY <1>1, <1>5 DEF Finish, Reply, Exit, IsError
<1>. QED
  BY <1>3, <1>4, <1>5

\* From the first error on, the evaluator does nothing but return it.
THEOREM ErrorsFallThrough == Spec => ErrorsReturnImmediately
<1>1. IInv /\ [Next]_vars
      => [Failing => /\ UNCHANGED <<control, mem>>
                     /\ frames' = IF frames = <<>> THEN <<>> ELSE Front(frames)
                     /\ reply'.dest = <<>>]_vars
  BY ErrorStep
<1>. QED
  BY <1>1, InvariantHolds, PTL DEF Spec, ErrorsReturnImmediately
-----------------------------------------------------------------------------
(* Bindings                                                                  *)

\* The lambdas running below a frame.
Below(s, i) == {j \in OfKind(s, "body") : j < i}

\* A stack of so many bindings belongs to the lambdas running: four for each.
BindingsNest(s, length) ==
    /\ \A i \in OfKind(s, "body") : s[i].saved = Len(Globals) + 4 * Cardinality(Below(s, i))
    /\ length = Len(Globals) + 4 * Cardinality(OfKind(s, "body"))

\* The built-in variables are a stack of five.
LEMMA GlobalsAreFive == IsStack(Globals) /\ Len(Globals) = 5
<1>1. PICK a, b, c, d, e : Globals = <<a, b, c, d, e>>
  BY DEF Globals
<1>2. <<a, b, c, d, e>> \in Seq({a, b, c, d, e}) /\ Len(<<a, b, c, d, e>>) = 5
  OBVIOUS
<1>. QED
  BY <1>1, <1>2 DEF IsStack

\* Stacks with the same k lowest elements have the same prefix.
LEMMA SamePrefix ==
    ASSUME NEW v, NEW w, IsStack(v), IsStack(w), NEW k \in Nat, k <= Len(v), k <= Len(w),
           \A i \in 1 .. k : v[i] = w[i]
    PROVE  SubSeq(v, 1, k) = SubSeq(w, 1, k)
<1>1. PICK V, W : v \in Seq(V) /\ w \in Seq(W)
  BY DEF IsStack
<1>2. \A i \in 1 .. k : v[i] \in V \cup W /\ w[i] \in V \cup W
  BY <1>1
<1>3. /\ SubSeq(v, 1, k) \in Seq(V \cup W)
      /\ Len(SubSeq(v, 1, k)) = IF 1 <= k THEN k - 1 + 1 ELSE 0
      /\ \A i \in 1 .. k - 1 + 1 : SubSeq(v, 1, k)[i] = v[1 + i - 1]
  BY <1>2, SubSeqProperties
<1>4. /\ SubSeq(w, 1, k) \in Seq(V \cup W)
      /\ Len(SubSeq(w, 1, k)) = IF 1 <= k THEN k - 1 + 1 ELSE 0
      /\ \A i \in 1 .. k - 1 + 1 : SubSeq(w, 1, k)[i] = w[1 + i - 1]
  BY <1>2, SubSeqProperties
<1>. QED
  BY <1>3, <1>4, SeqEqual

\* What SubSeq does to a stack.
LEMMA Shortened ==
    ASSUME NEW v, IsStack(v), NEW k \in 0 .. Len(v)
    PROVE  /\ IsStack(SubSeq(v, 1, k)) /\ Len(SubSeq(v, 1, k)) = k
           /\ \A i \in 1 .. k : SubSeq(v, 1, k)[i] = v[i]
<1>1. PICK V : v \in Seq(V)
  BY DEF IsStack
<1>2. k \in Nat /\ \A i \in 1 .. k : v[i] \in V
  BY <1>1
<1>3. /\ SubSeq(v, 1, k) \in Seq(V)
      /\ Len(SubSeq(v, 1, k)) = IF 1 <= k THEN k - 1 + 1 ELSE 0
      /\ \A i \in 1 .. k - 1 + 1 : SubSeq(v, 1, k)[i] = v[1 + i - 1]
  BY <1>2, SubSeqProperties
<1>. QED
  BY <1>2, <1>3 DEF IsStack

\* What concatenation does to a stack.
LEMMA Extended ==
    ASSUME NEW v, IsStack(v), NEW w, IsStack(w)
    PROVE  /\ IsStack(v \o w) /\ Len(v \o w) = Len(v) + Len(w)
           /\ \A i \in 1 .. Len(v) : (v \o w)[i] = v[i]
           /\ Len(v) \in Nat /\ Len(w) \in Nat
<1>1. PICK V, W : v \in Seq(V) /\ w \in Seq(W)
  BY DEF IsStack
<1>2. PICK U : U = V \cup W
  OBVIOUS
<1>3. v \in Seq(U) /\ w \in Seq(U)
  BY <1>1, <1>2
<1>. QED
  BY <1>3, ConcatProperties DEF IsStack

\* Pushing a frame; a lambda's frame comes with four bindings.
LEMMA PushNests ==
    ASSUME NEW s, IsStack(s), NEW length, BindingsNest(s, length), NEW x
    PROVE  /\ x.kind # "body" => BindingsNest(Append(s, x), length)
           /\ x.kind = "body" /\ x.saved = length => BindingsNest(Append(s, x), length + 4)
<1>1. \A i \in 1 .. Len(s) : Below(Append(s, x), i) = Below(s, i)
  BY Pushed DEF Below, OfKind
<1>2. Below(Append(s, x), Len(s) + 1) = OfKind(s, "body")
  BY Pushed DEF Below, OfKind
<1>3. Cardinality(OfKind(Append(s, x), "body"))
          = Cardinality(OfKind(s, "body")) + (IF x.kind = "body" THEN 1 ELSE 0)
  BY PushedKinds
<1>4. Cardinality(OfKind(s, "body")) \in Nat
  BY StackFinite
<1>5. length \in Int /\ length = Len(Globals) + 4 * Cardinality(OfKind(s, "body"))
  BY <1>4, GlobalsAreFive DEF BindingsNest
<1>6. x.kind # "body" => OfKind(Append(s, x), "body") = OfKind(s, "body")
  BY Pushed DEF OfKind
<1>7. x.kind = "body" => OfKind(Append(s, x), "body") = OfKind(s, "body") \cup {Len(s) + 1}
  BY Pushed DEF OfKind
<1>8. OfKind(s, "body") \subseteq 1 .. Len(s)
  BY Pushed DEF OfKind
<1>9. \A i \in OfKind(s, "body") :
          Append(s, x)[i].saved = Len(Globals) + 4 * Cardinality(Below(Append(s, x), i))
  BY <1>1, <1>8, Pushed DEF BindingsNest
<1>10. CASE x.kind # "body"
  BY <1>3, <1>4, <1>5, <1>6, <1>9, <1>10 DEF BindingsNest
<1>11. CASE x.kind = "body" /\ x.saved = length
  <2>1. Append(s, x)[Len(s) + 1].saved = Len(Globals) + 4 * Cardinality(Below(Append(s, x), Len(s) + 1))
    BY <1>2, <1>5, <1>11, Pushed
  <2>2. length + 4 = Len(Globals) + 4 * Cardinality(OfKind(Append(s, x), "body"))
    BY <1>3, <1>4, <1>5, <1>11, GlobalsAreFive
  <2>. QED
    BY <1>7, <1>9, <1>11, <2>1, <2>2 DEF BindingsNest
<1>. QED
  BY <1>10, <1>11

\* Popping a frame; a lambda's frame goes with its four bindings.
LEMMA PopNests ==
    ASSUME NEW s, IsStack(s), s # <<>>, NEW length, BindingsNest(s, length)
    PROVE  /\ Last(s).kind # "body" => BindingsNest(Front(s), length)
           /\ Last(s).kind = "body" =>
                /\ BindingsNest(Front(s), Last(s).saved)
                /\ length = Last(s).saved + 4
                /\ Last(s).saved \in Int /\ Len(Globals) <= Last(s).saved
<1>1. \A i \in 1 .. Len(s) - 1 : Below(Front(s), i) = Below(s, i)
  <2>1. PICK n \in Nat : n = Len(s) - 1 /\ DOMAIN s = 1 .. n + 1 /\ DOMAIN Front(s) = 1 .. n
    BY Popped
  <2>2. \A j \in 1 .. n : Front(s)[j] = s[j]
    BY <2>1, Popped
  <2>. QED
    BY <2>1, <2>2 DEF Below, OfKind
<1>2. Below(s, Len(s)) = OfKind(Front(s), "body")
  BY Popped, SMTT(60) DEF Below, OfKind
<1>3. Cardinality(OfKind(Front(s), "body"))
          = Cardinality(OfKind(s, "body")) - (IF Last(s).kind = "body" THEN 1 ELSE 0)
  BY PoppedKinds
<1>4. Cardinality(OfKind(s, "body")) \in Nat /\ Cardinality(OfKind(Front(s), "body")) \in Nat
  BY StackFinite, Popped
<1>5. \A i \in OfKind(Front(s), "body") :
          i \in OfKind(s, "body") /\ i \in 1 .. Len(s) - 1 /\ Front(s)[i] = s[i]
  BY Popped DEF OfKind
<1>6. \A i \in OfKind(Front(s), "body") :
          Front(s)[i].saved = Len(Globals) + 4 * Cardinality(Below(Front(s), i))
  BY <1>1, <1>5 DEF BindingsNest
<1>7. CASE Last(s).kind # "body"
  BY <1>3, <1>4, <1>6, <1>7 DEF BindingsNest
<1>8. CASE Last(s).kind = "body"
  <2>1. Len(s) \in OfKind(s, "body")
    BY <1>8, Popped DEF OfKind, Last
  <2>2. Last(s).saved = Len(Globals) + 4 * Cardinality(OfKind(Front(s), "body"))
    BY <1>2, <2>1 DEF BindingsNest, Last
  <2>. QED
    BY <1>3, <1>4, <1>6, <1>8, <2>2, GlobalsAreFive DEF BindingsNest
<1>. QED
  BY <1>7, <1>8

\* The date functions call pp_function with four arguments.
LEMMA FourArguments ==
    ASSUME NEW f, NEW args, NEW date, NEW m, ~ IsError(LambdaArgs(f, args, date, m).val)
    PROVE  Len(LambdaArgs(f, args, date, m).val.items) = 4
<1>1. PICK xs : LambdaArgs(f, args, date, m) = NewList(m, xs, MemoryError) /\ Len(xs) = 4
  BY DEF LambdaArgs
<1>2. NewList(m, xs, MemoryError).val = LispCList(xs)
  BY <1>1, ErrorsAreErrors DEF NewList, Refused, Result, MemoryError
<1>. QED
  BY <1>1, <1>2 DEF LispCList

\* call_lambda binds the parameters before the first that is no symbol, and no more
\* of the four than the stack has room for.
LEMMA BindableBound ==
    ASSUME NEW params, NEW args, Len(args) = 4, Len(variable_stack) \in Nat,
           Len(variable_stack) <= VARIABLE_STACK_SIZE
    PROVE  LET n == Bindable(params, args)
           IN  /\ n \in 0 .. 4 /\ Len(variable_stack) + n <= VARIABLE_STACK_SIZE
               /\ \A i \in 1 .. n : params[i].type = "symbol"
<1>. PICK S : S = {n \in 0 .. Len(args) : /\ \A i \in 1 .. n : params[i].type = "symbol"
                                          /\ Len(variable_stack) + n <= VARIABLE_STACK_SIZE}
  OBVIOUS
<1>1. S \in SUBSET (0 .. 4) /\ S # {}
  <2>1. 0 \in S
    BY GlobalsFit
  <2>. QED
    BY <2>1
<1>2. \E x \in S : \A y \in S : x >= y
  BY <1>1, Greatest
<1>3. Bindable(params, args) \in S
  BY <1>2 DEF Bindable, Max
<1>. QED
  BY <1>3

-----------------------------------------------------------------------------
(* The machine's bindings                                                    *)

\* What holds of the bindings while no error is on its way out.
BindingsOK ==
    /\ IsStack(variable_stack)
    /\ Len(variable_stack) <= VARIABLE_STACK_SIZE
    /\ SubSeq(variable_stack, 1, Len(Globals)) = Globals
    /\ BindingsNest(frames, Len(variable_stack))

\* call_lambda keeps the bindings nested unless it fails.
LEMMA LambdaStep ==
    ASSUME IInv, BindingsOK, NEW lambda, NEW args, Len(args) = 4, NEW m,
           CallLambda(lambda, args, m), ~ Failing'
    PROVE  BindingsOK'
<1>1. CASE ~ IsLambda(lambda, args)
  BY <1>1, ErrorsAreErrors
     DEF CallLambda, Continue, EvaluationFails, Result, EvaluationError, Failing, Return
<1>2. CASE IsLambda(lambda, args)
  <2>. DEFINE params == lambda.items[2].items
              body == SubSeq(lambda.items, 3, Len(lambda.items))
              Bound(n) == [i \in 1 .. n |-> Binding(params[i].name, args[i])]
  <2>1. PICK n : /\ n = Bindable(params, args)
                 /\ IF n < Len(args)
                    THEN /\ variable_stack' = variable_stack \o Bound(n)
                         /\ Continue(IF params[n + 1].type = "symbol" THEN Refused(EvaluationError, m)
                                     ELSE EvaluationFails(m))
                    ELSE IF body = <<>>
                    THEN Continue(Result(LispNil, m)) /\ UNCHANGED variable_stack
                    ELSE /\ variable_stack' = variable_stack \o Bound(n)
                         /\ frames' = Append(frames, BodyFrame(Tail(body), Len(variable_stack)))
                         /\ control' = Eval(Head(body))
                         /\ mem' = m
    BY <1>2 DEF CallLambda
  <2>2. Len(variable_stack) \in Nat /\ Len(Globals) <= Len(variable_stack) /\ Len(Globals) = 5
    BY StackFinite, GlobalsAreFive DEF IInv, FramesOK, BindingsOK, BindingsNest
  <2>3. n \in 0 .. 4 /\ Len(variable_stack) + n <= VARIABLE_STACK_SIZE
    BY <2>1, <2>2, BindableBound DEF BindingsOK
  <2>4. CASE n < Len(args)
    BY <2>1, <2>4, ErrorsAreErrors
       DEF Continue, EvaluationFails, Result, Refused, EvaluationError, Failing, Return
  <2>5. CASE ~ (n < Len(args)) /\ body = <<>>
    BY <2>1, <2>5 DEF Continue, BindingsOK
  <2>6. CASE ~ (n < Len(args)) /\ body # <<>>
    <3>1. n = 4
      BY <2>3, <2>6
    <3>2. PICK bound : bound = Bound(4) /\ variable_stack' = variable_stack \o bound
      BY <2>1, <2>6, <3>1
    <3>3. IsStack(bound) /\ Len(bound) = 4
      <4>1. PICK V : V = {bound[i] : i \in 1 .. 4}
        OBVIOUS
      <4>2. bound \in [1 .. 4 -> V]
        BY <3>2, <4>1
      <4>3. bound \in Seq(V)
        BY <4>2, SeqDef
      <4>4. DOMAIN bound = 1 .. 4 /\ DOMAIN bound = 1 .. Len(bound) /\ Len(bound) \in Nat
        BY <4>2, <4>3, LenProperties
      <4>. QED
        BY <4>3, <4>4 DEF IsStack
    <3>4. /\ IsStack(variable_stack \o bound) /\ Len(variable_stack \o bound) = Len(variable_stack) + 4
          /\ \A i \in 1 .. Len(variable_stack) : (variable_stack \o bound)[i] = variable_stack[i]
      <4>1. PICK w : w = variable_stack /\ IsStack(w)
        BY DEF BindingsOK
      <4>2. /\ IsStack(w \o bound) /\ Len(w \o bound) = Len(w) + Len(bound)
            /\ \A i \in 1 .. Len(w) : (w \o bound)[i] = w[i]
        BY <3>3, <4>1, Extended
      <4>. QED
        BY <3>3, <4>1, <4>2
    <3>5. SubSeq(variable_stack \o bound, 1, Len(Globals)) = Globals
      <4>1. SubSeq(variable_stack \o bound, 1, 5) = SubSeq(variable_stack, 1, 5)
        BY <2>2, <3>4, SamePrefix DEF BindingsOK
      <4>. QED
        BY <2>2, <4>1 DEF BindingsOK
    <3>6. BindingsNest(frames', Len(variable_stack'))
      <4>. PICK x : x = BodyFrame(Tail(body), Len(variable_stack))
        OBVIOUS
      <4>1. x.kind = "body" /\ x.saved = Len(variable_stack) /\ frames' = Append(frames, x)
        BY <2>1, <2>6 DEF BodyFrame
      <4>2. BindingsNest(Append(frames, x), Len(variable_stack) + 4)
        BY <4>1, PushNests DEF IInv, FramesOK, BindingsOK
      <4>. QED
        BY <3>2, <3>4, <4>1, <4>2
    <3>7. Len(variable_stack') <= VARIABLE_STACK_SIZE
      BY <2>3, <3>1, <3>2, <3>4
    <3>8. Len(Globals)' = Len(Globals) /\ Globals' = Globals
      BY DEF Globals
    <3>. QED
      BY <3>2, <3>4, <3>5, <3>6, <3>7, <3>8 DEF BindingsOK, BindingsNest
  <2>. QED
    BY <2>4, <2>5, <2>6
<1>. QED
  BY <1>1, <1>2

\* Every step keeps the bindings nested unless an error is on its way out.
LEMMA BindingsStep ==
    ASSUME IInv, [Next]_vars, ~ Failing => BindingsOK, ~ Failing'
    PROVE  BindingsOK'
<1>. DEFINE Same == frames' = frames /\ variable_stack' = variable_stack
<1>1. CASE UNCHANGED vars
  BY <1>1 DEF vars, Failing, BindingsOK
<1>. SUFFICES ASSUME Next PROVE BindingsOK'
  BY <1>1
<1>2. ~ Failing /\ BindingsOK
  BY ErrorStep DEF Failing
<1>3. IsStack(frames)
  BY DEF IInv, FramesOK
<1>4. ASSUME Same PROVE BindingsOK'
  BY <1>2, <1>4 DEF BindingsOK
<1>5. ASSUME UNCHANGED variable_stack, NEW x, x.kind = "args", frames' = Append(frames, x)
      PROVE  BindingsOK'
  BY <1>2, <1>3, <1>5, PushNests DEF BindingsOK
<1>6. CASE EvalSelf \/ EvalSymbol \/ EvalSpecial \/ ApplySimple \/ Finish
  BY <1>4, <1>6 DEF EvalSelf, EvalSymbol, EvalSpecial, ApplySimple, Finish, Continue
<1>7. CASE EvalCall
  <2>1. UNCHANGED variable_stack
    BY <1>7 DEF EvalCall
  <2>2. CASE frames' = frames
    BY <1>4, <2>1, <2>2
  <2>3. CASE frames' # frames
    <3>1. PICK x : x = ArgsFrame(Items[1].name, Tail(Tail(Items)), <<>>)
      OBVIOUS
    <3>2. frames' = Append(frames, x) /\ x.kind = "args"
      BY <1>7, <2>3, <3>1 DEF EvalCall, ArgsFrame
    <3>. QED
      BY <1>5, <2>1, <3>2
  <2>. QED
    BY <2>2, <2>3
<1>8. CASE ReturnToArgs
  <2>1. frames # <<>> /\ Last(frames).kind = "args" /\ UNCHANGED variable_stack
    BY <1>8 DEF ReturnToArgs, Returning, Top
  <2>2. BindingsNest(Front(frames), Len(variable_stack)) /\ IsStack(Front(frames))
    BY <1>2, <1>3, <2>1, PopNests, Popped DEF BindingsOK
  <2>3. CASE frames' = Front(frames)
    BY <1>2, <2>1, <2>2, <2>3 DEF BindingsOK
  <2>4. CASE frames' # Front(frames)
    <3>1. PICK x : x = ArgsFrame(Top.fn, Tail(Top.todo), Append(Top.done, control.obj))
      OBVIOUS
    <3>2. frames' = Append(Front(frames), x) /\ x.kind = "args"
      BY <1>8, <2>4, <3>1 DEF ReturnToArgs, ArgsFrame, ReplaceTop
    <3>. QED
      BY <1>2, <2>1, <2>2, <3>2, PushNests DEF BindingsOK
  <2>. QED
    BY <2>3, <2>4
<1>9. CASE ReturnToBody
  <2>. PICK saved : saved = Last(frames).saved
    OBVIOUS
  <2>1. frames # <<>> /\ Last(frames).kind = "body"
    BY <1>9 DEF ReturnToBody, Returning, Top
  <2>2. /\ BindingsNest(Front(frames), saved) /\ IsStack(Front(frames))
        /\ Len(variable_stack) = saved + 4 /\ saved \in Int /\ Len(Globals) <= saved
    BY <1>2, <1>3, <2>1, PopNests, Popped DEF BindingsOK
  <2>3. CASE Top.todo = <<>>
    <3>1. variable_stack' = SubSeq(variable_stack, 1, saved) /\ frames' = Front(frames)
      BY <1>9, <2>3 DEF ReturnToBody, Top
    <3>2. saved \in 0 .. Len(variable_stack) /\ Len(Globals) = 5
      BY <2>2, GlobalsAreFive
    <3>3. /\ IsStack(variable_stack') /\ Len(variable_stack') = saved
          /\ \A i \in 1 .. saved : variable_stack'[i] = variable_stack[i]
      BY <1>2, <3>1, <3>2, Shortened DEF BindingsOK
    <3>4. SubSeq(variable_stack', 1, Len(Globals)) = Globals
      <4>1. SubSeq(variable_stack, 1, Len(Globals)) = Globals /\ Len(Globals) <= saved
        BY <1>2, <2>2 DEF BindingsOK
      <4>2. IsStack(variable_stack) /\ saved <= Len(variable_stack)
        BY <1>2, <3>2 DEF BindingsOK
      <4>. QED
        BY <3>2, <3>3, <4>1, <4>2, SamePrefix
    <3>5. saved <= VARIABLE_STACK_SIZE
      BY <1>2, <2>2, <3>2, GlobalsFit DEF BindingsOK
    <3>. QED
      BY <2>2, <3>1, <3>3, <3>4, <3>5 DEF BindingsOK
  <2>4. CASE Top.todo # <<>>
    <3>1. PICK x : x = BodyFrame(Tail(Top.todo), saved)
      OBVIOUS
    <3>2. ~ IsError(control.obj)
      BY <1>2, <1>9 DEF ReturnToBody, Returning, Failing
    <3>3. frames' = Append(Front(frames), x) /\ x.kind = "body" /\ x.saved = saved
          /\ UNCHANGED variable_stack
      BY <1>9, <2>4, <3>1, <3>2 DEF ReturnToBody, BodyFrame, ReplaceTop, Top
    <3>4. BindingsNest(frames', Len(variable_stack))
      BY <2>2, <3>3, PushNests
    <3>. QED
      BY <1>2, <3>3, <3>4 DEF BindingsOK
  <2>. QED
    BY <2>3, <2>4
<1>10. CASE ApplyDate
  <2>1. PICK date, pp_function :
            /\ date = DateList(control.fn, control.args, mem)
            /\ IF IsError(date.val)
               THEN Continue(date) /\ UNCHANGED variable_stack
               ELSE IF pp_function = LispNil
               THEN Continue(DefaultDate(date.val, date.mem)) /\ UNCHANGED variable_stack
               ELSE \E list \in {LambdaArgs(control.fn, control.args, date.val, date.mem)} :
                        IF IsError(list.val)
                        THEN Continue(list) /\ UNCHANGED variable_stack
                        ELSE CallLambda(pp_function, list.val.items, list.mem)
    BY <1>10 DEF ApplyDate
  <2>2. CASE IsError(date.val) \/ pp_function = LispNil
    BY <1>4, <2>1, <2>2 DEF Continue
  <2>3. CASE ~ IsError(date.val) /\ pp_function # LispNil
    <3>1. PICK list : /\ list = LambdaArgs(control.fn, control.args, date.val, date.mem)
                      /\ IF IsError(list.val)
                         THEN Continue(list) /\ UNCHANGED variable_stack
                         ELSE CallLambda(pp_function, list.val.items, list.mem)
      BY <2>1, <2>3
    <3>2. CASE IsError(list.val)
      BY <1>4, <3>1, <3>2 DEF Continue
    <3>3. CASE ~ IsError(list.val)
      BY <1>2, <3>1, <3>3, FourArguments, LambdaStep
    <3>. QED
      BY <3>2, <3>3
  <2>. QED
    BY <2>2, <2>3
<1>. QED
  BY <1>6, <1>7, <1>8, <1>9, <1>10 DEF Next

\* While no error is on its way out, the stack of bindings is that of the lambdas
\* that wait.
LEMMA BindingsAlwaysOK == Spec => [](~ Failing => BindingsOK)
<1>1. Init => (~ Failing => BindingsOK)
  <2>. SUFFICES ASSUME Init PROVE BindingsOK
    OBVIOUS
  <2>1. OfKind(frames, "body") = {} /\ variable_stack = Globals
    BY DEF Init, OfKind
  <2>2. BindingsNest(frames, Len(variable_stack))
    BY <2>1, GlobalsAreFive, FS_EmptySet DEF BindingsNest
  <2>3. SubSeq(Globals, 1, Len(Globals)) = Globals
    <3>1. PICK V : Globals \in Seq(V)
      BY GlobalsAreFive DEF IsStack
    <3>. QED
      BY <3>1, SubSeqFull
  <2>. QED
    BY <2>1, <2>2, <2>3, GlobalsAreFive, GlobalsFit DEF BindingsOK
<1>2. IInv /\ (~ Failing => BindingsOK) /\ [Next]_vars => (~ Failing => BindingsOK)'
  BY BindingsStep DEF Failing
<1>. QED
  BY <1>1, <1>2, InvariantHolds, PTL DEF Spec

\* Dynamic scoping: call_lambda pushes its four bindings and, on every way out
\* that is no error, drops exactly these.
THEOREM BindingsNestAlways == Spec => []LambdaBindingsNest
<1>1. IInv /\ (~ Failing => BindingsOK) => LambdaBindingsNest
  <2>. SUFFICES ASSUME IInv, BindingsOK, ~ Failing PROVE LambdaBindingsNest
    BY DEF LambdaBindingsNest
  <2>1. \A i : {j \in FramesOf("body") : j < i} = Below(frames, i)
    BY FramesOfKind DEF Below
  <2>2. Below(frames, Len(frames) + 1) = OfKind(frames, "body")
    BY Pushed DEF Below, OfKind, IInv, FramesOK
  <2>. QED
    BY <2>1, <2>2, FramesOfKind DEF LambdaBindingsNest, BindingsOK, BindingsNest
<1>. QED
  BY <1>1, BindingsAlwaysOK, InvariantHolds, PTL
-----------------------------------------------------------------------------
(* Types                                                                     *)

\* What TypeOK adds to the invariant, also while an error is on its way out: the
\* stack of bindings and the heights that lambdas will reset it to.
StackOK ==
    /\ IsStack(variable_stack) /\ Len(variable_stack) <= VARIABLE_STACK_SIZE
    /\ \A i \in DOMAIN frames :
           frames[i].kind = "body" => frames[i].saved \in Len(Globals) .. VARIABLE_STACK_SIZE

\* The call does not change, and mlisj_eval knows four exit codes.
CallOK ==
    /\ call \in [expr : Programs, budget : Budgets, size : DestSizes]
    /\ reply.code \in {"none", "OK", "EVALUATION", "RUNTIME"}

\* restore_variable_status to a height that was saved.
LEMMA Restored ==
    ASSUME NEW v, NEW k \in Nat
    PROVE  IsStack(SubSeq(v, 1, k)) /\ Len(SubSeq(v, 1, k)) = k
<1>1. PICK V : V = {v[i] : i \in 1 .. k}
  OBVIOUS
<1>2. /\ SubSeq(v, 1, k) \in Seq(V)
      /\ Len(SubSeq(v, 1, k)) = IF 1 <= k THEN k - 1 + 1 ELSE 0
  BY <1>1, SubSeqProperties
<1>. QED
  BY <1>2 DEF IsStack

\* A frame pushed on frames that are in order, with its height in order.
LEMMA PushHeight ==
    ASSUME NEW s, IsStack(s), NEW x, NEW S,
           \A i \in DOMAIN s : s[i].kind = "body" => s[i].saved \in S,
           x.kind = "body" => x.saved \in S
    PROVE  \A i \in DOMAIN Append(s, x) :
               Append(s, x)[i].kind = "body" => Append(s, x)[i].saved \in S
<1>. SUFFICES ASSUME NEW i \in DOMAIN Append(s, x)
              PROVE  Append(s, x)[i].kind = "body" => Append(s, x)[i].saved \in S
  OBVIOUS
<1>1. (i \in DOMAIN s /\ Append(s, x)[i] = s[i]) \/ Append(s, x)[i] = x
  BY Pushed
<1>. QED
  BY <1>1

\* The frames that are left when one is popped.
LEMMA PopHeight ==
    ASSUME NEW s, IsStack(s), s # <<>>, NEW S,
           \A i \in DOMAIN s : s[i].kind = "body" => s[i].saved \in S
    PROVE  /\ \A i \in DOMAIN Front(s) : Front(s)[i].kind = "body" => Front(s)[i].saved \in S
           /\ Last(s).kind = "body" => Last(s).saved \in S
           /\ IsStack(Front(s))
<1>1. \A i \in DOMAIN Front(s) : i \in DOMAIN s /\ Front(s)[i] = s[i]
  <2>1. PICK n \in Nat : n = Len(s) - 1 /\ DOMAIN s = 1 .. n + 1 /\ DOMAIN Front(s) = 1 .. n
    BY Popped
  <2>2. \A i \in 1 .. n : Front(s)[i] = s[i]
    BY <2>1, Popped
  <2>. QED
    BY <2>1, <2>2
<1>2. Len(s) \in DOMAIN s
  BY Popped
<1>. QED
  BY <1>1, <1>2, Popped DEF Last

\* call_lambda never pushes more bindings than the stack holds, not even when it
\* fails on the way and leaves those made so far.
LEMMA LambdaHeight ==
    ASSUME IInv, BindingsOK, StackOK, NEW lambda, NEW args, Len(args) = 4, NEW m,
           CallLambda(lambda, args, m)
    PROVE  StackOK'
<1>0. Globals' = Globals
  BY DEF Globals
<1>1. CASE frames' = frames /\ variable_stack' = variable_stack
  BY <1>0, <1>1 DEF StackOK
<1>2. CASE ~ (frames' = frames /\ variable_stack' = variable_stack)
  <2>. DEFINE params == lambda.items[2].items
              body == SubSeq(lambda.items, 3, Len(lambda.items))
              Bound(n) == [i \in 1 .. n |-> Binding(params[i].name, args[i])]
  <2>1. PICK n : /\ n = Bindable(params, args)
                 /\ variable_stack' = variable_stack \o Bound(n)
                 /\ \/ frames' = frames
                    \/ frames' = Append(frames, BodyFrame(Tail(body), Len(variable_stack)))
    BY <1>2 DEF CallLambda, Continue
  <2>2. Len(variable_stack) \in Nat /\ 5 <= Len(variable_stack) /\ Len(Globals) = 5
    BY StackFinite, GlobalsAreFive DEF IInv, FramesOK, BindingsOK, BindingsNest
  <2>3. n \in 0 .. 4 /\ Len(variable_stack) + n <= VARIABLE_STACK_SIZE
    BY <2>1, <2>2, BindableBound DEF StackOK
  <2>4. PICK bound : bound = Bound(n)
    OBVIOUS
  <2>5. IsStack(bound) /\ Len(bound) = n
    <3>1. PICK V : V = {bound[i] : i \in 1 .. n}
      OBVIOUS
    <3>2. bound \in [1 .. n -> V] /\ n \in Nat
      BY <2>3, <2>4, <3>1
    <3>3. bound \in Seq(V)
      BY <3>2, SeqDef
    <3>4. DOMAIN bound = 1 .. n /\ DOMAIN bound = 1 .. Len(bound) /\ Len(bound) \in Nat
      BY <3>2, <3>3, LenProperties
    <3>. QED
      BY <2>3, <3>3, <3>4 DEF IsStack
  <2>6. IsStack(variable_stack') /\ Len(variable_stack') <= VARIABLE_STACK_SIZE
    <3>1. PICK w : w = variable_stack /\ IsStack(w)
      BY DEF StackOK
    <3>2. IsStack(w \o bound) /\ Len(w \o bound) = Len(w) + Len(bound)
      BY <2>5, <3>1, Extended
    <3>. QED
      BY <2>1, <2>3, <2>4, <2>5, <3>1, <3>2
  <2>7. PICK x : x = BodyFrame(Tail(body), Len(variable_stack))
    OBVIOUS
  <2>8. x.kind = "body" /\ x.saved \in Len(Globals) .. VARIABLE_STACK_SIZE
    BY <2>2, <2>7, GlobalsFit DEF BodyFrame, StackOK
  <2>9. \A i \in DOMAIN frames' :
            frames'[i].kind = "body" => frames'[i].saved \in Len(Globals) .. VARIABLE_STACK_SIZE
    <3>. PICK S : S = Len(Globals) .. VARIABLE_STACK_SIZE
      OBVIOUS
    <3>1. IsStack(frames) /\ \A i \in DOMAIN frames : frames[i].kind = "body" => frames[i].saved \in S
      BY DEF IInv, FramesOK, StackOK
    <3>2. \A i \in DOMAIN Append(frames, x) :
              Append(frames, x)[i].kind = "body" => Append(frames, x)[i].saved \in S
      BY <2>8, <3>1, PushHeight
    <3>. QED
      BY <2>1, <2>7, <3>1, <3>2
  <2>. QED
    BY <1>0, <2>6, <2>9 DEF StackOK
<1>. QED
  BY <1>1, <1>2

\* Every step keeps the stacks in order.
LEMMA StackStep ==
    ASSUME IInv, ~ Failing => BindingsOK, StackOK, [Next]_vars
    PROVE  StackOK'
<1>0. Globals' = Globals /\ Len(Globals) = 5
  BY GlobalsAreFive DEF Globals
<1>. PICK S : S = Len(Globals) .. VARIABLE_STACK_SIZE
  OBVIOUS
<1>a. IsStack(frames) /\ \A i \in DOMAIN frames : frames[i].kind = "body" => frames[i].saved \in S
  BY DEF IInv, FramesOK, StackOK
<1>b. ASSUME /\ IsStack(variable_stack') /\ Len(variable_stack') <= VARIABLE_STACK_SIZE
             /\ \A i \in DOMAIN frames' : frames'[i].kind = "body" => frames'[i].saved \in S
      PROVE  StackOK'
  BY <1>0, <1>b DEF StackOK
<1>c. ASSUME UNCHANGED <<frames, variable_stack>> PROVE StackOK'
  BY <1>0, <1>c DEF StackOK
<1>1. CASE EvalSelf \/ EvalSymbol \/ EvalSpecial \/ ApplySimple \/ Finish \/ UNCHANGED vars
  BY <1>1, <1>c DEF EvalSelf, EvalSymbol, EvalSpecial, ApplySimple, Finish, Continue, vars
<1>2. CASE EvalCall
  <2>1. UNCHANGED variable_stack
    BY <1>2 DEF EvalCall
  <2>2. CASE frames' = frames
    BY <1>c, <2>1, <2>2
  <2>3. CASE frames' # frames
    <3>1. PICK x : x = ArgsFrame(Items[1].name, Tail(Tail(Items)), <<>>)
      OBVIOUS
    <3>2. frames' = Append(frames, x) /\ x.kind = "args"
      BY <1>2, <2>3, <3>1 DEF EvalCall, ArgsFrame
    <3>3. \A i \in DOMAIN Append(frames, x) :
              Append(frames, x)[i].kind = "body" => Append(frames, x)[i].saved \in S
      BY <1>a, <3>2, PushHeight
    <3>. QED
      BY <1>b, <2>1, <3>2, <3>3 DEF StackOK
  <2>. QED
    BY <2>2, <2>3
<1>3. ASSUME frames # <<>>, UNCHANGED variable_stack, NEW x, frames' = ReplaceTop(x),
             x.kind = "body" => x.saved \in S
      PROVE  StackOK'
  <2>1. PICK f : f = Front(frames)
    OBVIOUS
  <2>2. IsStack(f) /\ \A i \in DOMAIN f : f[i].kind = "body" => f[i].saved \in S
    BY <1>3, <1>a, <2>1, PopHeight
  <2>3. \A i \in DOMAIN Append(f, x) : Append(f, x)[i].kind = "body" => Append(f, x)[i].saved \in S
    BY <1>3, <2>2, PushHeight
  <2>. QED
    BY <1>3, <1>b, <2>1, <2>3 DEF ReplaceTop, StackOK
<1>4. ASSUME frames # <<>>
      PROVE  /\ \A i \in DOMAIN Front(frames) :
                    Front(frames)[i].kind = "body" => Front(frames)[i].saved \in S
             /\ Top.kind = "body" => Top.saved \in S
  BY <1>4, <1>a, PopHeight DEF Top
<1>5. CASE ReturnToArgs
  <2>1. frames # <<>> /\ UNCHANGED variable_stack
    BY <1>5 DEF ReturnToArgs, Returning
  <2>2. CASE frames' = Front(frames)
    BY <1>4, <1>b, <2>1, <2>2 DEF StackOK
  <2>3. CASE frames' # Front(frames)
    <3>1. PICK x : x = ArgsFrame(Top.fn, Tail(Top.todo), Append(Top.done, control.obj))
      OBVIOUS
    <3>2. frames' = ReplaceTop(x) /\ x.kind = "args"
      BY <1>5, <2>3, <3>1 DEF ReturnToArgs, ArgsFrame
    <3>. QED
      BY <1>3, <2>1, <3>2
  <2>. QED
    BY <2>2, <2>3
<1>6. CASE ReturnToBody
  <2>1. frames # <<>> /\ Top.kind = "body" /\ Top.saved \in S
    BY <1>4, <1>6 DEF ReturnToBody, Returning
  <2>2. CASE IsError(control.obj) \/ Top.todo = <<>>
    <3>1. variable_stack' = SubSeq(variable_stack, 1, Top.saved) /\ frames' = Front(frames)
      BY <1>6, <2>2 DEF ReturnToBody
    <3>2. Top.saved \in Nat /\ Top.saved <= VARIABLE_STACK_SIZE
      BY <1>0, <2>1, GlobalsFit
    <3>3. IsStack(variable_stack') /\ Len(variable_stack') = Top.saved
      BY <3>1, <3>2, Restored
    <3>. QED
      BY <1>4, <1>b, <2>1, <3>1, <3>2, <3>3
  <2>3. CASE ~ (IsError(control.obj) \/ Top.todo = <<>>)
    <3>1. PICK x : x = BodyFrame(Tail(Top.todo), Top.saved)
      OBVIOUS
    <3>2. frames' = ReplaceTop(x) /\ x.saved = Top.saved /\ UNCHANGED variable_stack
      BY <1>6, <2>3, <3>1 DEF ReturnToBody, BodyFrame
    <3>. QED
      BY <1>3, <2>1, <3>2
  <2>. QED
    BY <2>2, <2>3
<1>7. CASE ApplyDate
  <2>1. PICK date, pp_function :
            /\ date = DateList(control.fn, control.args, mem)
            /\ IF IsError(date.val)
               THEN Continue(date) /\ UNCHANGED variable_stack
               ELSE IF pp_function = LispNil
               THEN Continue(DefaultDate(date.val, date.mem)) /\ UNCHANGED variable_stack
               ELSE \E list \in {LambdaArgs(control.fn, control.args, date.val, date.mem)} :
                        IF IsError(list.val)
                        THEN Continue(list) /\ UNCHANGED variable_stack
                        ELSE CallLambda(pp_function, list.val.items, list.mem)
    BY <1>7 DEF ApplyDate
  <2>2. BindingsOK
    BY <1>7 DEF ApplyDate, Failing
  <2>3. CASE IsError(date.val) \/ pp_function = LispNil
    BY <1>c, <2>1, <2>3 DEF Continue
  <2>4. CASE ~ IsError(date.val) /\ pp_function # LispNil
    <3>1. PICK list : /\ list = LambdaArgs(control.fn, control.args, date.val, date.mem)
                      /\ IF IsError(list.val)
                         THEN Continue(list) /\ UNCHANGED variable_stack
                         ELSE CallLambda(pp_function, list.val.items, list.mem)
      BY <2>1, <2>4
    <3>2. CASE IsError(list.val)
      BY <1>c, <3>1, <3>2 DEF Continue
    <3>3. CASE ~ IsError(list.val)
      BY <2>2, <3>1, <3>3, FourArguments, LambdaHeight
    <3>. QED
      BY <3>2, <3>3
  <2>. QED
    BY <2>3, <2>4
<1>. QED
  BY <1>1, <1>2, <1>5, <1>6, <1>7 DEF Next

\* The counters of the pools stay numbers, the stack of bindings never grows out
\* of its array nor is reset to a height outside it, only functions are called,
\* and the exit code is one of mlisj.h.
THEOREM TypeCorrect == Spec => []TypeOK
<1>1. Init => StackOK /\ CallOK
  <2>. SUFFICES ASSUME Init PROVE StackOK /\ CallOK
    OBVIOUS
  <2>1. frames = <<>> /\ variable_stack = Globals /\ reply = NONE
    BY DEF Init
  <2>. QED
    BY <2>1, GlobalsAreFive, GlobalsFit DEF StackOK, CallOK, NONE, Init
<1>2. IInv /\ (~ Failing => BindingsOK) /\ StackOK /\ [Next]_vars => StackOK'
  BY StackStep
<1>3. CallOK /\ [Next]_vars => CallOK'
  <2>. SUFFICES ASSUME CallOK, [Next]_vars PROVE CallOK'
    OBVIOUS
  <2>1. call' = call
    BY DEF Next, vars, EvalSelf, EvalSymbol, EvalSpecial, EvalCall, ReturnToArgs, ReturnToBody,
           ApplySimple, ApplyDate, Finish
  <2>2. \A r : Reply(r).code \in {"none", "OK", "EVALUATION", "RUNTIME"}
    BY DEF Reply, Exit
  <2>3. reply' = reply \/ reply' = Reply(control.obj)
    BY DEF Next, vars, EvalSelf, EvalSymbol, EvalSpecial, EvalCall, ReturnToArgs, ReturnToBody,
           ApplySimple, ApplyDate, Finish
  <2>. QED
    BY <2>1, <2>2, <2>3 DEF CallOK
<1>4. IInv /\ StackOK /\ CallOK => TypeOK
  <2>. SUFFICES ASSUME IInv, StackOK, CallOK PROVE TypeOK
    OBVIOUS
  <2>1. mem.free \in [MemPools -> Nat]
    BY DEF IInv, IsMemory
  <2>2. /\ FramesOf("args") \cup FramesOf("body") = DOMAIN frames
        /\ \A i \in FramesOf("args") : frames[i].fn \in Functions
        /\ \A i \in FramesOf("body") : frames[i].saved \in Len(Globals) .. VARIABLE_STACK_SIZE
    BY DEF IInv, FramesOK, StackOK, FramesOf
  <2>. QED
    BY <2>1, <2>2 DEF TypeOK, IInv, ControlOK, StackOK, CallOK
<1>. QED
  BY <1>1, <1>2, <1>3, <1>4, InvariantHolds, BindingsAlwaysOK, PTL DEF Spec

-----------------------------------------------------------------------------
(* Less memory and more                                                      *)

\* The symbols that functions intern.
Offsets == {":yy", ":mm", ":dd"}

\* One memory has at least what another one has, and all the symbols that
\* functions intern; neither has refused anything.
Covers(big, m) ==
    /\ IsMemory(m) /\ ~ m.refused
    /\ IsMemory(big) /\ ~ big.refused
    /\ \A p \in MemPools : /\ m.free[p] \in Nat /\ big.free[p] \in Nat
                            /\ m.free[p] <= big.free[p] /\ big.free[p] <= INT_MAX
    /\ Offsets \subseteq big.symbols

\* What a function returns with the smaller memory is an error if something was
\* refused, and what it returns with the larger one otherwise.
Agree(r, big) ==
    /\ r.mem.refused => IsError(r.val)
    /\ ~ r.mem.refused => big.val = r.val /\ Covers(big.mem, r.mem)

\* A memory that covers another one has all the cells that this one can spend.
LEMMA SpendCovers ==
    ASSUME NEW m, NEW big, Covers(big, m), NEW p \in MemPools, NEW n, HasFree(m, p, n)
    PROVE  /\ HasFree(big, p, n)
           /\ Covers(Spend(big, p, n), Spend(m, p, n))
           /\ \A q \in MemPools : q # p => /\ Spend(m, p, n).free[q] = m.free[q]
                                           /\ Spend(big, p, n).free[q] = big.free[q]
<1>0. n \in Nat /\ n <= m.free[p] /\ n <= big.free[p]
  BY DEF HasFree, Covers
<1>1. ASSUME NEW k, IsMemory(k), ~ k.refused, n <= k.free[p]
      PROVE  /\ IsMemory(Spend(k, p, n)) /\ ~ Spend(k, p, n).refused
             /\ Spend(k, p, n).symbols = k.symbols
             /\ Spend(k, p, n).free[p] = k.free[p] - n
             /\ \A q \in MemPools : q # p => Spend(k, p, n).free[q] = k.free[q]
  <2>1. PICK f : f = [k.free EXCEPT ![p] = @ - n]
    OBVIOUS
  <2>2. Spend(k, p, n) = [free |-> f, symbols |-> k.symbols, refused |-> k.refused]
    BY <1>1, <2>1 DEF IsMemory, Spend
  <2>3. f[p] = k.free[p] - n /\ \A q \in MemPools : q # p => f[q] = k.free[q]
    BY <1>1, <2>1 DEF IsMemory
  <2>4. \A q \in MemPools : f[q] \in Nat
    BY <1>0, <1>1, <2>3 DEF IsMemory
  <2>5. "narray" \in MemPools
    BY DEF MemPools
  <2>6. f = [q \in MemPools |-> f[q]]
    BY <1>1, <2>1 DEF IsMemory
  <2>. QED
    BY <1>1, <2>2, <2>3, <2>4, <2>5, <2>6 DEF IsMemory
<1>2. /\ IsMemory(Spend(m, p, n)) /\ ~ Spend(m, p, n).refused
      /\ Spend(m, p, n).free[p] = m.free[p] - n
      /\ \A q \in MemPools : q # p => Spend(m, p, n).free[q] = m.free[q]
  BY <1>0, <1>1 DEF Covers
<1>3. /\ IsMemory(Spend(big, p, n)) /\ ~ Spend(big, p, n).refused
      /\ Spend(big, p, n).symbols = big.symbols
      /\ Spend(big, p, n).free[p] = big.free[p] - n
      /\ \A q \in MemPools : q # p => Spend(big, p, n).free[q] = big.free[q]
  BY <1>0, <1>1 DEF Covers
<1>4. /\ m.free[p] - n <= big.free[p] - n /\ m.free[p] - n \in Nat /\ big.free[p] - n \in Nat
      /\ big.free[p] - n <= INT_MAX
  BY <1>0, IntAssumption DEF Covers
<1>5. HasFree(big, p, n)
  BY <1>0 DEF Covers, HasFree
<1>6. Covers(Spend(big, p, n), Spend(m, p, n))
  BY <1>2, <1>3, <1>4 DEF Covers
<1>. QED
  BY <1>2, <1>3, <1>5, <1>6

\* A refused request that returns an error agrees with whatever a larger memory computes.
LEMMA RefusedAgrees ==
    ASSUME NEW m, NEW big, Covers(big, m), NEW e, IsError(e), NEW r
    PROVE  Agree(Refused(e, m), r)
  BY DEF Covers, IsMemory, Agree, Refused, Result

\* Without a request the memories agree.
LEMMA ResultAgrees ==
    ASSUME NEW m, NEW big, Covers(big, m), NEW v
    PROVE  Agree(Result(v, m), Result(v, big))
  BY DEF Covers, Agree, Result

\* An evaluation error is one with any memory.
LEMMA FailsAgrees ==
    ASSUME NEW m, NEW big, Covers(big, m)
    PROVE  Agree(EvaluationFails(m), EvaluationFails(big))
  BY ResultAgrees DEF EvaluationFails

\* new_cstr: what a small memory has room for has the same text in a large one.
LEMMA NewStringAreaAgrees ==
    ASSUME NEW m, NEW big, Covers(big, m), NEW s, NEW n
    PROVE  Agree(NewStringArea(m, s, n), NewStringArea(big, s, n))
<1>1. CASE HasFree(m, "string", n + 1)
  <2>1. HasFree(big, "string", n + 1) /\ Covers(Spend(big, "string", n + 1), Spend(m, "string", n + 1))
    BY <1>1, SpendCovers DEF MemPools
  <2>. QED
    BY <1>1, <2>1, ResultAgrees DEF NewStringArea
<1>2. CASE ~ HasFree(m, "string", n + 1)
  BY <1>2, RefusedAgrees, ErrorsAreErrors DEF NewStringArea, MemoryError
<1>. QED
  BY <1>1, <1>2

\* new_lstring_copy_cstr
LEMMA NewStringAgrees ==
    ASSUME NEW m, NEW big, Covers(big, m), NEW s
    PROVE  Agree(NewString(m, s), NewString(big, s))
  BY NewStringAreaAgrees DEF NewString, With

\* new_internal_float
LEMMA NewFloatAgrees ==
    ASSUME NEW m, NEW big, Covers(big, m), NEW x
    PROVE  Agree(NewFloat(m, x), NewFloat(big, x))
<1>1. CASE HasFree(m, "float", 1)
  <2>1. HasFree(big, "float", 1) /\ Covers(Spend(big, "float", 1), Spend(m, "float", 1))
    BY <1>1, SpendCovers DEF MemPools
  <2>. QED
    BY <1>1, <2>1, ResultAgrees DEF NewFloat
<1>2. CASE ~ HasFree(m, "float", 1)
  BY <1>2, RefusedAgrees, ErrorsAreErrors DEF NewFloat, MemoryError
<1>. QED
  BY <1>1, <1>2

\* new_lcarray: the node and the items that a small memory has, a large one has, too.
LEMMA NewListAgrees ==
    ASSUME NEW m, NEW big, Covers(big, m), NEW xs, NEW e, IsError(e)
    PROVE  Agree(NewList(m, xs, e), NewList(big, xs, e))
<1>0. "narray" \in MemPools /\ "lispobject" \in MemPools
  BY DEF MemPools
<1>1. CASE HasFree(m, "narray", 1) /\ HasFree(m, "lispobject", Len(xs))
  <2>1. PICK n, N : n = Spend(m, "narray", 1) /\ N = Spend(big, "narray", 1)
    OBVIOUS
  <2>2. HasFree(big, "narray", 1) /\ Covers(N, n)
        /\ n.free["lispobject"] = m.free["lispobject"] /\ N.free["lispobject"] = big.free["lispobject"]
    BY <1>0, <1>1, <2>1, SpendCovers
  <2>3. /\ HasFree(n, "lispobject", Len(xs))
        /\ HasFree(N, "lispobject", Len(xs)) <=> HasFree(big, "lispobject", Len(xs))
    BY <1>1, <2>2 DEF HasFree
  <2>4. HasFree(big, "lispobject", Len(xs))
        /\ Covers(Spend(N, "lispobject", Len(xs)), Spend(n, "lispobject", Len(xs)))
    BY <1>0, <2>2, <2>3, SpendCovers
  <2>. QED
    BY <1>1, <2>1, <2>2, <2>4, ResultAgrees DEF NewList
<1>2. CASE ~ (HasFree(m, "narray", 1) /\ HasFree(m, "lispobject", Len(xs)))
  BY <1>2, RefusedAgrees DEF NewList
<1>. QED
  BY <1>1, <1>2

\* str2symbol, checked: the larger memory knows the symbol already.
LEMMA InternLiteralAgrees ==
    ASSUME NEW m, NEW big, Covers(big, m), NEW s \in Offsets
    PROVE  Agree(InternLiteral(m, s), InternLiteral(big, s))
<1>0. "symbol" \in MemPools
  BY DEF MemPools
<1>1. CASE m.free["symbol"] = 0
  BY <1>1, RefusedAgrees, ErrorsAreErrors DEF InternLiteral, MemoryError
<1>2. CASE m.free["symbol"] # 0
  <2>1. big.free["symbol"] # 0 /\ s \in big.symbols
    BY <1>0, <1>2 DEF Covers
  <2>2. InternLiteral(big, s) = Result(LispSymbol(s), big)
    BY <2>1 DEF InternLiteral
  <2>3. CASE s \in m.symbols
    BY <1>2, <2>2, <2>3, ResultAgrees DEF InternLiteral
  <2>4. CASE s \notin m.symbols
    <3>1. PICK n : n = Spend(m, "symbol", 1)
      OBVIOUS
    <3>2. HasFree(m, "symbol", 1)
      BY <1>0, <1>2 DEF Covers, HasFree
    <3>3. Covers(Spend(big, "symbol", 1), n) /\ \A q \in MemPools : q # "symbol" => n.free[q] = m.free[q]
      BY <1>0, <3>1, <3>2, SpendCovers
    <3>4. n.free["symbol"] = m.free["symbol"] - 1
      BY <1>0, <3>1 DEF Spend, Covers, IsMemory
    <3>5. Covers(big, n)
      BY <1>0, <3>3, <3>4 DEF Covers
    <3>6. PICK known : known = [n EXCEPT !.symbols = @ \cup {s}]
      OBVIOUS
    <3>7. known = [free |-> n.free, symbols |-> n.symbols \cup {s}, refused |-> n.refused]
      BY <3>5, <3>6 DEF Covers, IsMemory
    <3>8. IsMemory(known) /\ ~ known.refused /\ known.free = n.free
      BY <3>5, <3>7 DEF Covers, IsMemory
    <3>9. Covers(big, known)
      BY <3>5, <3>8 DEF Covers
    <3>10. InternLiteral(m, s) = Result(LispSymbol(s), known)
      BY <1>2, <2>4, <3>1, <3>6 DEF InternLiteral
    <3>. QED
      BY <2>2, <3>9, <3>10 DEF Agree, Result, Covers
  <2>. QED
    BY <2>3, <2>4
<1>. QED
  BY <1>1, <1>2

\* Unlimited memory covers every memory of ints that refused nothing.
LEMMA MemoryIsCovered ==
    ASSUME NEW m, IsMemory(m), ~ m.refused, \A p \in MemPools : m.free[p] <= INT_MAX
    PROVE  Covers(Unlimited, m)
<1>1. Offsets \subseteq Unlimited.symbols /\ ~ Unlimited.refused
      /\ Unlimited.free = [p \in MemPools |-> INT_MAX]
      /\ Unlimited = [free |-> Unlimited.free, symbols |-> Unlimited.symbols, refused |-> Unlimited.refused]
  BY Zenon DEF Unlimited, Memory, Offsets
<1>2. IsMemory(Unlimited)
  BY <1>1, IntAssumption DEF IsMemory, MemPools
<1>. QED
  BY <1>1, <1>2, IntAssumption DEF Covers, IsMemory

\* What another memory covers, unlimited memory covers.
LEMMA StillCovered ==
    ASSUME NEW m, NEW big, Covers(big, m)
    PROVE  Covers(Unlimited, m)
<1>1. \A p \in MemPools : m.free[p] <= INT_MAX
  BY IntAssumption DEF Covers
<1>. QED
  BY <1>1, MemoryIsCovered DEF Covers

\* The strings that a small memory has room for are copied with a large one, too.
LEMMA CopyStringsAgrees ==
    ASSUME NEW m, NEW big, Covers(big, m), NEW strings, IsStack(strings)
    PROVE  Agree(CopyStrings(m, strings), CopyStrings(big, strings))
<1>0. "string" \in MemPools /\ m.free["string"] \in Nat /\ big.free["string"] \in Nat
  BY DEF MemPools, Covers
<1>1. PICK size : \A k : k.free["string"] \in Nat =>
               \E n \in 0 .. Len(strings) :
                   /\ HasFree(k, "string", size[n])
                   /\ HasFree(k, "string", size[Len(strings)]) => n = Len(strings)
                   /\ CopyStrings(k, strings) =
                          IF n = Len(strings) THEN Result(LispNil, Spend(k, "string", size[n]))
                          ELSE Refused(MemoryError, Spend(k, "string", size[n]))
  BY WhatIsCopied
<1>2. PICK n : /\ HasFree(m, "string", size[n])
               /\ CopyStrings(m, strings) =
                      IF n = Len(strings) THEN Result(LispNil, Spend(m, "string", size[n]))
                      ELSE Refused(MemoryError, Spend(m, "string", size[n]))
  BY <1>0, <1>1
<1>3. /\ HasFree(big, "string", size[n])
      /\ Covers(Spend(big, "string", size[n]), Spend(m, "string", size[n]))
  BY <1>0, <1>2, SpendCovers
<1>4. CASE n = Len(strings)
  <2>1. CopyStrings(big, strings) = Result(LispNil, Spend(big, "string", size[n]))
    BY <1>0, <1>1, <1>3, <1>4
  <2>. QED
    BY <1>2, <1>3, <1>4, <2>1, ResultAgrees
<1>5. CASE n # Len(strings)
  BY <1>2, <1>3, <1>5, RefusedAgrees, ErrorsAreErrors DEF MemoryError
<1>. QED
  BY <1>4, <1>5

\* f_minus
LEMMA MinusAgrees ==
    ASSUME NEW m, NEW big, Covers(big, m), NEW args
    PROVE  Agree(Minus(args, m), Minus(args, big))
  BY ResultAgrees, FailsAgrees, NewFloatAgrees DEF Minus

\* f_car
LEMMA CarAgrees ==
    ASSUME NEW m, NEW big, Covers(big, m), NEW args
    PROVE  Agree(Car(args, m), Car(args, big))
  BY ResultAgrees, FailsAgrees DEF Car

\* f_concat
LEMMA ConcatAgrees ==
    ASSUME NEW m, NEW big, Covers(big, m), NEW args
    PROVE  Agree(Concat(args, m), Concat(args, big))
  BY ResultAgrees, FailsAgrees, NewStringAgrees DEF Concat

\* f_make_string
LEMMA MakeStringAgrees ==
    ASSUME NEW m, NEW big, Covers(big, m), NEW args
    PROVE  Agree(MakeString(args, m), MakeString(args, big))
  BY FailsAgrees, NewStringAreaAgrees DEF MakeString

\* f_string_to_char
LEMMA StringToCharAgrees ==
    ASSUME NEW m, NEW big, Covers(big, m), NEW args
    PROVE  Agree(StringToChar(args, m), StringToChar(args, big))
  BY FailsAgrees, ResultAgrees DEF StringToChar

\* f_substring
LEMMA SubstringAgrees ==
    ASSUME NEW m, NEW big, Covers(big, m), NEW args
    PROVE  Agree(Substring(args, m), Substring(args, big))
  BY FailsAgrees, NewStringAgrees DEF Substring

\* f_string_to_number
LEMMA StringToNumberAgrees ==
    ASSUME NEW m, NEW big, Covers(big, m), NEW args
    PROVE  Agree(StringToNumber(args, m), StringToNumber(args, big))
  BY FailsAgrees, ResultAgrees, NewFloatAgrees DEF StringToNumber, CheckNumStr

\* f_current_time_string
LEMMA CurrentTimeAgrees ==
    ASSUME NEW m, NEW big, Covers(big, m), NEW args
    PROVE  Agree(CurrentTime(args, m), CurrentTime(args, big))
  BY FailsAgrees, NewStringAgrees DEF CurrentTime

\* f_skk_times
LEMMA SkkTimesAgrees ==
    ASSUME NEW m, NEW big, Covers(big, m), NEW args
    PROVE  Agree(SkkTimes(args, m), SkkTimes(args, big))
  BY FailsAgrees, NewStringAgrees DEF SkkTimes

\* f_skk_gadget_units_conversion
LEMMA UnitsAgrees ==
    ASSUME NEW m, NEW big, Covers(big, m), NEW args
    PROVE  Agree(SkkGadgetUnitsConversion(args, m), SkkGadgetUnitsConversion(args, big))
  BY FailsAgrees, NewStringAgrees DEF SkkGadgetUnitsConversion

\* The first number of the henkan key does not depend on memory.
LEMMA FirstNumberAgrees ==
    ASSUME NEW m, NEW big, Covers(big, m)
    PROVE  Agree(FirstNumber(m), FirstNumber(big))
  BY FailsAgrees, ResultAgrees DEF FirstNumber

\* The word between the parts of an era year does not depend on memory.
LEMMA DividerAgrees ==
    ASSUME NEW m, NEW big, Covers(big, m), NEW x
    PROVE  Agree(Divider(x, m), Divider(x, big))
  BY ResultAgrees DEF Divider

\* ad_to_gengo
LEMMA AdToGengoAgrees ==
    ASSUME NEW m, NEW big, Covers(big, m), NEW ad, NEW not_gannen, NEW month, NEW day
    PROVE  Agree(AdToGengo(m, ad, not_gannen, month, day), AdToGengo(big, ad, not_gannen, month, day))
  BY ResultAgrees, NewListAgrees, ErrorsAreErrors DEF AdToGengo, MemoryError

\* dynamic_var_skk_num_list: one string per number, then the list.
LEMMA NumListAgrees ==
    ASSUME NEW m, NEW big, Covers(big, m)
    PROVE  Agree(NumListValue(m), NumListValue(big))
<1>. DEFINE items == [i \in DOMAIN SkkNumList |-> LispString(SkkNumList[i])]
            Copies(list, mm) ==
                Then(CopyStrings(mm, SkkNumList), LAMBDA nil, left : Result(list, left))
<1>1. \A k : NumListValue(k) = IF SkkNumList = NoNumList THEN Result(LispNil, k)
                               ELSE Then(NewList(k, items, MemoryError), Copies)
  BY Zenon DEF NumListValue
<1>2. ASSUME SkkNumList # NoNumList, NEW list, NEW mm, NEW bb, Covers(bb, mm)
      PROVE  Agree(Copies(list, mm), Copies(list, bb))
  <2>1. Agree(CopyStrings(mm, SkkNumList), CopyStrings(bb, SkkNumList))
    BY <1>2, NumListAssumption, CopyStringsAgrees DEF IsStack
  <2>. QED
    BY <2>1, ResultAgrees DEF Then, With, Agree
<1>3. Agree(NewList(m, items, MemoryError), NewList(big, items, MemoryError))
  BY NewListAgrees, ErrorsAreErrors DEF MemoryError
<1>. HIDE DEF items, Copies
<1>. QED
  BY <1>1, <1>2, <1>3, ResultAgrees DEF Then, With, Agree

\* split_time_string: the copies of the words, then the list.
LEMMA SplitTimeStringAgrees ==
    ASSUME NEW m, NEW big, Covers(big, m), NEW date
    PROVE  Agree(SplitTimeString(m, date), SplitTimeString(big, date))
<1>1. PICK texts : texts = [i \in 1 .. 7 |-> date[<<4, 2, 3, 1, 5, 6, 7>>[i]]]
  OBVIOUS
<1>2. IsStack(texts)
  <2>1. PICK V : V = {texts[i] : i \in 1 .. 7}
    OBVIOUS
  <2>2. texts \in [1 .. 7 -> V]
    BY <1>1, <2>1
  <2>. QED
    BY <2>2, SeqDef DEF IsStack
<1>3. Agree(CopyStrings(m, texts), CopyStrings(big, texts))
  BY <1>2, CopyStringsAgrees
<1>. DEFINE list == [i \in 1 .. 7 |-> LispString(date[i])]
            Listed(nil, k) == NewList(k, list, MemoryError)
<1>4. \A k : SplitTimeString(k, date) = Then(CopyStrings(k, texts), Listed)
  BY <1>1, Zenon DEF SplitTimeString
<1>5. \A nil, k, b : Covers(b, k) => Agree(Listed(nil, k), Listed(nil, b))
  BY NewListAgrees, ErrorsAreErrors DEF MemoryError
<1>. HIDE DEF Listed
<1>. QED
  BY <1>3, <1>4, <1>5 DEF Then, With, Agree

\* f_skk_ad_to_gengo
LEMMA SkkAdToGengoAgrees ==
    ASSUME NEW m, NEW big, Covers(big, m), NEW args
    PROVE  Agree(SkkAdToGengo(args, m), SkkAdToGengo(args, big))
<1>. DEFINE tail == OptionalArg(args, 3)
            Text(v, divider, mm) ==
                LET nengo == v.items[3]
                IN  NewString(mm, v.items[args[1].int + 1].chars \o divider.chars
                                  \o (IF nengo.type = "int" THEN Decimal(nengo.int) ELSE nengo.chars)
                                  \o TextOf(tail))
            Divided(v, mm) ==
                Then(Divider(OptionalArg(args, 2), mm), LAMBDA divider, left : Text(v, divider, left))
            Era(ad, mm) ==
                Then(AdToGengo(mm, ad.int, OptionalArg(args, 4) # LispNil, 0, 0), Divided)
            Wrong == \/ Len(args) \notin 1 .. 4 \/ ~ IsText(tail)
                     \/ args[1] \notin {LispInt(0), LispInt(1)}
<1>1. \A k : SkkAdToGengo(args, k) = IF Wrong THEN EvaluationFails(k) ELSE Then(FirstNumber(k), Era)
  BY Zenon DEF SkkAdToGengo
<1>2. \A v, divider, mm, bb : Covers(bb, mm) => Agree(Text(v, divider, mm), Text(v, divider, bb))
  BY NewStringAgrees
<1>. HIDE DEF Text, Wrong
<1>3. \A v, mm, bb : Covers(bb, mm) => Agree(Divided(v, mm), Divided(v, bb))
  BY <1>2, DividerAgrees DEF Then, With, Agree
<1>. HIDE DEF Divided
<1>4. \A ad, mm, bb : Covers(bb, mm) => Agree(Era(ad, mm), Era(ad, bb))
  BY <1>3, AdToGengoAgrees DEF Then, With, Agree
<1>. HIDE DEF Era
<1>. QED
  BY <1>1, <1>4, FirstNumberAgrees, FailsAgrees DEF Then, With, Agree

\* f_skk_gengo_to_ad
LEMMA SkkGengoToAdAgrees ==
    ASSUME NEW m, NEW big, Covers(big, m), NEW args
    PROVE  Agree(SkkGengoToAd(args, m), SkkGengoToAd(args, big))
<1>. DEFINE Year(mm, v) ==
                IF v = -1 THEN EvaluationFails(mm)
                ELSE NewString(mm, TextOf(OptionalArg(args, 1)) \o Decimal(v) \o TextOf(OptionalArg(args, 2)))
            Found(nengo, mm) ==
                IF SkkHenkanKey = NoKey THEN EvaluationFails(mm)
                ELSE IF Len(UpToDigit(SkkHenkanKey)) >= TMP_BUFFSIZE THEN Result(Undefined, mm)
                ELSE With(GengoToAd1(UpToDigit(SkkHenkanKey), nengo.int), LAMBDA v : Year(mm, v))
            Wrong == Len(args) > 2 \/ ~ IsText(OptionalArg(args, 1)) \/ ~ IsText(OptionalArg(args, 2))
<1>1. \A k : SkkGengoToAd(args, k) = IF Wrong THEN EvaluationFails(k) ELSE Then(FirstNumber(k), Found)
  BY Zenon DEF SkkGengoToAd
<1>2. \A v, mm, bb : Covers(bb, mm) => Agree(Year(mm, v), Year(bb, v))
  BY FailsAgrees, NewStringAgrees
<1>. HIDE DEF Year, Wrong
<1>3. \A nengo, mm, bb : Covers(bb, mm) => Agree(Found(nengo, mm), Found(nengo, bb))
  BY <1>2, FailsAgrees, ResultAgrees DEF With
<1>. HIDE DEF Found
<1>. QED
  BY <1>1, <1>3, FirstNumberAgrees, FailsAgrees DEF Then, With, Agree

\* snprintf needs no memory of the pools.
LEMMA SnprintfAgrees ==
    ASSUME NEW m, NEW big, Covers(big, m), NEW format, NEW texts
    PROVE  Agree(Snprintf(format, texts, m), Snprintf(format, texts, big))
  BY ResultAgrees DEF Snprintf, With

\* skk_num_exp
LEMMA NumTextAgrees ==
    ASSUME NEW m, NEW big, Covers(big, m), NEW num, NEW num_type
    PROVE  Agree(NumText(num, num_type, m), NumText(num, num_type, big))
<1>. DEFINE e == With(num, LAMBDA n : SkkNumExp(n, num_type, TMP_BUFFSIZE))
            Text(k, x) == CASE x.code = "ok" -> Result(LispString(x.text), k)
                            [] x.code = "failed" -> EvaluationFails(k)
                            [] x.code = "undefined" -> Result(Undefined, k)
<1>1. \A k : NumText(num, num_type, k) = With(e, LAMBDA x : Text(k, x))
  BY Zenon DEF NumText
<1>2. e.code \in {"ok", "failed", "undefined"}
  BY NumExpCodes DEF With
<1>. HIDE DEF e
<1>3. Agree(Text(m, e), Text(big, e))
  BY <1>2, FailsAgrees, ResultAgrees
<1>. HIDE DEF Text
<1>. QED
  BY <1>1, <1>3 DEF With

\* The text of a number, as a string.
LEMMA NumStringAgrees ==
    ASSUME NEW m, NEW big, Covers(big, m), NEW num, NEW num_type
    PROVE  Agree(NumString(num, num_type, m), NumString(num, num_type, big))
  BY NumTextAgrees, NewStringAgrees DEF NumString, Then, With, Agree

\* The year of an era in skk_default_current_date.
LEMMA EraYearAgrees ==
    ASSUME NEW m, NEW big, Covers(big, m), NEW date, NEW num_type, NEW gengo_index
    PROVE  Agree(EraYear(date, num_type, gengo_index, m), EraYear(date, num_type, gengo_index, big))
<1>. DEFINE Year(list, mm) ==
                IF list.items[3].type = "string" THEN Result(list.items[3], mm)
                ELSE NumText(Decimal(list.items[3].int), num_type, mm)
            Text(list, mm) ==
                Then(Year(list, mm),
                     LAMBDA text, left :
                         NewString(left, list.items[gengo_index + 1].chars \o text.chars))
            Checked(v) ==
                IF IsError(v.val) THEN Result(EvaluationError, v.mem)
                ELSE IF gengo_index \notin 0 .. 2 THEN Result(Undefined, v.mem)
                ELSE IF v.val.items[gengo_index + 1].type # "string" THEN EvaluationFails(v.mem)
                ELSE Text(v.val, v.mem)
<1>1. \A k : EraYear(date, num_type, gengo_index, k)
                 = With(AdToGengo(k, date.year, FALSE, date.month, date.day), Checked)
  BY Zenon DEF EraYear
<1>2. \A list, mm, bb : Covers(bb, mm) => Agree(Year(list, mm), Year(list, bb))
  BY NumTextAgrees, ResultAgrees
<1>. HIDE DEF Year
<1>3. \A list, mm, bb : Covers(bb, mm) => Agree(Text(list, mm), Text(list, bb))
  BY <1>2, NewStringAgrees DEF Then, With, Agree
<1>. HIDE DEF Text
<1>4. ASSUME NEW v, NEW w, Agree(v, w)
      PROVE  Agree(Checked(v), Checked(w))
  <2>1. CASE v.mem.refused
    BY <1>4, <2>1, ErrorsAreErrors DEF Agree, Result, EvaluationError
  <2>2. CASE ~ v.mem.refused
    BY <1>3, <1>4, <2>2, ResultAgrees, FailsAgrees DEF Agree
  <2>. QED
    BY <2>1, <2>2
<1>5. PICK v, w : /\ v = AdToGengo(m, date.year, FALSE, date.month, date.day)
                  /\ w = AdToGengo(big, date.year, FALSE, date.month, date.day)
  OBVIOUS
<1>6. Agree(Checked(v), Checked(w))
  BY <1>4, <1>5, AdToGengoAgrees
<1>. HIDE DEF Checked
<1>. QED
  BY <1>1, <1>5, <1>6 DEF With

\* skk_default_current_date
LEMMA SkkDefaultCurrentDateAgrees ==
    ASSUME NEW m, NEW big, Covers(big, m), NEW info, NEW format, NEW num_type,
           NEW gengo_p, NEW gengo_index, NEW dow_index
    PROVE  Agree(SkkDefaultCurrentDate(info, format, num_type, gengo_p, gengo_index, dow_index, m),
                 SkkDefaultCurrentDate(info, format, num_type, gengo_p, gengo_index, dow_index, big))
<1>. DEFINE Texts(date, year, month, day) ==
                <<year.chars, month.chars, day.chars,
                  IF dow_index = LispNil THEN date.dow ELSE DowJa(date.dow)>>
            Printed(texts, mm) ==
                Then(Snprintf(IF format = LispNil THEN DefaultFormat ELSE format.chars, texts, mm),
                     LAMBDA result, left : NewString(left, result.chars))
            Formatted(texts, mm) ==
                IF ~ IsText(format) THEN EvaluationFails(mm) ELSE Printed(texts, mm)
            Day(date, year, month, mm) ==
                Then(NumString(info.items[3].chars, num_type.int, mm),
                     LAMBDA day, left : Formatted(Texts(date, year, month, day), left))
            Month(date, year, mm) ==
                Then(NumString(Decimal(date.month), num_type.int, mm),
                     LAMBDA month, left : Day(date, year, month, left))
            Year(date, k) ==
                IF gengo_p = LispNil THEN NumString(info.items[1].chars, num_type.int, k)
                ELSE EraYear(date, num_type.int, gengo_index.int, k)
            Checked(date, k) ==
                IF ~ DateOK(info, date) THEN EvaluationFails(k)
                ELSE Then(Year(date, k), LAMBDA year, left : Month(date, year, left))
            Wrong == ~ IsDate(info) \/ ~ TypesAre(<<num_type, gengo_index>>, "int")
<1>1. \A k : SkkDefaultCurrentDate(info, format, num_type, gengo_p, gengo_index, dow_index, k)
                 = IF Wrong THEN EvaluationFails(k)
                   ELSE With(DateOf(info), LAMBDA date : Checked(date, k))
  BY Zenon DEF SkkDefaultCurrentDate
<1>2. \A texts, mm, bb : Covers(bb, mm) => Agree(Printed(texts, mm), Printed(texts, bb))
  BY SnprintfAgrees, NewStringAgrees DEF Then, With, Agree
<1>. HIDE DEF Printed, Wrong
<1>3. \A texts, mm, bb : Covers(bb, mm) => Agree(Formatted(texts, mm), Formatted(texts, bb))
  BY <1>2, FailsAgrees
<1>. HIDE DEF Formatted, Texts
<1>4. \A date, year, month, mm, bb : Covers(bb, mm) =>
          Agree(Day(date, year, month, mm), Day(date, year, month, bb))
  <2> SUFFICES ASSUME NEW date, NEW year, NEW month, NEW mm, NEW bb, Covers(bb, mm)
               PROVE  Agree(Day(date, year, month, mm), Day(date, year, month, bb))
    OBVIOUS
  <2>1. PICK v, w : /\ v = NumString(info.items[3].chars, num_type.int, mm)
                    /\ w = NumString(info.items[3].chars, num_type.int, bb)
    OBVIOUS
  <2>2. Agree(v, w)
    BY <2>1, NumStringAgrees
  <2>3. /\ Day(date, year, month, mm) = IF IsError(v.val) THEN v ELSE Formatted(Texts(date, year, month, v.val), v.mem)
        /\ Day(date, year, month, bb) = IF IsError(w.val) THEN w ELSE Formatted(Texts(date, year, month, w.val), w.mem)
    BY <2>1 DEF Then, With
  <2>. HIDE DEF Day
  <2>. QED
    BY <1>3, <2>2, <2>3 DEF Agree
<1>. HIDE DEF Day
<1>5. \A date, year, mm, bb : Covers(bb, mm) => Agree(Month(date, year, mm), Month(date, year, bb))
  <2> SUFFICES ASSUME NEW date, NEW year, NEW mm, NEW bb, Covers(bb, mm)
               PROVE  Agree(Month(date, year, mm), Month(date, year, bb))
    OBVIOUS
  <2>1. PICK v, w : /\ v = NumString(Decimal(date.month), num_type.int, mm)
                    /\ w = NumString(Decimal(date.month), num_type.int, bb)
    OBVIOUS
  <2>2. Agree(v, w)
    BY <2>1, NumStringAgrees
  <2>3. /\ Month(date, year, mm) = IF IsError(v.val) THEN v ELSE Day(date, year, v.val, v.mem)
        /\ Month(date, year, bb) = IF IsError(w.val) THEN w ELSE Day(date, year, w.val, w.mem)
    BY <2>1 DEF Then, With
  <2>. HIDE DEF Month
  <2>. QED
    BY <1>4, <2>2, <2>3 DEF Agree
<1>. HIDE DEF Month
<1>6. \A date : Agree(Year(date, m), Year(date, big))
  BY NumStringAgrees, EraYearAgrees
<1>. HIDE DEF Year
<1>7. \A date : Agree(Checked(date, m), Checked(date, big))
  BY <1>5, <1>6, FailsAgrees DEF Then, With, Agree
<1>. HIDE DEF Checked
<1>. QED
  BY <1>1, <1>7, FailsAgrees DEF With

\* f_skk_default_current_date
LEMMA DefaultCurrentDateAgrees ==
    ASSUME NEW m, NEW big, Covers(big, m), NEW args
    PROVE  Agree(DefaultCurrentDate(args, m), DefaultCurrentDate(args, big))
  BY FailsAgrees, ResultAgrees, SkkDefaultCurrentDateAgrees DEF DefaultCurrentDate

\* What the date functions return without a pp_function.
LEMMA DefaultDateAgrees ==
    ASSUME NEW m, NEW big, Covers(big, m), NEW datetime
    PROVE  Agree(DefaultDate(datetime, m), DefaultDate(datetime, big))
  BY SkkDefaultCurrentDateAgrees DEF DefaultDate

\* The three symbols of skk_relative_date, interned one after the other.
LEMMA InternOffsetsAgrees ==
    ASSUME NEW m, NEW big, Covers(big, m)
    PROVE  Agree(InternOffsets(m), InternOffsets(big))
<1>. DEFINE Third(mm, k) == InternLiteral(k, ":dd")
            Second(yy, k) == Then(InternLiteral(k, ":mm"), Third)
<1>1. \A k : InternOffsets(k) = Then(InternLiteral(k, ":yy"), Second)
  BY Zenon DEF InternOffsets
<1>2. \A mm, k, b : Covers(b, k) => Agree(Third(mm, k), Third(mm, b))
  BY InternLiteralAgrees, Zenon DEF Offsets
<1>. HIDE DEF Third
<1>3. \A yy, k, b : Covers(b, k) => Agree(Second(yy, k), Second(yy, b))
  <2>. SUFFICES ASSUME NEW k, NEW b, Covers(b, k)
                PROVE  Agree(Then(InternLiteral(k, ":mm"), Third), Then(InternLiteral(b, ":mm"), Third))
    BY Zenon
  <2>1. PICK r, s : r = InternLiteral(k, ":mm") /\ s = InternLiteral(b, ":mm")
    BY Zenon
  <2>2. Agree(r, s)
    BY <2>1, InternLiteralAgrees, Zenon DEF Offsets
  <2>3. Agree(Then(r, Third), Then(s, Third))
    BY <1>2, <2>2 DEF Then, With, Agree
  <2>. QED
    BY <2>1, <2>3, Zenon
<1>. HIDE DEF Second
<1>4. PICK r, s : r = InternLiteral(m, ":yy") /\ s = InternLiteral(big, ":yy")
  BY Zenon
<1>5. Agree(r, s)
  BY <1>4, InternLiteralAgrees, Zenon DEF Offsets
<1>6. Agree(Then(r, Second), Then(s, Second))
  BY <1>3, <1>5 DEF Then, With, Agree
<1>. QED
  BY <1>1, <1>4, <1>6, Zenon

\* The date that the date functions compute.
LEMMA DateListAgrees ==
    ASSUME NEW m, NEW big, Covers(big, m), NEW f, NEW args
    PROVE  Agree(DateList(f, args, m), DateList(f, args, big))
<1>. DEFINE Split(yy, mm, dd, k) == With(DateTime(yy, mm, dd), LAMBDA date : SplitTimeString(k, date))
            Relative(dd, k) ==
                IF OffsetsOK(args)
                THEN Split(Offset(args, ":yy"), Offset(args, ":mm"), Offset(args, ":dd"), k)
                ELSE EvaluationFails(k)
<1>1. \A k : DateList(f, args, k) =
                 IF f = "skk-current-date"
                 THEN IF Len(args) > 3 THEN EvaluationFails(k) ELSE Split(0, 0, 0, k)
                 ELSE IF Len(args) < 3 THEN EvaluationFails(k)
                 ELSE Then(InternOffsets(k), Relative)
  BY Zenon DEF DateList
<1>2. \A yy, mm, dd, k, b : Covers(b, k) => Agree(Split(yy, mm, dd, k), Split(yy, mm, dd, b))
  BY SplitTimeStringAgrees DEF With
<1>. HIDE DEF Split
<1>3. \A dd, k, b : Covers(b, k) => Agree(Relative(dd, k), Relative(dd, b))
  BY <1>2, FailsAgrees, Zenon
<1>. HIDE DEF Relative
<1>4. Agree(Then(InternOffsets(m), Relative), Then(InternOffsets(big), Relative))
  BY <1>3, InternOffsetsAgrees DEF Then, With, Agree
<1>. QED
  BY <1>1, <1>2, <1>4, FailsAgrees

\* The arguments of a pp_function.
LEMMA LambdaArgsAgrees ==
    ASSUME NEW m, NEW big, Covers(big, m), NEW f, NEW args, NEW date
    PROVE  Agree(LambdaArgs(f, args, date, m), LambdaArgs(f, args, date, big))
  BY NewListAgrees, ErrorsAreErrors DEF LambdaArgs, MemoryError

\* The functions behind the dynamic variables.
LEMMA DynamicValueAgrees ==
    ASSUME NEW m, NEW big, Covers(big, m), NEW f
    PROVE  Agree(DynamicValue(f, m), DynamicValue(f, big))
  BY NewStringAgrees, NumListAgrees, ResultAgrees DEF DynamicValue

\* Every simple function but symbol-value: with a memory that refuses nothing it returns
\* what it returns with unlimited memory.
LEMMA CallSimpleAgrees ==
    ASSUME NEW m, NEW big, Covers(big, m), NEW f \in SimpleFunctions, f # "symbol-value", NEW args,
           NEW stack
    PROVE  Agree(CallSimple(f, args, stack, m), CallSimple(f, args, <<>>, big))
  BY MinusAgrees, CarAgrees, ConcatAgrees, MakeStringAgrees, StringToCharAgrees, SubstringAgrees,
     FailsAgrees, ResultAgrees, CurrentTimeAgrees, SkkTimesAgrees, StringToNumberAgrees, UnitsAgrees,
     SkkAdToGengoAgrees, SkkGengoToAdAgrees, DefaultCurrentDateAgrees
     DEF CallSimple, SimpleFunctions

-----------------------------------------------------------------------------
(* Values                                                                    *)

\* The errors there are, and what is none of them is no error.
Known(x) == IsError(x) => x \in {EvaluationError, MemoryError, VariableError, Undefined}

\* A value that is no list.
Plain(x) == x.type # "list" /\ (x.type = "nil" => x = LispNil) /\ Known(x)

\* What can stand in a list: the objects of programs and what is no list.
Part(x) == x \in Objects \/ Plain(x)

\* What a variable, an argument or a result can be.
Fine(x) ==
    /\ Known(x)
    /\ x.type = "nil" => x = LispNil
    /\ x.type = "list" => /\ x = LispCList(x.items) /\ IsStack(x.items)
                          /\ \A i \in DOMAIN x.items : Part(x.items[i])

\* Values one after the other.
AllFine(xs) == IsStack(xs) /\ \A i \in DOMAIN xs : Fine(xs[i])

\* The objects of the programs are values.
LEMMA ObjectsAreFine ==
    ASSUME NEW x \in Objects
    PROVE  Fine(x)
<1>1. CASE x.type = "list"
  <2>1. x.items \in Seq(Objects) /\ x = LispCList(x.items)
    BY <1>1, ObjectsAssumption
  <2>2. \A i \in DOMAIN x.items : x.items[i] \in Objects
    BY <2>1
  <2>. QED
    BY <1>1, <2>1, <2>2 DEF Fine, Part, IsStack, Known, IsError
<1>2. CASE x.type # "list"
  BY <1>2, ObjectsAssumption DEF Fine, Known, IsError
<1>. QED
  BY <1>1, <1>2

\* What stands in a list is a value.
LEMMA PartsAreFine ==
    ASSUME NEW x, Part(x)
    PROVE  Fine(x)
  BY ObjectsAreFine DEF Part, Plain, Fine

\* The errors are no lists.
LEMMA ErrorsArePlain ==
    ASSUME NEW x, IsError(x), Known(x)
    PROVE  Plain(x)
  BY DEF IsError, Plain

\* Numbers, strings, errors and nil are no lists.
LEMMA PlainValues ==
    /\ \A n : Plain(LispInt(n)) /\ Plain(LispFloat(n)) /\ Plain(LispString(n))
    /\ Plain(LispNil)
    /\ Plain(EvaluationError) /\ Plain(MemoryError) /\ Plain(VariableError) /\ Plain(Undefined)
  BY DEF Plain, LispInt, LispFloat, LispString, LispError, LispNil, EvaluationError, MemoryError,
         VariableError, Undefined, Known, IsError

\* The results of the requests for a string or a float are no lists.
LEMMA StringsArePlain ==
    /\ \A m, s : Plain(NewString(m, s).val)
    /\ \A m, s, n : Plain(NewStringArea(m, s, n).val)
    /\ \A m, x : Plain(NewFloat(m, x).val)
    /\ \A m : Plain(EvaluationFails(m).val)
    /\ \A m, x : Result(x, m).val = x
<1>1. \A m, x : Result(x, m).val = x /\ Refused(x, m).val = x
  BY DEF Result, Refused
<1>2. \A m, s, n : Plain(NewStringArea(m, s, n).val)
  BY <1>1, PlainValues DEF NewStringArea
<1>3. \A m, s : Plain(NewString(m, s).val)
  BY <1>2 DEF NewString, With
<1>4. \A m, x : Plain(NewFloat(m, x).val)
  BY <1>1, PlainValues DEF NewFloat
<1>5. \A m : Plain(EvaluationFails(m).val)
  BY <1>1, PlainValues DEF EvaluationFails
<1>. QED
  BY <1>1, <1>2, <1>3, <1>4, <1>5

\* What the functions on eras start with is no other error.
LEMMA EraPartsAreKnown ==
    /\ \A m : Known(FirstNumber(m).val)
    /\ \A x, m : Known(Divider(x, m).val)
    /\ \A m, ad, not_gannen, month, day : Known(AdToGengo(m, ad, not_gannen, month, day).val)
<1>1. \A x, m : Result(x, m).val = x /\ Refused(x, m).val = x
  BY DEF Result, Refused
<1>2. \A x : Plain(x) => Known(x)
  BY DEF Plain
<1>3. \A xs : Known(LispCList(xs))
  BY DEF LispCList, Known, IsError
<1>4. \A m : Known(FirstNumber(m).val)
  BY <1>1, <1>2, PlainValues, StringsArePlain DEF FirstNumber
<1>5. \A x, m : Known(Divider(x, m).val)
  BY <1>1, <1>2, PlainValues DEF Divider
<1>6. \A m, xs : Known(NewList(m, xs, MemoryError).val)
  BY <1>1, <1>2, <1>3, PlainValues DEF NewList
<1>7. \A m, ad, not_gannen, month, day : Known(AdToGengo(m, ad, not_gannen, month, day).val)
  BY <1>1, <1>2, <1>6, PlainValues DEF AdToGengo
<1>. QED
  BY <1>4, <1>5, <1>7

\* Neither is what the functions on dates start with.
LEMMA DatePartsAreKnown ==
    /\ \A num, num_type, m : Known(NumString(num, num_type, m).val)
    /\ \A date, num_type, index, m : Known(EraYear(date, num_type, index, m).val)
    /\ \A format, texts, m : Known(Snprintf(format, texts, m).val)
    /\ \A m, strings : Known(CopyStrings(m, strings).val)
    /\ \A m : Known(InternOffsets(m).val)
<1>1. \A x, m : Result(x, m).val = x /\ Refused(x, m).val = x
  BY DEF Result, Refused
<1>2. \A x : Plain(x) => Known(x)
  BY DEF Plain
<1>3. \A num, num_type, m : Known(NumText(num, num_type, m).val)
  BY <1>1, <1>2, NumExpCodes, PlainValues, StringsArePlain DEF NumText, With
<1>4. \A num, num_type, m : Known(NumString(num, num_type, m).val)
  BY <1>2, <1>3, StringsArePlain DEF NumString, Then, With
<1>5. ASSUME NEW date, NEW num_type, NEW index, NEW m
      PROVE  Known(EraYear(date, num_type, index, m).val)
  <2>. DEFINE Year(list, mm) ==
                  IF list.items[3].type = "string" THEN Result(list.items[3], mm)
                  ELSE NumText(Decimal(list.items[3].int), num_type, mm)
              Text(list, mm) ==
                  Then(Year(list, mm),
                       LAMBDA text, left : NewString(left, list.items[index + 1].chars \o text.chars))
              Checked(v) ==
                  IF IsError(v.val) THEN Result(EvaluationError, v.mem)
                  ELSE IF index \notin 0 .. 2 THEN Result(Undefined, v.mem)
                  ELSE IF v.val.items[index + 1].type # "string" THEN EvaluationFails(v.mem)
                  ELSE Text(v.val, v.mem)
  <2>1. EraYear(date, num_type, index, m)
            = With(AdToGengo(m, date.year, FALSE, date.month, date.day), Checked)
    BY Zenon DEF EraYear
  <2>2. \A list, mm : Known(Year(list, mm).val)
    BY <1>1, <1>3 DEF Known, IsError
  <2>. HIDE DEF Year
  <2>3. \A list, mm : Known(Text(list, mm).val)
    BY <1>2, <2>2, StringsArePlain DEF Then, With
  <2>. HIDE DEF Text
  <2>4. \A v : Known(Checked(v).val)
    BY <1>1, <1>2, <2>3, PlainValues, StringsArePlain
  <2>. HIDE DEF Checked
  <2>. QED
    BY <2>1, <2>4 DEF With
<1>6. ASSUME NEW format, NEW texts, NEW m
      PROVE  Known(Snprintf(format, texts, m).val)
  <2>. DEFINE Printed(end) == IF ~ end.defined \/ end.percent THEN Result(Undefined, m)
                              ELSE IF Len(end.text) >= TMP_BUFFSIZE THEN Result(MemoryError, m)
                              ELSE Result(LispString(end.text), m)
  <2>1. \E end : Snprintf(format, texts, m) = With(end, Printed)
    BY Zenon DEF Snprintf
  <2>2. \A end : Known(Printed(end).val)
    BY <1>1, <1>2, PlainValues
  <2>. HIDE DEF Printed
  <2>. QED
    BY <2>1, <2>2 DEF With
<1>7. ASSUME NEW m, NEW strings
      PROVE  Known(CopyStrings(m, strings).val)
  <2>. DEFINE size(n) == FoldLeft(LAMBDA sum, s : sum + Len(s) + 1, 0, SubSeq(strings, 1, n))
              Copied(n) == IF n = Len(strings) THEN Result(LispNil, Spend(m, "string", size(n)))
                           ELSE Refused(MemoryError, Spend(m, "string", size(n)))
  <2>1. \E n : CopyStrings(m, strings) = With(n, Copied)
    BY Zenon DEF CopyStrings
  <2>. HIDE DEF size
  <2>2. \A n : Known(Copied(n).val)
    BY <1>1, <1>2, PlainValues
  <2>. HIDE DEF Copied
  <2>. QED
    BY <2>1, <2>2 DEF With
<1>8. \A m, s : Known(InternLiteral(m, s).val)
  BY <1>1, <1>2, PlainValues DEF InternLiteral, LispSymbol, Known, IsError
<1>9. \A m : Known(InternOffsets(m).val)
  BY <1>8 DEF InternOffsets, Then, With
<1>. QED
  BY <1>4, <1>5, <1>6, <1>7, <1>9

\* What f_minus computes is a number, whatever it computes it from.
LEMMA DifferencesAreNumbers ==
    ASSUME NEW first, Plain(first), NEW rest, IsStack(rest)
    PROVE  Plain(FoldLeft(Difference, first, rest))
<1>. DEFINE Step(f, t) == IF t = {} THEN first ELSE Difference(f[t \ {Max(t)}], rest[Max(t)])
            Solves(f, n) == f = [t \in SUBSET (1 .. n) |-> Step(f, t)]
            S == {n \in Nat : \E f : Solves(f, n)}
            C == CHOOSE f : f = [t \in SUBSET (DOMAIN rest) |-> Step(f, t)]
<1>1. FoldLeft(Difference, first, rest) = C[DOMAIN rest]
  BY Zenon DEF FoldLeft, MapThenFoldSet
<1>2. 0 \in S
  <2>1. PICK f : f = [t \in SUBSET (1 .. 0) |-> first]
    OBVIOUS
  <2>2. 1 .. 0 = {}
    OBVIOUS
  <2>3. Solves(f, 0)
    BY <2>1, <2>2
  <2>. QED
    BY <2>3
<1>3. ASSUME NEW n \in Nat, n \in S PROVE n + 1 \in S
  <2>1. PICK g : Solves(g, n)
    BY <1>3
  <2>2. PICK f : f = [t \in SUBSET (1 .. n + 1) |->
                          IF n + 1 \in t THEN Difference(g[t \ {n + 1}], rest[n + 1]) ELSE g[t]]
    OBVIOUS
  <2>3. ASSUME NEW t \in SUBSET (1 .. n + 1) PROVE f[t] = Step(f, t)
    <3>1. CASE n + 1 \in t
      <4>1. \A x \in t : n + 1 >= x
        OBVIOUS
      <4>2. \E x \in t : \A y \in t : x >= y
        BY <3>1, <4>1
      <4>3. Max(t) \in t /\ \A y \in t : Max(t) >= y
        BY <4>2, Zenon DEF Max
      <4>4. Max(t) = n + 1
        <5>1. PICK k : k = Max(t) /\ k \in t /\ k >= n + 1
          BY <3>1, <4>3
        <5>2. k \in 1 .. n + 1
          BY <5>1
        <5>. QED
          BY <5>1, <5>2
      <4>5. t \ {n + 1} \in SUBSET (1 .. n) /\ n + 1 \notin t \ {n + 1}
        OBVIOUS
      <4>6. f[t \ {n + 1}] = g[t \ {n + 1}]
        BY <2>2, <4>5
      <4>. QED
        BY <2>2, <3>1, <4>4, <4>6
    <3>2. CASE n + 1 \notin t
      <4>1. t \in SUBSET (1 .. n)
        BY <3>2
      <4>2. f[t] = g[t] /\ g[t] = Step(g, t)
        <5>1. g = [u \in SUBSET (1 .. n) |-> Step(g, u)]
          BY <2>1
        <5>2. g[t] = Step(g, t)
          BY <4>1, <5>1
        <5>. QED
          BY <2>2, <3>2, <5>2
      <4>3. n + 1 \notin t \ {Max(t)} /\ t \ {Max(t)} \in SUBSET (1 .. n + 1)
        BY <3>2
      <4>4. f[t \ {Max(t)}] = g[t \ {Max(t)}]
        BY <2>2, <4>3
      <4>. QED
        BY <4>2, <4>4
    <3>. QED
      BY <3>1, <3>2
  <2>4. f = [t \in SUBSET (1 .. n + 1) |-> Step(f, t)]
    <3>. HIDE DEF Step
    <3>. QED
      BY <2>2, <2>3
  <2>5. Solves(f, n + 1)
    BY <2>4, Zenon
  <2>. HIDE DEF Solves
  <2>. QED
    BY <2>5
<1>4. PICK L \in Nat : L = Len(rest) /\ DOMAIN rest = 1 .. L
  BY DEF IsStack
<1>5. L \in S
  <2>. HIDE DEF S
  <2>. QED
    BY <1>2, <1>3, <1>4, Induction
<1>6. PICK f : f = [t \in SUBSET (DOMAIN rest) |-> Step(f, t)]
  BY <1>4, <1>5
<1>7. C = [t \in SUBSET (DOMAIN rest) |-> Step(C, t)]
  BY <1>6, Zenon
<1>. HIDE DEF C
<1>8. C[DOMAIN rest] = Step(C, DOMAIN rest)
  BY <1>7
<1>9. \A x, y : Plain(Difference(x, y))
  BY PlainValues DEF Difference
<1>. QED
  BY <1>1, <1>8, <1>9

\* f_minus returns a number or an error.
LEMMA MinusIsPlain ==
    ASSUME NEW args, IsStack(args), NEW m
    PROVE  Plain(Minus(args, m).val)
<1>. DEFINE total == IF Len(args) = 1 THEN Difference(LispInt(0), args[1])
                     ELSE FoldLeft(Difference, Head(args), Tail(args))
<1>1. Minus(args, m) =
          IF \E i \in DOMAIN args : args[i].type \notin {"int", "float"} THEN EvaluationFails(m)
          ELSE IF args = <<>> THEN Result(LispInt(0), m)
          ELSE IF total.type = "float" THEN NewFloat(m, total.float)
          ELSE Result(total, m)
  BY Zenon DEF Minus
<1>2. CASE \E i \in DOMAIN args : args[i].type \notin {"int", "float"}
  BY <1>1, <1>2, StringsArePlain
<1>3. CASE args = <<>>
  BY <1>1, <1>3, StringsArePlain, PlainValues
<1>4. CASE args # <<>> /\ ~ \E i \in DOMAIN args : args[i].type \notin {"int", "float"}
  <2>1. Head(args) = args[1] /\ 1 \in DOMAIN args /\ IsStack(Tail(args))
    BY <1>4 DEF IsStack
  <2>2. Plain(Head(args))
    BY <1>4, <2>1 DEF Plain, Known, IsError
  <2>3. Plain(FoldLeft(Difference, Head(args), Tail(args)))
    BY <2>1, <2>2, DifferencesAreNumbers
  <2>4. \A x, y : Plain(Difference(x, y))
    BY PlainValues DEF Difference
  <2>5. Plain(total)
    BY <2>3, <2>4
  <2>. HIDE DEF total
  <2>. QED
    BY <1>1, <1>4, <2>5, StringsArePlain
<1>. QED
  BY <1>2, <1>3, <1>4

\* f_car returns what stands in the list it is given.
LEMMA CarIsFine ==
    ASSUME NEW args, AllFine(args), NEW m
    PROVE  Fine(Car(args, m).val)
<1>1. CASE Len(args) # 1 \/ args[1].type \notin {"nil", "list"}
  BY <1>1, StringsArePlain DEF Car, Plain, Fine
<1>2. CASE Len(args) = 1 /\ args[1] \in {LispNil, LispCList(<<>>)}
  BY <1>1, <1>2, StringsArePlain, PlainValues DEF Car, Plain, Fine
<1>3. CASE Len(args) = 1 /\ args[1] \notin {LispNil, LispCList(<<>>)} /\ args[1].type \in {"nil", "list"}
  <2>1. Fine(args[1])
    BY <1>3 DEF AllFine, IsStack
  <2>2. args[1].type = "list" /\ args[1].items # <<>>
    BY <1>3, <2>1 DEF Fine
  <2>3. Part(Head(args[1].items))
    <3>1. PICK s : s = args[1].items /\ IsStack(s) /\ s # <<>> /\ \A i \in DOMAIN s : Part(s[i])
      BY <2>1, <2>2 DEF Fine
    <3>2. 1 \in DOMAIN s /\ Head(s) = s[1]
      BY <3>1 DEF IsStack
    <3>. QED
      BY <3>1, <3>2
  <2>. QED
    BY <1>3, <2>3, PartsAreFine, StringsArePlain DEF Car
<1>. QED
  BY <1>1, <1>2, <1>3

\* f_concat returns a string or an error.
LEMMA ConcatIsPlain ==
    ASSUME NEW args, IsStack(args), NEW m
    PROVE  Plain(Concat(args, m).val)
<1>1. TypesAre(args, "string") /\ Len(args) = 1 => Plain(args[1])
  BY DEF TypesAre, IsStack, Plain, Known, IsError
<1>. QED
  BY <1>1, StringsArePlain DEF Concat

\* The functions on texts return strings, numbers or errors.
LEMMA TextsArePlain ==
    ASSUME NEW args, NEW m
    PROVE  /\ Plain(MakeString(args, m).val)
           /\ Plain(StringToChar(args, m).val)
           /\ Plain(Substring(args, m).val)
           /\ Plain(StringToNumber(args, m).val)
           /\ Plain(CurrentTime(args, m).val)
           /\ Plain(SkkTimes(args, m).val)
           /\ Plain(SkkGadgetUnitsConversion(args, m).val)
<1>1. Plain(MakeString(args, m).val)
  BY StringsArePlain DEF MakeString
<1>2. Plain(StringToChar(args, m).val)
  BY StringsArePlain, PlainValues DEF StringToChar
<1>3. Plain(Substring(args, m).val)
  BY StringsArePlain DEF Substring
<1>4. Plain(StringToNumber(args, m).val)
  BY StringsArePlain, PlainValues DEF StringToNumber, CheckNumStr
<1>5. Plain(CurrentTime(args, m).val)
  BY StringsArePlain DEF CurrentTime
<1>6. Plain(SkkTimes(args, m).val)
  BY StringsArePlain DEF SkkTimes
<1>7. Plain(SkkGadgetUnitsConversion(args, m).val)
  BY StringsArePlain DEF SkkGadgetUnitsConversion
<1>. QED
  BY <1>1, <1>2, <1>3, <1>4, <1>5, <1>6, <1>7

\* f_skk_ad_to_gengo returns a string or an error.
LEMMA SkkAdToGengoIsPlain ==
    ASSUME NEW m, NEW args
    PROVE  Plain(SkkAdToGengo(args, m).val)
<1>. DEFINE tail == OptionalArg(args, 3)
            Text(v, divider, mm) ==
                LET nengo == v.items[3]
                IN  NewString(mm, v.items[args[1].int + 1].chars \o divider.chars
                                  \o (IF nengo.type = "int" THEN Decimal(nengo.int) ELSE nengo.chars)
                                  \o TextOf(tail))
            Divided(v, mm) ==
                Then(Divider(OptionalArg(args, 2), mm), LAMBDA divider, left : Text(v, divider, left))
            Era(ad, mm) ==
                Then(AdToGengo(mm, ad.int, OptionalArg(args, 4) # LispNil, 0, 0), Divided)
<1>1. \/ SkkAdToGengo(args, m) = EvaluationFails(m)
      \/ SkkAdToGengo(args, m) = Then(FirstNumber(m), Era)
  BY Zenon DEF SkkAdToGengo
<1>2. \A v, divider, mm : Plain(Text(v, divider, mm).val)
  BY StringsArePlain
<1>. HIDE DEF Text
<1>3. \A v, mm : Plain(Divided(v, mm).val)
  BY <1>2, ErrorsArePlain, EraPartsAreKnown DEF Then, With
<1>. HIDE DEF Divided
<1>4. \A ad, mm : Plain(Era(ad, mm).val)
  BY <1>3, ErrorsArePlain, EraPartsAreKnown DEF Then, With
<1>. HIDE DEF Era
<1>5. Plain(Then(FirstNumber(m), Era).val)
  BY <1>4, ErrorsArePlain, EraPartsAreKnown DEF Then, With
<1>. QED
  BY <1>1, <1>5, StringsArePlain

\* f_skk_gengo_to_ad returns a string or an error.
LEMMA SkkGengoToAdIsPlain ==
    ASSUME NEW m, NEW args
    PROVE  Plain(SkkGengoToAd(args, m).val)
<1>. DEFINE Year(mm, v) ==
                IF v = -1 THEN EvaluationFails(mm)
                ELSE NewString(mm, TextOf(OptionalArg(args, 1)) \o Decimal(v) \o TextOf(OptionalArg(args, 2)))
            Found(nengo, mm) ==
                IF SkkHenkanKey = NoKey THEN EvaluationFails(mm)
                ELSE IF Len(UpToDigit(SkkHenkanKey)) >= TMP_BUFFSIZE THEN Result(Undefined, mm)
                ELSE With(GengoToAd1(UpToDigit(SkkHenkanKey), nengo.int), LAMBDA v : Year(mm, v))
<1>1. \/ SkkGengoToAd(args, m) = EvaluationFails(m)
      \/ SkkGengoToAd(args, m) = Then(FirstNumber(m), Found)
  BY Zenon DEF SkkGengoToAd
<1>2. \A v, mm : Plain(Year(mm, v).val)
  BY StringsArePlain
<1>. HIDE DEF Year
<1>3. \A nengo, mm : Plain(Found(nengo, mm).val)
  BY <1>2, StringsArePlain, PlainValues DEF With
<1>. HIDE DEF Found
<1>4. Plain(Then(FirstNumber(m), Found).val)
  BY <1>3, ErrorsArePlain, EraPartsAreKnown DEF Then, With
<1>. QED
  BY <1>1, <1>4, StringsArePlain

\* skk_default_current_date returns a string or an error.
LEMMA SkkDefaultCurrentDateIsPlain ==
    ASSUME NEW m, NEW info, NEW format, NEW num_type, NEW gengo_p, NEW gengo_index, NEW dow_index
    PROVE  Plain(SkkDefaultCurrentDate(info, format, num_type, gengo_p, gengo_index, dow_index, m).val)
<1>. DEFINE Texts(date, year, month, day) ==
                <<year.chars, month.chars, day.chars,
                  IF dow_index = LispNil THEN date.dow ELSE DowJa(date.dow)>>
            Printed(texts, mm) ==
                Then(Snprintf(IF format = LispNil THEN DefaultFormat ELSE format.chars, texts, mm),
                     LAMBDA result, left : NewString(left, result.chars))
            Formatted(texts, mm) ==
                IF ~ IsText(format) THEN EvaluationFails(mm) ELSE Printed(texts, mm)
            Day(date, year, month, mm) ==
                Then(NumString(info.items[3].chars, num_type.int, mm),
                     LAMBDA day, left : Formatted(Texts(date, year, month, day), left))
            Month(date, year, mm) ==
                Then(NumString(Decimal(date.month), num_type.int, mm),
                     LAMBDA month, left : Day(date, year, month, left))
            Year(date) ==
                IF gengo_p = LispNil THEN NumString(info.items[1].chars, num_type.int, m)
                ELSE EraYear(date, num_type.int, gengo_index.int, m)
            Checked(date) ==
                IF ~ DateOK(info, date) THEN EvaluationFails(m)
                ELSE Then(Year(date), LAMBDA year, left : Month(date, year, left))
<1>1. \/ SkkDefaultCurrentDate(info, format, num_type, gengo_p, gengo_index, dow_index, m)
             = EvaluationFails(m)
      \/ SkkDefaultCurrentDate(info, format, num_type, gengo_p, gengo_index, dow_index, m)
             = With(DateOf(info), Checked)
  BY Zenon DEF SkkDefaultCurrentDate
<1>2. \A texts, mm : Plain(Printed(texts, mm).val)
  BY StringsArePlain, ErrorsArePlain, DatePartsAreKnown DEF Then, With
<1>. HIDE DEF Printed
<1>3. \A texts, mm : Plain(Formatted(texts, mm).val)
  BY <1>2, StringsArePlain
<1>. HIDE DEF Formatted, Texts
<1>4. \A date, year, month, mm : Plain(Day(date, year, month, mm).val)
  BY <1>3, ErrorsArePlain, DatePartsAreKnown DEF Then, With
<1>. HIDE DEF Day
<1>5. \A date, year, mm : Plain(Month(date, year, mm).val)
  BY <1>4, ErrorsArePlain, DatePartsAreKnown DEF Then, With
<1>6. \A date : Known(Year(date).val)
  BY DatePartsAreKnown
<1>. HIDE DEF Month, Year
<1>7. \A date : Plain(Checked(date).val)
  BY <1>5, <1>6, StringsArePlain, ErrorsArePlain DEF Then, With
<1>. HIDE DEF Checked
<1>. QED
  BY <1>1, <1>7, StringsArePlain DEF With

\* A new list of plain values is a value, and so is the error for its refusal.
LEMMA ListsAreFine ==
    ASSUME NEW m, NEW xs, IsStack(xs), \A i \in DOMAIN xs : Plain(xs[i])
    PROVE  Fine(NewList(m, xs, MemoryError).val)
<1>1. Fine(LispCList(xs))
  BY DEF LispCList, Fine, Part, Known, IsError
<1>2. Fine(MemoryError)
  BY PlainValues DEF Fine, Plain
<1>. QED
  BY <1>1, <1>2 DEF NewList, Result, Refused

\* skk-num-list is a list of strings.
LEMMA NumListIsFine ==
    ASSUME NEW m
    PROVE  Fine(NumListValue(m).val)
<1>. DEFINE items == [i \in DOMAIN SkkNumList |-> LispString(SkkNumList[i])]
            Copies(list, mm) ==
                Then(CopyStrings(mm, SkkNumList), LAMBDA nil, left : Result(list, left))
<1>1. NumListValue(m) = IF SkkNumList = NoNumList THEN Result(LispNil, m)
                        ELSE Then(NewList(m, items, MemoryError), Copies)
  BY Zenon DEF NumListValue
<1>2. CASE SkkNumList = NoNumList
  <2>1. Fine(LispNil)
    BY PlainValues DEF Plain, Fine
  <2>2. NumListValue(m) = Result(LispNil, m)
    BY <1>1, <1>2
  <2>. QED
    BY <2>1, <2>2 DEF Result
<1>3. CASE SkkNumList # NoNumList
  <2>1. IsStack(items) /\ \A i \in DOMAIN items : Plain(items[i])
    <3>1. PICK V : V = {items[i] : i \in DOMAIN items}
      OBVIOUS
    <3>2. items \in Seq(V)
      <4>1. PICK n \in Nat : DOMAIN SkkNumList = 1 .. n
        BY <1>3, NumListAssumption
      <4>2. items \in [1 .. n -> V]
        BY <3>1, <4>1
      <4>. QED
        BY <4>1, <4>2, SeqDef
    <3>. QED
      BY <3>2, PlainValues DEF IsStack
  <2>2. Fine(NewList(m, items, MemoryError).val)
    BY <2>1, ListsAreFine
  <2>3. \A list, mm : Copies(list, mm).val = list \/ Plain(Copies(list, mm).val)
    <3>. SUFFICES ASSUME NEW list, NEW mm
                  PROVE  LET r == Then(CopyStrings(mm, SkkNumList), LAMBDA nil, left : Result(list, left))
                         IN  r.val = list \/ Plain(r.val)
      OBVIOUS
    <3>. PICK r : r = CopyStrings(mm, SkkNumList)
      OBVIOUS
    <3>1. \/ (IF IsError(r.val) THEN r ELSE Result(list, r.mem)).val = list
          \/ Plain((IF IsError(r.val) THEN r ELSE Result(list, r.mem)).val)
      BY ErrorsArePlain, DatePartsAreKnown DEF Result
    <3>. QED
      BY <3>1 DEF Then, With
  <2>. HIDE DEF Copies, items
  <2>4. \/ Then(NewList(m, items, MemoryError), Copies).val = NewList(m, items, MemoryError).val
        \/ Plain(Then(NewList(m, items, MemoryError), Copies).val)
    BY <2>3 DEF Then, With
  <2>. QED
    BY <1>1, <1>3, <2>2, <2>4 DEF Plain, Fine
<1>. QED
  BY <1>2, <1>3

\* The dynamic variables have values.
LEMMA DynamicValueIsFine ==
    ASSUME NEW m, NEW f
    PROVE  Fine(DynamicValue(f, m).val)
  BY StringsArePlain, NumListIsFine, PlainValues DEF DynamicValue, Plain, Fine

\* The date of the date functions is a list of strings.
LEMMA DateListIsFine ==
    ASSUME NEW m, NEW f, NEW args
    PROVE  Fine(DateList(f, args, m).val)
<1>. DEFINE Split(yy, mm, dd, k) == With(DateTime(yy, mm, dd), LAMBDA date : SplitTimeString(k, date))
            Relative(dd, k) ==
                IF OffsetsOK(args)
                THEN Split(Offset(args, ":yy"), Offset(args, ":mm"), Offset(args, ":dd"), k)
                ELSE EvaluationFails(k)
<1>1. DateList(f, args, m) =
                 IF f = "skk-current-date"
                 THEN IF Len(args) > 3 THEN EvaluationFails(m) ELSE Split(0, 0, 0, m)
                 ELSE IF Len(args) < 3 THEN EvaluationFails(m)
                 ELSE Then(InternOffsets(m), Relative)
  BY Zenon DEF DateList
<1>2. ASSUME NEW k, NEW date PROVE Fine(SplitTimeString(k, date).val)
  <2>. DEFINE list == [i \in 1 .. 7 |-> LispString(date[i])]
              texts == [i \in 1 .. 7 |-> date[<<4, 2, 3, 1, 5, 6, 7>>[i]]]
              Listed(nil, kk) == NewList(kk, list, MemoryError)
  <2>1. SplitTimeString(k, date) = Then(CopyStrings(k, texts), Listed)
    BY Zenon DEF SplitTimeString
  <2>2. IsStack(list) /\ \A i \in DOMAIN list : Plain(list[i])
    <3>1. PICK V : V = {list[i] : i \in 1 .. 7}
      OBVIOUS
    <3>2. list \in [1 .. 7 -> V]
      BY <3>1
    <3>. QED
      BY <3>2, SeqDef, PlainValues DEF IsStack
  <2>3. \A nil, kk : Fine(Listed(nil, kk).val)
    BY <2>2, ListsAreFine
  <2>. HIDE DEF Listed, list, texts
  <2>. QED
    BY <2>1, <2>3, ErrorsArePlain, DatePartsAreKnown DEF Then, With, Plain, Fine
<1>3. \A yy, mm, dd, k : Fine(Split(yy, mm, dd, k).val)
  BY <1>2 DEF With
<1>. HIDE DEF Split
<1>4. \A dd, k : Fine(Relative(dd, k).val)
  <2>1. \A k : Fine(EvaluationFails(k).val)
    BY StringsArePlain DEF Plain, Fine
  <2>. QED
    BY <1>3, <2>1, Zenon
<1>. HIDE DEF Relative
<1>5. Fine(Then(InternOffsets(m), Relative).val)
  BY <1>4, ErrorsArePlain, DatePartsAreKnown DEF Then, With, Plain, Fine
<1>. QED
  BY <1>1, <1>3, <1>5, StringsArePlain DEF Plain, Fine

\* Every simple function but symbol-value makes values of values.
LEMMA CallSimpleIsFine ==
    ASSUME NEW f \in SimpleFunctions, f # "symbol-value", NEW args, AllFine(args), NEW stack, NEW m
    PROVE  Fine(CallSimple(f, args, stack, m).val)
<1>1. Plain(DefaultCurrentDate(args, m).val)
  BY SkkDefaultCurrentDateIsPlain, StringsArePlain, PlainValues DEF DefaultCurrentDate
<1>2. Fine(Car(args, m).val)
  BY CarIsFine
<1>3. IsStack(args)
  BY DEF AllFine
<1>4. \A x : Plain(x) => Fine(x)
  BY DEF Plain, Fine
<1>. QED
  BY <1>1, <1>2, <1>3, <1>4, MinusIsPlain, ConcatIsPlain, TextsArePlain, SkkAdToGengoIsPlain,
     SkkGengoToAdIsPlain, StringsArePlain, PlainValues
     DEF CallSimple, SimpleFunctions

-----------------------------------------------------------------------------
(* Variables                                                                 *)

\* What the variables are while the bindings are these.
Env(stack) == [s \in {stack[i].symbol : i \in DOMAIN stack} |-> GetVariable(stack, s)]

\* A stack of bindings of values.
Bindings(stack) == IsStack(stack) /\ \A i \in DOMAIN stack : Fine(stack[i].value)

\* get_variable returns the value of the last binding of the name.
LEMMA GetVariableIs ==
    ASSUME NEW stack, IsStack(stack), NEW s, NEW i \in DOMAIN stack, stack[i].symbol = s,
           \A j \in DOMAIN stack : stack[j].symbol = s => j <= i
    PROVE  GetVariable(stack, s) = stack[i].value
<1>1. PICK n \in Nat : n = Len(stack) /\ DOMAIN stack = 1 .. n
  BY DEF IsStack
<1>. DEFINE bound == {j \in DOMAIN stack : stack[j].symbol = s}
            top == CHOOSE j \in bound : \A k \in bound : k <= j
<1>2. i \in bound /\ \A k \in bound : k <= i
  OBVIOUS
<1>3. top \in bound /\ \A k \in bound : k <= top
  BY <1>2, Zenon
<1>4. top = i
  <2>1. top \in 1 .. n /\ i \in 1 .. n /\ top <= i /\ i <= top
    BY <1>1, <1>2, <1>3
  <2>. HIDE DEF top
  <2>. QED
    BY <2>1
<1>5. bound # {}
  BY <1>2
<1>6. GetVariable(stack, s) = stack[top].value
  <2>. DEFINE B == {j \in DOMAIN stack : stack[j].symbol = s}
  <2>1. GetVariable(stack, s) = IF bound = {} THEN VariableError ELSE stack[top].value
    BY Zenon DEF GetVariable
  <2>. QED
    BY <1>5, <2>1, Zenon
<1>. QED
  BY <1>4, <1>6, Zenon

\* Of the bindings of one name, there is a last one.
LEMMA BoundLast ==
    ASSUME NEW stack, IsStack(stack), NEW s, NEW k \in DOMAIN stack, stack[k].symbol = s
    PROVE  \E i \in DOMAIN stack : /\ stack[i].symbol = s
                                   /\ \A j \in DOMAIN stack : stack[j].symbol = s => j <= i
<1>1. PICK n \in Nat : n = Len(stack) /\ DOMAIN stack = 1 .. n
  BY DEF IsStack
<1>2. PICK B : B = {j \in 1 .. n : stack[j].symbol = s}
  OBVIOUS
<1>3. B \in SUBSET (0 .. n) /\ B # {}
  BY <1>1, <1>2
<1>4. PICK i \in B : \A j \in B : i >= j
  BY <1>3, Greatest
<1>5. i \in DOMAIN stack /\ stack[i].symbol = s
  BY <1>1, <1>2
<1>6. \A j \in DOMAIN stack : stack[j].symbol = s => j <= i
  BY <1>1, <1>2, <1>4
<1>. QED
  BY <1>5, <1>6

\* A variable is bound to a value or is an error.
LEMMA VariablesAreFine ==
    ASSUME NEW stack, Bindings(stack), NEW s
    PROVE  Fine(GetVariable(stack, s))
<1>1. CASE \E k \in DOMAIN stack : stack[k].symbol = s
  <2>1. PICK i \in DOMAIN stack : stack[i].symbol = s /\ \A j \in DOMAIN stack : stack[j].symbol = s => j <= i
    BY <1>1, BoundLast DEF Bindings
  <2>2. GetVariable(stack, s) = stack[i].value
    BY <2>1, GetVariableIs DEF Bindings
  <2>. QED
    BY <2>2 DEF Bindings
<1>2. CASE ~ \E k \in DOMAIN stack : stack[k].symbol = s
  <2>1. GetVariable(stack, s) = VariableError
    BY <1>2, Zenon DEF GetVariable
  <2>. QED
    BY <2>1, PlainValues DEF Plain, Fine
<1>. QED
  BY <1>1, <1>2

\* A result that, unless something was refused, is this value.
Means(r, v) == ~ r.mem.refused => r.val = v /\ Covers(Unlimited, r.mem)

\* What agrees with unlimited memory has the meaning that unlimited memory computes.
LEMMA AgreementMeans ==
    ASSUME NEW r, NEW big, Agree(r, big)
    PROVE  Means(r, big.val)
  BY StillCovered DEF Agree, Means

\* eval_symbol, dynamic variables included, computes what the environment says.
LEMMA ValueOfMeans ==
    ASSUME NEW stack, Bindings(stack), NEW m, Covers(Unlimited, m), NEW s
    PROVE  /\ Means(ValueOf(s, stack, m), Lookup(Env(stack), s))
           /\ Fine(ValueOf(s, stack, m).val)
<1>1. PICK v : v = GetVariable(stack, s)
  OBVIOUS
<1>2. ValueOf(s, stack, m) = IF v.type = "dynamic" THEN DynamicValue(v.fn, m) ELSE Result(v, m)
  BY <1>1 DEF ValueOf
<1>3. Fine(v)
  BY <1>1, VariablesAreFine
<1>4. Fine(ValueOf(s, stack, m).val)
  BY <1>2, <1>3, DynamicValueIsFine DEF Result
<1>5. CASE s \in DOMAIN Env(stack)
  <2>1. Env(stack)[s] = v
    BY <1>1, <1>5 DEF Env
  <2>2. Lookup(Env(stack), s) = IF v.type = "dynamic" THEN DynamicValue(v.fn, Unlimited).val ELSE v
    BY <1>5, <2>1 DEF Lookup
  <2>3. CASE v.type = "dynamic"
    <3>1. Means(DynamicValue(v.fn, m), DynamicValue(v.fn, Unlimited).val)
      BY DynamicValueAgrees, AgreementMeans
    <3>. QED
      BY <1>2, <1>4, <2>2, <2>3, <3>1
  <2>4. CASE v.type # "dynamic"
    BY <1>2, <1>4, <2>2, <2>4 DEF Means, Result
  <2>. QED
    BY <2>3, <2>4
<1>6. CASE s \notin DOMAIN Env(stack)
  <2>1. {i \in DOMAIN stack : stack[i].symbol = s} = {}
    BY <1>6 DEF Env
  <2>2. v = VariableError
    BY <1>1, <2>1 DEF GetVariable
  <2>3. ValueOf(s, stack, m) = Result(v, m)
    BY <1>2, <2>2 DEF VariableError, LispError
  <2>4. Lookup(Env(stack), s) = VariableError
    BY <1>6 DEF Lookup
  <2>. QED
    BY <1>4, <2>2, <2>3, <2>4 DEF Means, Result
<1>. QED
  BY <1>5, <1>6

\* No two of the built-in variables have one name.
LEMMA GlobalsDiffer ==
    \A i, j \in 1 .. 5 : Globals[i].symbol = Globals[j].symbol => i = j
<1>1. /\ Globals[1].symbol = "fill-column" /\ Globals[2].symbol = "comment-start"
      /\ Globals[3].symbol = "user-full-name" /\ Globals[4].symbol = "user-mail-address"
      /\ Globals[5].symbol = "skk-num-list"
  BY DEF Globals, Binding
<1>2. \A i \in 1 .. 5 : i = 1 \/ i = 2 \/ i = 3 \/ i = 4 \/ i = 5
  OBVIOUS
<1>. QED
  BY <1>1, <1>2

\* The built-in variables are bindings, and make the environment of a program.
LEMMA GlobalsAreBindings == Bindings(Globals) /\ Env(Globals) = GlobalEnv
<1>1. IsStack(Globals) /\ Len(Globals) = 5 /\ DOMAIN Globals = 1 .. 5
  BY GlobalsAreFive, Pushed
<1>2. \A i \in 1 .. 5 : Fine(Globals[i].value)
  <2>1. /\ Globals[1].value = LispInt(V_FILL_COLUMN) /\ Globals[2].value = LispString(V_COMMENT_START)
        /\ \A i \in 3 .. 5 : Globals[i].value.type = "dynamic"
    <3>1. \A i \in 3 .. 5 : i = 3 \/ i = 4 \/ i = 5
      OBVIOUS
    <3>. QED
      BY <3>1 DEF Globals, Binding, DynamicVal
  <2>2. \A i \in 1 .. 5 : i = 1 \/ i = 2 \/ i \in 3 .. 5
    OBVIOUS
  <2>. QED
    BY <2>1, <2>2, PlainValues DEF Plain, Fine, Known, IsError
<1>3. ASSUME NEW i \in 1 .. 5
      PROVE  GetVariable(Globals, Globals[i].symbol)
                 = (CHOOSE b \in ToSet(Globals) : b.symbol = Globals[i].symbol).value
  <2>1. PICK s : s = Globals[i].symbol
    OBVIOUS
  <2>2. GetVariable(Globals, s) = Globals[i].value
    <3>1. \A j \in DOMAIN Globals : Globals[j].symbol = s => j <= i
      BY <1>1, <2>1, GlobalsDiffer
    <3>. QED
      BY <1>1, <2>1, <3>1, GetVariableIs
  <2>3. ToSet(Globals) = {Globals[j] : j \in 1 .. 5}
    BY <1>1, Zenon DEF ToSet
  <2>4. \A b \in ToSet(Globals) : b.symbol = s => b = Globals[i]
    BY <2>1, <2>3, GlobalsDiffer
  <2>5. Globals[i] \in ToSet(Globals)
    BY <2>3
  <2>6. PICK x : x = CHOOSE b \in ToSet(Globals) : b.symbol = s
    OBVIOUS
  <2>7. x \in ToSet(Globals) /\ x.symbol = s
    BY <2>1, <2>5, <2>6, Zenon
  <2>8. x = Globals[i]
    BY <2>4, <2>7
  <2>. QED
    BY <2>1, <2>2, <2>6, <2>8, Zenon
<1>4. Env(Globals) = GlobalEnv
  <2>. DEFINE V(s) == (CHOOSE b \in ToSet(Globals) : b.symbol = s).value
  <2>1. \A s \in {Globals[i].symbol : i \in DOMAIN Globals} : GetVariable(Globals, s) = V(s)
    <3>1. ASSUME NEW s \in {Globals[i].symbol : i \in 1 .. 5} PROVE GetVariable(Globals, s) = V(s)
      <4>1. PICK i \in 1 .. 5 : s = Globals[i].symbol
        OBVIOUS
      <4>. QED
        BY <1>3, <4>1, Zenon
    <3>. QED
      BY <1>1, <3>1, Zenon
  <2>2. GlobalEnv = [s \in {Globals[i].symbol : i \in DOMAIN Globals} |-> V(s)]
    BY DEF GlobalEnv
  <2>. HIDE DEF V
  <2>. QED
    BY <2>1, <2>2 DEF Env
<1>. QED
  BY <1>1, <1>2, <1>4 DEF Bindings

-----------------------------------------------------------------------------
(* Arguments and bodies, value after value                                   *)

\* The first of a sequence and the rest of it.
LEMMA Tailed ==
    ASSUME NEW s, IsStack(s), s # <<>>
    PROVE  /\ IsStack(Tail(s)) /\ Head(s) = s[1] /\ 1 \in DOMAIN s
           /\ \E n \in Nat : /\ Len(s) = n + 1 /\ DOMAIN s = 1 .. n + 1
                            /\ Len(Tail(s)) = n /\ DOMAIN Tail(s) = 1 .. n
                            /\ \A i \in 1 .. n : Tail(s)[i] = s[i + 1]
<1>1. PICK V : s \in Seq(V)
  BY DEF IsStack
<1>2. Tail(s) \in Seq(V) /\ Len(s) \in Nat \ {0} /\ Len(Tail(s)) = Len(s) - 1
  BY <1>1
<1>3. PICK n \in Nat : Len(s) = n + 1 /\ Len(Tail(s)) = n
  <2>1. PICK k : k = Len(s)
    OBVIOUS
  <2>2. k - 1 \in Nat /\ k = k - 1 + 1
    BY <1>2, <2>1
  <2>. QED
    BY <1>2, <2>1, <2>2
<1>4. \A i \in 1 .. n : Tail(s)[i] = s[i + 1]
  BY <1>1, <1>3
<1>5. DOMAIN s = 1 .. n + 1 /\ DOMAIN Tail(s) = 1 .. n
  BY <1>1, <1>2, <1>3
<1>. QED
  BY <1>1, <1>2, <1>3, <1>4, <1>5 DEF IsStack

\* The values of a call's arguments, or of a body's forms, when these are done,
\* the next one has this value, and those are still to be evaluated.
Vals(done, v, todo, env) ==
    [i \in 1 .. Len(done) + 1 + Len(todo) |->
        IF i <= Len(done) THEN done[i]
        ELSE IF i = Len(done) + 1 THEN v ELSE Meaning(todo[i - Len(done) - 1], env)]

\* Evaluation of arguments, or of a body, begins with the first one.
LEMMA FirstVals ==
    ASSUME NEW todo, IsStack(todo), todo # <<>>, NEW env
    PROVE  MeaningOfAll(todo, env) = Vals(<<>>, Meaning(Head(todo), env), Tail(todo), env)
<1>1. PICK n \in Nat : /\ Len(todo) = n + 1 /\ DOMAIN todo = 1 .. n + 1 /\ Len(Tail(todo)) = n
                       /\ \A i \in 1 .. n : Tail(todo)[i] = todo[i + 1]
                       /\ Head(todo) = todo[1]
  BY Tailed
<1>2. PICK f : f = MeaningOfAll(todo, env)
  OBVIOUS
<1>t. PICK tail, first : tail = Tail(todo) /\ first = Head(todo)
  OBVIOUS
<1>3. f = [i \in 1 .. n + 1 |-> Meaning(todo[i], env)]
  BY <1>1, <1>2 DEF MeaningOfAll
<1>4. PICK g : g = Vals(<<>>, Meaning(Head(todo), env), Tail(todo), env)
  OBVIOUS
<1>5. 1 .. 0 + 1 + n = 1 .. n + 1
  OBVIOUS
<1>6. g = [i \in 1 .. n + 1 |->
               IF i <= 0 THEN <<>>[i]
               ELSE IF i = 0 + 1 THEN Meaning(first, env) ELSE Meaning(tail[i - 0 - 1], env)]
  BY <1>1, <1>4, <1>5, <1>t DEF Vals
<1>7. ASSUME NEW i \in 1 .. n + 1 PROVE f[i] = g[i]
  <2>1. CASE i = 1
    BY <1>1, <1>3, <1>6, <1>t, <2>1
  <2>2. CASE i # 1
    <3>1. PICK k \in 1 .. n : i = k + 1 /\ i - 0 - 1 = k
      BY <2>2
    <3>2. g[i] = Meaning(tail[i - 0 - 1], env)
      BY <1>6, <2>2
    <3>3. g[i] = Meaning(tail[k], env)
      BY <3>1, <3>2
    <3>. QED
      BY <1>1, <1>3, <1>t, <3>1, <3>3
  <2>. QED
    BY <2>1, <2>2
<1>. QED
  BY <1>2, <1>3, <1>4, <1>6, <1>7

\* A value is done and the next expression takes its place.
LEMMA NextVals ==
    ASSUME NEW done, IsStack(done), NEW v, NEW todo, IsStack(todo), todo # <<>>, NEW env
    PROVE  Vals(done, v, todo, env) = Vals(Append(done, v), Meaning(Head(todo), env), Tail(todo), env)
<1>1. PICK n \in Nat : /\ Len(todo) = n + 1 /\ Len(Tail(todo)) = n
                       /\ \A i \in 1 .. n : Tail(todo)[i] = todo[i + 1]
                       /\ Head(todo) = todo[1]
  BY Tailed
<1>2. PICK m \in Nat : /\ Len(done) = m /\ Len(Append(done, v)) = m + 1
                       /\ \A i \in 1 .. m : Append(done, v)[i] = done[i]
                       /\ Append(done, v)[m + 1] = v
  BY Pushed
<1>t. PICK tail, first : tail = Tail(todo) /\ first = Head(todo)
  OBVIOUS
<1>3. PICK f : f = Vals(done, v, todo, env)
  OBVIOUS
<1>4. PICK g : g = Vals(Append(done, v), Meaning(Head(todo), env), Tail(todo), env)
  OBVIOUS
<1>5. f = [i \in 1 .. m + 1 + (n + 1) |->
               IF i <= m THEN done[i]
               ELSE IF i = m + 1 THEN v ELSE Meaning(todo[i - m - 1], env)]
  BY <1>1, <1>2, <1>3 DEF Vals
<1>6. g = [i \in 1 .. m + 1 + 1 + n |->
               IF i <= m + 1 THEN Append(done, v)[i]
               ELSE IF i = m + 1 + 1 THEN Meaning(first, env) ELSE Meaning(tail[i - (m + 1) - 1], env)]
  BY <1>1, <1>2, <1>4, <1>t DEF Vals
<1>7. 1 .. m + 1 + (n + 1) = 1 .. m + 1 + 1 + n
  OBVIOUS
<1>8. ASSUME NEW i \in 1 .. m + 1 + 1 + n PROVE f[i] = g[i]
  <2>1. CASE i <= m
    BY <1>2, <1>5, <1>6, <1>7, <2>1
  <2>2. CASE i = m + 1
    BY <1>2, <1>5, <1>6, <1>7, <2>2
  <2>3. CASE i = m + 1 + 1
    <3>1. i - m - 1 = 1
      BY <2>3
    <3>2. f[i] = Meaning(todo[1], env)
      BY <1>5, <1>7, <2>3, <3>1
    <3>. QED
      BY <1>1, <1>6, <1>t, <2>3, <3>2
  <2>4. CASE i > m + 1 + 1
    <3>1. PICK k \in 1 .. n : i - m - 1 = k + 1 /\ i - (m + 1) - 1 = k
      <4>1. i - m - 2 \in 1 .. n /\ i - m - 1 = i - m - 2 + 1 /\ i - (m + 1) - 1 = i - m - 2
        BY <2>4
      <4>. QED
        BY <4>1
    <3>2. f[i] = Meaning(todo[k + 1], env)
      BY <1>5, <1>7, <2>4, <3>1
    <3>3. g[i] = Meaning(tail[i - (m + 1) - 1], env)
      BY <1>6, <2>4
    <3>4. g[i] = Meaning(tail[k], env)
      BY <3>1, <3>3
    <3>. QED
      BY <1>1, <1>t, <3>1, <3>2, <3>4
  <2>. QED
    BY <2>1, <2>2, <2>3, <2>4
<1>. QED
  BY <1>3, <1>4, <1>5, <1>6, <1>7, <1>8

\* With the last value all are done.
LEMMA LastVals ==
    ASSUME NEW done, IsStack(done), NEW v, NEW env
    PROVE  Vals(done, v, <<>>, env) = Append(done, v)
<1>1. PICK m \in Nat : /\ Len(done) = m /\ Len(Append(done, v)) = m + 1
                       /\ DOMAIN Append(done, v) = 1 .. m + 1
                       /\ \A i \in 1 .. m : Append(done, v)[i] = done[i]
                       /\ Append(done, v)[m + 1] = v
  BY Pushed
<1>2. PICK g : g = Append(done, v)
  OBVIOUS
<1>3. g = [i \in 1 .. m + 1 |-> g[i]]
  <2>1. PICK W : g \in Seq(W)
    BY <1>2, Pushed DEF IsStack
  <2>2. g \in [1 .. Len(g) -> W]
    BY <2>1, LenProperties
  <2>. QED
    BY <1>1, <1>2, <2>2
<1>4. PICK f : f = Vals(done, v, <<>>, env)
  OBVIOUS
<1>0. PICK none : none = <<>>
  OBVIOUS
<1>5. f = [i \in 1 .. m + 1 |->
               IF i <= m THEN done[i]
               ELSE IF i = m + 1 THEN v ELSE Meaning(none[i - m - 1], env)]
  <2>1. Len(none) = 0 /\ m + 1 + 0 = m + 1
    BY <1>0
  <2>. QED
    BY <1>0, <1>1, <1>4, <2>1 DEF Vals
<1>6. ASSUME NEW i \in 1 .. m + 1 PROVE f[i] = g[i]
  <2>1. CASE i <= m
    BY <1>1, <1>2, <1>5, <2>1
  <2>2. CASE i = m + 1
    BY <1>1, <1>2, <1>5, <2>2
  <2>. QED
    BY <2>1, <2>2
<1>. QED
  BY <1>2, <1>3, <1>4, <1>5, <1>6

\* An error is the first one: nothing before it failed, and nothing after it counts.
LEMMA ErrorVals ==
    ASSUME NEW done, IsStack(done), ~ Fails(done), NEW v, IsError(v), NEW todo, IsStack(todo), NEW env
    PROVE  Fails(Vals(done, v, todo, env)) /\ FirstError(Vals(done, v, todo, env)) = v
<1>1. PICK m \in Nat : Len(done) = m /\ DOMAIN done = 1 .. m
  BY DEF IsStack
<1>2. PICK n \in Nat : Len(todo) = n
  BY DEF IsStack
<1>3. PICK f : f = Vals(done, v, todo, env)
  OBVIOUS
<1>4. f = [i \in 1 .. m + 1 + n |->
               IF i <= m THEN done[i]
               ELSE IF i = m + 1 THEN v ELSE Meaning(todo[i - m - 1], env)]
  BY <1>1, <1>2, <1>3 DEF Vals
<1>5. DOMAIN f = 1 .. m + 1 + n /\ m + 1 \in DOMAIN f /\ f[m + 1] = v
      /\ \A i \in 1 .. m : f[i] = done[i]
  BY <1>4
<1>6. \A i \in 1 .. m : ~ IsError(f[i])
  BY <1>1, <1>5 DEF Fails
<1>. DEFINE P(i) == IsError(f[i]) /\ \A j \in 1 .. i - 1 : ~ IsError(f[j])
            c == CHOOSE i \in DOMAIN f : P(i)
<1>7. P(m + 1)
  BY <1>5, <1>6
<1>8. c \in DOMAIN f /\ P(c)
  <2>. HIDE DEF P
  <2>. QED
    BY <1>5, <1>7, Zenon
<1>9. c = m + 1
  <2>1. PICK k : k = c
    OBVIOUS
  <2>2. k \in 1 .. m + 1 + n /\ IsError(f[k]) /\ \A j \in 1 .. k - 1 : ~ IsError(f[j])
    BY <1>5, <1>8, <2>1
  <2>3. IsError(f[m + 1])
    BY <1>5
  <2>4. ~ (k < m + 1)
    BY <1>6, <2>2
  <2>5. ~ (m + 1 < k)
    <3>1. m + 1 < k => m + 1 \in 1 .. k - 1
      BY <2>2
    <3>. QED
      BY <2>2, <2>3, <3>1
  <2>. QED
    BY <2>1, <2>2, <2>4, <2>5
<1>10. FirstError(f) = f[c]
  BY Zenon DEF FirstError
<1>11. Fails(f)
  BY <1>5 DEF Fails
<1>. HIDE DEF c
<1>. QED
  BY <1>3, <1>5, <1>9, <1>10, <1>11

\* One more value that is no error.
LEMMA DoneVals ==
    ASSUME NEW done, AllFine(done), ~ Fails(done), NEW v, Fine(v), ~ IsError(v)
    PROVE  AllFine(Append(done, v)) /\ ~ Fails(Append(done, v)) /\ Last(Append(done, v)) = v
<1>1. PICK m \in Nat : /\ Len(done) = m /\ Len(Append(done, v)) = m + 1
                       /\ DOMAIN Append(done, v) = 1 .. m + 1 /\ DOMAIN done = 1 .. m
                       /\ \A i \in 1 .. m : Append(done, v)[i] = done[i]
                       /\ Append(done, v)[m + 1] = v
                       /\ IsStack(Append(done, v))
  BY Pushed DEF AllFine
<1>2. \A i \in 1 .. m + 1 : i \in 1 .. m \/ i = m + 1
  OBVIOUS
<1>3. AllFine(Append(done, v))
  BY <1>1, <1>2 DEF AllFine
<1>4. ~ Fails(Append(done, v))
  BY <1>1, <1>2 DEF Fails
<1>. QED
  BY <1>1, <1>3, <1>4 DEF Last

\* The empty sequence is a stack of values without an error.
LEMMA NothingDone == AllFine(<<>>) /\ ~ Fails(<<>>)
<1>1. <<>> \in Seq({})
  OBVIOUS
<1>. QED
  BY <1>1 DEF AllFine, Fails, IsStack

-----------------------------------------------------------------------------
(* The bindings of a lambda                                                  *)

\* Of two parameters with one name there is a last one.
LEMMA LastOfFour ==
    ASSUME NEW names, NEW k \in 1 .. 4
    PROVE  \E i \in 1 .. 4 : names[i] = names[k] /\ \A j \in i + 1 .. 4 : names[j] # names[k]
<1>1. PICK B : B = {i \in 1 .. 4 : names[i] = names[k]}
  OBVIOUS
<1>2. B \in SUBSET (0 .. 4) /\ B # {}
  BY <1>1
<1>3. PICK i \in B : \A j \in B : i >= j
  BY <1>2, Greatest
<1>4. i \in 1 .. 4 /\ names[i] = names[k]
  BY <1>1
<1>5. \A j \in i + 1 .. 4 : names[j] # names[k]
  BY <1>1, <1>3, <1>4
<1>. QED
  BY <1>4, <1>5

\* The bindings of four parameters.
FourBindings(names, given) == [i \in 1 .. 4 |-> Binding(names[i], given[i])]

\* Four bindings more make the environment of the lambda's body.
LEMMA BoundEnv ==
    ASSUME NEW stack, Bindings(stack), NEW V, NEW names \in [1 .. 4 -> V],
           NEW given, AllFine(given), Len(given) = 4,
           NEW bound, bound = stack \o FourBindings(names, given)
    PROVE  /\ Bindings(bound) /\ Len(bound) = Len(stack) + 4
           /\ \A i \in 1 .. Len(stack) : bound[i] = stack[i]
           /\ Env(bound) = Bind(Env(stack), names, given)
<1>1. PICK n \in Nat : n = Len(stack) /\ DOMAIN stack = 1 .. n
  BY DEF Bindings, IsStack
<1>2. PICK w : w = [i \in 1 .. 4 |-> Binding(names[i], given[i])] /\ w = FourBindings(names, given)
  BY DEF FourBindings
<1>3. IsStack(w) /\ Len(w) = 4 /\ DOMAIN w = 1 .. 4
  <2>1. PICK W : W = {w[i] : i \in 1 .. 4}
    OBVIOUS
  <2>2. w \in [1 .. 4 -> W]
    BY <1>2, <2>1
  <2>3. w \in Seq(W)
    <3>1. \E k \in Nat : w \in [1 .. k -> W]
      BY <2>2, 4 \in Nat, Zenon
    <3>. QED
      BY <3>1, SeqDef
  <2>. QED
    BY <2>2, <2>3 DEF IsStack
<1>4. IsStack(bound) /\ Len(bound) = n + 4 /\ \A i \in 1 .. n : bound[i] = stack[i]
  <2>1. bound = stack \o w
    BY <1>2, Zenon
  <2>2. IsStack(stack)
    BY DEF Bindings
  <2>3. /\ IsStack(stack \o w) /\ Len(stack \o w) = Len(stack) + Len(w)
        /\ \A i \in 1 .. Len(stack) : (stack \o w)[i] = stack[i]
    BY <1>3, <2>2, Extended
  <2>. QED
    BY <1>1, <1>3, <2>1, <2>3
<1>5. ASSUME NEW i \in 1 .. 4
      PROVE  bound[n + i].symbol = names[i] /\ bound[n + i].value = given[i] /\ n + i \in DOMAIN bound
  <2>1. PICK X, W : stack \in Seq(X) /\ w \in Seq(W)
    BY <1>3 DEF Bindings, IsStack
  <2>2. PICK U : U = X \cup W
    OBVIOUS
  <2>3. stack \in Seq(U) /\ w \in Seq(U)
    BY <2>1, <2>2
  <2>4. bound[n + i] = w[i]
    <3>1. n + i \in 1 .. n + 4 /\ n < n + i /\ n + i - n = i
      OBVIOUS
    <3>. QED
      BY <1>1, <1>2, <1>3, <2>3, <3>1, ConcatProperties, SMTT(60)
  <2>5. n + i \in DOMAIN bound
    BY <1>4 DEF IsStack
  <2>. QED
    BY <1>2, <2>4, <2>5 DEF Binding
<1>6. \A j \in DOMAIN bound : j \in 1 .. n \/ \E k \in 1 .. 4 : j = n + k
  <2>1. DOMAIN bound = 1 .. n + 4
    BY <1>4 DEF IsStack
  <2>. SUFFICES ASSUME NEW j \in 1 .. n + 4, j \notin 1 .. n PROVE \E k \in 1 .. 4 : j = n + k
    BY <2>1
  <2>2. j - n \in 1 .. 4 /\ j = n + (j - n)
    OBVIOUS
  <2>. QED
    BY <2>2
<1>7. Bindings(bound)
  <2>1. \A i \in 1 .. 4 : Fine(given[i])
    BY DEF AllFine, IsStack
  <2>2. \A i \in 1 .. n : Fine(bound[i].value)
    BY <1>1, <1>4 DEF Bindings
  <2>3. ASSUME NEW j \in DOMAIN bound PROVE Fine(bound[j].value)
    <3>1. CASE j \in 1 .. n
      BY <2>2, <3>1, Zenon
    <3>2. CASE \E k \in 1 .. 4 : j = n + k
      <4>1. PICK k \in 1 .. 4 : j = n + k
        BY <3>2
      <4>. QED
        BY <1>5, <2>1, <4>1, Zenon
    <3>. QED
      BY <1>6, <3>1, <3>2
  <2>. QED
    BY <1>4, <2>3, Zenon DEF Bindings
<1>8. ToSet(names) = {names[i] : i \in 1 .. 4}
  <2>1. DOMAIN names = 1 .. 4
    OBVIOUS
  <2>. QED
    BY <2>1, Zenon DEF ToSet
<1>9. DOMAIN Env(stack) = {stack[i].symbol : i \in 1 .. n}
  BY <1>1 DEF Env
<1>10. {bound[i].symbol : i \in DOMAIN bound} = DOMAIN Env(stack) \cup ToSet(names)
  <2>1. 1 .. n \subseteq DOMAIN bound
    BY <1>4 DEF IsStack
  <2>2. ASSUME NEW j \in DOMAIN bound PROVE bound[j].symbol \in DOMAIN Env(stack) \cup ToSet(names)
    <3>1. CASE j \in 1 .. n
      BY <1>4, <1>9, <3>1, Zenon
    <3>2. CASE \E k \in 1 .. 4 : j = n + k
      <4>1. PICK k \in 1 .. 4 : j = n + k
        BY <3>2
      <4>. QED
        BY <1>5, <1>8, <4>1, Zenon
    <3>. QED
      BY <1>6, <3>1, <3>2
  <2>3. ASSUME NEW s \in DOMAIN Env(stack) PROVE s \in {bound[i].symbol : i \in DOMAIN bound}
    <3>1. PICK i \in 1 .. n : s = stack[i].symbol
      BY <1>9
    <3>. QED
      BY <1>4, <2>1, <3>1, Zenon
  <2>4. ASSUME NEW s \in ToSet(names) PROVE s \in {bound[i].symbol : i \in DOMAIN bound}
    <3>1. PICK i \in 1 .. 4 : s = names[i]
      BY <1>8
    <3>. QED
      BY <1>5, <3>1, Zenon
  <2>. QED
    BY <2>2, <2>3, <2>4, Zenon
<1>. DEFINE c(s) == CHOOSE i \in 1 .. 4 : names[i] = s /\ \A j \in i + 1 .. 4 : names[j] # s
            B(s) == IF s \in ToSet(names) THEN given[c(s)] ELSE Env(stack)[s]
<1>11. ASSUME NEW s \in DOMAIN Env(stack) \cup ToSet(names) PROVE GetVariable(bound, s) = B(s)
  <2>1. CASE s \in ToSet(names)
    <3>1. PICK k \in 1 .. 4 : names[k] = s
      BY <1>8, <2>1
    <3>2. PICK i0 \in 1 .. 4 : names[i0] = s /\ \A j \in i0 + 1 .. 4 : names[j] # s
      BY <3>1, LastOfFour
    <3>3. PICK i : i = c(s)
      OBVIOUS
    <3>4. i \in 1 .. 4 /\ names[i] = s /\ \A j \in i + 1 .. 4 : names[j] # s
      BY <3>2, <3>3, Zenon
    <3>5. n + i \in DOMAIN bound /\ bound[n + i].symbol = s /\ bound[n + i].value = given[i]
      BY <1>5, <3>4
    <3>6. ASSUME NEW j \in DOMAIN bound, bound[j].symbol = s PROVE j <= n + i
      <4>1. CASE j \in 1 .. n
        BY <3>4, <4>1
      <4>2. CASE \E m \in 1 .. 4 : j = n + m
        <5>1. PICK m \in 1 .. 4 : j = n + m
          BY <4>2
        <5>2. names[m] = s
          BY <1>5, <3>6, <5>1
        <5>3. ~ (i < m)
          <6>1. i < m => m \in i + 1 .. 4
            BY <3>4
          <6>. QED
            BY <3>4, <5>2, <6>1, Zenon
        <5>. QED
          BY <3>4, <5>1, <5>3
      <4>. QED
        BY <1>6, <4>1, <4>2
    <3>7. GetVariable(bound, s) = bound[n + i].value
      BY <1>4, <3>5, <3>6, GetVariableIs
    <3>. HIDE DEF c
    <3>. QED
      BY <2>1, <3>3, <3>5, <3>7
  <2>2. CASE s \notin ToSet(names)
    <3>1. PICK k \in DOMAIN stack : stack[k].symbol = s
      BY <1>1, <1>9, <2>2
    <3>2. PICK i \in DOMAIN stack : stack[i].symbol = s /\ \A j \in DOMAIN stack : stack[j].symbol = s => j <= i
      BY <3>1, BoundLast DEF Bindings
    <3>3. GetVariable(stack, s) = stack[i].value
      BY <3>2, GetVariableIs DEF Bindings
    <3>4. i \in DOMAIN bound /\ bound[i] = stack[i]
      BY <1>1, <1>4 DEF IsStack
    <3>5. ASSUME NEW j \in DOMAIN bound, bound[j].symbol = s PROVE j <= i
      <4>1. CASE j \in 1 .. n
        BY <1>1, <1>4, <3>2, <3>5, <4>1
      <4>2. \A m \in 1 .. 4 : j # n + m
        <5>1. \A m \in 1 .. 4 : names[m] # s
          BY <1>8, <2>2, Zenon
        <5>. QED
          BY <1>5, <3>5, <5>1, Zenon
      <4>. QED
        BY <1>6, <4>1, <4>2
    <3>6. GetVariable(bound, s) = bound[i].value
      BY <1>4, <3>2, <3>4, <3>5, GetVariableIs
    <3>7. Env(stack)[s] = GetVariable(stack, s)
      BY <3>1 DEF Env
    <3>. QED
      BY <2>2, <3>3, <3>4, <3>6, <3>7
  <2>. QED
    BY <2>1, <2>2
<1>12. Bind(Env(stack), names, given) = [s \in DOMAIN Env(stack) \cup ToSet(names) |-> B(s)]
  BY DEF Bind
<1>13. Env(bound) = [s \in DOMAIN Env(stack) \cup ToSet(names) |-> GetVariable(bound, s)]
  BY <1>10 DEF Env
<1>14. Env(bound) = Bind(Env(stack), names, given)
  <2>. HIDE DEF B
  <2>. QED
    BY <1>11, <1>12, <1>13
<1>. QED
  BY <1>1, <1>4, <1>7, <1>14

-----------------------------------------------------------------------------
(* Frames                                                                    *)

\* Expressions still to be evaluated.
Forms(xs) == IsStack(xs) /\ \A i \in DOMAIN xs : Part(xs[i])

\* A frame that, when it gets the value v, is on the way to the result r.  A
\* frame with arguments waits at the height at which it was pushed, one with the
\* forms of a body above the bindings of its lambda.
Waits(frame, v, r, below, height, env) ==
    /\ Forms(frame.todo)
    /\ \E done :
           /\ AllFine(done) /\ ~ Fails(done)
           /\ \/ /\ frame.kind = "args" /\ frame.done = done /\ below = height
                 /\ r = MeaningOfCall(frame.fn, Vals(done, v, frame.todo, env), env)
              \/ /\ frame.kind = "body" /\ frame.saved = below
                 /\ r = MeaningOfBody(Vals(done, v, frame.todo, env))

\* What the frames wait for, from the outermost result to the innermost value:
\* the i-th frame gives t[i - 1] when it gets t[i], and h[i] bindings are its own.
Chain(fs, stack, t, h) ==
    /\ IsStack(fs) /\ IsStack(stack)
    /\ h \in [0 .. Len(fs) -> Nat] /\ h[Len(fs)] = Len(stack)
    /\ \A i, j \in 0 .. Len(fs) : i <= j => h[i] <= h[j]
    /\ \A i \in 1 .. Len(fs) : Waits(fs[i], t[i], t[i - 1], h[i - 1], h[i], Env(SubSeq(stack, 1, h[i])))

\* With this value the frames give this result.
Chained(fs, stack, top, v) == \E t, h : Chain(fs, stack, t, h) /\ t[0] = top /\ t[Len(fs)] = v

\* A sequence up to its length is the sequence.
LEMMA WholeStack ==
    ASSUME NEW s, IsStack(s)
    PROVE  SubSeq(s, 1, Len(s)) = s
<1>1. PICK V : s \in Seq(V)
  BY DEF IsStack
<1>2. PICK n \in Nat : n = Len(s)
  BY <1>1
<1>3. \A i \in 1 .. n : s[i] \in V
  BY <1>1, <1>2
<1>4. /\ SubSeq(s, 1, n) \in Seq(V)
      /\ Len(SubSeq(s, 1, n)) = IF 1 <= n THEN n - 1 + 1 ELSE 0
      /\ \A i \in 1 .. n - 1 + 1 : SubSeq(s, 1, n)[i] = s[1 + i - 1]
  BY <1>3, SubSeqProperties
<1>5. Len(SubSeq(s, 1, n)) = n /\ \A i \in 1 .. n : SubSeq(s, 1, n)[i] = s[i]
  BY <1>4
<1>. QED
  BY <1>1, <1>2, <1>4, <1>5, SeqEqual

\* Without frames the value is the result.
LEMMA NoFrames ==
    ASSUME NEW stack, IsStack(stack), NEW top
    PROVE  Chained(<<>>, stack, top, top)
<1>1. PICK none : none = <<>> /\ IsStack(none) /\ Len(none) = 0
  BY NothingDone DEF AllFine
<1>2. PICK t, h : t = [i \in 0 .. 0 |-> top] /\ h = [i \in 0 .. 0 |-> Len(stack)]
  OBVIOUS
<1>3. Len(stack) \in Nat
  BY DEF IsStack
<1>4. Chain(none, stack, t, h) /\ t[0] = top
  BY <1>1, <1>2, <1>3 DEF Chain
<1>. QED
  BY <1>1, <1>4 DEF Chained

\* Without frames only the value itself is the result.
LEMMA NothingWaits ==
    ASSUME NEW stack, NEW top, NEW v, Chained(<<>>, stack, top, v)
    PROVE  top = v
<1>1. PICK none : none = <<>> /\ Len(none) = 0
  OBVIOUS
<1>. QED
  BY <1>1 DEF Chained

\* A frame that waits for a value lengthens the chain, with its bindings on the stack.
LEMMA PushChain ==
    ASSUME NEW fs, NEW stack, NEW top, NEW r, Chained(fs, stack, top, r),
           NEW above, IsStack(above), Len(stack) <= Len(above),
           \A i \in 1 .. Len(stack) : above[i] = stack[i],
           NEW x, NEW v, Waits(x, v, r, Len(stack), Len(above), Env(above))
    PROVE  Chained(Append(fs, x), above, top, v)
<1>1. PICK t, h : Chain(fs, stack, t, h) /\ t[0] = top /\ t[Len(fs)] = r
  BY DEF Chained
<1>2. PICK n \in Nat : /\ Len(fs) = n /\ Len(Append(fs, x)) = n + 1 /\ IsStack(Append(fs, x))
                       /\ \A i \in 1 .. n : Append(fs, x)[i] = fs[i]
                       /\ Append(fs, x)[n + 1] = x
  BY <1>1, Pushed DEF Chain
<1>3. PICK k, l : k = Len(stack) /\ l = Len(above) /\ k \in Nat /\ l \in Nat /\ k <= l
  BY <1>1 DEF Chain, IsStack
<1>4. PICK g : g = [i \in 0 .. n + 1 |-> IF i = n + 1 THEN l ELSE h[i]]
  OBVIOUS
<1>5. PICK u : u = [i \in 0 .. n + 1 |-> IF i = n + 1 THEN v ELSE t[i]]
  OBVIOUS
<1>6. /\ \A i \in 0 .. n : g[i] = h[i] /\ h[i] \in Nat /\ h[i] <= k
      /\ g[n + 1] = l /\ h[n] = k
      /\ \A i \in 0 .. n : u[i] = t[i]
      /\ u[n + 1] = v
  <2>1. h \in [0 .. n -> Nat] /\ h[n] = k /\ \A i, j \in 0 .. n : i <= j => h[i] <= h[j]
    BY <1>1, <1>2, <1>3 DEF Chain
  <2>2. \A i \in 0 .. n : i # n + 1 /\ i \in 0 .. n + 1 /\ i <= n /\ n \in 0 .. n /\ n + 1 \in 0 .. n + 1
    OBVIOUS
  <2>. QED
    BY <1>4, <1>5, <2>1, <2>2
<1>7. g \in [0 .. n + 1 -> Nat]
  <2>1. \A i \in 0 .. n + 1 : i = n + 1 \/ i \in 0 .. n
    OBVIOUS
  <2>. QED
    BY <1>3, <1>4, <1>6, <2>1
<1>8. ASSUME NEW i \in 0 .. n + 1, NEW j \in 0 .. n + 1, i <= j PROVE g[i] <= g[j]
  <2>1. CASE j = n + 1
    <3>1. i = n + 1 \/ i \in 0 .. n
      OBVIOUS
    <3>. QED
      BY <1>3, <1>6, <2>1, <3>1
  <2>2. CASE j # n + 1
    <3>1. i \in 0 .. n /\ j \in 0 .. n
      BY <1>8, <2>2
    <3>. QED
      BY <1>1, <1>2, <1>6, <1>8, <3>1 DEF Chain
  <2>. QED
    BY <2>1, <2>2
<1>9. ASSUME NEW i \in 1 .. n
      PROVE  Waits(Append(fs, x)[i], u[i], u[i - 1], g[i - 1], g[i], Env(SubSeq(above, 1, g[i])))
  <2>1. i \in 0 .. n /\ i - 1 \in 0 .. n
    OBVIOUS
  <2>2. u[i] = t[i] /\ u[i - 1] = t[i - 1] /\ g[i] = h[i] /\ g[i - 1] = h[i - 1] /\ h[i] \in Nat /\ h[i] <= k
    BY <1>6, <2>1
  <2>3. SubSeq(above, 1, h[i]) = SubSeq(stack, 1, h[i])
    <3>1. h[i] <= Len(stack) /\ h[i] <= Len(above)
      BY <1>3, <2>2
    <3>2. \A j \in 1 .. h[i] : above[j] = stack[j]
      BY <1>3, <2>2
    <3>3. IsStack(stack)
      BY <1>1 DEF Chain
    <3>. QED
      BY <2>2, <3>1, <3>2, <3>3, SamePrefix
  <2>4. Waits(fs[i], t[i], t[i - 1], h[i - 1], h[i], Env(SubSeq(stack, 1, h[i])))
    BY <1>1, <1>2 DEF Chain
  <2>5. Append(fs, x)[i] = fs[i]
    BY <1>2
  <2>. QED
    BY <2>2, <2>3, <2>4, <2>5, Zenon
<1>10. Waits(x, u[n + 1], u[n], g[n], g[n + 1], Env(SubSeq(above, 1, g[n + 1])))
  <2>1. u[n] = r /\ g[n] = Len(stack) /\ g[n + 1] = Len(above) /\ u[n + 1] = v
    BY <1>1, <1>2, <1>3, <1>6
  <2>2. SubSeq(above, 1, Len(above)) = above
    BY WholeStack
  <2>. QED
    BY <2>1, <2>2, Zenon
<1>11. \A i \in 1 .. n + 1 :
           Waits(Append(fs, x)[i], u[i], u[i - 1], g[i - 1], g[i], Env(SubSeq(above, 1, g[i])))
  <2>. SUFFICES ASSUME NEW i \in 1 .. n + 1
                PROVE  Waits(Append(fs, x)[i], u[i], u[i - 1], g[i - 1], g[i], Env(SubSeq(above, 1, g[i])))
    OBVIOUS
  <2>1. i \in 1 .. n \/ (i = n + 1 /\ i - 1 = n)
    OBVIOUS
  <2>. QED
    BY <1>2, <1>9, <1>10, <2>1, Zenon
<1>12. Chain(Append(fs, x), above, u, g)
  <2>1. \A i, j \in 0 .. n + 1 : i <= j => g[i] <= g[j]
    BY <1>8
  <2>2. g[n + 1] = Len(above)
    BY <1>3, <1>6
  <2>. QED
    BY <1>2, <1>7, <1>11, <2>1, <2>2, Zenon DEF Chain
<1>13. u[0] = top /\ u[n + 1] = v
  BY <1>1, <1>6
<1>. QED
  BY <1>2, <1>12, <1>13, Zenon DEF Chained

\* The last frame turns its value into the result for the frames below, on the stack as it
\* was when that frame was pushed.
LEMMA PopChain ==
    ASSUME NEW fs, NEW stack, NEW top, NEW v, Chained(fs, stack, top, v), fs # <<>>
    PROVE  \E r : \E below \in 0 .. Len(stack) :
               /\ Waits(Last(fs), v, r, below, Len(stack), Env(stack))
               /\ Chained(Front(fs), SubSeq(stack, 1, below), top, r)
<1>1. PICK t, h : Chain(fs, stack, t, h) /\ t[0] = top /\ t[Len(fs)] = v
  BY DEF Chained
<1>2. PICK n \in Nat : /\ n = Len(fs) - 1 /\ Len(fs) = n + 1 /\ Len(Front(fs)) = n /\ IsStack(Front(fs))
                       /\ \A i \in 1 .. n : Front(fs)[i] = fs[i]
                       /\ Last(fs) = fs[n + 1]
  <2>1. PICK l : l = Len(fs)
    OBVIOUS
  <2>2. l \in Nat \ {0} /\ Len(Front(fs)) = l - 1 /\ IsStack(Front(fs))
        /\ \A i \in 1 .. l - 1 : Front(fs)[i] = fs[i]
    BY <1>1, <2>1, Popped DEF Chain
  <2>3. l - 1 \in Nat /\ l = l - 1 + 1
    BY <2>2
  <2>4. Last(fs) = fs[l]
    BY <2>1 DEF Last
  <2>. QED
    BY <2>1, <2>2, <2>3, <2>4
<1>3. /\ h \in [0 .. n + 1 -> Nat] /\ h[n + 1] = Len(stack)
      /\ \A i, j \in 0 .. n + 1 : i <= j => h[i] <= h[j]
      /\ \A i \in 1 .. n + 1 : Waits(fs[i], t[i], t[i - 1], h[i - 1], h[i], Env(SubSeq(stack, 1, h[i])))
      /\ IsStack(stack) /\ IsStack(fs)
  BY <1>1, <1>2 DEF Chain
<1>4. PICK r, below : r = t[n] /\ below = h[n]
  OBVIOUS
<1>5. below \in 0 .. Len(stack) /\ below \in Nat
  <2>1. n \in 0 .. n + 1 /\ n + 1 \in 0 .. n + 1 /\ n <= n + 1
    OBVIOUS
  <2>. QED
    BY <1>3, <1>4, <2>1
<1>6. Waits(Last(fs), v, r, below, Len(stack), Env(stack))
  <2>1. n + 1 \in 1 .. n + 1 /\ n + 1 - 1 = n
    OBVIOUS
  <2>2. Waits(fs[n + 1], t[n + 1], t[n], h[n], h[n + 1], Env(SubSeq(stack, 1, h[n + 1])))
    BY <1>3, <2>1
  <2>3. SubSeq(stack, 1, Len(stack)) = stack
    BY <1>3, WholeStack
  <2>. QED
    BY <1>1, <1>2, <1>3, <1>4, <2>2, <2>3, Zenon
<1>7. PICK w : w = SubSeq(stack, 1, below) /\ IsStack(w) /\ Len(w) = below
               /\ \A i \in 1 .. below : w[i] = stack[i]
  <2>1. /\ IsStack(SubSeq(stack, 1, below)) /\ Len(SubSeq(stack, 1, below)) = below
        /\ \A i \in 1 .. below : SubSeq(stack, 1, below)[i] = stack[i]
    BY <1>3, <1>5, Shortened
  <2>. QED
    BY <2>1, Zenon
<1>8. PICK g : g = [i \in 0 .. n |-> h[i]]
  OBVIOUS
<1>9. \A i \in 0 .. n : i \in 0 .. n + 1 /\ g[i] = h[i] /\ h[i] \in Nat /\ h[i] <= below
  <2>1. \A i \in 0 .. n : i \in 0 .. n + 1 /\ n \in 0 .. n + 1 /\ i <= n
    OBVIOUS
  <2>. QED
    BY <1>3, <1>4, <1>8, <2>1
<1>10. g \in [0 .. n -> Nat] /\ g[n] = Len(w) /\ \A i, j \in 0 .. n : i <= j => g[i] <= g[j]
  <2>1. n \in 0 .. n
    OBVIOUS
  <2>. QED
    BY <1>3, <1>4, <1>7, <1>8, <1>9, <2>1
<1>11. ASSUME NEW i \in 1 .. n
       PROVE  Waits(Front(fs)[i], t[i], t[i - 1], g[i - 1], g[i], Env(SubSeq(w, 1, g[i])))
  <2>1. i \in 0 .. n /\ i - 1 \in 0 .. n /\ i \in 1 .. n + 1
    OBVIOUS
  <2>2. g[i] = h[i] /\ g[i - 1] = h[i - 1] /\ h[i] \in Nat /\ h[i] <= below
    BY <1>9, <2>1
  <2>3. SubSeq(w, 1, h[i]) = SubSeq(stack, 1, h[i])
    <3>1. h[i] <= Len(stack) /\ h[i] <= Len(w)
      <4>1. PICK l \in Nat : l = Len(stack)
        BY <1>3
      <4>. QED
        BY <1>5, <1>7, <2>2, <4>1
    <3>2. \A j \in 1 .. h[i] : w[j] = stack[j]
      BY <1>5, <1>7, <2>2
    <3>. QED
      BY <1>3, <1>7, <2>2, <3>1, <3>2, SamePrefix
  <2>4. Waits(fs[i], t[i], t[i - 1], h[i - 1], h[i], Env(SubSeq(stack, 1, h[i])))
    BY <1>3, <2>1, Zenon
  <2>5. Front(fs)[i] = fs[i]
    BY <1>2
  <2>. QED
    BY <2>2, <2>3, <2>4, <2>5, Zenon
<1>12. Chain(Front(fs), w, t, g)
  BY <1>2, <1>7, <1>10, <1>11, Zenon DEF Chain
<1>13. Chained(Front(fs), SubSeq(stack, 1, below), top, r)
  BY <1>1, <1>2, <1>4, <1>7, <1>12, Zenon DEF Chained
<1>. QED
  BY <1>5, <1>6, <1>13

\* A frame that gets an error returns it.
LEMMA WaitsForError ==
    ASSUME NEW frame, NEW v, NEW r, NEW below, NEW height, NEW env,
           Waits(frame, v, r, below, height, env), IsError(v)
    PROVE  r = v
<1>1. PICK done : /\ AllFine(done) /\ ~ Fails(done)
                  /\ \/ r = MeaningOfCall(frame.fn, Vals(done, v, frame.todo, env), env)
                     \/ r = MeaningOfBody(Vals(done, v, frame.todo, env))
  BY DEF Waits
<1>2. PICK vals : vals = Vals(done, v, frame.todo, env)
  OBVIOUS
<1>3. Fails(vals) /\ FirstError(vals) = v
  BY <1>1, <1>2, ErrorVals DEF Waits, Forms, AllFine
<1>. QED
  BY <1>1, <1>2, <1>3 DEF MeaningOfCall, MeaningOfBody

\* An error becomes the result of the whole chain.
LEMMA ErrorsEscape ==
    ASSUME NEW fs, NEW stack, NEW top, NEW v, Chained(fs, stack, top, v), IsError(v)
    PROVE  top = v
<1>1. PICK t, h : Chain(fs, stack, t, h) /\ t[0] = top /\ t[Len(fs)] = v
  BY DEF Chained
<1>2. PICK n \in Nat : n = Len(fs)
  BY <1>1 DEF Chain, IsStack
<1>. DEFINE S == {p \in 1 .. n : t[p - 1] = v}
<1>3. ASSUME NEW p \in 1 .. n, \A q \in p + 1 .. n : q \in S PROVE p \in S
  <2>1. t[p] = v
    <3>1. CASE p = n
      BY <1>1, <1>2, <3>1
    <3>2. CASE p # n
      <4>1. p + 1 \in p + 1 .. n /\ p + 1 - 1 = p
        BY <3>2
      <4>2. p + 1 \in S
        BY <1>3, <4>1
      <4>. QED
        BY <4>1, <4>2
    <3>. QED
      BY <3>1, <3>2
  <2>2. Waits(fs[p], t[p], t[p - 1], h[p - 1], h[p], Env(SubSeq(stack, 1, h[p])))
    BY <1>1, <1>2 DEF Chain
  <2>3. t[p - 1] = t[p]
    BY <2>1, <2>2, WaitsForError
  <2>. QED
    BY <2>1, <2>3
<1>4. 1 .. n \subseteq S
  <2>. HIDE DEF S
  <2>. QED
    BY <1>3, InductionFromTheEnd
<1>5. CASE n = 0
  BY <1>1, <1>2, <1>5
<1>6. CASE n # 0
  <2>1. 1 \in 1 .. n
    BY <1>6
  <2>2. 1 \in S
    BY <1>4, <2>1
  <2>. QED
    BY <1>1, <2>2
<1>. QED
  BY <1>5, <1>6

-----------------------------------------------------------------------------
(* The meaning of what the machine computes                                  *)

\* What the expression of the call means.
Answer == Meaning(call.expr, GlobalEnv)

\* What the machine is about to compute.
Computes(c, stack, v) ==
    \/ c.step = "eval" /\ Part(c.obj) /\ v = Meaning(c.obj, Env(stack))
    \/ c.step = "return" /\ Fine(c.obj) /\ v = c.obj
    \/ c.step = "apply" /\ AllFine(c.args) /\ ~ Fails(c.args) /\ v = MeaningOfCall(c.fn, c.args, Env(stack))

\* While nothing is refused, the frames make the answer of what is computed; an
\* error on its way out is the answer.
MeaningInv ==
    ~ mem.refused =>
        /\ Covers(Unlimited, mem)
        /\ Failing => control.obj = Answer /\ Known(Answer)
        /\ ~ Failing => /\ Bindings(variable_stack)
                        /\ \E v : /\ Computes(control, variable_stack, v)
                                  /\ Chained(frames, variable_stack, Answer, v)

\* What the equation says of anything that can stand in a list.
LEMMA MeaningOfPart ==
    ASSUME MeaningIsByParts, NEW x, Part(x), NEW env
    PROVE  Meaning(x, env) = MeaningByParts(x, env)
  BY DEF MeaningIsByParts, Part, Plain

\* The expression of a call computes its own meaning.
LEMMA EstablishMeaning == Init => MeaningInv
<1>. SUFFICES ASSUME Init PROVE MeaningInv
  OBVIOUS
<1>1. call.budget \in Budgets /\ call.budget \in [MemPools -> Nat] /\ call.expr \in Programs
  BY BudgetAssumption DEF Init
<1>2. IsMemory(mem) /\ ~ mem.refused /\ mem.free = call.budget
  <2>1. IsMemory(mem)
    BY Establish DEF IInv
  <2>. QED
    BY <2>1 DEF Init, Memory
<1>3. Covers(Unlimited, mem)
  <2>1. \A p \in MemPools : mem.free[p] <= INT_MAX
    BY <1>1, <1>2, SizesAreInts
  <2>. QED
    BY <1>2, <2>1, MemoryIsCovered
<1>4. control = Eval(call.expr) /\ frames = <<>> /\ variable_stack = Globals
  BY DEF Init
<1>5. ~ Failing
  BY <1>4 DEF Failing, Eval
<1>6. Bindings(variable_stack) /\ Env(variable_stack) = GlobalEnv
  BY <1>4, GlobalsAreBindings, Zenon
<1>7. Computes(control, variable_stack, Answer)
  <2>1. Part(call.expr)
    BY <1>1, ObjectsAssumption DEF Part
  <2>. QED
    BY <1>4, <1>6, <2>1 DEF Computes, Answer, Eval
<1>8. Chained(frames, variable_stack, Answer, Answer)
  BY <1>4, <1>6, NoFrames, Zenon DEF Bindings
<1>. QED
  BY <1>3, <1>5, <1>6, <1>7, <1>8, Zenon DEF MeaningInv

\* Once a request is refused, nothing is said of the value.
LEMMA RefusedMeansNothing ==
    ASSUME mem'.refused
    PROVE  MeaningInv'
  BY DEF MeaningInv

\* A step that returns the value it should keeps the chain.
LEMMA ContinueMeans ==
    ASSUME call' = call, NEW r, NEW v, Means(r, v), Fine(r.val), Continue(r),
           IsError(r.val) \/ variable_stack' = variable_stack,
           Bindings(variable_stack), Chained(frames, variable_stack, Answer, v)
    PROVE  MeaningInv'
<1>1. control' = Return(r.val) /\ mem' = r.mem /\ frames' = frames
  BY DEF Continue
<1>2. CASE mem'.refused
  BY <1>2, RefusedMeansNothing
<1>3. CASE ~ mem'.refused
  <2>1. r.val = v /\ Covers(Unlimited, mem')
    BY <1>1, <1>3 DEF Means
  <2>2. control'.step = "return" /\ control'.obj = v /\ Answer' = Answer
    BY <1>1, <2>1 DEF Return, Answer
  <2>3. CASE IsError(v)
    <3>1. Answer = v
      BY <2>3, ErrorsEscape
    <3>2. Failing'
      BY <2>2, <2>3 DEF Failing
    <3>. QED
      BY <2>1, <2>2, <3>1, <3>2 DEF MeaningInv, Fine
  <2>4. CASE ~ IsError(v)
    <3>1. variable_stack' = variable_stack /\ ~ Failing'
      BY <2>1, <2>2, <2>4 DEF Failing
    <3>2. Computes(control', variable_stack', v)
      BY <2>1, <2>2 DEF Computes
    <3>3. Chained(frames', variable_stack', Answer', v) /\ Bindings(variable_stack')
      BY <1>1, <2>2, <3>1, Zenon
    <3>. QED
      BY <2>1, <3>1, <3>2, <3>3, Zenon DEF MeaningInv
  <2>. QED
    BY <2>3, <2>4
<1>. QED
  BY <1>2, <1>3

\* A step that goes on with the evaluation of a part keeps the chain if the meaning of the
\* part is what the frames wait for.
LEMMA EvalMeans ==
    ASSUME call' = call, NEW x, Part(x), control' = Eval(x), Covers(Unlimited, mem'),
           Bindings(variable_stack'),
           Chained(frames', variable_stack', Answer, Meaning(x, Env(variable_stack')))
    PROVE  MeaningInv'
<1>1. control'.step = "eval" /\ control'.obj = x /\ Answer' = Answer
  BY DEF Eval, Answer
<1>2. ~ Failing'
  BY <1>1 DEF Failing
<1>3. Computes(control', variable_stack', Meaning(x, Env(variable_stack')))
  BY <1>1 DEF Computes
<1>4. Chained(frames', variable_stack', Answer', Meaning(x, Env(variable_stack')))
  BY <1>1, Zenon
<1>. QED
  BY <1>2, <1>3, <1>4, Zenon DEF MeaningInv

\* A step that goes on with a call keeps the chain if its meaning is what the frames wait for.
LEMMA ApplyMeans ==
    ASSUME call' = call, NEW f, NEW args, AllFine(args), ~ Fails(args), control' = Apply(f, args),
           Covers(Unlimited, mem'), Bindings(variable_stack'),
           Chained(frames', variable_stack', Answer, MeaningOfCall(f, args, Env(variable_stack')))
    PROVE  MeaningInv'
<1>1. control'.step = "apply" /\ control'.fn = f /\ control'.args = args /\ Answer' = Answer
  BY DEF Apply, Answer
<1>2. ~ Failing'
  BY <1>1 DEF Failing
<1>3. Computes(control', variable_stack', MeaningOfCall(f, args, Env(variable_stack')))
  BY <1>1 DEF Computes
<1>4. Chained(frames', variable_stack', Answer', MeaningOfCall(f, args, Env(variable_stack')))
  BY <1>1, Zenon
<1>. QED
  BY <1>2, <1>3, <1>4, Zenon DEF MeaningInv

\* What the invariant says of a state in which nothing failed.
LEMMA MeaningSays ==
    ASSUME MeaningInv, ~ mem.refused, ~ Failing
    PROVE  /\ Covers(Unlimited, mem) /\ Bindings(variable_stack)
           /\ \E v : /\ Computes(control, variable_stack, v)
                     /\ Chained(frames, variable_stack, Answer, v)
  BY Zenon DEF MeaningInv

\* The two nodes and the items of an argument list.
LEMMA MakeArgsAgrees ==
    ASSUME NEW m, NEW big, Covers(big, m), NEW args
    PROVE  Agree(MakeArgs(m, args), MakeArgs(big, args))
<1>1. CASE HasFree(m, "narray", 1)
  <2>1. PICK n, N : n = Spend(m, "narray", 1) /\ N = Spend(big, "narray", 1)
    OBVIOUS
  <2>2. HasFree(big, "narray", 1) /\ Covers(N, n)
    BY <1>1, <2>1, SpendCovers DEF MemPools
  <2>3. Agree(NewList(n, args, EvaluationError), NewList(N, args, EvaluationError))
    BY <2>2, NewListAgrees, ErrorsAreErrors DEF EvaluationError
  <2>. QED
    BY <1>1, <2>1, <2>2, <2>3 DEF MakeArgs
<1>2. CASE ~ HasFree(m, "narray", 1)
  BY <1>2, RefusedAgrees, ErrorsAreErrors DEF MakeArgs, EvaluationError
<1>. QED
  BY <1>1, <1>2

\* A list is refused, or it is one.
LEMMA ListsOrRefusals ==
    ASSUME NEW m, IsMemory(m), NEW xs, NEW e
    PROVE  \/ NewList(m, xs, e).mem.refused /\ NewList(m, xs, e).val = e
           \/ NewList(m, xs, e).val = LispCList(xs)
<1>1. [m EXCEPT !.refused = TRUE].refused
  BY DEF IsMemory
<1>. QED
  BY <1>1 DEF NewList, Refused, Result

\* make_args fails only if memory runs out.
LEMMA ArgsOrRefusals ==
    ASSUME NEW m, IsMemory(m), ~ m.refused, NEW args, IsError(MakeArgs(m, args).val)
    PROVE  MakeArgs(m, args).mem.refused
<1>1. [m EXCEPT !.refused = TRUE].refused
  BY DEF IsMemory
<1>2. CASE HasFree(m, "narray", 1)
  <2>1. PICK n : n = Spend(m, "narray", 1)
    OBVIOUS
  <2>2. IsMemory(n)
    <3>1. PICK l \in Int : l = m.free["narray"]
      BY DEF IsMemory
    <3>2. Sound(m, l)
      BY <3>1 DEF Sound
    <3>. QED
      BY <1>2, <2>1, <3>2, SpendKeeps DEF Sound, MemPools
  <2>3. MakeArgs(m, args) = NewList(n, args, EvaluationError)
    BY <1>2, <2>1 DEF MakeArgs
  <2>4. ~ IsError(LispCList(args))
    BY DEF IsError, LispCList
  <2>. QED
    BY <2>2, <2>3, <2>4, ListsOrRefusals
<1>3. CASE ~ HasFree(m, "narray", 1)
  BY <1>1, <1>3 DEF MakeArgs, Refused, Result
<1>. QED
  BY <1>2, <1>3

\* No argument, no meaning.
LEMMA NoMeanings == \A env : MeaningOfAll(<<>>, env) = <<>>
<1>. SUFFICES ASSUME NEW env PROVE MeaningOfAll(<<>>, env) = <<>>
  OBVIOUS
<1>1. PICK none : none = <<>>
  OBVIOUS
<1>2. DOMAIN none = {} /\ none = [i \in {} |-> none[i]]
  BY <1>1
<1>3. MeaningOfAll(none, env) = [i \in {} |-> Meaning(none[i], env)]
  BY <1>2 DEF MeaningOfAll
<1>4. [i \in {} |-> Meaning(none[i], env)] = [i \in {} |-> none[i]]
  OBVIOUS
<1>. QED
  BY <1>1, <1>2, <1>3, <1>4, Zenon

-----------------------------------------------------------------------------
(* The steps                                                                 *)

\* What is no symbol and no list means itself.
LEMMA EvalSelfMeans ==
    ASSUME MeaningIsByParts, MeaningInv, ~ mem.refused, EvalSelf
    PROVE  MeaningInv'
<1>1. control.step = "eval" /\ control.obj.type \in {"int", "float", "string", "nil"} /\ ~ Failing
  BY DEF EvalSelf, Evaluating, Failing
<1>2. PICK v : Computes(control, variable_stack, v) /\ Chained(frames, variable_stack, Answer, v)
  BY <1>1, MeaningSays
<1>3. Part(control.obj) /\ v = Meaning(control.obj, Env(variable_stack))
  BY <1>1, <1>2 DEF Computes
<1>4. v = control.obj
  <2>1. PICK x, env : x = control.obj /\ env = Env(variable_stack)
    OBVIOUS
  <2>2. MeaningByParts(x, env) = x
    BY <1>1, <2>1 DEF MeaningByParts
  <2>3. Meaning(x, env) = MeaningByParts(x, env)
    BY <1>3, <2>1, MeaningOfPart
  <2>. QED
    BY <1>3, <2>1, <2>2, <2>3
<1>5. PICK r : r = Result(control.obj, mem)
  OBVIOUS
<1>6. Means(r, v) /\ Fine(r.val)
  BY <1>1, <1>3, <1>4, <1>5, MeaningSays, PartsAreFine DEF Means, Result
<1>7. Continue(r) /\ call' = call /\ variable_stack' = variable_stack
  BY <1>5 DEF EvalSelf, Continue, Result
<1>. QED
  BY <1>1, <1>2, <1>6, <1>7, MeaningSays, ContinueMeans

\* A symbol means the value of its variable.
LEMMA EvalSymbolMeans ==
    ASSUME MeaningIsByParts, MeaningInv, ~ mem.refused, EvalSymbol
    PROVE  MeaningInv'
<1>1. control.step = "eval" /\ control.obj.type = "symbol" /\ ~ Failing
  BY DEF EvalSymbol, Evaluating, Failing
<1>2. PICK v : Computes(control, variable_stack, v) /\ Chained(frames, variable_stack, Answer, v)
  BY <1>1, MeaningSays
<1>3. Part(control.obj) /\ v = Meaning(control.obj, Env(variable_stack))
  BY <1>1, <1>2 DEF Computes
<1>4. PICK x, env : x = control.obj /\ env = Env(variable_stack)
  OBVIOUS
<1>5. v = IF x.name \in Keywords THEN x ELSE Lookup(env, x.name)
  <2>1. MeaningByParts(x, env) = IF x.name \in Keywords THEN x ELSE Lookup(env, x.name)
    BY <1>1, <1>4 DEF MeaningByParts
  <2>2. Meaning(x, env) = MeaningByParts(x, env)
    BY <1>3, <1>4, MeaningOfPart
  <2>. QED
    BY <1>3, <1>4, <2>1, <2>2
<1>6. PICK r : r = IF x.name \in Keywords THEN Result(x, mem) ELSE ValueOf(x.name, variable_stack, mem)
  OBVIOUS
<1>7. Means(r, v) /\ Fine(r.val)
  <2>1. CASE x.name \in Keywords
    BY <1>1, <1>3, <1>4, <1>5, <1>6, <2>1, MeaningSays, PartsAreFine DEF Means, Result
  <2>2. CASE x.name \notin Keywords
    <3>1. /\ Means(ValueOf(x.name, variable_stack, mem), Lookup(Env(variable_stack), x.name))
          /\ Fine(ValueOf(x.name, variable_stack, mem).val)
      BY <1>1, MeaningSays, ValueOfMeans
    <3>. QED
      BY <1>4, <1>5, <1>6, <2>2, <3>1
  <2>. QED
    BY <2>1, <2>2
<1>8. Continue(r) /\ call' = call /\ variable_stack' = variable_stack
  BY <1>4, <1>6 DEF EvalSymbol
<1>. QED
  BY <1>1, <1>2, <1>7, <1>8, MeaningSays, ContinueMeans

\* A list is one of the objects of the programs.
LEMMA ListsOfPrograms ==
    ASSUME NEW x, Part(x), x.type = "list"
    PROVE  Forms(x.items)
  BY PartsAreFine DEF Fine, Forms

\* No function is named like a special form.
LEMMA SpecialForms ==
    /\ "lambda" \notin Functions /\ "quote" \notin Functions
    /\ \A s, w : LispSymbol(s) = LispSymbol(w) => s = w
<1>1. "lambda" \notin Functions /\ "quote" \notin Functions
  BY DEF Functions, SimpleFunctions, DateFunctions
<1>2. \A s : LispSymbol(s).name = s
  BY DEF LispSymbol
<1>3. ASSUME NEW s, NEW w, LispSymbol(s) = LispSymbol(w) PROVE s = w
  <2>1. LispSymbol(s).name = s /\ LispSymbol(w).name = w
    BY <1>2
  <2>. QED
    BY <1>3, <2>1
<1>. QED
  BY <1>1, <1>3

\* nil, lambda and quote, and lists that call nothing.
LEMMA EvalSpecialMeans ==
    ASSUME MeaningIsByParts, MeaningInv, ~ mem.refused, EvalSpecial
    PROVE  MeaningInv'
<1>1. control.step = "eval" /\ control.obj.type = "list" /\ ~ Failing
  BY DEF EvalSpecial, Evaluating, Failing
<1>2. PICK v : Computes(control, variable_stack, v) /\ Chained(frames, variable_stack, Answer, v)
  BY <1>1, MeaningSays
<1>3. PICK x, env : x = control.obj /\ env = Env(variable_stack)
  OBVIOUS
<1>4. Part(x) /\ v = Meaning(x, env) /\ Forms(x.items)
  BY <1>1, <1>2, <1>3, ListsOfPrograms DEF Computes
<1>5. PICK items : items = x.items
  OBVIOUS
<1>6. PICK w : w = IF items = <<>> \/ HeadIs("lambda") THEN x
                   ELSE IF HeadIs("quote") /\ Len(items) = 2 THEN items[2]
                   ELSE EvaluationError
  OBVIOUS
<1>7. \A s : HeadIs(s) <=> items # <<>> /\ items[1] = LispSymbol(s)
  BY <1>3, <1>5 DEF HeadIs, Items
<1>8. items = <<>> \/ \A f \in Functions : items[1] # LispSymbol(f)
  BY <1>3, <1>5 DEF EvalSpecial, IsFunctionCall, HeadIs, Items
<1>9. items # <<>> => Head(items) = items[1]
  BY <1>4, <1>5, Tailed DEF Forms
<1>10. v = w
  <2>1. Meaning(x, env) = MeaningByParts(x, env)
    BY <1>4, MeaningOfPart
  <2>2. MeaningByParts(x, env) = MeaningOfList(x, env)
    BY <1>1, <1>3 DEF MeaningByParts
  <2>3. MeaningOfList(x, env) =
            IF items = <<>> \/ Head(items) = LispSymbol("lambda") THEN x
            ELSE IF Head(items) = LispSymbol("quote")
            THEN IF Len(items) = 2 THEN items[2] ELSE EvaluationError
            ELSE IF \E f \in Functions : Head(items) = LispSymbol(f)
            THEN MeaningOfCall(Head(items).name, MeaningOfAll(Tail(items), env), env)
            ELSE EvaluationError
    BY <1>5, Zenon DEF MeaningOfList
  <2>4. MeaningOfList(x, env) = w
    BY <1>6, <1>7, <1>8, <1>9, <2>3
  <2>. QED
    BY <1>4, <2>1, <2>2, <2>4
<1>11. Fine(w)
  <2>1. HeadIs("quote") /\ Len(items) = 2 => Part(items[2])
    BY <1>4, <1>5 DEF Forms, IsStack
  <2>2. Fine(x) /\ Fine(EvaluationError)
    BY <1>4, PartsAreFine, PlainValues DEF Part
  <2>. QED
    BY <1>6, <2>1, <2>2, PartsAreFine
<1>12. PICK r : r = Result(w, mem)
  OBVIOUS
<1>13. Means(r, v) /\ Fine(r.val)
  BY <1>1, <1>10, <1>11, <1>12, MeaningSays DEF Means, Result
<1>14. Continue(r) /\ call' = call /\ variable_stack' = variable_stack
  <2>1. control' = Return(w) /\ UNCHANGED <<call, frames, variable_stack, mem>>
    BY <1>3, <1>5, <1>6 DEF EvalSpecial, Items
  <2>. QED
    BY <1>12, <2>1 DEF Continue, Result
<1>. QED
  BY <1>1, <1>2, <1>13, <1>14, MeaningSays, ContinueMeans

\* A call begins: without arguments it is applied, with arguments the first one is evaluated.
LEMMA EvalCallMeans ==
    ASSUME MeaningIsByParts, MeaningInv, ~ mem.refused, EvalCall
    PROVE  MeaningInv'
<1>1. control.step = "eval" /\ control.obj.type = "list" /\ ~ Failing
  BY DEF EvalCall, Evaluating, Failing
<1>2. PICK v : Computes(control, variable_stack, v) /\ Chained(frames, variable_stack, Answer, v)
  BY <1>1, MeaningSays
<1>3. PICK x, env, items : x = control.obj /\ env = Env(variable_stack) /\ items = x.items
  OBVIOUS
<1>4. Part(x) /\ v = Meaning(x, env) /\ Forms(items)
  BY <1>1, <1>2, <1>3, ListsOfPrograms DEF Computes
<1>5. PICK f \in Functions : items # <<>> /\ items[1] = LispSymbol(f)
  BY <1>3 DEF EvalCall, IsFunctionCall, HeadIs, Items
<1>6. items[1].name = f
  BY <1>5 DEF LispSymbol
<1>7. PICK todo, room : todo = Tail(items) /\ room = MakeArgs(mem, todo)
  OBVIOUS
<1>8. /\ mem' = room.mem
      /\ IF IsError(room.val)
         THEN control' = Return(room.val) /\ UNCHANGED frames
         ELSE IF todo = <<>>
         THEN control' = Apply(f, <<>>) /\ UNCHANGED frames
         ELSE /\ control' = Eval(Head(todo))
              /\ frames' = Append(frames, ArgsFrame(f, Tail(todo), <<>>))
      /\ call' = call /\ variable_stack' = variable_stack
  BY <1>3, <1>6, <1>7 DEF EvalCall, Items
<1>9. v = MeaningOfCall(f, MeaningOfAll(todo, env), env)
  <2>1. Meaning(x, env) = MeaningByParts(x, env)
    BY <1>4, MeaningOfPart
  <2>2. MeaningByParts(x, env) = MeaningOfList(x, env)
    BY <1>1, <1>3 DEF MeaningByParts
  <2>3. MeaningOfList(x, env) =
            IF items = <<>> \/ Head(items) = LispSymbol("lambda") THEN x
            ELSE IF Head(items) = LispSymbol("quote")
            THEN IF Len(items) = 2 THEN items[2] ELSE EvaluationError
            ELSE IF \E g \in Functions : Head(items) = LispSymbol(g)
            THEN MeaningOfCall(Head(items).name, MeaningOfAll(Tail(items), env), env)
            ELSE EvaluationError
    BY <1>3, Zenon DEF MeaningOfList
  <2>4. Head(items) = LispSymbol(f)
    BY <1>4, <1>5, Tailed DEF Forms
  <2>5. LispSymbol(f) # LispSymbol("lambda") /\ LispSymbol(f) # LispSymbol("quote")
    BY SpecialForms
  <2>6. MeaningOfList(x, env) = MeaningOfCall(f, MeaningOfAll(todo, env), env)
    BY <1>5, <1>6, <1>7, <2>3, <2>4, <2>5
  <2>. QED
    BY <1>4, <2>1, <2>2, <2>6
<1>10. Forms(todo)
  <2>1. PICK n \in Nat : /\ IsStack(todo) /\ DOMAIN todo = 1 .. n /\ DOMAIN items = 1 .. n + 1
                         /\ \A i \in 1 .. n : todo[i] = items[i + 1]
    BY <1>4, <1>5, <1>7, Tailed DEF Forms
  <2>2. \A i \in 1 .. n : i + 1 \in 1 .. n + 1
    OBVIOUS
  <2>. QED
    BY <1>4, <2>1, <2>2 DEF Forms
<1>11. Covers(Unlimited, mem) /\ Bindings(variable_stack)
  BY <1>1, MeaningSays
<1>12. CASE IsError(room.val)
  <2>1. room.mem.refused
    BY <1>7, <1>11, <1>12, ArgsOrRefusals DEF Covers
  <2>. QED
    BY <1>8, <2>1, RefusedMeansNothing
<1>13. ASSUME ~ IsError(room.val) PROVE Covers(Unlimited, mem')
  <2>1. PICK big : big = MakeArgs(Unlimited, todo)
    OBVIOUS
  <2>2. Agree(room, big)
    BY <1>7, <1>11, <2>1, MakeArgsAgrees
  <2>. QED
    BY <1>8, <1>13, <2>2, StillCovered DEF Agree
<1>14. CASE ~ IsError(room.val) /\ todo = <<>>
  <2>1. control' = Apply(f, <<>>) /\ frames' = frames
    BY <1>8, <1>14
  <2>2. v = MeaningOfCall(f, <<>>, env)
    BY <1>9, <1>14, NoMeanings
  <2>3. Chained(frames', variable_stack', Answer, MeaningOfCall(f, <<>>, Env(variable_stack')))
    BY <1>2, <1>3, <1>8, <2>1, <2>2, Zenon
  <2>4. Bindings(variable_stack') /\ Covers(Unlimited, mem')
    BY <1>8, <1>11, <1>13, <1>14
  <2>5. PICK none : none = <<>>
    OBVIOUS
  <2>. QED
    BY <1>8, <2>1, <2>3, <2>4, <2>5, NothingDone, ApplyMeans
<1>15. CASE ~ IsError(room.val) /\ todo # <<>>
  <2>1. PICK y, none : y = ArgsFrame(f, Tail(todo), none) /\ none = <<>>
    OBVIOUS
  <2>2. control' = Eval(Head(todo)) /\ frames' = Append(frames, y)
    BY <1>8, <1>15, <2>1
  <2>3. Part(Head(todo)) /\ Forms(Tail(todo))
    <3>1. PICK n \in Nat : /\ IsStack(Tail(todo)) /\ DOMAIN Tail(todo) = 1 .. n /\ DOMAIN todo = 1 .. n + 1
                           /\ Head(todo) = todo[1] /\ \A i \in 1 .. n : Tail(todo)[i] = todo[i + 1]
      BY <1>10, <1>15, Tailed DEF Forms
    <3>2. \A i \in 1 .. n : i + 1 \in 1 .. n + 1
      OBVIOUS
    <3>. QED
      BY <1>10, <3>1, <3>2 DEF Forms
  <2>4. PICK u : u = Meaning(Head(todo), env)
    OBVIOUS
  <2>5. Waits(y, u, v, Len(variable_stack), Len(variable_stack), env)
    <3>1. MeaningOfAll(todo, env) = Vals(none, u, Tail(todo), env)
      BY <1>10, <1>15, <2>1, <2>4, FirstVals DEF Forms
    <3>2. y.todo = Tail(todo) /\ y.kind = "args" /\ y.done = none /\ y.fn = f
      BY <2>1 DEF ArgsFrame
    <3>3. AllFine(none) /\ ~ Fails(none)
      BY <2>1, NothingDone
    <3>4. v = MeaningOfCall(y.fn, Vals(none, u, y.todo, env), env)
      BY <1>9, <3>1, <3>2
    <3>. QED
      BY <2>3, <3>2, <3>3, <3>4 DEF Waits
  <2>6. Chained(Append(frames, y), variable_stack, Answer, u)
    <3>1. IsStack(variable_stack) /\ Len(variable_stack) \in Nat
      BY <1>11 DEF Bindings, IsStack
    <3>2. Len(variable_stack) <= Len(variable_stack)
      BY <3>1
    <3>. QED
      BY <1>2, <1>3, <2>5, <3>1, <3>2, PushChain
  <2>7. Chained(frames', variable_stack', Answer, Meaning(Head(todo), Env(variable_stack')))
    BY <1>3, <1>8, <2>2, <2>4, <2>6, Zenon
  <2>8. Bindings(variable_stack') /\ Covers(Unlimited, mem')
    BY <1>8, <1>11, <1>13, <1>15
  <2>. QED
    BY <1>8, <2>2, <2>3, <2>7, <2>8, EvalMeans
<1>. QED
  BY <1>12, <1>14, <1>15

\* The rest of the forms, and the first of them.
LEMMA RestOfForms ==
    ASSUME NEW todo, Forms(todo), todo # <<>>
    PROVE  Part(Head(todo)) /\ Forms(Tail(todo))
<1>1. PICK n \in Nat : /\ IsStack(Tail(todo)) /\ DOMAIN Tail(todo) = 1 .. n /\ DOMAIN todo = 1 .. n + 1
                       /\ Head(todo) = todo[1] /\ \A i \in 1 .. n : Tail(todo)[i] = todo[i + 1]
  BY Tailed DEF Forms
<1>2. \A i \in 1 .. n : i + 1 \in 1 .. n + 1
  OBVIOUS
<1>. QED
  BY <1>1, <1>2 DEF Forms

\* The value of an argument: the next one is evaluated, or the function is applied.
LEMMA ReturnToArgsMeans ==
    ASSUME MeaningInv, ~ mem.refused, ~ Failing, ReturnToArgs
    PROVE  MeaningInv'
<1>1. /\ control.step = "return" /\ frames # <<>> /\ Top = Last(frames) /\ Top.kind = "args"
      /\ ~ IsError(control.obj)
  BY DEF ReturnToArgs, Returning, Failing, Top
<1>2. PICK v : Computes(control, variable_stack, v) /\ Chained(frames, variable_stack, Answer, v)
  BY MeaningSays
<1>3. Fine(v) /\ v = control.obj
  BY <1>1, <1>2 DEF Computes
<1>4. Covers(Unlimited, mem) /\ Bindings(variable_stack)
  BY MeaningSays
<1>e. PICK env : env = Env(variable_stack)
  OBVIOUS
<1>5. PICK k \in Nat : k = Len(variable_stack)
  BY <1>4 DEF Bindings, IsStack
<1>6. PICK r : Waits(Top, v, r, k, k, env) /\ Chained(Front(frames), variable_stack, Answer, r)
  <2>1. PICK r : \E below \in 0 .. k :
            /\ Waits(Top, v, r, below, k, env)
            /\ Chained(Front(frames), SubSeq(variable_stack, 1, below), Answer, r)
    BY <1>1, <1>2, <1>5, <1>e, PopChain
  <2>2. Waits(Top, v, r, k, k, env) /\ Chained(Front(frames), SubSeq(variable_stack, 1, k), Answer, r)
    BY <1>1, <2>1 DEF Waits
  <2>3. SubSeq(variable_stack, 1, k) = variable_stack
    BY <1>4, <1>5, <1>e, WholeStack DEF Bindings
  <2>. QED
    BY <2>2, <2>3
<1>7. PICK done : /\ AllFine(done) /\ ~ Fails(done) /\ Top.done = done
                  /\ r = MeaningOfCall(Top.fn, Vals(done, v, Top.todo, env), env)
  BY <1>1, <1>6 DEF Waits
<1>8. Forms(Top.todo) /\ IsStack(done)
  BY <1>6, <1>7 DEF Waits, AllFine
<1>9. PICK more : more = Append(done, v)
  OBVIOUS
<1>10. AllFine(more) /\ ~ Fails(more)
  BY <1>1, <1>3, <1>7, <1>9, DoneVals
<1>11. /\ IF Top.todo = <<>>
          THEN frames' = Front(frames) /\ control' = Apply(Top.fn, more)
          ELSE /\ frames' = ReplaceTop(ArgsFrame(Top.fn, Tail(Top.todo), more))
               /\ control' = Eval(Head(Top.todo))
       /\ UNCHANGED <<call, variable_stack, mem>>
  BY <1>1, <1>3, <1>7, <1>9 DEF ReturnToArgs
<1>12. CASE Top.todo = <<>>
  <2>1. r = MeaningOfCall(Top.fn, more, env)
    BY <1>7, <1>8, <1>9, <1>12, LastVals
  <2>2. Chained(frames', variable_stack', Answer, MeaningOfCall(Top.fn, more, Env(variable_stack')))
    BY <1>5, <1>e, <1>6, <1>11, <1>12, <2>1, Zenon
  <2>3. Bindings(variable_stack') /\ Covers(Unlimited, mem') /\ call' = call
    BY <1>4, <1>11
  <2>4. control' = Apply(Top.fn, more)
    BY <1>11, <1>12
  <2>5. PICK f : f = Top.fn
    OBVIOUS
  <2>. QED
    BY <1>10, <2>2, <2>3, <2>4, <2>5, ApplyMeans
<1>13. CASE Top.todo # <<>>
  <2>1. PICK y, u : y = ArgsFrame(Top.fn, Tail(Top.todo), more) /\ u = Meaning(Head(Top.todo), env)
    OBVIOUS
  <2>2. frames' = Append(Front(frames), y) /\ control' = Eval(Head(Top.todo))
    BY <1>11, <1>13, <2>1 DEF ReplaceTop
  <2>3. Part(Head(Top.todo)) /\ Forms(Tail(Top.todo))
    BY <1>8, <1>13, RestOfForms
  <2>4. Vals(done, v, Top.todo, env) = Vals(more, u, Tail(Top.todo), env)
    BY <1>8, <1>9, <1>13, <2>1, NextVals DEF Forms
  <2>5. Waits(y, u, r, k, k, env)
    <3>1. y.todo = Tail(Top.todo) /\ y.kind = "args" /\ y.done = more /\ y.fn = Top.fn
      BY <2>1 DEF ArgsFrame
    <3>2. r = MeaningOfCall(y.fn, Vals(more, u, y.todo, env), env)
      BY <1>7, <2>4, <3>1
    <3>. QED
      BY <1>10, <2>3, <3>1, <3>2 DEF Waits
  <2>6. Chained(Append(Front(frames), y), variable_stack, Answer, u)
    <3>1. IsStack(variable_stack) /\ k <= k
      BY <1>4, <1>5, <1>e DEF Bindings
    <3>. QED
      BY <1>5, <1>e, <1>6, <2>5, <3>1, PushChain
  <2>7. Chained(frames', variable_stack', Answer, Meaning(Head(Top.todo), Env(variable_stack')))
    BY <1>5, <1>e, <1>11, <2>1, <2>2, <2>6, Zenon
  <2>8. Bindings(variable_stack') /\ Covers(Unlimited, mem') /\ call' = call
    BY <1>4, <1>11
  <2>9. PICK x : x = Head(Top.todo)
    OBVIOUS
  <2>. QED
    BY <2>2, <2>3, <2>7, <2>8, <2>9, EvalMeans
<1>. QED
  BY <1>12, <1>13

\* The value of a form: the next one is evaluated, or the bindings are dropped.
LEMMA ReturnToBodyMeans ==
    ASSUME MeaningInv, ~ mem.refused, ~ Failing, ReturnToBody
    PROVE  MeaningInv'
<1>1. /\ control.step = "return" /\ frames # <<>> /\ Top = Last(frames) /\ Top.kind = "body"
      /\ ~ IsError(control.obj)
  BY DEF ReturnToBody, Returning, Failing, Top
<1>2. PICK v : Computes(control, variable_stack, v) /\ Chained(frames, variable_stack, Answer, v)
  BY MeaningSays
<1>3. Fine(v) /\ v = control.obj
  BY <1>1, <1>2 DEF Computes
<1>4. Covers(Unlimited, mem) /\ Bindings(variable_stack) /\ IsStack(variable_stack)
  BY MeaningSays DEF Bindings
<1>e. PICK env : env = Env(variable_stack)
  OBVIOUS
<1>5. PICK k \in Nat : k = Len(variable_stack)
  BY <1>4 DEF IsStack
<1>6. PICK r : \E below \in 0 .. k :
          /\ Waits(Top, v, r, below, k, env)
          /\ Chained(Front(frames), SubSeq(variable_stack, 1, below), Answer, r)
  BY <1>1, <1>2, <1>e, <1>5, PopChain
<1>b. PICK below \in 0 .. k :
          /\ Waits(Top, v, r, below, k, env)
          /\ Chained(Front(frames), SubSeq(variable_stack, 1, below), Answer, r)
  BY <1>6
<1>7. PICK done : /\ AllFine(done) /\ ~ Fails(done) /\ Top.saved = below
                  /\ r = MeaningOfBody(Vals(done, v, Top.todo, env))
  BY <1>1, <1>b DEF Waits
<1>8. Forms(Top.todo) /\ IsStack(done)
  BY <1>b, <1>7 DEF Waits, AllFine
<1>9. PICK more : more = Append(done, v)
  OBVIOUS
<1>10. AllFine(more) /\ ~ Fails(more) /\ Last(more) = v
  BY <1>1, <1>3, <1>7, <1>9, DoneVals
<1>11. PICK w : /\ w = SubSeq(variable_stack, 1, below) /\ IsStack(w) /\ Len(w) = below
                /\ \A i \in 1 .. below : w[i] = variable_stack[i]
  <2>1. /\ IsStack(SubSeq(variable_stack, 1, below)) /\ Len(SubSeq(variable_stack, 1, below)) = below
        /\ \A i \in 1 .. below : SubSeq(variable_stack, 1, below)[i] = variable_stack[i]
    BY <1>4, <1>5, <1>e, <1>b, Shortened
  <2>. QED
    BY <2>1, Zenon
<1>12. /\ IF Top.todo = <<>>
          THEN frames' = Front(frames) /\ control' = control /\ variable_stack' = w
          ELSE /\ frames' = ReplaceTop(BodyFrame(Tail(Top.todo), below))
               /\ control' = Eval(Head(Top.todo))
               /\ variable_stack' = variable_stack
       /\ UNCHANGED <<call, mem>>
  BY <1>1, <1>7, <1>11 DEF ReturnToBody
<1>13. CASE Top.todo = <<>>
  <2>1. r = v
    <3>1. r = MeaningOfBody(more)
      BY <1>7, <1>8, <1>9, <1>13, LastVals
    <3>. QED
      BY <1>10, <3>1 DEF MeaningOfBody
  <2>2. Bindings(w)
    <3>1. DOMAIN w = 1 .. below /\ DOMAIN variable_stack = 1 .. k
      BY <1>4, <1>5, <1>e, <1>11 DEF IsStack
    <3>2. \A i \in 1 .. below : i \in 1 .. k
      BY <1>b
    <3>. QED
      BY <1>4, <1>11, <3>1, <3>2 DEF Bindings
  <2>3. frames' = Front(frames) /\ control' = control /\ variable_stack' = w /\ mem' = mem /\ call' = call
    BY <1>12, <1>13
  <2>4. ~ Failing' /\ Answer' = Answer
    BY <1>1, <2>3 DEF Failing, Answer
  <2>5. Computes(control', variable_stack', v)
    BY <1>1, <1>3, <2>3 DEF Computes
  <2>6. Chained(frames', variable_stack', Answer', v) /\ Bindings(variable_stack') /\ Covers(Unlimited, mem')
    BY <1>4, <1>b, <1>11, <2>1, <2>2, <2>3, <2>4, Zenon
  <2>. QED
    BY <2>4, <2>5, <2>6, Zenon DEF MeaningInv
<1>14. CASE Top.todo # <<>>
  <2>1. PICK y, u : y = BodyFrame(Tail(Top.todo), below) /\ u = Meaning(Head(Top.todo), env)
    OBVIOUS
  <2>2. /\ frames' = Append(Front(frames), y) /\ control' = Eval(Head(Top.todo))
        /\ variable_stack' = variable_stack
    BY <1>12, <1>14, <2>1 DEF ReplaceTop
  <2>3. Part(Head(Top.todo)) /\ Forms(Tail(Top.todo))
    BY <1>8, <1>14, RestOfForms
  <2>4. Vals(done, v, Top.todo, env) = Vals(more, u, Tail(Top.todo), env)
    BY <1>8, <1>9, <1>14, <2>1, NextVals DEF Forms
  <2>5. Waits(y, u, r, below, k, env)
    <3>1. y.todo = Tail(Top.todo) /\ y.kind = "body" /\ y.saved = below
      BY <2>1 DEF BodyFrame
    <3>2. r = MeaningOfBody(Vals(more, u, y.todo, env))
      BY <1>7, <2>4, <3>1
    <3>. QED
      BY <1>10, <2>3, <3>1, <3>2 DEF Waits
  <2>6. Chained(Append(Front(frames), y), variable_stack, Answer, u)
    <3>1. Len(w) <= Len(variable_stack) /\ \A i \in 1 .. Len(w) : variable_stack[i] = w[i]
      BY <1>5, <1>e, <1>b, <1>11
    <3>2. Waits(y, u, r, Len(w), Len(variable_stack), Env(variable_stack))
      BY <1>5, <1>e, <1>11, <2>5
    <3>3. Chained(Front(frames), w, Answer, r)
      BY <1>b, <1>11
    <3>. QED
      BY <1>4, <3>1, <3>2, <3>3, PushChain
  <2>7. Chained(frames', variable_stack', Answer, Meaning(Head(Top.todo), Env(variable_stack')))
    BY <1>5, <1>e, <2>1, <2>2, <2>6, Zenon
  <2>8. Bindings(variable_stack') /\ Covers(Unlimited, mem') /\ call' = call
    BY <1>4, <1>12, <2>2
  <2>9. PICK x : x = Head(Top.todo)
    OBVIOUS
  <2>. QED
    BY <2>2, <2>3, <2>7, <2>8, <2>9, EvalMeans
<1>. QED
  BY <1>13, <1>14

\* A simple function returns the meaning of its call.
LEMMA ApplySimpleMeans ==
    ASSUME IInv, MeaningInv, ~ mem.refused, ApplySimple
    PROVE  MeaningInv'
<1>1. control.step = "apply" /\ ~ Failing
  BY DEF ApplySimple, Failing
<1>2. PICK v : Computes(control, variable_stack, v) /\ Chained(frames, variable_stack, Answer, v)
  BY <1>1, MeaningSays
<1>3. PICK f, args : f = control.fn /\ args = control.args
  OBVIOUS
<1>4. AllFine(args) /\ ~ Fails(args) /\ v = MeaningOfCall(f, args, Env(variable_stack))
  BY <1>1, <1>2, <1>3 DEF Computes
<1>5. f \in SimpleFunctions /\ f \notin DateFunctions
  BY <1>3 DEF ApplySimple, IInv, ControlOK, Functions
<1>6. PICK r : r = CallSimple(f, args, variable_stack, mem)
  OBVIOUS
<1>7. Covers(Unlimited, mem) /\ Bindings(variable_stack)
  BY <1>1, MeaningSays
<1>8. Means(r, v) /\ Fine(r.val)
  <2>1. CASE f # "symbol-value"
    <3>1. v = CallSimple(f, args, <<>>, Unlimited).val
      BY <1>4, <1>5, <2>1 DEF MeaningOfCall
    <3>2. Agree(r, CallSimple(f, args, <<>>, Unlimited))
      BY <1>5, <1>6, <1>7, <2>1, CallSimpleAgrees
    <3>3. Means(r, v)
      BY <3>1, <3>2, AgreementMeans
    <3>. QED
      BY <1>4, <1>5, <1>6, <2>1, <3>3, CallSimpleIsFine
  <2>2. CASE f = "symbol-value" /\ Len(args) = 1 /\ args[1].type = "symbol"
    <3>1. v = Lookup(Env(variable_stack), args[1].name)
      BY <1>4, <1>5, <2>2 DEF MeaningOfCall
    <3>2. DOMAIN args = 1 .. 1
      BY <1>4, <2>2 DEF AllFine, IsStack
    <3>3. TypesAre(args, "symbol")
      BY <2>2, <3>2 DEF TypesAre
    <3>4. r = ValueOf(args[1].name, variable_stack, mem)
      BY <1>6, <2>2, <3>3 DEF CallSimple
    <3>. QED
      BY <1>7, <3>1, <3>4, ValueOfMeans
  <2>3. CASE f = "symbol-value" /\ ~ (Len(args) = 1 /\ args[1].type = "symbol")
    <3>1. v = EvaluationError
      BY <1>4, <1>5, <2>3 DEF MeaningOfCall
    <3>2. ~ (Len(args) = 1 /\ TypesAre(args, "symbol"))
      <4>1. Len(args) = 1 => 1 \in DOMAIN args
        BY <1>4 DEF AllFine, IsStack
      <4>. QED
        BY <2>3, <4>1 DEF TypesAre
    <3>3. r = EvaluationFails(mem)
      BY <1>6, <2>3, <3>2 DEF CallSimple
    <3>. QED
      BY <1>7, <3>1, <3>3, PlainValues DEF EvaluationFails, Result, Means, Plain, Fine
  <2>. QED
    BY <2>1, <2>2, <2>3
<1>9. Continue(r) /\ call' = call /\ variable_stack' = variable_stack
  BY <1>3, <1>6 DEF ApplySimple
<1>. QED
  BY <1>2, <1>7, <1>8, <1>9, ContinueMeans

\* The forms of a lambda's body.
LEMMA BodyForms ==
    ASSUME NEW items, Forms(items), Len(items) >= 2
    PROVE  /\ Forms(SubSeq(items, 3, Len(items)))
           /\ SubSeq(items, 3, Len(items)) = <<>> <=> Len(items) = 2
<1>1. PICK V : items \in Seq(V)
  BY DEF Forms, IsStack
<1>2. PICK n \in Nat : n = Len(items) /\ n >= 2
  BY <1>1
<1>3. \A i \in 3 .. n : items[i] \in V
  BY <1>1, <1>2
<1>4. /\ SubSeq(items, 3, n) \in Seq(V)
      /\ Len(SubSeq(items, 3, n)) = IF 3 <= n THEN n - 3 + 1 ELSE 0
      /\ \A i \in 1 .. n - 3 + 1 : SubSeq(items, 3, n)[i] = items[3 + i - 1]
  BY <1>3, SubSeqProperties
<1>5. PICK body : body = SubSeq(items, 3, n)
  OBVIOUS
<1>6. body \in Seq(V) /\ Len(body) = n - 2 /\ \A i \in 1 .. n - 2 : body[i] = items[i + 2]
  <2>1. n - 3 + 1 = n - 2 /\ \A i \in 1 .. n - 2 : 3 + i - 1 = i + 2
    BY <1>2
  <2>2. 3 <= n \/ n - 2 = 0
    BY <1>2
  <2>. QED
    BY <1>4, <1>5, <2>1, <2>2
<1>7. DOMAIN body = 1 .. n - 2 /\ DOMAIN items = 1 .. n
  BY <1>1, <1>2, <1>6
<1>8. \A i \in 1 .. n - 2 : i + 2 \in 1 .. n
  BY <1>2
<1>9. Forms(body)
  BY <1>6, <1>7, <1>8 DEF Forms, IsStack
<1>10. body = <<>> <=> n = 2
  <2>1. body = <<>> <=> Len(body) = 0
    BY <1>6
  <2>. QED
    BY <1>2, <1>6, <2>1
<1>. QED
  BY <1>2, <1>5, <1>9, <1>10

\* What call_lambda computes is what the lambda means.
LEMMA CallLambdaMeans ==
    ASSUME call' = call, Bindings(variable_stack), Len(variable_stack) <= VARIABLE_STACK_SIZE,
           NEW lambda, Fine(lambda), NEW given, AllFine(given), Len(given) = 4,
           NEW m, Covers(Unlimited, m), CallLambda(lambda, given, m),
           NEW v, v = MeaningOfLambda(lambda, given, Env(variable_stack)),
           Chained(frames, variable_stack, Answer, v)
    PROVE  MeaningInv'
<1>1. PICK k \in Nat : k = Len(variable_stack)
  BY DEF Bindings, IsStack
<1>2. ASSUME NEW w, Plain(w), w = v, Continue(Result(w, m)),
             IsError(w) \/ variable_stack' = variable_stack
      PROVE  MeaningInv'
  <2>1. PICK r : r = Result(w, m)
    OBVIOUS
  <2>2. Means(r, v) /\ Fine(r.val) /\ r.val = w
    BY <1>2, <2>1 DEF Means, Result, Plain, Fine
  <2>. QED
    BY <1>2, <2>1, <2>2, ContinueMeans
<1>3. Plain(EvaluationError) /\ Plain(LispNil) /\ IsError(EvaluationError)
  BY PlainValues, ErrorsAreErrors DEF EvaluationError
<1>4. CASE ~ IsLambda(lambda, given)
  <2>1. v = EvaluationError
    BY <1>4 DEF MeaningOfLambda, CallsLambda
  <2>2. Continue(Result(EvaluationError, m))
    BY <1>4 DEF CallLambda, EvaluationFails
  <2>. QED
    BY <1>2, <1>3, <2>1, <2>2
<1>5. CASE IsLambda(lambda, given)
  <2>1. PICK params, body, n :
            /\ params = lambda.items[2].items /\ body = SubSeq(lambda.items, 3, Len(lambda.items))
            /\ n = Bindable(params, given)
    OBVIOUS
  <2>2. LET bound == variable_stack \o [i \in 1 .. n |-> Binding(params[i].name, given[i])]
        IN  IF n < Len(given)
            THEN /\ variable_stack' = bound
                 /\ Continue(IF params[n + 1].type = "symbol" THEN Refused(EvaluationError, m)
                             ELSE EvaluationFails(m))
            ELSE IF body = <<>>
            THEN Continue(Result(LispNil, m)) /\ UNCHANGED variable_stack
            ELSE /\ variable_stack' = bound
                 /\ frames' = Append(frames, BodyFrame(Tail(body), Len(variable_stack)))
                 /\ control' = Eval(Head(body))
                 /\ mem' = m
    BY <1>5, <2>1 DEF CallLambda
  <2>3. n \in 0 .. 4 /\ \A i \in 1 .. n : params[i].type = "symbol"
    BY <1>1, <2>1, BindableBound
  <2>4. CASE n < 4 /\ params[n + 1].type = "symbol"
    <3>1. Continue(Refused(EvaluationError, m))
      BY <2>2, <2>4
    <3>4. [m EXCEPT !.refused = TRUE].refused
      BY DEF Covers, IsMemory
    <3>2. PICK left : left = [m EXCEPT !.refused = TRUE] /\ left.refused
      BY <3>4
    <3>3. mem' = left
      BY <3>1, <3>2 DEF Continue, Refused, Result
    <3>. QED
      BY <3>2, <3>3, RefusedMeansNothing
  <2>5. CASE n < 4 /\ params[n + 1].type # "symbol"
    <3>1. Continue(EvaluationFails(m))
      BY <2>2, <2>5
    <3>2. n + 1 \in 1 .. 4
      BY <2>3, <2>5
    <3>3. ~ CallsLambda(lambda, given)
      BY <2>1, <2>5, <3>2 DEF CallsLambda
    <3>4. v = EvaluationError
      BY <3>3 DEF MeaningOfLambda
    <3>. QED
      BY <1>2, <1>3, <3>1, <3>4 DEF EvaluationFails
  <2>6. CASE n = 4
    <3>1. CallsLambda(lambda, given)
      BY <1>5, <2>1, <2>3, <2>6 DEF CallsLambda
    <3>2. lambda.type = "list" /\ Len(lambda.items) >= 2
      BY <1>5 DEF IsLambda
    <3>3. Forms(lambda.items)
      BY <3>2 DEF Fine, Forms
    <3>4. Forms(body) /\ (body = <<>> <=> Len(lambda.items) = 2)
      BY <2>1, <3>2, <3>3, BodyForms
    <3>5. ~ (n < Len(given))
      BY <2>6
    <3>6. CASE body = <<>>
      <4>1. v = LispNil
        BY <3>1, <3>4, <3>6 DEF MeaningOfLambda
      <4>2. Continue(Result(LispNil, m)) /\ variable_stack' = variable_stack
        BY <2>2, <3>5, <3>6
      <4>. QED
        BY <1>2, <1>3, <4>1, <4>2
    <3>7. CASE body # <<>>
      <4>1. PICK names : names = Params(lambda)
        OBVIOUS
      <4>2. names = [i \in 1 .. 4 |-> params[i].name]
        BY <2>1, <4>1 DEF Params
      <4>3. \A i \in 1 .. 4 : names[i] = params[i].name
        BY <4>2
      <4>4. PICK V : names \in [1 .. 4 -> V]
        <5>1. names \in [1 .. 4 -> {params[i].name : i \in 1 .. 4}]
          BY <4>2
        <5>. QED
          BY <5>1
      <4>5. PICK bound : bound = variable_stack \o FourBindings(names, given)
        OBVIOUS
      <4>6. [i \in 1 .. n |-> Binding(params[i].name, given[i])] = FourBindings(names, given)
        BY <2>6, <4>3 DEF FourBindings
      <4>7. PICK y : y = BodyFrame(Tail(body), k)
        OBVIOUS
      <4>8. variable_stack' = bound /\ frames' = Append(frames, y) /\ control' = Eval(Head(body)) /\ mem' = m
        BY <1>1, <2>2, <3>5, <3>7, <4>5, <4>6, <4>7
      <4>9. PICK inner : inner = Bind(Env(variable_stack), names, given)
        OBVIOUS
      <4>10. /\ Bindings(bound) /\ Len(bound) = k + 4
             /\ \A i \in 1 .. k : bound[i] = variable_stack[i]
             /\ Env(bound) = inner
        <5>1. /\ Bindings(bound) /\ Len(bound) = Len(variable_stack) + 4
              /\ \A i \in 1 .. Len(variable_stack) : bound[i] = variable_stack[i]
              /\ Env(bound) = Bind(Env(variable_stack), names, given)
          <6>. PICK stack : stack = variable_stack
            OBVIOUS
          <6>1. Bindings(stack) /\ bound = stack \o FourBindings(names, given)
            BY <4>5
          <6>2. names \in [1 .. 4 -> V] /\ AllFine(given) /\ Len(given) = 4
            BY <4>4
          <6>3. Bindings(bound)
            BY <6>1, <6>2, BoundEnv, Zenon
          <6>4. Len(bound) = Len(stack) + 4
            BY <6>1, <6>2, BoundEnv
          <6>5. \A i \in 1 .. Len(stack) : bound[i] = stack[i]
            BY <6>1, <6>2, BoundEnv
          <6>6. Env(bound) = Bind(Env(stack), names, given)
            BY <6>1, <6>2, BoundEnv, Zenon
          <6>. QED
            BY <6>3, <6>4, <6>5, <6>6
        <5>. QED
          BY <1>1, <4>9, <5>1
      <4>11. v = MeaningOfBody(MeaningOfAll(body, inner))
        BY <2>1, <3>1, <3>4, <3>7, <4>1, <4>9 DEF MeaningOfLambda
      <4>12. PICK u, none : u = Meaning(Head(body), inner) /\ none = <<>>
        OBVIOUS
      <4>13. v = MeaningOfBody(Vals(none, u, Tail(body), inner))
        BY <3>4, <3>7, <4>11, <4>12, FirstVals DEF Forms
      <4>14. Part(Head(body)) /\ Forms(Tail(body))
        BY <3>4, <3>7, RestOfForms
      <4>15. Waits(y, u, v, k, k + 4, inner)
        <5>1. y.todo = Tail(body) /\ y.kind = "body" /\ y.saved = k
          BY <4>7 DEF BodyFrame
        <5>2. AllFine(none) /\ ~ Fails(none)
          BY <4>12, NothingDone
        <5>3. v = MeaningOfBody(Vals(none, u, y.todo, inner))
          BY <4>13, <5>1
        <5>. QED
          BY <4>14, <5>1, <5>2, <5>3 DEF Waits
      <4>16. Chained(Append(frames, y), bound, Answer, u)
        <5>1. Len(variable_stack) <= Len(bound) /\ IsStack(bound)
          BY <1>1, <4>10 DEF Bindings
        <5>2. Waits(y, u, v, Len(variable_stack), Len(bound), Env(bound))
          BY <1>1, <4>10, <4>15
        <5>3. \A i \in 1 .. Len(variable_stack) : bound[i] = variable_stack[i]
          BY <1>1, <4>10
        <5>. QED
          BY <5>1, <5>2, <5>3, PushChain
      <4>17. Chained(frames', variable_stack', Answer, Meaning(Head(body), Env(variable_stack')))
        BY <4>8, <4>10, <4>12, <4>16, Zenon
      <4>18. PICK x : x = Head(body)
        OBVIOUS
      <4>19. Bindings(variable_stack') /\ Covers(Unlimited, mem')
        BY <4>8, <4>10, Zenon
      <4>. QED
        BY <4>8, <4>14, <4>17, <4>18, <4>19, EvalMeans
    <3>. QED
      BY <3>6, <3>7
  <2>. QED
    BY <2>3, <2>4, <2>5, <2>6
<1>. QED
  BY <1>4, <1>5

\* The four arguments of a lambda are values.
LEMMA LambdaArgsAre ==
    ASSUME NEW f, NEW args, AllFine(args), NEW date, Fine(date), NEW m, IsMemory(m)
    PROVE  \/ LambdaArgs(f, args, date, m).mem.refused /\ IsError(LambdaArgs(f, args, date, m).val)
           \/ /\ ~ IsError(LambdaArgs(f, args, date, m).val)
              /\ AllFine(LambdaArgs(f, args, date, m).val.items)
              /\ Len(LambdaArgs(f, args, date, m).val.items) = 4
<1>1. PICK a, b, c : /\ a = OptionalArg(args, 2) /\ b = (IF f = "skk-current-date" THEN LispInt(1) ELSE LispNil)
                     /\ c = OptionalArg(args, 3)
  OBVIOUS
<1>2. Fine(a) /\ Fine(b) /\ Fine(c)
  <2>1. Fine(LispNil) /\ \A n : Fine(LispInt(n))
    BY PlainValues DEF Plain, Fine
  <2>2. ASSUME NEW n \in {2, 3} PROVE Fine(OptionalArg(args, n))
    <3>1. ~ (Len(args) < n) => n \in DOMAIN args
      BY DEF AllFine, IsStack
    <3>. QED
      BY <2>1, <3>1 DEF OptionalArg, AllFine
  <2>. QED
    BY <1>1, <2>1, <2>2
<1>3. PICK xs : xs = <<date, a, b, c>>
  OBVIOUS
<1>4. AllFine(xs) /\ Len(xs) = 4
  <2>1. xs \in Seq({date, a, b, c}) /\ Len(xs) = 4
    BY <1>3
  <2>2. DOMAIN xs = 1 .. 4 /\ \A i \in 1 .. 4 : xs[i] \in {date, a, b, c}
    BY <2>1
  <2>. QED
    BY <1>2, <2>1, <2>2 DEF AllFine, IsStack
<1>5. LambdaArgs(f, args, date, m) = NewList(m, xs, MemoryError)
  BY <1>1, <1>3 DEF LambdaArgs
<1>6. IsError(MemoryError) /\ ~ IsError(LispCList(xs)) /\ LispCList(xs).items = xs
  BY DEF MemoryError, LispError, IsError, LispCList
<1>7. \/ NewList(m, xs, MemoryError).mem.refused /\ NewList(m, xs, MemoryError).val = MemoryError
      \/ NewList(m, xs, MemoryError).val = LispCList(xs)
  BY ListsOrRefusals
<1>. QED
  BY <1>4, <1>5, <1>6, <1>7

\* A date function returns the meaning of its call, or goes on with the lambda's body.
LEMMA ApplyDateMeans ==
    ASSUME IInv, MeaningInv, Len(variable_stack) <= VARIABLE_STACK_SIZE, ~ mem.refused, ApplyDate
    PROVE  MeaningInv'
<1>1. control.step = "apply" /\ ~ Failing
  BY DEF ApplyDate, Failing
<1>2. PICK v : Computes(control, variable_stack, v) /\ Chained(frames, variable_stack, Answer, v)
  BY <1>1, MeaningSays
<1>3. PICK f, args, env : f = control.fn /\ args = control.args /\ env = Env(variable_stack)
  OBVIOUS
<1>4. AllFine(args) /\ ~ Fails(args) /\ v = MeaningOfCall(f, args, env) /\ f \in DateFunctions
  BY <1>1, <1>2, <1>3 DEF Computes, ApplyDate
<1>5. v = MeaningOfDate(f, args, env)
  BY <1>4 DEF MeaningOfCall
<1>6. Covers(Unlimited, mem) /\ Bindings(variable_stack)
  BY <1>1, MeaningSays
<1>7. PICK date, pp_function :
          /\ date = DateList(f, args, mem) /\ pp_function = OptionalArg(args, 1)
          /\ IF IsError(date.val)
             THEN Continue(date) /\ UNCHANGED variable_stack
             ELSE IF pp_function = LispNil
             THEN Continue(DefaultDate(date.val, date.mem)) /\ UNCHANGED variable_stack
             ELSE \E list \in {LambdaArgs(f, args, date.val, date.mem)} :
                      IF IsError(list.val)
                      THEN Continue(list) /\ UNCHANGED variable_stack
                      ELSE CallLambda(pp_function, list.val.items, list.mem)
          /\ call' = call
  BY <1>3 DEF ApplyDate
<1>8. PICK full : full = DateList(f, args, Unlimited)
  OBVIOUS
<1>9. Agree(date, full) /\ Fine(date.val)
  BY <1>6, <1>7, <1>8, DateListAgrees, DateListIsFine
<1>10. v = IF IsError(full.val) THEN full.val
           ELSE IF pp_function = LispNil THEN DefaultDate(full.val, Unlimited).val
           ELSE MeaningOfLambda(args[1], LambdaArgs(f, args, full.val, Unlimited).val.items, env)
  BY <1>5, <1>7, <1>8, Zenon DEF MeaningOfDate
<1>11. CASE IsError(date.val)
  <2>1. Means(date, v)
    BY <1>9, <1>10, <1>11, StillCovered DEF Agree, Means
  <2>. QED
    BY <1>2, <1>6, <1>7, <1>9, <1>11, <2>1, ContinueMeans
<1>12. ASSUME ~ IsError(date.val)
       PROVE  full.val = date.val /\ Covers(Unlimited, date.mem)
  BY <1>9, <1>12, StillCovered DEF Agree
<1>13. CASE ~ IsError(date.val) /\ pp_function = LispNil
  <2>1. PICK r : r = DefaultDate(date.val, date.mem)
    OBVIOUS
  <2>2. v = DefaultDate(date.val, Unlimited).val
    BY <1>10, <1>12, <1>13
  <2>3. Means(r, v)
    BY <1>12, <1>13, <2>1, <2>2, DefaultDateAgrees, AgreementMeans
  <2>4. Fine(r.val)
    <3>1. Plain(r.val)
      BY <2>1, SkkDefaultCurrentDateIsPlain DEF DefaultDate
    <3>. QED
      BY <3>1 DEF Plain, Fine
  <2>5. Continue(r) /\ variable_stack' = variable_stack
    BY <1>7, <1>13, <2>1
  <2>. QED
    BY <1>2, <1>6, <1>7, <2>3, <2>4, <2>5, ContinueMeans
<1>14. CASE ~ IsError(date.val) /\ pp_function # LispNil
  <2>1. PICK list, all : list = LambdaArgs(f, args, date.val, date.mem) /\ all = LambdaArgs(f, args, date.val, Unlimited)
    OBVIOUS
  <2>2. Agree(list, all)
    BY <1>12, <1>14, <2>1, LambdaArgsAgrees
  <2>3. \/ list.mem.refused /\ IsError(list.val)
        \/ ~ IsError(list.val) /\ AllFine(list.val.items) /\ Len(list.val.items) = 4
    BY <1>4, <1>9, <1>12, <1>14, <2>1, LambdaArgsAre DEF Covers
  <2>4. CASE IsError(list.val)
    <3>1. Continue(list)
      BY <1>7, <1>14, <2>1, <2>4
    <3>2. mem'.refused
      BY <2>3, <2>4, <3>1 DEF Continue
    <3>. QED
      BY <3>2, RefusedMeansNothing
  <2>5. CASE ~ IsError(list.val)
    <3>1. PICK given : given = list.val.items
      OBVIOUS
    <3>2. list.val = all.val /\ Covers(Unlimited, list.mem)
      BY <2>2, <2>5, StillCovered DEF Agree
    <3>3. ~ (Len(args) < 1) /\ pp_function = args[1] /\ 1 \in DOMAIN args
      <4>1. ~ (Len(args) < 1) /\ pp_function = args[1]
        BY <1>7, <1>14 DEF OptionalArg
      <4>. QED
        BY <1>4, <4>1 DEF AllFine, IsStack
    <3>4. Fine(pp_function)
      BY <1>4, <3>3 DEF AllFine
    <3>5. v = MeaningOfLambda(pp_function, given, env)
      BY <1>10, <1>12, <1>14, <2>1, <3>1, <3>2, <3>3
    <3>6. CallLambda(pp_function, given, list.mem)
      BY <1>7, <1>14, <2>1, <2>5, <3>1
    <3>7. AllFine(given) /\ Len(given) = 4
      BY <2>3, <2>5, <3>1
    <3>. QED
      BY <1>2, <1>3, <1>6, <1>7, <3>2, <3>4, <3>5, <3>6, <3>7, CallLambdaMeans
  <2>. QED
    BY <2>4, <2>5
<1>. QED
  BY <1>11, <1>13, <1>14

\* Every step of the evaluator keeps the meaning.
LEMMA StepMeans ==
    ASSUME MeaningIsByParts, IInv, Len(variable_stack) <= VARIABLE_STACK_SIZE, MeaningInv, [Next]_vars
    PROVE  MeaningInv'
<1>1. CASE mem.refused
  <2>1. CASE Next
    <3>1. mem' = mem
      BY <1>1, <2>1, ErrorStep DEF IInv
    <3>. QED
      BY <1>1, <3>1, RefusedMeansNothing
  <2>2. CASE UNCHANGED vars
    BY <1>1, <2>2, RefusedMeansNothing DEF vars
  <2>. QED
    BY <2>1, <2>2
<1>2. CASE ~ mem.refused /\ UNCHANGED <<call, control, frames, variable_stack, mem>>
  <2>1. call' = call /\ control' = control /\ frames' = frames /\ variable_stack' = variable_stack /\ mem' = mem
    BY <1>2
  <2>2. Failing' = Failing /\ Answer' = Answer
    BY <2>1 DEF Failing, Answer
  <2>. QED
    BY <2>1, <2>2, Zenon DEF MeaningInv
<1>3. CASE ~ mem.refused /\ Failing /\ Next
  <2>1. control' = control /\ mem' = mem
    BY <1>3, ErrorStep
  <2>2. call' = call
    BY <1>3 DEF Next, EvalSelf, EvalSymbol, EvalSpecial, EvalCall, ReturnToArgs, ReturnToBody,
                ApplySimple, ApplyDate, Finish
  <2>3. Failing' /\ Answer' = Answer
    BY <1>3, <2>1, <2>2 DEF Failing, Answer
  <2>4. Covers(Unlimited, mem') /\ control'.obj = Answer' /\ Known(Answer')
    BY <1>3, <2>1, <2>3, Zenon DEF MeaningInv
  <2>. QED
    BY <2>3, <2>4 DEF MeaningInv
<1>4. CASE ~ mem.refused /\ ~ Failing /\ Next /\ ~ Finish
  <2>1. EvalSelf \/ EvalSymbol \/ EvalSpecial \/ EvalCall => MeaningInv'
    BY <1>4, EvalSelfMeans, EvalSymbolMeans, EvalSpecialMeans, EvalCallMeans
  <2>2. ReturnToArgs \/ ReturnToBody => MeaningInv'
    BY <1>4, ReturnToArgsMeans, ReturnToBodyMeans
  <2>3. ApplySimple \/ ApplyDate => MeaningInv'
    BY <1>4, ApplySimpleMeans, ApplyDateMeans
  <2>. QED
    BY <1>4, <2>1, <2>2, <2>3 DEF Next
<1>. QED
  BY <1>1, <1>2, <1>3, <1>4 DEF vars, Finish

\* The invariant at the end of an evaluation.
LEMMA MeaningAtTheEnd == MeaningInv => ResultIsMeaning
<1>. SUFFICES ASSUME MeaningInv, control.step = "return", frames = <<>>, ~ mem.refused
              PROVE  control.obj = Meaning(call.expr, GlobalEnv)
  BY DEF ResultIsMeaning
<1>1. CASE Failing
  BY <1>1 DEF MeaningInv, Answer
<1>2. CASE ~ Failing
  <2>1. PICK v : Computes(control, variable_stack, v) /\ Chained(frames, variable_stack, Answer, v)
    BY <1>2, MeaningSays
  <2>2. v = control.obj
    BY <2>1 DEF Computes
  <2>3. Answer = v
    BY <2>1, NothingWaits
  <2>. QED
    BY <2>2, <2>3 DEF Answer
<1>. QED
  BY <1>1, <1>2

\* Whatever the program and the budget: an evaluation that was refused nothing ends with the
\* meaning of its expression.  The frames of eval_expr, the binding and unbinding of lambdas,
\* the functions and their errors compute together what the recursive meaning says.
THEOREM ResultsAreMeanings ==
    ASSUME MeaningIsByParts
    PROVE  Spec => []ResultIsMeaning
<1>1. Init => MeaningInv
  BY EstablishMeaning
<1>2. IInv /\ TypeOK /\ MeaningInv /\ [Next]_vars => MeaningInv'
  BY StepMeans DEF TypeOK
<1>3. MeaningInv => ResultIsMeaning
  BY MeaningAtTheEnd
<1>. QED
  BY <1>1, <1>2, <1>3, InvariantHolds, TypeCorrect, PTL DEF Spec

-----------------------------------------------------------------------------
(* The reader and the evaluator on one memory                                *)

\* The reader allocates as the built-in functions do.
LEMMA ReaderAllocates ==
    /\ \A m, s : R!NewString(m, s) = NewString(m, s)
    /\ \A m, x : R!NewFloat(m, x) = NewFloat(m, x)
    /\ \A m, xs, e : R!NewList(m, xs, e) = NewList(m, xs, e)
  BY DEF R!NewString, R!NewFloat, R!NewList, R!NewStringArea, R!HasFree, R!Spend, R!Refused, R!Result,
         R!MemoryError, R!LispError, R!LispString, R!LispFloat, R!LispCList, R!With,
         NewString, NewFloat, NewList, NewStringArea, HasFree, Spend, Refused, Result,
         MemoryError, LispError, LispString, LispFloat, LispCList, With

\* The reader returns values and errors as the built-in functions do.
LEMMA ReaderResults ==
    /\ \A x, m : R!Result(x, m) = Result(x, m) /\ R!Refused(x, m) = Refused(x, m)
    /\ \A m, p, n : R!Spend(m, p, n) = Spend(m, p, n)
    /\ \A x : R!IsError(x) <=> IsError(x)
    /\ IsError(R!MemoryError) /\ IsError(R!ReaderError)
  BY DEF R!Result, R!Refused, R!Spend, R!IsError, R!MemoryError, R!ReaderError, R!LispError,
         Result, Refused, Spend, IsError

\* str2symbol with a copy of the name (reader.c:62).
LEMMA InternCopyHonest ==
    ASSUME NEW limit \in Int, Sound(mem, limit), NEW name
    PROVE  Honest(R!InternCopy(mem, name), limit)
<1>0. "symbol" \in MemPools /\ "string" \in MemPools
  BY DEF MemPools
<1>1. CASE \/ mem.free["symbol"] = 0 \/ name \in mem.symbols
           \/ ~ R!HasFree(mem, "string", Len(name) + 1)
  BY <1>1, RefusedIsHonest, ResultIsHonest, ReaderResults DEF R!InternCopy
<1>2. CASE /\ mem.free["symbol"] # 0 /\ name \notin mem.symbols
           /\ R!HasFree(mem, "string", Len(name) + 1)
  <2>1. HasFree(mem, "string", Len(name) + 1) /\ HasFree(mem, "symbol", 1)
    BY <1>0, <1>2 DEF R!HasFree, HasFree, Sound, IsMemory
  <2>2. PICK n : n = Spend(mem, "string", Len(name) + 1)
    OBVIOUS
  <2>3. Sound(n, limit) /\ \A q \in MemPools : q # "string" => n.free[q] = mem.free[q]
    BY <1>0, <2>1, <2>2, SpendKeeps
  <2>4. HasFree(n, "symbol", 1)
    BY <1>0, <2>1, <2>3 DEF HasFree
  <2>5. PICK n2 : n2 = Spend(n, "symbol", 1)
    OBVIOUS
  <2>6. Sound(n2, limit)
    BY <1>0, <2>3, <2>4, <2>5, SpendKeeps
  <2>7. PICK known : known = [n2 EXCEPT !.symbols = @ \cup {name}]
    OBVIOUS
  <2>8. known = [free |-> n2.free, symbols |-> n2.symbols \cup {name}, refused |-> n2.refused]
    BY <2>6, <2>7 DEF Sound, IsMemory
  <2>9. Sound(known, limit)
    BY <2>6, <2>8 DEF Sound, IsMemory
  <2>10. R!InternCopy(mem, name) = Result(R!LispSymbol(name), known)
    BY <1>2, <2>2, <2>5, <2>7, ReaderResults DEF R!InternCopy
  <2>. QED
    BY <2>9, <2>10, ResultIsHonest
<1>. QED
  BY <1>1, <1>2

\* A token that is a number, nil or a symbol.
LEMMA AtomOfHonest ==
    ASSUME NEW limit \in Int, Sound(mem, limit), NEW token, NEW str
    PROVE  Honest(R!AtomOf(mem, token, str), limit)
<1>1. R!CheckNumStr(str, TRUE) \in {"R_INT", "R_FLOAT", "R_NOTNUM"}
  BY DEF R!CheckNumStr
<1>. QED
  BY <1>1, ResultIsHonest, NewFloatHonest, InternCopyHonest, ReaderResults, ReaderAllocates
     DEF R!AtomOf

\* Every kind of atom: reader_maybe_symbol, reader_char, reader_hashnum and
\* reader_string.
LEMMA AtomAtHonest ==
    ASSUME NEW limit \in Int, Sound(mem, limit), NEW p
    PROVE  Honest(R!AtomAt(source, mem, p), limit)
<1>1. \A r, next : Honest(r, limit) => Honest(R!Atom(r, next), limit)
  BY DEF Honest, R!Atom
<1>2. Honest(R!MaybeSymbol(source, mem, p), limit)
  BY <1>1, AtomOfHonest, ResultIsHonest, ReaderResults DEF R!MaybeSymbol, R!With
<1>3. Honest(R!Char(source, mem, p), limit)
  BY <1>1, ResultIsHonest, ReaderResults DEF R!Char
<1>4. Honest(R!HashNum(source, mem, p), limit)
  BY <1>1, ResultIsHonest, ReaderResults DEF R!HashNum, R!With
<1>5. Honest(R!String(source, mem, p), limit)
  BY <1>1, ResultIsHonest, ReaderResults, NewStringHonest, ReaderAllocates DEF R!String, R!With
<1>. QED
  BY <1>2, <1>3, <1>4, <1>5, Zenon DEF R!AtomAt

\* While the reader runs, nothing is evaluated or replied; a refused request has
\* made it return, or be about to return, an error, and so has mlisj_eval.
ReaderInv ==
    /\ IsMemory(mem)
    /\ call = [expr |-> call.expr, budget |-> call.budget, size |-> call.size]
    /\ frames = <<>>
    /\ mem.refused => reading.step = "return" /\ IsError(reading.obj)
    /\ reply # NONE => reply.code # "OK" /\ reply.dest = <<>>

\* Once the evaluator runs, the reader is done, and the invariant is the evaluator's.
CallInv ==
    IF control = WaitForReader THEN ReaderInv ELSE IInv /\ R!Done

\* mlisj_eval enters reader_sexp in the invariant.
LEMMA CallEstablishes == InterpreterInit => CallInv
<1>. SUFFICES ASSUME InterpreterInit PROVE CallInv
  OBVIOUS
<1>1. PICK budget \in [MemPools -> Nat] : mem = R!Memory(budget, ReservedSymbols)
  BY BudgetAssumption DEF InterpreterInit, R!Init
<1>2. IsMemory(mem) /\ ~ mem.refused
  BY <1>1 DEF R!Memory, IsMemory, MemPools
<1>3. call = [expr |-> call.expr, budget |-> call.budget, size |-> call.size]
  BY DEF InterpreterInit
<1>. QED
  BY <1>2, <1>3 DEF InterpreterInit, CallInv, ReaderInv

\* An honest result given back keeps the reader's part.
LEMMA GiveKeeps ==
    ASSUME ReaderInv, ~ mem.refused, UNCHANGED <<call, frames, reply>>,
           NEW r, Honest(r, mem.free["narray"]), R!Give(r)
    PROVE  ReaderInv'
  BY DEF R!Give, R!Return, Honest, ReaderInv, R!Result

\* Every step of the reader keeps it: errors are handed on, and nothing is
\* allocated after a refusal.
LEMMA ReadKeeps ==
    ASSUME ReaderInv, Read
    PROVE  ReaderInv'
<1>. USE DEF R!Sexp, R!Loop, R!Return
<1>0. R!Next /\ UNCHANGED <<call, frames, reply>>
  BY DEF Read
<1>1. CASE R!ReadEnd
  BY <1>0, <1>1, ReaderResults DEF ReaderInv, R!ReadEnd
<1>2. CASE R!ReadAtom
  <2>1. PICK p : R!Give(R!AtomAt(source, mem, p))
    BY <1>2 DEF R!ReadAtom
  <2>2. reading.step # "return"
    BY <1>2 DEF R!ReadAtom
  <2>3. Sound(mem, mem.free["narray"]) /\ mem.free["narray"] \in Int
    BY <2>2 DEF ReaderInv, Sound, IsMemory
  <2>. QED
    BY <1>0, <2>1, <2>2, <2>3, AtomAtHonest, GiveKeeps DEF ReaderInv
<1>3. CASE R!ReadQuoted
  BY <1>0, <1>3 DEF ReaderInv, R!ReadQuoted
<1>4. CASE R!ReadList
  BY <1>0, <1>4, ReaderResults DEF ReaderInv, R!ReadList
<1>5. CASE R!ListTooLong
  BY <1>0, <1>5, ReaderResults DEF ReaderInv, R!ListTooLong
<1>6. CASE R!NextItem
  BY <1>0, <1>6 DEF ReaderInv, R!NextItem
<1>7. CASE R!CloseList
  <2>1. R!Give(NewList(mem, R!Top.buffer, R!MemoryError)) /\ reading.step # "return"
    BY <1>7, ReaderAllocates DEF R!CloseList
  <2>2. Sound(mem, mem.free["narray"]) /\ mem.free["narray"] \in Int
    BY <2>1 DEF ReaderInv, Sound, IsMemory
  <2>. QED
    BY <1>0, <2>1, <2>2, NewListHonest, GiveKeeps, ReaderResults DEF ReaderInv
<1>8. CASE R!ReturnToList
  BY <1>0, <1>8, ReaderResults DEF ReaderInv, R!ReturnToList
<1>9. CASE R!ReturnToQuoted
  <2>1. CASE IsError(reading.obj)
    BY <1>0, <1>9, <2>1, ReaderResults DEF ReaderInv, R!ReturnToQuoted, R!Give, Result, R!Returning
  <2>2. CASE ~ IsError(reading.obj)
    <3>1. PICK xs : R!Give(NewList(mem, xs, R!MemoryError))
      BY <1>9, <2>2, ReaderAllocates, ReaderResults DEF R!ReturnToQuoted
    <3>2. Sound(mem, mem.free["narray"]) /\ mem.free["narray"] \in Int
      BY <2>2 DEF ReaderInv, Sound, IsMemory
    <3>. QED
      BY <1>0, <2>2, <3>1, <3>2, NewListHonest, GiveKeeps, ReaderResults DEF ReaderInv
  <2>. QED
    BY <2>1, <2>2
<1>. QED
  BY <1>0, <1>1, <1>2, <1>3, <1>4, <1>5, <1>6, <1>7, <1>8, <1>9 DEF R!Next

\* The evaluator starts in its invariant, whatever the reader left it.
LEMMA StartKeeps ==
    ASSUME ReaderInv, StartEvaluation
    PROVE  IInv' /\ R!Done' /\ control' # WaitForReader
<1>1. ~ mem.refused /\ ~ IsError(reading.obj) /\ reply = NONE /\ R!Done
  BY DEF ReaderInv, StartEvaluation, HasRead
<1>2. control' = Eval(reading.obj) /\ mem' = mem /\ frames' = <<>> /\ reply' = NONE
  BY <1>1 DEF ReaderInv, StartEvaluation
<1>3. R!Done' /\ control' # WaitForReader
  BY <1>1, <1>2 DEF StartEvaluation, readerVars, R!Done, Eval, WaitForReader
<1>4. call'.budget = mem.free
  BY DEF StartEvaluation, ReaderInv
<1>5. FramesOK' /\ ControlOK' /\ RepliedAtTheEnd'
  BY <1>2 DEF FramesOK, ControlOK, RepliedAtTheEnd, IsStack, Eval
<1>6. Calls' = 0
  BY <1>2 DEF Calls, Eval
<1>7. CallsPaid'
  BY <1>2, <1>4, <1>6 DEF CallsPaid, ReaderInv, IsMemory
<1>. QED
  BY <1>1, <1>2, <1>3, <1>4, <1>5, <1>7 DEF IInv, ReaderInv, IsMemory

\* Every step of mlisj_eval keeps the invariant.
LEMMA CallKeeps == CallInv /\ [InterpreterNext]_<<vars, readerVars>> => CallInv'
<1>. SUFFICES ASSUME CallInv, [InterpreterNext]_<<vars, readerVars>> PROVE CallInv'
  OBVIOUS
<1>1. CASE Read
  <2>1. control = WaitForReader
    BY <1>1 DEF CallInv, Read, R!Done, R!Next, R!ReadEnd, R!ReadAtom, R!ReadQuoted, R!ReadList,
                R!ListTooLong, R!NextItem, R!CloseList, R!ReturnToList, R!ReturnToQuoted,
                R!Returning, R!Sexp, R!Loop
  <2>. QED
    BY <1>1, <2>1, ReadKeeps DEF CallInv, Read
<1>2. CASE StartEvaluation
  BY <1>2, StartKeeps DEF CallInv, StartEvaluation, HasRead
<1>3. CASE ReadFails
  BY <1>3 DEF CallInv, ReaderInv, ReadFails, HasRead, Exit, CodeOfReadError, readerVars
<1>4. CASE Evaluate
  <2>1. IInv /\ R!Done /\ Next /\ UNCHANGED readerVars
    BY <1>4 DEF CallInv, Evaluate
  <2>2. IInv' /\ R!Done'
    BY <2>1, StepKeeps DEF R!Done, readerVars
  <2>3. control' # WaitForReader
    BY <2>2 DEF IInv, ControlOK, WaitForReader
  <2>. QED
    BY <2>2, <2>3 DEF CallInv
<1>5. CASE UNCHANGED <<vars, readerVars>>
  <2>1. UNCHANGED vars /\ UNCHANGED readerVars
    BY <1>5
  <2>2. CASE control = WaitForReader
    BY <2>1, <2>2 DEF CallInv, ReaderInv, vars, readerVars
  <2>3. CASE control # WaitForReader
    BY <2>1, <2>3, StepKeeps DEF CallInv, vars, readerVars, R!Done
  <2>. QED
    BY <2>2, <2>3
<1>. QED
  BY <1>1, <1>2, <1>3, <1>4, <1>5 DEF InterpreterNext

\* The invariant holds from the text to the reply.
THEOREM CallInvariantHolds == InterpreterSpec => []CallInv
  BY CallEstablishes, CallKeeps, PTL DEF InterpreterSpec

\* Whatever the text, the memory and the caller's buffer: a refused request, be
\* it of the reader or of the evaluator, ends in an exit code, and dest stays as
\* it was.
THEOREM ShortagesAreReported == InterpreterSpec => []ShortageIsNoReply
<1>1. CallInv => ShortageIsNoReply
  BY DEF CallInv, ReaderInv, IInv, RepliedAtTheEnd, ShortageIsNoReply, NONE
<1>. QED
  BY <1>1, CallInvariantHolds, PTL
-----------------------------------------------------------------------------
(* From the text to the reply                                                *)

\* What the proofs about the reader assume.
LEMMA ReaderAssumptions ==
    /\ R!IntAssumption /\ R!LongAssumption /\ R!AsciiAssumption
    /\ R!NestingAssumption /\ R!SourceAssumption /\ R!TokensAssumption
<1>1. R!Code = Code
  BY Zenon DEF Code, Codes, R!Code, R!Codes
<1>2. R!AsciiAssumption
  BY <1>1, AsciiAssumption DEF R!AsciiAssumption
<1>. QED
  BY <1>2, IntAssumption, LongAssumption, TextsAssumption DEF R!IntAssumption, R!LongAssumption

\* The counters of the pools are ints.
Fits(m) == \A p \in MemPools : m.free[p] <= INT_MAX

\* Spending keeps them so.
LEMMA SpendFits ==
    ASSUME NEW m, IsMemory(m), Fits(m), NEW p \in MemPools, NEW n, HasFree(m, p, n)
    PROVE  Fits(Spend(m, p, n))
<1>1. PICK f : f = [m.free EXCEPT ![p] = @ - n]
  OBVIOUS
<1>2. Spend(m, p, n) = [free |-> f, symbols |-> m.symbols, refused |-> m.refused]
  BY <1>1 DEF IsMemory, Spend
<1>3. \A q \in MemPools : q # p => f[q] = m.free[q]
  BY <1>1 DEF IsMemory
<1>4. f[p] = m.free[p] - n /\ n \in Nat /\ m.free[p] \in Nat
  BY <1>1 DEF HasFree, IsMemory
<1>. QED
  BY <1>2, <1>3, <1>4, IntAssumption DEF Fits

\* A refusal changes no counter.
LEMMA RefusedFits ==
    ASSUME NEW m, IsMemory(m), Fits(m)
    PROVE  \A x : Fits(Refused(x, m).mem) /\ Fits(Result(x, m).mem)
<1>1. PICK n : n = [m EXCEPT !.refused = TRUE]
  OBVIOUS
<1>2. n.free = m.free
  BY <1>1 DEF IsMemory
<1>. QED
  BY <1>1, <1>2 DEF Refused, Result, Fits

\* Neither does anything the reader allocates raise one.
LEMMA NewFits ==
    ASSUME NEW limit \in Int, NEW m, Sound(m, limit), Fits(m)
    PROVE  /\ \A str : Fits(NewString(m, str).mem)
           /\ \A x : Fits(NewFloat(m, x).mem)
           /\ \A xs, e : Fits(NewList(m, xs, e).mem)
           /\ \A name : Fits(R!InternCopy(m, name).mem)
<1>1. IsMemory(m) /\ \A x : Fits(Refused(x, m).mem) /\ Fits(Result(x, m).mem)
  BY RefusedFits DEF Sound
<1>2. \A x, n : Fits(n) => Fits(Result(x, n).mem)
  BY DEF Result
<1>3. \A p \in MemPools : \A n : HasFree(m, p, n) => Fits(Spend(m, p, n))
  BY <1>1, SpendFits
<1>4. {"lispobject", "string", "float", "narray", "symbol"} \subseteq MemPools
  BY DEF MemPools
<1>5. ASSUME NEW str PROVE Fits(NewString(m, str).mem)
  <2>1. NewString(m, str) = NewStringArea(m, str, Len(str))
    BY DEF NewString, With
  <2>. QED
    BY <1>1, <1>2, <1>3, <1>4, <2>1 DEF NewStringArea
<1>6. ASSUME NEW x PROVE Fits(NewFloat(m, x).mem)
  BY <1>1, <1>2, <1>3, <1>4 DEF NewFloat
<1>7. ASSUME NEW xs, NEW e PROVE Fits(NewList(m, xs, e).mem)
  <2>1. CASE HasFree(m, "narray", 1) /\ HasFree(m, "lispobject", Len(xs))
    <3>1. PICK n : n = Spend(m, "narray", 1)
      OBVIOUS
    <3>2. Sound(n, limit) /\ n.free["lispobject"] = m.free["lispobject"]
      BY <1>4, <2>1, <3>1, SpendKeeps
    <3>3. Fits(Spend(n, "lispobject", Len(xs)))
      BY <1>3, <1>4, <2>1, <3>1, <3>2, SpendFits DEF HasFree, Sound
    <3>. QED
      BY <1>2, <2>1, <3>1, <3>3 DEF NewList
  <2>2. CASE ~ (HasFree(m, "narray", 1) /\ HasFree(m, "lispobject", Len(xs)))
    BY <1>1, <2>2 DEF NewList
  <2>. QED
    BY <2>1, <2>2
<1>8. ASSUME NEW name PROVE Fits(R!InternCopy(m, name).mem)
  <2>1. CASE \/ m.free["symbol"] = 0 \/ name \in m.symbols
             \/ ~ R!HasFree(m, "string", Len(name) + 1)
    BY <1>1, <2>1, ReaderResults DEF R!InternCopy
  <2>2. CASE /\ m.free["symbol"] # 0 /\ name \notin m.symbols
             /\ R!HasFree(m, "string", Len(name) + 1)
    <3>1. HasFree(m, "string", Len(name) + 1) /\ HasFree(m, "symbol", 1)
      BY <1>1, <1>4, <2>2 DEF R!HasFree, HasFree, IsMemory
    <3>2. PICK n : n = Spend(m, "string", Len(name) + 1)
      OBVIOUS
    <3>3. Sound(n, limit) /\ n.free["symbol"] = m.free["symbol"]
      BY <1>4, <3>1, <3>2, SpendKeeps
    <3>4. PICK n2 : n2 = Spend(n, "symbol", 1)
      OBVIOUS
    <3>5. HasFree(n, "symbol", 1)
      BY <3>1, <3>3 DEF HasFree
    <3>6. Fits(n2) /\ Sound(n2, limit)
      BY <1>3, <1>4, <3>1, <3>2, <3>3, <3>4, <3>5, SpendFits, SpendKeeps DEF Sound
    <3>7. PICK known : known = [n2 EXCEPT !.symbols = @ \cup {name}]
      OBVIOUS
    <3>8. known.free = n2.free
      BY <3>6, <3>7 DEF Sound, IsMemory
    <3>9. R!InternCopy(m, name) = Result(R!LispSymbol(name), known)
      BY <2>2, <3>2, <3>4, <3>7, ReaderResults DEF R!InternCopy
    <3>. QED
      BY <3>6, <3>8, <3>9 DEF Result, Fits
  <2>. QED
    BY <2>1, <2>2
<1>. QED
  BY <1>5, <1>6, <1>7, <1>8

\* So it is with every kind of atom.
LEMMA AtomAtFits ==
    ASSUME NEW limit \in Int, NEW m, Sound(m, limit), Fits(m), NEW s, NEW p
    PROVE  Fits(R!AtomAt(s, m, p).mem)
<1>1. \A r, next : Fits(r.mem) => Fits(R!Atom(r, next).mem)
  BY DEF R!Atom
<1>2. \A x : Fits(Refused(x, m).mem) /\ Fits(Result(x, m).mem)
  BY RefusedFits DEF Sound
<1>3. ASSUME NEW token, NEW str PROVE Fits(R!AtomOf(m, token, str).mem)
  <2>1. R!CheckNumStr(str, TRUE) \in {"R_INT", "R_FLOAT", "R_NOTNUM"}
    BY DEF R!CheckNumStr
  <2>. QED
    BY <1>2, <2>1, NewFits, ReaderResults, ReaderAllocates DEF R!AtomOf
<1>4. Fits(R!MaybeSymbol(s, m, p).mem)
  BY <1>1, <1>2, <1>3, ReaderResults DEF R!MaybeSymbol, R!With
<1>5. Fits(R!Char(s, m, p).mem)
  BY <1>1, <1>2, ReaderResults DEF R!Char
<1>6. Fits(R!HashNum(s, m, p).mem)
  BY <1>1, <1>2, ReaderResults DEF R!HashNum, R!With
<1>7. Fits(R!String(s, m, p).mem)
  BY <1>1, <1>2, NewFits, ReaderResults, ReaderAllocates DEF R!String, R!With
<1>. QED
  BY <1>4, <1>5, <1>6, <1>7, Zenon DEF R!AtomAt

\* While mlisj_eval reads: the reader's invariants, and what the evaluator will
\* start with.
ReadingInv ==
    /\ R!IInv /\ R!CursorInv /\ R!FramesInv /\ R!MemoryInv /\ R!MeaningInv /\ R!ErrorsInv
    /\ Fits(mem)
    /\ variable_stack = Globals
    /\ reply # NONE => R!Done

\* While it evaluates: the evaluator's invariants, and the answer is that of the text.
EvaluatingInv ==
    /\ ~ Failing => BindingsOK
    /\ StackOK
    /\ R!TokensStand(source) => MeaningInv /\ Answer = MeaningOfText

\* The inductive invariant of a whole call.
ReplyInv ==
    /\ CallInv
    /\ IF control = WaitForReader THEN ReadingInv ELSE EvaluatingInv
    /\ R!TokensStand(source) => ReplyIsMeaning

\* mlisj_eval begins in it.
LEMMA ReplyStarts ==
    ASSUME InterpreterInit
    PROVE  ReplyInv
<1>1. R!Init /\ control = WaitForReader /\ variable_stack = Globals /\ reply = NONE
  BY DEF InterpreterInit
<1>2. R!IInv /\ R!CursorInv /\ R!MemoryInv /\ R!MeaningInv
  BY <1>1, ReaderAssumptions, R!InitEstablishes, R!CursorStarts, R!MeaningStarts
<1>3. R!FramesInv /\ R!ErrorsInv
  BY <1>1 DEF R!FramesInv, R!ErrorsInv, R!Init, R!Sexp
<1>4. PICK budget \in Budgets : mem = R!Memory(budget, ReservedSymbols)
  BY <1>1 DEF R!Init
<1>5. Fits(mem)
  BY <1>4, SizesAreInts DEF Fits, R!Memory
<1>. QED
  BY <1>1, <1>2, <1>3, <1>5, CallEstablishes DEF ReplyInv, ReadingInv, ReplyIsMeaning

\* What the steps of the reader keep, and what steps of others do not touch.
LEMMA ReaderSteps ==
    ASSUME R!GrammarIsByParts, ReadingInv, [R!Next]_R!vars
    PROVE  R!IInv' /\ R!CursorInv' /\ R!FramesInv' /\ R!MemoryInv' /\ R!MeaningInv' /\ R!ErrorsInv'
  BY ReaderAssumptions, R!NextKeeps, R!CursorStep, R!FramesStep, R!MemoryStep, R!MeaningStep,
     R!ErrorsStep DEF ReadingInv

\* A reader that is done reads nothing.
LEMMA DoneIsDone == R!Done => ~ R!Next
  BY DEF R!Done, R!Next, R!ReadEnd, R!ReadAtom, R!ReadQuoted, R!ReadList, R!ListTooLong, R!NextItem,
         R!CloseList, R!ReturnToList, R!ReturnToQuoted, R!Returning, R!Sexp, R!Loop

\* The reader spends what there is.
LEMMA ReadFits ==
    ASSUME ReaderInv, Fits(mem), R!Next
    PROVE  Fits(mem')
<1>1. CASE UNCHANGED mem
  BY <1>1 DEF Fits
<1>2. ASSUME reading.step # "return" PROVE Sound(mem, mem.free["narray"]) /\ mem.free["narray"] \in Int
  BY <1>2 DEF ReaderInv, Sound, IsMemory
<1>3. ASSUME NEW r, R!Give(r), Fits(r.mem) PROVE Fits(mem')
  BY <1>3 DEF R!Give, Fits
<1>4. CASE R!ReadAtom
  <2>1. PICK p : R!Give(R!AtomAt(source, mem, p))
    BY <1>4 DEF R!ReadAtom
  <2>2. reading.step # "return"
    BY <1>4 DEF R!ReadAtom, R!Sexp
  <2>. QED
    BY <1>2, <1>3, <2>1, <2>2, AtomAtFits
<1>5. CASE R!CloseList
  <2>1. R!Give(NewList(mem, R!Top.buffer, R!MemoryError)) /\ reading.step # "return"
    BY <1>5, ReaderAllocates DEF R!CloseList, R!Loop
  <2>. QED
    BY <1>2, <1>3, <2>1, NewFits
<1>6. CASE R!ReturnToQuoted
  <2>1. CASE IsError(reading.obj)
    BY <1>1, <1>6, <2>1, ReaderResults DEF R!ReturnToQuoted, R!Give, Result
  <2>2. CASE ~ IsError(reading.obj)
    <3>1. PICK xs : R!Give(NewList(mem, xs, R!MemoryError))
      BY <1>6, <2>2, ReaderAllocates, ReaderResults DEF R!ReturnToQuoted
    <3>2. Sound(mem, mem.free["narray"]) /\ mem.free["narray"] \in Int
      BY <2>2 DEF ReaderInv, Sound, IsMemory
    <3>. QED
      BY <1>3, <3>1, <3>2, NewFits
  <2>. QED
    BY <2>1, <2>2
<1>. QED
  BY <1>1, <1>4, <1>5, <1>6 DEF R!Next, R!ReadEnd, R!ReadQuoted, R!ReadList, R!ListTooLong, R!NextItem,
                               R!ReturnToList

\* A step of the reader.
LEMMA ReadReplies ==
    ASSUME R!GrammarIsByParts, ReplyInv, Read
    PROVE  ReplyInv'
<1>1. R!Next /\ UNCHANGED <<call, control, frames, variable_stack, reply>>
  BY DEF Read
<1>2. ~ R!Done
  BY <1>1, DoneIsDone
<1>3. CallInv'
  BY CallKeeps DEF ReplyInv, InterpreterNext
<1>4. control = WaitForReader /\ ReadingInv /\ ReaderInv /\ reply = NONE
  BY <1>2 DEF ReplyInv, CallInv, ReadingInv
<1>5. [R!Next]_R!vars
  BY <1>1
<1>6. R!IInv' /\ R!CursorInv' /\ R!FramesInv' /\ R!MemoryInv' /\ R!MeaningInv' /\ R!ErrorsInv'
  BY <1>4, <1>5, ReaderSteps
<1>7. Fits(mem)'
  BY <1>1, <1>4, ReadFits DEF ReadingInv
<1>8. variable_stack' = Globals' /\ reply' = NONE /\ control' = WaitForReader
  BY <1>1, <1>4 DEF ReadingInv, Globals
<1>. QED
  BY <1>3, <1>6, <1>7, <1>8 DEF ReplyInv, ReadingInv, ReplyIsMeaning

\* What mlisj_eval has read is what the grammar says, and an error is the reader's.
LEMMA HasReadTheMeaning ==
    ASSUME ReplyInv, HasRead
    PROVE  /\ R!TokensStand(source) /\ ~ mem.refused => reading.obj = MeantBy(source.tokens)
           /\ IsError(reading.obj) => reading.obj \in {ReaderError, MemoryError}
           /\ source \in Sources
<1>1. ReadingInv /\ R!Done
  BY DEF ReplyInv, HasRead
<1>2. R!TokensStand(source) /\ ~ mem.refused => reading.obj = R!Meant
  BY <1>1, ReaderAssumptions, R!ReadIsMeant DEF ReadingInv
<1>3. R!Meant = MeantBy(source.tokens)
  BY DEF R!Meant, MeantBy
<1>4. IsError(reading.obj) => reading.obj \in {R!ReaderError, R!MemoryError}
  BY <1>1, ReaderResults DEF ReadingInv, R!ErrorsInv, R!OwnError, R!Done
<1>5. R!ReaderError = ReaderError /\ R!MemoryError = MemoryError
  BY DEF R!ReaderError, R!MemoryError, R!LispError, ReaderError, MemoryError, LispError
<1>. QED
  BY <1>1, <1>2, <1>3, <1>4, <1>5 DEF ReadingInv, R!CursorInv

\* The exit code for what cannot be read.
LEMMA ReadFailsReplies ==
    ASSUME R!GrammarIsByParts, ReplyInv, ReadFails
    PROVE  ReplyInv'
<1>1. HasRead /\ IsError(reading.obj)
  BY DEF ReadFails
<1>2. /\ reply' = Exit(CodeOfReadError(reading.obj)) /\ mem' = mem /\ call' = call /\ control' = control
      /\ source' = source /\ variable_stack' = variable_stack
      /\ UNCHANGED <<cursor, nesting_level, reading, open>>
  BY DEF ReadFails, readerVars
<1>3. CallInv'
  BY CallKeeps DEF ReplyInv, InterpreterNext
<1>4. control = WaitForReader /\ ReadingInv /\ R!Done
  BY <1>1 DEF ReplyInv, HasRead
<1>5. ReadingInv'
  <2>1. [R!Next]_R!vars
    BY <1>2 DEF R!vars
  <2>2. R!IInv' /\ R!CursorInv' /\ R!FramesInv' /\ R!MemoryInv' /\ R!MeaningInv' /\ R!ErrorsInv'
    BY <1>4, <2>1, ReaderSteps
  <2>3. R!Done' /\ Fits(mem)' /\ variable_stack' = Globals'
    BY <1>2, <1>4 DEF R!Done, Fits, ReadingInv, Globals
  <2>. QED
    BY <2>2, <2>3 DEF ReadingInv
<1>6. ASSUME R!TokensStand(source), ~ mem.refused
      PROVE  reply' = ReplyTo(MeaningOfText, call.size)
  <2>1. PICK x : x = reading.obj /\ x \in {ReaderError, MemoryError} /\ x = MeantBy(source.tokens)
    BY <1>1, <1>6, HasReadTheMeaning
  <2>2. MeaningOfText = x
    BY <1>1, <2>1 DEF MeaningOfText
  <2>3. ReplyTo(x, call.size) = Exit(CodeOfReadError(x))
    BY <2>1 DEF ReplyTo, CodeOfReadError, ReaderError, MemoryError, VariableError, LispError
  <2>. QED
    BY <1>2, <2>1, <2>2, <2>3
<1>7. R!TokensStand(source)' => ReplyIsMeaning'
  BY <1>2, <1>6 DEF ReplyIsMeaning, MeaningOfText
<1>. QED
  BY <1>2, <1>3, <1>4, <1>5, <1>7 DEF ReplyInv

\* The evaluator begins with the meaning of the text before it.
LEMMA StartReplies ==
    ASSUME ReplyInv, StartEvaluation
    PROVE  ReplyInv'
<1>1. HasRead /\ ~ IsError(reading.obj)
  BY DEF StartEvaluation
<1>2. /\ control' = Eval(reading.obj) /\ mem' = mem /\ frames' = frames /\ reply' = NONE
      /\ source' = source /\ variable_stack' = variable_stack
  BY <1>1 DEF StartEvaluation, HasRead, readerVars
<1>3. CallInv' /\ control' # WaitForReader
  BY <1>2, CallKeeps DEF ReplyInv, InterpreterNext, Eval, WaitForReader
<1>4. ReadingInv /\ ReaderInv
  BY <1>1 DEF ReplyInv, CallInv, HasRead
<1>5. ~ mem.refused /\ IsMemory(mem) /\ frames = <<>>
  BY <1>1, <1>4 DEF ReaderInv
<1>6. call'.expr = reading.obj
  BY DEF StartEvaluation, ReaderInv, CallInv, ReplyInv
<1>7. ~ Failing'
  BY <1>2 DEF Failing, Eval
<1>8. variable_stack' = Globals /\ frames' = <<>>
  BY <1>2, <1>4, <1>5 DEF ReadingInv
<1>9. BindingsOK' /\ StackOK'
  <2>1. IsStack(Globals) /\ Len(Globals) = 5 /\ Globals' = Globals
    BY GlobalsAreFive DEF Globals
  <2>2. SubSeq(Globals, 1, Len(Globals)) = Globals
    <3>1. PICK V : Globals \in Seq(V)
      BY <2>1 DEF IsStack
    <3>. QED
      BY <3>1, SubSeqFull
  <2>3. BindingsNest(<<>>, Len(Globals))
    <3>1. OfKind(<<>>, "body") = {}
      BY DEF OfKind
    <3>. QED
      BY <2>1, <3>1, FS_EmptySet DEF BindingsNest
  <2>4. BindingsOK'
    BY <1>8, <2>1, <2>2, <2>3, GlobalsFit DEF BindingsOK
  <2>5. StackOK'
    BY <1>8, <2>1, GlobalsFit DEF StackOK
  <2>. QED
    BY <2>4, <2>5
<1>10. ASSUME R!TokensStand(source)
       PROVE  MeaningInv' /\ Answer' = MeaningOfText'
  <2>1. reading.obj = MeantBy(source.tokens) /\ source \in Sources
    BY <1>1, <1>5, <1>10, HasReadTheMeaning
  <2>2. reading.obj \in Objects
    BY <1>1, <2>1, TextsAssumption DEF TextObjects
  <2>3. PICK v : v = Meaning(reading.obj, GlobalEnv)
    OBVIOUS
  <2>4. Answer' = v
    BY <1>6, <2>3 DEF Answer
  <2>5. MeaningOfText' = v
    BY <1>1, <1>2, <2>1, <2>3 DEF MeaningOfText
  <2>6. Covers(Unlimited, mem')
    BY <1>2, <1>4, <1>5, MemoryIsCovered DEF ReadingInv, Fits
  <2>7. Bindings(variable_stack') /\ Env(variable_stack') = GlobalEnv
    BY <1>8, GlobalsAreBindings, Zenon
  <2>8. Computes(control', variable_stack', v)
    BY <1>2, <2>2, <2>3, <2>7 DEF Computes, Eval, Part
  <2>9. Chained(frames', variable_stack', v, v)
    BY <1>8, <2>7, NoFrames, Zenon DEF Bindings
  <2>. QED
    BY <1>7, <2>4, <2>5, <2>6, <2>7, <2>8, <2>9, Zenon DEF MeaningInv
<1>11. R!TokensStand(source)' => R!TokensStand(source)
  BY <1>2
<1>. QED
  BY <1>2, <1>3, <1>9, <1>10, <1>11 DEF ReplyInv, EvaluatingInv, ReplyIsMeaning

\* The exit code and what is written to dest, once the evaluator is done.
LEMMA FinishReplies ==
    ASSUME IInv, MeaningInv, Answer = MeaningOfText, Finish, ~ mem.refused
    PROVE  reply' = ReplyTo(MeaningOfText, call.size)
<1>1. control.step = "return" /\ frames = <<>> /\ control.obj # Undefined /\ reply' = Reply(control.obj)
  BY DEF Finish
<1>2. PICK x : x = control.obj
  OBVIOUS
<1>3. x = MeaningOfText
  BY <1>1, <1>2, MeaningAtTheEnd DEF ResultIsMeaning, Answer
<1>4. x.type = "error" => x \in {EvaluationError, MemoryError, VariableError}
  BY <1>1, <1>2, <1>3 DEF MeaningInv, Failing, IsError, Known
<1>5. EvaluationError \notin {MemoryError, VariableError}
  BY DEF EvaluationError, MemoryError, VariableError, LispError
<1>6. Reply(x) = ReplyTo(x, call.size)
  <2>1. CASE x.type = "string"
    BY <2>1 DEF Reply, ReplyTo
  <2>2. CASE x.type = "error"
    BY <1>4, <1>5, <2>2 DEF Reply, ReplyTo
  <2>3. CASE x.type \notin {"string", "error"}
    <3>1. x \notin {MemoryError, VariableError}
      BY <2>3 DEF MemoryError, VariableError, LispError
    <3>. QED
      BY <2>3, <3>1 DEF Reply, ReplyTo
  <2>. QED
    BY <2>1, <2>2, <2>3
<1>. QED
  BY <1>1, <1>2, <1>3, <1>6

\* A step of the evaluator.
LEMMA EvaluateReplies ==
    ASSUME MeaningIsByParts, ReplyInv, Evaluate
    PROVE  ReplyInv'
<1>1. Next /\ control # WaitForReader /\ UNCHANGED readerVars
  BY DEF Evaluate
<1>2. CallInv' /\ IInv /\ EvaluatingInv
  BY <1>1, CallKeeps DEF ReplyInv, CallInv, InterpreterNext
<1>3. source' = source
  BY <1>1 DEF readerVars
<1>4. control' # WaitForReader
  <2>1. IInv'
    BY <1>1, <1>2, StepKeeps
  <2>. QED
    BY <2>1 DEF IInv, ControlOK, WaitForReader
<1>5. call' = call
  BY <1>1 DEF Next, EvalSelf, EvalSymbol, EvalSpecial, EvalCall, ReturnToArgs, ReturnToBody,
              ApplySimple, ApplyDate, Finish
<1>6. reply = NONE
  <2>1. control.step = "return" /\ frames = <<>> => ~ (Next /\ ~ Finish)
    BY DEF Next, EvalSelf, EvalSymbol, EvalSpecial, EvalCall, ReturnToArgs, ReturnToBody, Evaluating,
           ApplySimple, ApplyDate, Returning
  <2>. QED
    BY <1>1, <1>2, <2>1 DEF IInv, RepliedAtTheEnd, Finish
<1>7. (~ Failing)' => BindingsOK'
  BY <1>1, <1>2, BindingsStep DEF EvaluatingInv
<1>8. StackOK'
  BY <1>1, <1>2, StackStep DEF EvaluatingInv
<1>9. ASSUME R!TokensStand(source)
      PROVE  MeaningInv' /\ Answer' = MeaningOfText'
  <2>1. MeaningInv /\ Answer = MeaningOfText /\ Len(variable_stack) <= VARIABLE_STACK_SIZE
    BY <1>2, <1>9 DEF EvaluatingInv, StackOK
  <2>2. MeaningInv'
    BY <1>1, <1>2, <2>1, StepMeans
  <2>3. Answer' = Answer /\ MeaningOfText' = MeaningOfText
    BY <1>3, <1>5 DEF Answer, MeaningOfText
  <2>. QED
    BY <2>1, <2>2, <2>3
<1>10. ASSUME R!TokensStand(source) PROVE ReplyIsMeaning'
  <2>1. CASE Finish
    <3>1. mem' = mem /\ MeaningOfText' = MeaningOfText
      BY <1>3, <2>1 DEF Finish, MeaningOfText
    <3>2. ~ mem.refused => reply' = ReplyTo(MeaningOfText, call.size)
      BY <1>2, <1>10, <2>1, FinishReplies DEF EvaluatingInv
    <3>. QED
      BY <1>5, <3>1, <3>2 DEF ReplyIsMeaning
  <2>2. CASE ~ Finish
    <3>1. reply' = reply
      BY <1>1, <2>2 DEF Next, EvalSelf, EvalSymbol, EvalSpecial, EvalCall, ReturnToArgs, ReturnToBody,
                        ApplySimple, ApplyDate
    <3>. QED
      BY <1>6, <3>1 DEF ReplyIsMeaning
  <2>. QED
    BY <2>1, <2>2
<1>11. R!TokensStand(source)' => R!TokensStand(source)
  BY <1>3
<1>. QED
  BY <1>2, <1>4, <1>7, <1>8, <1>9, <1>10, <1>11 DEF ReplyInv, EvaluatingInv

\* Every step of mlisj_eval keeps the invariant.
LEMMA ReplySteps ==
    ASSUME R!GrammarIsByParts, MeaningIsByParts, ReplyInv, [InterpreterNext]_<<vars, readerVars>>
    PROVE  ReplyInv'
<1>1. CASE InterpreterNext
  BY <1>1, ReadReplies, StartReplies, ReadFailsReplies, EvaluateReplies DEF InterpreterNext
<1>2. CASE UNCHANGED <<vars, readerVars>>
  <2>1. UNCHANGED vars /\ UNCHANGED readerVars
    BY <1>2
  <2>2. CallInv'
    BY <1>2, CallKeeps DEF ReplyInv
  <2>3. /\ source' = source /\ mem' = mem /\ call' = call /\ reply' = reply
        /\ control' = control /\ variable_stack' = variable_stack
    BY <2>1 DEF vars, readerVars
  <2>4. R!TokensStand(source)' => R!TokensStand(source)
    BY <2>3
  <2>5. (R!TokensStand(source) => ReplyIsMeaning)'
    BY <2>3, <2>4 DEF ReplyInv, ReplyIsMeaning, MeaningOfText
  <2>6. CASE control = WaitForReader
    <3>1. ReadingInv /\ R!Done' = R!Done /\ UNCHANGED R!vars
      BY <2>1, <2>6 DEF ReplyInv, R!Done, vars, readerVars, R!vars
    <3>2. R!IInv' /\ R!CursorInv' /\ R!FramesInv' /\ R!MemoryInv' /\ R!MeaningInv' /\ R!ErrorsInv'
      BY <3>1, ReaderSteps
    <3>3. ReadingInv'
      BY <2>3, <3>1, <3>2 DEF ReadingInv, Fits, Globals
    <3>. QED
      BY <2>2, <2>3, <2>5, <2>6, <3>3 DEF ReplyInv
  <2>7. CASE control # WaitForReader
    <3>1. EvaluatingInv /\ IInv
      BY <2>7 DEF ReplyInv, CallInv
    <3>2. (~ Failing)' => BindingsOK'
      BY <2>1, <3>1, BindingsStep DEF EvaluatingInv
    <3>3. StackOK'
      BY <2>1, <3>1, StackStep DEF EvaluatingInv
    <3>4. R!TokensStand(source) => MeaningInv'
      BY <2>1, <3>1, StepMeans DEF EvaluatingInv, StackOK
    <3>5. Answer' = Answer /\ MeaningOfText' = MeaningOfText
      BY <2>3 DEF Answer, MeaningOfText
    <3>. QED
      BY <2>2, <2>3, <2>4, <2>5, <2>7, <3>1, <3>2, <3>3, <3>4, <3>5 DEF ReplyInv, EvaluatingInv
  <2>. QED
    BY <2>6, <2>7
<1>. QED
  BY <1>1, <1>2

\* For every text of which the lexical part of the reader is right token by token, whatever the
\* memory and the caller's buffer: a call of mlisj_eval to which nothing is refused writes the
\* string the text denotes, or tells with its exit code what the text has instead of one.
THEOREM RepliesAreMeanings ==
    ASSUME R!GrammarIsByParts, MeaningIsByParts
    PROVE  InterpreterSpec => [](R!TokensStand(source) => ReplyIsMeaning)
<1>1. InterpreterInit => ReplyInv
  BY ReplyStarts
<1>2. ReplyInv /\ [InterpreterNext]_<<vars, readerVars>> => ReplyInv'
  BY ReplySteps
<1>3. ReplyInv => (R!TokensStand(source) => ReplyIsMeaning)
  BY DEF ReplyInv
<1>. QED
  BY <1>1, <1>2, <1>3, PTL DEF InterpreterSpec
=============================================================================
