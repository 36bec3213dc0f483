------------------------------- MODULE Lemmas -------------------------------
(***************************************************************************)
(* What the proofs of several modules need: induction over the numbers,    *)
(* and stacks of frames, as Evaluator and Reader write the C stack (what   *)
(* Append and Front do to them and to the number of frames of one kind).   *)
(***************************************************************************)
EXTENDS Integers, FiniteSets, SequencesExt, FiniteSetTheorems, SequenceTheorems, WellFoundedInduction, TLAPS

-----------------------------------------------------------------------------
(* Numbers                                                                   *)

\* A set of numbers has a least one.
LEMMA Least ==
    ASSUME NEW S \in SUBSET Nat, S # {}
    PROVE  \E d \in S : \A e \in S : d <= e
<1>1. IsWellFoundedOn(OpToRel(<, Nat), Nat)
  BY NatLessThanWellFounded
<1>2. PICK d \in S : \A e \in S : <<e, d>> \notin OpToRel(<, Nat)
  BY <1>1, WFMin, Zenon
<1>3. \A e \in S : ~ (e < d)
  BY <1>2 DEF OpToRel
<1>. QED
  BY <1>3

\* Some numbers up to M have a greatest one.
LEMMA Greatest ==
    ASSUME NEW M \in Nat, NEW S \in SUBSET (0 .. M), S # {}
    PROVE  \E d \in S : \A e \in S : d >= e
<1>. DEFINE T == {k \in Nat : M - k \in S}
<1>1. T # {}
  <2>1. PICK x \in S : TRUE
    OBVIOUS
  <2>2. M - x \in Nat /\ M - (M - x) = x
    BY <2>1
  <2>3. M - x \in T
    BY <2>1, <2>2
  <2>. QED
    BY <2>3
<1>2. PICK k \in T : \A j \in T : k <= j
  <2>. HIDE DEF T
  <2>. QED
    BY <1>1, Least DEF T
<1>3. \A e \in S : M - e \in Nat /\ M - (M - e) = e /\ e \in Nat
  OBVIOUS
<1>4. \A e \in S : k <= M - e
  BY <1>2, <1>3
<1>5. M - k \in S /\ \A e \in S : M - k >= e
  BY <1>2, <1>3, <1>4
<1>. QED
  BY <1>5

\* Induction over the numbers; S is the set of those a fact is true of.
LEMMA Induction ==
    ASSUME NEW S, 0 \in S, \A n \in Nat : n \in S => n + 1 \in S
    PROVE  Nat \subseteq S
<1>. SUFFICES ASSUME Nat \ S # {} PROVE FALSE
  OBVIOUS
<1>1. PICK d \in Nat \ S : \A e \in Nat \ S : d <= e
  BY Least
<1>2. d - 1 \in Nat /\ d - 1 \in S
  BY <1>1
<1>. QED
  BY <1>1, <1>2

\* Induction from the last number of an interval to the first.
LEMMA InductionFromTheEnd ==
    ASSUME NEW M \in Nat, NEW S, \A p \in 1 .. M : (\A q \in p + 1 .. M : q \in S) => p \in S
    PROVE  1 .. M \subseteq S
<1>. DEFINE T == {n \in Nat : \A p \in 1 .. M : M - n <= p => p \in S}
<1>1. 0 \in T
  <2>1. \A p \in 1 .. M : M - 0 <= p => p = M
    OBVIOUS
  <2>. QED
    BY <2>1
<1>2. ASSUME NEW n \in Nat, n \in T PROVE n + 1 \in T
  <2>1. ASSUME NEW p \in 1 .. M, M - (n + 1) <= p PROVE p \in S
    <3>1. \A q \in p + 1 .. M : q \in 1 .. M /\ M - n <= q
      BY <2>1
    <3>. QED
      BY <1>2, <3>1
  <2>. QED
    BY <2>1
<1>3. M \in T
  <2>. HIDE DEF T
  <2>. QED
    BY <1>1, <1>2, Induction
<1>. QED
  BY <1>3

\* What a loop of L turns computes: the values before the first turn and after
\* each of them, when the n-th turn makes step[<<n, v>>] of the value v.
Iterations(S, start, L, step) ==
    {f \in [0 .. L -> S] : f[0] = start /\ \A n \in 1 .. L : f[n] = step[<<n, f[n - 1]>>]}

\* A loop computes something.
LEMMA Iteration ==
    ASSUME NEW S, NEW start \in S, NEW L \in Nat, NEW step \in [(1 .. L) \X S -> S]
    PROVE  Iterations(S, start, L, step) # {}
<1>. DEFINE Solves(f, k) == f[0] = start /\ \A n \in 1 .. k : f[n] = step[<<n, f[n - 1]>>]
            T == {k \in Nat : k <= L => \E f \in [0 .. k -> S] : Solves(f, k)}
<1>1. 0 \in T
  <2>1. PICK f : f = [n \in 0 .. 0 |-> start]
    OBVIOUS
  <2>2. f \in [0 .. 0 -> S] /\ Solves(f, 0)
    BY <2>1
  <2>. QED
    BY <2>2
<1>2. ASSUME NEW k \in Nat, k \in T PROVE k + 1 \in T
  <2>. SUFFICES ASSUME k + 1 <= L PROVE \E g \in [0 .. k + 1 -> S] : Solves(g, k + 1)
    OBVIOUS
  <2>1. PICK f \in [0 .. k -> S] : Solves(f, k)
    BY <1>2
  <2>2. k + 1 \in 1 .. L /\ f[k] \in S
    OBVIOUS
  <2>3. PICK v \in S : v = step[<<k + 1, f[k]>>]
    BY <2>2
  <2>4. PICK g : g = [n \in 0 .. k + 1 |-> IF n = k + 1 THEN v ELSE f[n]]
    OBVIOUS
  <2>5. \A n \in 0 .. k + 1 : n = k + 1 \/ n \in 0 .. k
    OBVIOUS
  <2>6. g[k + 1] = v /\ \A n \in 0 .. k : g[n] = f[n]
    BY <2>4
  <2>7. g \in [0 .. k + 1 -> S]
    BY <2>4, <2>5
  <2>8. \A n \in 1 .. k : n \in 0 .. k /\ n - 1 \in 0 .. k
    OBVIOUS
  <2>9. \A n \in 1 .. k : g[n] = step[<<n, g[n - 1]>>]
    BY <2>1, <2>6, <2>8
  <2>10. g[k + 1] = step[<<k + 1, g[k]>>]
    BY <2>3, <2>6
  <2>11. g[0] = start
    BY <2>1, <2>6
  <2>12. \A n \in 1 .. k + 1 : n \in 1 .. k \/ (n = k + 1 /\ n - 1 = k)
    OBVIOUS
  <2>13. \A n \in 1 .. k + 1 : g[n] = step[<<n, g[n - 1]>>]
    BY <2>9, <2>10, <2>12
  <2>. QED
    BY <2>7, <2>11, <2>13
<1>3. L \in T
  <2>. HIDE DEF T
  <2>. QED
    BY <1>1, <1>2, Induction
<1>. QED
  BY <1>3 DEF Iterations

-----------------------------------------------------------------------------
(* Stacks                                                                    *)

\* A sequence, of whatever.
IsStack(s) == \E V : s \in Seq(V)

\* The frames of one kind.
OfKind(s, kind) == {i \in DOMAIN s : s[i].kind = kind}

\* The frames of a kind can be counted.
LEMMA StackFinite ==
    ASSUME NEW s, IsStack(s), NEW kind
    PROVE  IsFiniteSet(OfKind(s, kind)) /\ Cardinality(OfKind(s, kind)) \in Nat
<1>1. Len(s) \in Nat /\ OfKind(s, kind) \in SUBSET (1 .. Len(s))
  BY DEF IsStack, OfKind
<1>2. IsFiniteSet(1 .. Len(s))
  BY <1>1, FS_Interval
<1>3. IsFiniteSet(OfKind(s, kind))
  BY <1>1, <1>2, FS_Subset
<1>. QED
  BY <1>3, FS_CardinalityType

\* What Append does to a stack.
LEMMA Pushed ==
    ASSUME NEW s, IsStack(s), NEW x
    PROVE  /\ IsStack(Append(s, x))
           /\ DOMAIN s = 1 .. Len(s) /\ Len(s) \in Nat
           /\ Len(Append(s, x)) = Len(s) + 1
           /\ DOMAIN Append(s, x) = 1 .. Len(s) + 1
           /\ \A i \in 1 .. Len(s) : Append(s, x)[i] = s[i]
           /\ Append(s, x)[Len(s) + 1] = x
<1>1. PICK V : s \in Seq(V)
  BY DEF IsStack
<1>2. PICK W : W = V \cup {x}
  OBVIOUS
<1>3. s \in Seq(W) /\ x \in W
  BY <1>1, <1>2
<1>4. Append(s, x) \in Seq(W)
  BY <1>3
<1>. QED
  BY <1>3, <1>4 DEF IsStack

\* What Front does to a stack.
LEMMA Popped ==
    ASSUME NEW s, IsStack(s), s # <<>>
    PROVE  /\ IsStack(Front(s))
           /\ Len(s) \in Nat \ {0} /\ DOMAIN s = 1 .. Len(s)
           /\ Len(Front(s)) = Len(s) - 1
           /\ DOMAIN Front(s) = 1 .. Len(s) - 1
           /\ \A i \in 1 .. Len(s) - 1 : Front(s)[i] = s[i]
<1>1. PICK V : s \in Seq(V)
  BY DEF IsStack
<1>2. Len(s) \in Nat \ {0}
  BY <1>1
<1>3. PICK n \in Nat : n = Len(s) - 1
  BY <1>2
<1>4. \A i \in 1 .. n : s[i] \in V
  BY <1>1, <1>2, <1>3
<1>5. /\ SubSeq(s, 1, n) \in Seq(V)
      /\ Len(SubSeq(s, 1, n)) = IF 1 <= n THEN n - 1 + 1 ELSE 0
      /\ \A i \in 1 .. n - 1 + 1 : SubSeq(s, 1, n)[i] = s[1 + i - 1]
  BY <1>4, SubSeqProperties
<1>6. Front(s) = SubSeq(s, 1, n)
  BY <1>3 DEF Front
<1>7. Len(Front(s)) = n /\ \A i \in 1 .. n : Front(s)[i] = s[i]
  BY <1>5, <1>6
<1>. QED
  BY <1>1, <1>2, <1>3, <1>5, <1>6, <1>7, SMTT(30) DEF IsStack

\* A frame pushed is counted with those of its kind.
LEMMA PushedKinds ==
    ASSUME NEW s, IsStack(s), NEW x, NEW kind
    PROVE  Cardinality(OfKind(Append(s, x), kind))
               = Cardinality(OfKind(s, kind)) + (IF x.kind = kind THEN 1 ELSE 0)
<1>1. OfKind(Append(s, x), kind) = IF x.kind = kind THEN OfKind(s, kind) \cup {Len(s) + 1}
                                   ELSE OfKind(s, kind)
  BY Pushed DEF OfKind
<1>2. Len(s) + 1 \notin OfKind(s, kind)
  BY Pushed DEF OfKind
<1>3. IsFiniteSet(OfKind(s, kind)) /\ Cardinality(OfKind(s, kind)) \in Nat
  BY StackFinite
<1>4. Cardinality(OfKind(s, kind) \cup {Len(s) + 1}) = Cardinality(OfKind(s, kind)) + 1
  BY <1>2, <1>3, FS_AddElement
<1>. QED
  BY <1>1, <1>3, <1>4

\* A frame popped is no longer counted with those of its kind.
LEMMA PoppedKinds ==
    ASSUME NEW s, IsStack(s), s # <<>>, NEW kind
    PROVE  Cardinality(OfKind(Front(s), kind))
               = Cardinality(OfKind(s, kind)) - (IF Last(s).kind = kind THEN 1 ELSE 0)
<1>1. OfKind(Front(s), kind) = OfKind(s, kind) \ {Len(s)}
  BY Popped DEF OfKind
<1>2. Len(s) \in OfKind(s, kind) <=> Last(s).kind = kind
  BY Popped DEF OfKind, Last
<1>3. IsFiniteSet(OfKind(s, kind)) /\ Cardinality(OfKind(s, kind)) \in Nat
  BY StackFinite
<1>4. Cardinality(OfKind(s, kind) \ {Len(s)})
          = IF Len(s) \in OfKind(s, kind) THEN Cardinality(OfKind(s, kind)) - 1
            ELSE Cardinality(OfKind(s, kind))
  BY <1>3, FS_RemoveElement
<1>. QED
  BY <1>1, <1>2, <1>3, <1>4
=============================================================================
