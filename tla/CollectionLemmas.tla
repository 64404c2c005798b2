---------------------------- MODULE CollectionLemmas --------------------------
(***************************************************************************)
(* What the proofs about the scheduler need of sequences (which elements a *)
(* filtered, joined or cut sequence has, and that none is there twice) and *)
(* of sums over sets.  The induction is the least counterexample of a set  *)
(* of natural numbers.                                                     *)
(***************************************************************************)
EXTENDS SequenceFilter, SequencesExt, FiniteSetTheorems, WellFoundedInduction, TLAPS

\* Every set of natural numbers has a least element.
LEMMA LeastNat ==
  ASSUME NEW T \in SUBSET Nat, T # {}
  PROVE  \E n \in T : \A m \in T : n <= m
<1> DEFINE R == OpToRel(<, Nat)
<1>1. IsWellFoundedOn(R, Nat) BY NatLessThanWellFounded
<1> HIDE DEF R
<1>2. PICK n \in T : \A m \in T : <<m, n>> \notin R BY <1>1, WFMin
<1>3. \A m \in T : m < n => <<m, n>> \in R BY DEF OpToRel, R
<1>4. \A m \in T : m \in Nat /\ ~(m < n) BY <1>2, <1>3
<1>5. n \in Nat OBVIOUS
<1>6. QED BY <1>4, <1>5

\* Induction, for a predicate that is given as a set.
LEMMA InductionOnNat ==
  ASSUME NEW T, 0 \in T, \A n \in Nat : n \in T => n + 1 \in T
  PROVE  Nat \subseteq T
<1> SUFFICES ASSUME Nat \ T # {} PROVE FALSE OBVIOUS
<1>1. PICK n \in Nat \ T : \A m \in Nat \ T : n <= m BY LeastNat
<1>2. n - 1 \in Nat /\ n - 1 < n /\ n - 1 + 1 = n BY <1>1
<1>3. n - 1 \in T BY <1>1, <1>2
<1>4. QED BY <1>1, <1>2, <1>3

-----------------------------------------------------------------------------
\* What is left of the first n elements, given what is left of those before.
KeptStep(seq, S, kept, n) ==
  IF n = 0 THEN <<>>
  ELSE IF seq[n] \in S THEN kept[n - 1] ELSE Append(kept[n - 1], seq[n])

\* Remainders at both ends of the slots.
LEMMA Remainders ==
  ASSUME NEW n \in Nat \ {0}
  PROVE  n % n = 0 /\ (-1) % n = n - 1 /\ \A k \in 0 .. n - 1 : k % n = k
<1>1. n % n = 0 OBVIOUS
<1>2. (-1) % n = n - 1 OBVIOUS
<1>3. ASSUME NEW k \in 0 .. n - 1 PROVE k % n = k OBVIOUS
<1>4. QED BY <1>1, <1>2, <1>3

\* The function that Without defines by recursion exists.
LEMMA WithoutUnfolds ==
  ASSUME NEW E, NEW seq \in Seq(E), NEW S
  PROVE  \E kept : /\ Without(seq, S) = kept[Len(seq)]
                   /\ \A n \in 0 .. Len(seq) : kept[n] = KeptStep(seq, S, kept, n)
<1> DEFINE T == {m \in Nat : \E g : \A n \in 0 .. m : g[n] = KeptStep(seq, S, g, n)}
<1>1. 0 \in T
  <2>1. [n \in 0 .. 0 |-> <<>>][0] = KeptStep(seq, S, [n \in 0 .. 0 |-> <<>>], 0)
    BY DEF KeptStep
  <2>2. QED BY <2>1
<1>2. ASSUME NEW m \in Nat, m \in T PROVE m + 1 \in T
  <2>1. PICK g : \A n \in 0 .. m : g[n] = KeptStep(seq, S, g, n) BY <1>2
  <2> DEFINE h == [n \in 0 .. m + 1 |-> IF n <= m THEN g[n] ELSE KeptStep(seq, S, g, n)]
  <2>2. ASSUME NEW n \in 0 .. m + 1 PROVE h[n] = KeptStep(seq, S, h, n)
    <3>1. n # 0 => n - 1 \in 0 .. m /\ h[n - 1] = g[n - 1] OBVIOUS
    <3>2. KeptStep(seq, S, h, n) = KeptStep(seq, S, g, n) BY <3>1 DEF KeptStep
    <3>3. CASE n <= m
      <4>1. n \in 0 .. m /\ h[n] = g[n] BY <3>3
      <4>2. QED BY <2>1, <3>2, <4>1
    <3>4. CASE ~(n <= m) BY <3>2, <3>4
    <3>5. QED BY <3>3, <3>4
  <2> HIDE DEF h
  <2>3. QED BY <2>2
<1> HIDE DEF T
<1>3. Len(seq) \in T BY <1>1, <1>2, InductionOnNat
<1>4. PICK g : \A n \in 0 .. Len(seq) : g[n] = KeptStep(seq, S, g, n) BY <1>3 DEF T
<1> DEFINE body(k) == [n \in 0 .. Len(seq) |-> KeptStep(seq, S, k, n)]
           f == [n \in 0 .. Len(seq) |-> g[n]]
           kept == CHOOSE k : k = body(k)
<1>5. f = body(f)
  <2>1. ASSUME NEW n \in 0 .. Len(seq) PROVE f[n] = KeptStep(seq, S, f, n)
    <3>1. n # 0 => n - 1 \in 0 .. Len(seq) /\ f[n - 1] = g[n - 1] OBVIOUS
    <3>2. KeptStep(seq, S, f, n) = KeptStep(seq, S, g, n) BY <3>1 DEF KeptStep
    <3>3. QED BY <1>4, <3>2
  <2>2. QED BY <2>1
<1> HIDE DEF f
<1>6. kept = body(kept) BY <1>5
<1>7. Without(seq, S) = kept[Len(seq)] BY DEF Without, KeptStep
<1> HIDE DEF kept
<1>8. \A n \in 0 .. Len(seq) : kept[n] = KeptStep(seq, S, kept, n) BY <1>6
<1>9. QED BY <1>7, <1>8

\* A filtered sequence has the elements that are not filtered out, in no more places.
LEMMA WithoutElements ==
  ASSUME NEW E, NEW seq \in Seq(E), NEW S
  PROVE  /\ Without(seq, S) \in Seq(E)
         /\ ToSet(Without(seq, S)) = ToSet(seq) \ S
         /\ Len(Without(seq, S)) <= Len(seq)
         /\ IsInjective(seq) => IsInjective(Without(seq, S))
<1>1. PICK kept : /\ Without(seq, S) = kept[Len(seq)]
                  /\ \A n \in 0 .. Len(seq) : kept[n] = KeptStep(seq, S, kept, n)
  BY WithoutUnfolds
<1> DEFINE Good(n, t) == /\ t \in Seq(E) /\ Len(t) <= n
                         /\ \A x : x \in ToSet(t) <=> x \notin S /\ \E i \in 1 .. n : seq[i] = x
                         /\ IsInjective(seq) => IsInjective(t)
           T == {n \in Nat : n <= Len(seq) => Good(n, kept[n])}
<1>2. 0 \in T
  <2>1. kept[0] = <<>> BY <1>1 DEF KeptStep
  <2>2. Good(0, <<>>) BY DEF ToSet, IsInjective
  <2>3. QED BY <2>1, <2>2
<1>3. ASSUME NEW n \in Nat, n \in T PROVE n + 1 \in T
  <2> SUFFICES ASSUME n + 1 <= Len(seq) PROVE Good(n + 1, kept[n + 1]) OBVIOUS
  <2> DEFINE t == kept[n]  u == Append(t, seq[n + 1])
  <2>1. Good(n, t) /\ seq[n + 1] \in E BY <1>3
  <2>2. n + 1 \in 0 .. Len(seq) /\ n + 1 # 0 /\ (n + 1) - 1 = n OBVIOUS
  <2>3. kept[n + 1] = IF seq[n + 1] \in S THEN t ELSE u BY <1>1, <2>2 DEF KeptStep
  <2>4. \A x : (\E i \in 1 .. n + 1 : seq[i] = x) <=> (\E i \in 1 .. n : seq[i] = x) \/ x = seq[n + 1]
    OBVIOUS
  <2> HIDE DEF t
  <2>5. CASE seq[n + 1] \in S BY <2>1, <2>3, <2>4, <2>5
  <2>6. CASE seq[n + 1] \notin S
    <3>1. /\ u \in Seq(E) /\ Len(u) = Len(t) + 1 /\ DOMAIN u = 1 .. Len(t) + 1
          /\ \A i \in 1 .. Len(t) : u[i] = t[i]
          /\ u[Len(t) + 1] = seq[n + 1] /\ DOMAIN t = 1 .. Len(t) /\ Len(t) \in Nat
      BY <2>1
    <3>2. \A x : x \in ToSet(u) <=> x \in ToSet(t) \/ x = seq[n + 1]
      BY <3>1 DEF ToSet
    <3>3. ASSUME IsInjective(seq) PROVE IsInjective(u)
      <4>1. seq[n + 1] \notin ToSet(t) BY <2>1, <3>3 DEF IsInjective
      <4>2. \A i \in 1 .. Len(t) : t[i] # seq[n + 1] BY <3>1, <4>1 DEF ToSet
      <4>3. QED BY <2>1, <3>1, <3>3, <4>2 DEF IsInjective
    <3>4. Len(u) <= n + 1 BY <2>1, <3>1
    <3> HIDE DEF u
    <3>5. Good(n + 1, u) BY <2>1, <2>4, <2>6, <3>1, <3>2, <3>3, <3>4
    <3>6. QED BY <2>3, <2>6, <3>5
  <2>7. QED BY <2>5, <2>6
<1> HIDE DEF T
<1>4. Len(seq) \in T BY <1>2, <1>3, InductionOnNat
<1>5. Good(Len(seq), kept[Len(seq)]) BY <1>4 DEF T
<1>6. \A x : x \in ToSet(seq) <=> \E i \in 1 .. Len(seq) : seq[i] = x BY DEF ToSet
<1>7. QED BY <1>1, <1>5, <1>6

-----------------------------------------------------------------------------
\* A sequence has the elements of its two halves, none twice if the halves share none.
LEMMA JoinedElements ==
  ASSUME NEW E, NEW s \in Seq(E), NEW t \in Seq(E)
  PROVE  /\ s \o t \in Seq(E)
         /\ ToSet(s \o t) = ToSet(s) \cup ToSet(t)
         /\ IsInjective(s) /\ IsInjective(t) /\ ToSet(s) \cap ToSet(t) = {}
              => IsInjective(s \o t)
<1> DEFINE u == s \o t
<1>1. PICK m \in Nat, n \in Nat :
        /\ DOMAIN s = 1 .. m /\ DOMAIN t = 1 .. n /\ DOMAIN u = 1 .. m + n
        /\ \A i \in 1 .. m : u[i] = s[i]
        /\ \A i \in m + 1 .. m + n : u[i] = t[i - m]
  <2>1. /\ Len(s) \in Nat /\ Len(t) \in Nat /\ DOMAIN s = 1 .. Len(s) /\ DOMAIN t = 1 .. Len(t)
        /\ DOMAIN u = 1 .. Len(s) + Len(t)
        /\ \A i \in 1 .. Len(s) : u[i] = s[i]
        /\ \A i \in Len(s) + 1 .. Len(s) + Len(t) : u[i] = t[i - Len(s)]
    OBVIOUS
  <2>2. QED BY <2>1
<1>2. u \in Seq(E) OBVIOUS
<1> HIDE DEF u
<1>3. /\ \A i \in 1 .. m + n : i \in 1 .. m \/ i \in m + 1 .. m + n
      /\ \A i \in m + 1 .. m + n : i - m \in 1 .. n
  OBVIOUS
<1>4. \A i \in 1 .. n : m + i \in m + 1 .. m + n /\ m + i \in 1 .. m + n /\ (m + i) - m = i
  OBVIOUS
<1>5. \A i \in 1 .. m : i \in 1 .. m + n OBVIOUS
<1>6. ASSUME NEW x \in ToSet(u) PROVE x \in ToSet(s) \cup ToSet(t)
  BY <1>1, <1>3, <1>6 DEF ToSet
<1>7. ASSUME NEW x \in ToSet(s) PROVE x \in ToSet(u)
  BY <1>1, <1>5, <1>7 DEF ToSet
<1>8. ASSUME NEW x \in ToSet(t) PROVE x \in ToSet(u)
  <2>1. PICK i \in 1 .. n : t[i] = x BY <1>1 DEF ToSet
  <2>2. u[m + i] = x BY <1>1, <1>4, <2>1
  <2>3. QED BY <1>1, <1>4, <2>2 DEF ToSet
<1>9. ASSUME IsInjective(s), IsInjective(t), ToSet(s) \cap ToSet(t) = {}
      PROVE  IsInjective(u)
  <2> SUFFICES ASSUME NEW i \in 1 .. m + n, NEW j \in 1 .. m + n, u[i] = u[j] PROVE i = j
    BY <1>1 DEF IsInjective
  <2>1. \A k \in 1 .. m : u[k] = s[k] /\ s[k] \in ToSet(s) BY <1>1 DEF ToSet
  <2>2. \A k \in m + 1 .. m + n : u[k] = t[k - m] /\ k - m \in 1 .. n /\ t[k - m] \in ToSet(t)
    BY <1>1, <1>3 DEF ToSet
  <2>3. CASE i \in 1 .. m /\ j \in 1 .. m BY <1>1, <1>9, <2>1, <2>3 DEF IsInjective
  <2>4. CASE i \in m + 1 .. m + n /\ j \in m + 1 .. m + n
    <3>1. t[i - m] = t[j - m] BY <2>2, <2>4
    <3>2. i - m = j - m BY <1>1, <1>9, <2>2, <2>4, <3>1 DEF IsInjective
    <3>3. QED BY <3>2
  <2>5. \A k \in 1 .. m : \A l \in m + 1 .. m + n : u[k] # u[l] BY <1>9, <2>1, <2>2
  <2>6. QED BY <1>3, <2>3, <2>4, <2>5
<1>10. QED BY <1>2, <1>6, <1>7, <1>8, <1>9 DEF u

\* An element more, at the end.
LEMMA AppendedElement ==
  ASSUME NEW E, NEW s \in Seq(E), NEW e \in E
  PROVE  /\ Append(s, e) \in Seq(E)
         /\ ToSet(Append(s, e)) = ToSet(s) \cup {e}
         /\ IsInjective(s) /\ e \notin ToSet(s) => IsInjective(Append(s, e))
         /\ \A i \in DOMAIN s : i \in DOMAIN Append(s, e) /\ Append(s, e)[i] = s[i]
<1>1. Append(s, e) = s \o <<e>> /\ <<e>> \in Seq(E) OBVIOUS
<1>2. ToSet(<<e>>) = {e} /\ IsInjective(<<e>>) BY DEF ToSet, IsInjective
<1>3. /\ s \o <<e>> \in Seq(E)
      /\ ToSet(s \o <<e>>) = ToSet(s) \cup ToSet(<<e>>)
      /\ IsInjective(s) /\ IsInjective(<<e>>) /\ ToSet(s) \cap ToSet(<<e>>) = {}
           => IsInjective(s \o <<e>>)
  BY <1>1, JoinedElements
<1>4. \A i \in DOMAIN s : i \in DOMAIN Append(s, e) /\ Append(s, e)[i] = s[i] OBVIOUS
<1>5. QED BY <1>1, <1>2, <1>3, <1>4

\* The first elements.
LEMMA FirstElements ==
  ASSUME NEW E, NEW s \in Seq(E), NEW k \in 0 .. Len(s)
  PROVE  /\ SubSeq(s, 1, k) \in Seq(E) /\ Len(SubSeq(s, 1, k)) = k
         /\ ToSet(SubSeq(s, 1, k)) \subseteq ToSet(s)
         /\ IsInjective(s) => IsInjective(SubSeq(s, 1, k))
<1> DEFINE u == SubSeq(s, 1, k)
<1>1. u \in Seq(E) /\ Len(u) = k /\ \A i \in 1 .. k : u[i] = s[i] OBVIOUS
<1>2. DOMAIN u = 1 .. k /\ DOMAIN s = 1 .. Len(s) /\ 1 .. k \subseteq 1 .. Len(s) BY <1>1
<1> HIDE DEF u
<1>3. ToSet(u) \subseteq ToSet(s) BY <1>1, <1>2 DEF ToSet
<1>4. IsInjective(s) => IsInjective(u) BY <1>1, <1>2 DEF IsInjective
<1>5. QED BY <1>1, <1>3, <1>4 DEF u

\* A sequence without repetition is as long as the number of its elements.
LEMMA InjectiveLen ==
  ASSUME NEW E, NEW s \in Seq(E), IsInjective(s)
  PROVE  IsFiniteSet(ToSet(s)) /\ Cardinality(ToSet(s)) = Len(s)
<1>1. DOMAIN s = 1 .. Len(s) /\ Len(s) \in Nat /\ s \in [1 .. Len(s) -> E] OBVIOUS
<1>2. s \in Bijection(1 .. Len(s), ToSet(s))
  BY <1>1 DEF Bijection, Injection, Surjection, IsInjective, ToSet
<1>3. IsFiniteSet(1 .. Len(s)) /\ Cardinality(1 .. Len(s)) = Len(s) BY <1>1, FS_Interval
<1>4. ExistsBijection(1 .. Len(s), ToSet(s)) BY <1>2 DEF ExistsBijection
<1>5. QED BY <1>3, <1>4, FS_Bijection

-----------------------------------------------------------------------------
\* The sum over a set, given the sums over the smaller ones.
SumStep(f, sum, s) ==
  IF s = {} THEN 0 ELSE LET x == CHOOSE y \in s : TRUE IN f[x] + sum[s \ {x}]

SumsUp(f, S, sum) == /\ SumFunctionOnSet(f, S) = sum[S]
                     /\ \A s \in SUBSET S : sum[s] = SumStep(f, sum, s)

\* The function by which SumFunctionOnSet is defined exists.
LEMMA SumUnfolds ==
  ASSUME NEW S, IsFiniteSet(S), NEW f
  PROVE  \E sum : SumsUp(f, S, sum)
<1> DEFINE Small(m) == {s \in SUBSET S : Cardinality(s) <= m}
           T == {m \in Nat : \E g : \A s \in Small(m) : g[s] = SumStep(f, g, s)}
<1>1. ASSUME NEW s \in SUBSET S, s # {}
      PROVE  LET x == CHOOSE y \in s : TRUE IN
             /\ s \ {x} \in SUBSET S /\ Cardinality(s) \in Nat \ {0}
             /\ Cardinality(s \ {x}) = Cardinality(s) - 1
  <2>1. IsFiniteSet(s) BY FS_Subset
  <2>2. (CHOOSE y \in s : TRUE) \in s BY <1>1
  <2>3. /\ Cardinality(s) \in Nat /\ Cardinality(s) # 0
    BY <1>1, <2>1, FS_CardinalityType, FS_EmptySet
  <2>4. QED BY <2>1, <2>2, <2>3, FS_RemoveElement
<1>2. 0 \in T
  <2>1. ASSUME NEW s \in Small(0) PROVE s = {}
    <3>1. s \in SUBSET S /\ Cardinality(s) <= 0 OBVIOUS
    <3>2. s # {} => Cardinality(s) \in Nat \ {0} BY <1>1, <3>1
    <3>3. QED BY <3>1, <3>2
  <2>2. \A s \in Small(0) : [t \in {{}} |-> 0][s] = SumStep(f, [t \in {{}} |-> 0], s)
    BY <2>1 DEF SumStep
  <2>3. QED BY <2>2
<1>3. ASSUME NEW m \in Nat, m \in T PROVE m + 1 \in T
  <2>1. PICK g : \A s \in Small(m) : g[s] = SumStep(f, g, s) BY <1>3
  <2> DEFINE h == [s \in SUBSET S |-> IF s \in Small(m) THEN g[s] ELSE SumStep(f, g, s)]
  <2>2. ASSUME NEW s \in Small(m + 1) PROVE h[s] = SumStep(f, h, s)
    <3>1. CASE s = {}
      <4>1. SumStep(f, g, s) = 0 /\ SumStep(f, h, s) = 0 BY <3>1 DEF SumStep
      <4>2. s \in Small(m) => g[s] = SumStep(f, g, s) BY <2>1
      <4>3. s \in SUBSET S OBVIOUS
      <4> HIDE DEF Small
      <4>4. QED BY <4>1, <4>2, <4>3
    <3>2. CASE s # {}
      <4> DEFINE x == CHOOSE y \in s : TRUE
      <4>1. s \ {x} \in Small(m) BY <1>1, <3>2
      <4>2. h[s \ {x}] = g[s \ {x}] BY <4>1
      <4>3. SumStep(f, h, s) = SumStep(f, g, s) BY <3>2, <4>2 DEF SumStep
      <4>4. h[s] = SumStep(f, g, s)
        <5>1. s \in Small(m) => g[s] = SumStep(f, g, s) BY <2>1
        <5>2. s \in SUBSET S OBVIOUS
        <5> HIDE DEF Small
        <5>3. QED BY <5>1, <5>2
      <4>5. QED BY <4>3, <4>4
    <3>3. QED BY <3>1, <3>2
  <2> HIDE DEF h
  <2>3. QED BY <2>2
<1> HIDE DEF T
<1>4. Cardinality(S) \in T BY <1>2, <1>3, FS_CardinalityType, InductionOnNat
<1>5. PICK g : \A s \in Small(Cardinality(S)) : g[s] = SumStep(f, g, s) BY <1>4 DEF T
<1>6. SUBSET S \subseteq Small(Cardinality(S)) BY FS_Subset
<1> DEFINE body(k) == [s \in SUBSET S |-> SumStep(f, k, s)]
           sums == [s \in SUBSET S |-> g[s]]
           iter == CHOOSE k : k = body(k)
<1>7. sums = body(sums)
  <2>1. ASSUME NEW s \in SUBSET S PROVE sums[s] = SumStep(f, sums, s)
    <3>1. SumStep(f, sums, s) = SumStep(f, g, s) BY <1>1 DEF SumStep
    <3>2. QED BY <1>5, <1>6, <3>1
  <2>2. QED BY <2>1
<1> HIDE DEF sums
<1>8. iter = body(iter) BY <1>7
<1>9. SumFunctionOnSet(f, S) = iter[S]
  BY DEF SumFunctionOnSet, FoldFunctionOnSet, MapThenFoldSet, SumStep
<1> HIDE DEF iter
<1>10. \A s \in SUBSET S : iter[s] = SumStep(f, iter, s) BY <1>8
<1>11. QED BY <1>9, <1>10 DEF SumsUp

\* There is only one such function.
LEMMA SumsAgree ==
  ASSUME NEW S, IsFiniteSet(S), NEW f, NEW g, NEW h,
         \A s \in SUBSET S : g[s] = SumStep(f, g, s) /\ h[s] = SumStep(f, h, s)
  PROVE  \A s \in SUBSET S : g[s] = h[s]
<1> DEFINE T == {m \in Nat : \A s \in SUBSET S : Cardinality(s) = m => g[s] = h[s]}
<1>1. 0 \in T
  <2>1. ASSUME NEW s \in SUBSET S, Cardinality(s) = 0 PROVE g[s] = h[s]
    <3>1. s = {} BY <2>1, FS_Subset, FS_EmptySet
    <3>2. QED BY <3>1 DEF SumStep
  <2>2. QED BY <2>1
<1>2. ASSUME NEW m \in Nat, m \in T PROVE m + 1 \in T
  <2>1. ASSUME NEW s \in SUBSET S, Cardinality(s) = m + 1 PROVE g[s] = h[s]
    <3> DEFINE x == CHOOSE y \in s : TRUE
    <3>1. IsFiniteSet(s) /\ s # {} BY <2>1, FS_Subset, FS_EmptySet
    <3>2. x \in s BY <3>1
    <3>5. SumStep(f, g, s) = f[x] + g[s \ {x}] /\ SumStep(f, h, s) = f[x] + h[s \ {x}]
      BY <3>1 DEF SumStep
    <3> HIDE DEF x
    <3>3. s \ {x} \in SUBSET S /\ Cardinality(s \ {x}) = m
      <4>1. Cardinality(s \ {x}) = Cardinality(s) - 1 BY <3>1, <3>2, FS_RemoveElement
      <4>2. QED BY <2>1, <4>1
    <3>4. g[s \ {x}] = h[s \ {x}] BY <1>2, <3>3
    <3>6. QED BY <3>4, <3>5
  <2>2. QED BY <2>1
<1> HIDE DEF T
<1>3. Nat \subseteq T BY <1>1, <1>2, InductionOnNat
<1>4. \A s \in SUBSET S : Cardinality(s) \in Nat BY FS_Subset, FS_CardinalityType
<1>5. QED BY <1>3, <1>4 DEF T

\* The sum as a recursion over sets.
LEMMA SumRecursion ==
  ASSUME NEW S, IsFiniteSet(S), NEW f
  PROVE  SumFunctionOnSet(f, S) =
           IF S = {} THEN 0
           ELSE LET x == CHOOSE y \in S : TRUE IN f[x] + SumFunctionOnSet(f, S \ {x})
<1> DEFINE x == CHOOSE y \in S : TRUE
<1>1. PICK g : SumsUp(f, S, g) BY SumUnfolds
<1>2. CASE S = {} BY <1>1, <1>2 DEF SumStep, SumsUp
<1>3. CASE S # {}
  <2> DEFINE rest == S \ {x}
  <2>1. g[S] = f[x] + g[rest] BY <1>1, <1>3 DEF SumStep, SumsUp
  <2>2. IsFiniteSet(rest) /\ SUBSET rest \subseteq SUBSET S BY FS_Subset
  <2> HIDE DEF rest
  <2>3. PICK h : SumsUp(f, rest, h) BY <2>2, SumUnfolds
  <2>4. \A s \in SUBSET rest : g[s] = SumStep(f, g, s) /\ h[s] = SumStep(f, h, s)
    BY <1>1, <2>2, <2>3 DEF SumsUp
  <2>5. g[rest] = h[rest] BY <2>2, <2>4, SumsAgree
  <2>6. QED BY <1>1, <1>3, <2>1, <2>3, <2>5 DEF rest, SumsUp
<1>4. QED BY <1>2, <1>3

\* The sum of integers is one.
LEMMA SumType ==
  ASSUME NEW D, IsFiniteSet(D), NEW f \in [D -> Int]
  PROVE  \A S \in SUBSET D : SumFunctionOnSet(f, S) \in Int
<1> DEFINE Sum(s) == SumFunctionOnSet(f, s)
           T == {m \in Nat : \A s \in SUBSET D : Cardinality(s) = m => Sum(s) \in Int}
<1>1. ASSUME NEW s \in SUBSET D
      PROVE  IsFiniteSet(s) /\ Cardinality(s) \in Nat /\ (Cardinality(s) = 0 <=> s = {})
  BY FS_Subset, FS_CardinalityType, FS_EmptySet
<1> HIDE DEF Sum
<1>2. 0 \in T
  <2>1. Sum({}) = 0 BY SumRecursion, FS_EmptySet DEF Sum
  <2>2. QED BY <1>1, <2>1
<1>3. ASSUME NEW m \in Nat, m \in T PROVE m + 1 \in T
  <2>1. ASSUME NEW s \in SUBSET D, Cardinality(s) = m + 1 PROVE Sum(s) \in Int
    <3> DEFINE y == CHOOSE x \in s : TRUE
    <3>1. IsFiniteSet(s) /\ s # {} BY <1>1, <2>1
    <3>2. y \in s BY <3>1
    <3>3. Sum(s) = f[y] + Sum(s \ {y}) BY <3>1, SumRecursion DEF Sum
    <3> HIDE DEF y
    <3>4. s \ {y} \in SUBSET D /\ Cardinality(s \ {y}) = m
      <4>1. Cardinality(s \ {y}) = Cardinality(s) - 1 BY <3>1, <3>2, FS_RemoveElement
      <4>2. QED BY <2>1, <4>1
    <3>5. f[y] \in Int /\ Sum(s \ {y}) \in Int BY <1>3, <3>2, <3>4
    <3>6. QED BY <3>3, <3>5
  <2>2. QED BY <2>1
<1> HIDE DEF T
<1>4. Nat \subseteq T BY <1>2, <1>3, InductionOnNat
<1>5. QED BY <1>1, <1>4 DEF T, Sum

\* Whichever element is taken out, the sum is the same.
LEMMA SumTaken ==
  ASSUME NEW D, IsFiniteSet(D), NEW f \in [D -> Int]
  PROVE  \A S \in SUBSET D : \A x \in S :
           SumFunctionOnSet(f, S) = f[x] + SumFunctionOnSet(f, S \ {x})
<1> DEFINE Sum(s) == SumFunctionOnSet(f, s)
           Good(s) == \A x \in s : Sum(s) = f[x] + Sum(s \ {x})
           T == {m \in Nat : \A s \in SUBSET D : Cardinality(s) = m => Good(s)}
<1>1. ASSUME NEW s \in SUBSET D
      PROVE  IsFiniteSet(s) /\ Cardinality(s) \in Nat /\ (Cardinality(s) = 0 <=> s = {})
  BY FS_Subset, FS_CardinalityType, FS_EmptySet
<1>6. \A s \in SUBSET D : Sum(s) \in Int BY SumType
<1> HIDE DEF Sum
<1>2. 0 \in T
  <2>1. Good({}) OBVIOUS
  <2>2. QED BY <1>1, <2>1
<1>3. ASSUME NEW m \in Nat, m \in T PROVE m + 1 \in T
  <2>1. ASSUME NEW s \in SUBSET D, Cardinality(s) = m + 1 PROVE Good(s)
    <3> DEFINE y == CHOOSE x \in s : TRUE
    <3>1. IsFiniteSet(s) /\ s # {} BY <1>1, <2>1
    <3>2. y \in s BY <3>1
    <3>3. Sum(s) = f[y] + Sum(s \ {y}) BY <3>1, SumRecursion DEF Sum
    <3> HIDE DEF y
    <3>4. ASSUME NEW x \in s PROVE s \ {x} \in SUBSET D /\ Cardinality(s \ {x}) = m
      <4>1. Cardinality(s \ {x}) = Cardinality(s) - 1 BY <3>1, <3>4, FS_RemoveElement
      <4>2. QED BY <2>1, <4>1
    <3>5. \A x \in s : Good(s \ {x}) BY <1>3, <3>4
    <3>7. ASSUME NEW x \in s, x # y PROVE Sum(s) = f[x] + Sum(s \ {x})
      <4>1. Sum(s \ {y}) = f[x] + Sum((s \ {y}) \ {x})
        <5>1. x \in s \ {y} BY <3>7
        <5>2. QED BY <3>2, <3>5, <5>1
      <4>2. Sum(s \ {x}) = f[y] + Sum((s \ {x}) \ {y})
        <5>1. y \in s \ {x} BY <3>2, <3>7
        <5>2. QED BY <3>5, <5>1
      <4>3. (s \ {y}) \ {x} = (s \ {x}) \ {y} OBVIOUS
      <4>4. f[x] \in Int /\ f[y] \in Int BY <3>2
      <4>5. Sum((s \ {x}) \ {y}) \in Int /\ Sum(s \ {x}) \in Int BY <1>6
      <4> DEFINE u == Sum((s \ {x}) \ {y})
      <4>8. Sum(s \ {y}) = f[x] + u BY <4>1, <4>3
      <4>9. Sum(s \ {x}) = f[y] + u BY <4>2
      <4>10. u \in Int BY <4>5
      <4> HIDE DEF u
      <4>11. f[y] + (f[x] + u) = f[x] + (f[y] + u) BY <4>4, <4>10
      <4>12. QED BY <3>3, <4>8, <4>9, <4>11
    <3>8. QED BY <3>3, <3>7
  <2>2. QED BY <2>1
<1> HIDE DEF T
<1>4. Nat \subseteq T BY <1>2, <1>3, InductionOnNat
<1>5. QED BY <1>1, <1>4 DEF T, Sum

\* Induction over the subsets of a finite set, for a predicate that is given as a set.
LEMMA InductionOnSubsets ==
  ASSUME NEW D, IsFiniteSet(D), NEW T, {} \in T,
         \A s \in SUBSET D : \A x \in D \ s : s \in T => s \cup {x} \in T
  PROVE  SUBSET D \subseteq T
<1> DEFINE N == {m \in Nat : \A s \in SUBSET D : Cardinality(s) = m => s \in T}
<1>1. ASSUME NEW s \in SUBSET D
      PROVE  IsFiniteSet(s) /\ Cardinality(s) \in Nat /\ (Cardinality(s) = 0 <=> s = {})
  BY FS_Subset, FS_CardinalityType, FS_EmptySet
<1>2. 0 \in N BY <1>1
<1>3. ASSUME NEW m \in Nat, m \in N PROVE m + 1 \in N
  <2>1. ASSUME NEW s \in SUBSET D, Cardinality(s) = m + 1 PROVE s \in T
    <3>1. PICK x \in s : TRUE BY <1>1, <2>1
    <3>2. Cardinality(s \ {x}) = Cardinality(s) - 1 BY <1>1, <3>1, FS_RemoveElement
    <3>3. s \ {x} \in SUBSET D /\ Cardinality(s \ {x}) = m BY <2>1, <3>2
    <3>4. s \ {x} \in T /\ x \in D \ (s \ {x}) BY <1>3, <3>1, <3>3
    <3>5. (s \ {x}) \cup {x} \in T BY <3>3, <3>4
    <3>6. (s \ {x}) \cup {x} = s BY <3>1
    <3>7. QED BY <3>5, <3>6
  <2>2. QED BY <2>1
<1> HIDE DEF N
<1>4. Nat \subseteq N BY <1>2, <1>3, InductionOnNat
<1>5. QED BY <1>1, <1>4 DEF N

\* A sum without elements, and one with an element more.
LEMMA SumAdded ==
  ASSUME NEW D, IsFiniteSet(D), NEW f \in [D -> Int]
  PROVE  /\ SumFunctionOnSet(f, {}) = 0
         /\ \A s \in SUBSET D : \A x \in D \ s :
              SumFunctionOnSet(f, s \cup {x}) = SumFunctionOnSet(f, s) + f[x]
<1>1. SumFunctionOnSet(f, {}) = 0 BY SumRecursion, FS_EmptySet
<1>2. ASSUME NEW s \in SUBSET D, NEW x \in D \ s
      PROVE  SumFunctionOnSet(f, s \cup {x}) = SumFunctionOnSet(f, s) + f[x]
  <2> DEFINE u == s \cup {x}
  <2>1. u \in SUBSET D /\ x \in u /\ u \ {x} = s OBVIOUS
  <2> HIDE DEF u
  <2>2. SumFunctionOnSet(f, u) = f[x] + SumFunctionOnSet(f, u \ {x}) BY <2>1, SumTaken
  <2>3. SumFunctionOnSet(f, s) \in Int /\ f[x] \in Int BY SumType
  <2>4. SumFunctionOnSet(f, u \ {x}) = SumFunctionOnSet(f, s) BY <2>1
  <2>5. SumFunctionOnSet(f, u) = SumFunctionOnSet(f, s) + f[x] BY <2>2, <2>3, <2>4
  <2>6. QED BY <2>5 DEF u
<1>3. QED BY <1>1, <1>2

\* g is f, but for elements of A, to which d is added.
Added(D, f, d, A, g) ==
  /\ IsFiniteSet(D) /\ f \in [D -> Int] /\ g \in [D -> Int] /\ d \in [D -> Int] /\ A \subseteq D
  /\ \A x \in D : g[x] = f[x] + (IF x \in A THEN d[x] ELSE 0)

\* Then the sum of d over A is added to that of f.
LEMMA SumOfAdded ==
  ASSUME NEW D, NEW f, NEW d, NEW A, NEW g, Added(D, f, d, A, g)
  PROVE  /\ SumFunctionOnSet(g, D) = SumFunctionOnSet(f, D) + SumFunctionOnSet(d, A)
         /\ SumFunctionOnSet(f, D) \in Int /\ SumFunctionOnSet(d, A) \in Int
<1> DEFINE Sum(h, s) == SumFunctionOnSet(h, s)
           T == {s \in SUBSET D : Sum(g, s) = Sum(f, s) + Sum(d, s \cap A)}
<1>1. /\ IsFiniteSet(D) /\ f \in [D -> Int] /\ g \in [D -> Int] /\ d \in [D -> Int] /\ A \subseteq D
      /\ \A x \in D : g[x] = f[x] + (IF x \in A THEN d[x] ELSE 0)
  BY DEF Added
<1>2. ASSUME NEW h \in [D -> Int]
      PROVE  /\ Sum(h, {}) = 0 /\ \A s \in SUBSET D : Sum(h, s) \in Int
             /\ \A s \in SUBSET D : \A x \in D \ s : Sum(h, s \cup {x}) = Sum(h, s) + h[x]
  BY <1>1, SumType, SumAdded
<1> HIDE DEF Sum
<1>3. {} \in T
  <2>1. {} \cap A = {} OBVIOUS
  <2>2. Sum(g, {}) = 0 /\ Sum(f, {}) = 0 /\ Sum(d, {}) = 0 BY <1>1, <1>2
  <2>3. QED BY <2>1, <2>2
<1>4. ASSUME NEW s \in SUBSET D, NEW x \in D \ s, s \in T PROVE s \cup {x} \in T
  <2>1. Sum(g, s \cup {x}) = Sum(g, s) + g[x] BY <1>1, <1>2
  <2>2. Sum(f, s \cup {x}) = Sum(f, s) + f[x] BY <1>1, <1>2
  <2>3. Sum(d, (s \cup {x}) \cap A) = Sum(d, s \cap A) + (IF x \in A THEN d[x] ELSE 0)
    <3>1. CASE x \in A
      <4>1. (s \cup {x}) \cap A = (s \cap A) \cup {x} BY <3>1
      <4>2. s \cap A \in SUBSET D /\ x \in D \ (s \cap A) OBVIOUS
      <4>3. Sum(d, (s \cap A) \cup {x}) = Sum(d, s \cap A) + d[x] BY <1>1, <1>2, <4>2
      <4>4. QED BY <3>1, <4>1, <4>3
    <3>2. CASE x \notin A
      <4>1. (s \cup {x}) \cap A = s \cap A BY <3>2
      <4>2. Sum(d, s \cap A) \in Int BY <1>1, <1>2
      <4>3. Sum(d, (s \cup {x}) \cap A) = Sum(d, s \cap A) BY <4>1
      <4>4. QED BY <3>2, <4>2, <4>3
    <3>3. QED BY <3>1, <3>2
  <2>4. Sum(g, s) = Sum(f, s) + Sum(d, s \cap A) BY <1>4
  <2>5. g[x] = f[x] + (IF x \in A THEN d[x] ELSE 0) BY <1>1
  <2>6. /\ Sum(f, s) \in Int /\ Sum(d, s \cap A) \in Int /\ f[x] \in Int /\ d[x] \in Int
    BY <1>1, <1>2
  <2>7. Sum(g, s \cup {x}) = Sum(f, s \cup {x}) + Sum(d, (s \cup {x}) \cap A)
    BY <2>1, <2>2, <2>3, <2>4, <2>5, <2>6
  <2>8. QED BY <2>7
<1>5. SUBSET D \subseteq T
  <2> HIDE DEF T
  <2>1. \A s \in SUBSET D : \A x \in D \ s : s \in T => s \cup {x} \in T BY <1>4
  <2>2. QED BY <1>1, <1>3, <2>1, InductionOnSubsets
<1>6. D \in T /\ D \cap A = A BY <1>1, <1>5
<1>7. QED BY <1>1, <1>2, <1>6 DEF Sum

\* Ones add up to the number of elements.
LEMMA SumOfOnes ==
  ASSUME NEW D, IsFiniteSet(D), NEW A \in SUBSET D
  PROVE  SumFunctionOnSet([x \in D |-> 1], A) = Cardinality(A)
<1> DEFINE ones == [x \in D |-> 1]
           T == {s \in SUBSET D : SumFunctionOnSet(ones, s) = Cardinality(s)}
<1>1. ones \in [D -> Int] /\ \A x \in D : ones[x] = 1 OBVIOUS
<1> HIDE DEF ones
<1>2. {} \in T BY <1>1, SumAdded, FS_EmptySet
<1>3. ASSUME NEW s \in SUBSET D, NEW x \in D \ s, s \in T PROVE s \cup {x} \in T
  <2>1. SumFunctionOnSet(ones, s \cup {x}) = SumFunctionOnSet(ones, s) + 1 BY <1>1, SumAdded
  <2>2. IsFiniteSet(s) BY FS_Subset
  <2>3. Cardinality(s \cup {x}) = Cardinality(s) + 1 BY <2>2, FS_AddElement
  <2>4. QED BY <1>3, <2>1, <2>3
<1> HIDE DEF T
<1>4. \A s \in SUBSET D : \A x \in D \ s : s \in T => s \cup {x} \in T BY <1>3
<1>5. SUBSET D \subseteq T BY <1>2, <1>4, InductionOnSubsets
<1>6. QED BY <1>5 DEF T, ones

\* Sets with at most one element.
LEMMA OneElement ==
  ASSUME NEW S, NEW x, S \subseteq {x}
  PROVE  Cardinality(S) = IF x \in S THEN 1 ELSE 0
<1>1. CASE x \in S
  <2>1. S = {x} BY <1>1
  <2>2. QED BY <1>1, <2>1, FS_Singleton
<1>2. CASE x \notin S
  <2>1. S = {} BY <1>2
  <2>2. QED BY <1>2, <2>1, FS_EmptySet
<1>3. QED BY <1>1, <1>2

-----------------------------------------------------------------------------
\* The elements of S that a relation puts before x.
Below(S, Before, x) == {y \in S : <<y, x>> \in Before}

IsStrictOrder(S, Before) ==
  /\ Before \subseteq S \X S
  /\ \A x \in S : <<x, x>> \notin Before
  /\ \A x, y, z \in S : <<x, y>> \in Before /\ <<y, z>> \in Before => <<x, z>> \in Before
  /\ \A x, y \in S : x = y \/ <<x, y>> \in Before \/ <<y, x>> \in Before

\* In a finite total order every place from the first to the last is taken.
LEMMA EveryRankTaken ==
  ASSUME NEW S, IsFiniteSet(S), NEW Before, IsStrictOrder(S, Before),
         NEW n \in 1 .. Cardinality(S)
  PROVE  \E x \in S : Cardinality(Below(S, Before, x)) = n - 1
<1> DEFINE below(x) == {y \in S : <<y, x>> \in Before}
           c == Cardinality(S)
           rank == [x \in S |-> Cardinality(below(x))]
<1>1. c \in Nat BY FS_CardinalityType
<1>2. ASSUME NEW x \in S PROVE IsFiniteSet(below(x)) /\ Cardinality(below(x)) \in 0 .. c - 1
  <2>1. below(x) \in SUBSET S /\ below(x) # S BY DEF IsStrictOrder
  <2>2. IsFiniteSet(below(x)) /\ Cardinality(below(x)) <= c /\ Cardinality(below(x)) # c
    BY <2>1, FS_Subset
  <2>3. Cardinality(below(x)) \in Nat BY <2>2, FS_CardinalityType
  <2>4. QED BY <1>1, <2>2, <2>3
<1>3. ASSUME NEW x \in S, NEW y \in S, <<x, y>> \in Before PROVE rank[x] # rank[y]
  <2>1. below(x) \in SUBSET below(y) /\ x \in below(y) /\ x \notin below(x)
    BY <1>3 DEF IsStrictOrder
  <2>2. Cardinality(below(x)) # Cardinality(below(y)) BY <1>2, <2>1, FS_Subset
  <2>3. QED BY <2>2
<1>4. rank \in [S -> 0 .. c - 1] BY <1>2
<1>5. \A x, y \in S : rank[x] = rank[y] => x = y BY <1>3 DEF IsStrictOrder
<1> HIDE DEF rank
<1>6. rank \in Injection(S, 0 .. c - 1) BY <1>4, <1>5 DEF Injection, IsInjective
<1>7. IsFiniteSet(0 .. c - 1) /\ Cardinality(0 .. c - 1) = c
  <2> HIDE DEF c
  <2>1. 0 \in Int /\ c - 1 \in Int /\ (IF 0 > c - 1 THEN 0 ELSE (c - 1) - 0 + 1) = c BY <1>1
  <2>2. QED BY <2>1, FS_Interval
<1>8. rank \in Surjection(S, 0 .. c - 1) BY <1>6, <1>7, FS_Injection
<1>9. n - 1 \in 0 .. c - 1 BY <1>1
<1>10. PICK x \in S : rank[x] = n - 1 BY <1>8, <1>9 DEF Surjection
<1>11. QED BY <1>10 DEF rank, Below

-----------------------------------------------------------------------------
\* The greatest and the least of some numbers.
LEMMA MaxIs ==
  ASSUME NEW S \in SUBSET Nat, NEW b \in Nat, S # {}, \A x \in S : x <= b
  PROVE  Max(S) \in S /\ Max(S) \in Nat /\ \A x \in S : x <= Max(S)
<1> DEFINE T == {n \in Nat : b - n \in S}
<1>1. T # {}
  <2>1. PICK x \in S : TRUE OBVIOUS
  <2>2. x \in Nat /\ x <= b BY <2>1
  <2>3. b - x \in Nat /\ b - (b - x) = x BY <2>2
  <2>4. QED BY <2>3
<1>2. PICK n \in T : \A m \in T : n <= m BY <1>1, LeastNat
<1>3. b - n \in S /\ n \in Nat BY <1>2
<1>4. ASSUME NEW x \in S PROVE x <= b - n
  <2>1. x \in Nat /\ x <= b OBVIOUS
  <2>2. b - x \in Nat /\ b - (b - x) = x BY <2>1
  <2>3. b - x \in T BY <2>2
  <2>4. n <= b - x BY <1>2, <2>3
  <2>5. QED BY <1>3, <2>1, <2>4
<1> DEFINE max == b - n
<1>5. max \in S /\ max \in Nat /\ \A x \in S : max >= x BY <1>3, <1>4
<1> HIDE DEF max
<1>6. Max(S) \in S /\ \A x \in S : Max(S) >= x BY <1>5 DEF Max
<1>7. QED BY <1>6

LEMMA MinOfTwo ==
  ASSUME NEW m \in Int, NEW n \in Int
  PROVE  Min({m, n}) = IF m <= n THEN m ELSE n
<1> DEFINE min == IF m <= n THEN m ELSE n
<1>1. min \in {m, n} /\ \A y \in {m, n} : min <= y OBVIOUS
<1>2. \A x \in {m, n} : (\A y \in {m, n} : x <= y) => x = min OBVIOUS
<1> HIDE DEF min
<1>3. Min({m, n}) = min BY <1>1, <1>2 DEF Min
<1>4. QED BY <1>3 DEF min

-----------------------------------------------------------------------------
\* Only the values at the elements count.
LEMMA SumSame ==
  ASSUME NEW S, IsFiniteSet(S), NEW f, NEW g, \A x \in S : f[x] = g[x]
  PROVE  SumFunctionOnSet(f, S) = SumFunctionOnSet(g, S)
<1> DEFINE Sum(h, s) == SumFunctionOnSet(h, s)
           T == {m \in Nat : \A s \in SUBSET S : Cardinality(s) = m => Sum(f, s) = Sum(g, s)}
<1>1. ASSUME NEW s \in SUBSET S
      PROVE  IsFiniteSet(s) /\ Cardinality(s) \in Nat /\ (Cardinality(s) = 0 <=> s = {})
  BY FS_Subset, FS_CardinalityType, FS_EmptySet
<1> HIDE DEF Sum
<1>2. 0 \in T
  <2>1. Sum(f, {}) = Sum(g, {}) BY SumRecursion, FS_EmptySet DEF Sum
  <2>2. QED BY <1>1, <2>1
<1>3. ASSUME NEW m \in Nat, m \in T PROVE m + 1 \in T
  <2>1. ASSUME NEW s \in SUBSET S, Cardinality(s) = m + 1 PROVE Sum(f, s) = Sum(g, s)
    <3> DEFINE y == CHOOSE x \in s : TRUE
    <3>1. IsFiniteSet(s) /\ s # {} BY <1>1, <2>1
    <3>2. y \in s BY <3>1
    <3>3. Sum(f, s) = f[y] + Sum(f, s \ {y}) /\ Sum(g, s) = g[y] + Sum(g, s \ {y})
      BY <3>1, SumRecursion DEF Sum
    <3> HIDE DEF y
    <3>4. Cardinality(s \ {y}) = Cardinality(s) - 1 BY <3>1, <3>2, FS_RemoveElement
    <3>5. s \ {y} \in SUBSET S /\ Cardinality(s \ {y}) = m BY <2>1, <3>4
    <3>6. Sum(f, s \ {y}) = Sum(g, s \ {y}) BY <1>3, <3>5
    <3>7. f[y] = g[y] BY <3>2
    <3>8. QED BY <3>3, <3>6, <3>7
  <2>2. QED BY <2>1
<1> HIDE DEF T
<1>4. Nat \subseteq T BY <1>2, <1>3, InductionOnNat
<1>5. QED BY <1>1, <1>4 DEF T, Sum

\* A sum of natural numbers grows with the set.
LEMMA SumGrows ==
  ASSUME NEW D, IsFiniteSet(D), NEW f \in [D -> Nat]
  PROVE  /\ \A s \in SUBSET D : SumFunctionOnSet(f, s) \in Nat
         /\ \A s, t \in SUBSET D : s \subseteq t => SumFunctionOnSet(f, s) <= SumFunctionOnSet(f, t)
<1> DEFINE Sum(s) == SumFunctionOnSet(f, s)
           N == {s \in SUBSET D : Sum(s) \in Nat}
           G(s) == {u \in SUBSET D : Sum(s) <= Sum(s \cup u)}
<1>1. f \in [D -> Int] OBVIOUS
<1>2. /\ \A s \in SUBSET D : Sum(s) \in Int
      /\ Sum({}) = 0 /\ \A s \in SUBSET D : \A x \in D \ s : Sum(s \cup {x}) = Sum(s) + f[x]
  BY <1>1, SumType, SumAdded
<1> HIDE DEF Sum
<1>3. SUBSET D \subseteq N
  <2>1. {} \in N BY <1>2
  <2>2. \A s \in SUBSET D : \A x \in D \ s : s \in N => s \cup {x} \in N
    <3> SUFFICES ASSUME NEW s \in SUBSET D, NEW x \in D \ s, s \in N PROVE s \cup {x} \in N
      OBVIOUS
    <3>1. Sum(s) \in Nat /\ f[x] \in Nat OBVIOUS
    <3>2. Sum(s \cup {x}) = Sum(s) + f[x] BY <1>2
    <3>3. Sum(s \cup {x}) \in Nat BY <3>1, <3>2
    <3>4. QED BY <3>3
  <2> HIDE DEF N
  <2>3. QED BY <2>1, <2>2, InductionOnSubsets
<1>4. ASSUME NEW s \in SUBSET D PROVE SUBSET D \subseteq G(s)
  <2>1. {} \in G(s)
    <3>1. s \cup {} = s /\ Sum(s) \in Int BY <1>2
    <3>2. QED BY <3>1
  <2>2. \A u \in SUBSET D : \A x \in D \ u : u \in G(s) => u \cup {x} \in G(s)
    <3> SUFFICES ASSUME NEW u \in SUBSET D, NEW x \in D \ u, u \in G(s) PROVE u \cup {x} \in G(s)
      OBVIOUS
    <3>1. Sum(s) <= Sum(s \cup u) OBVIOUS
    <3>2. CASE x \in s
      <4>1. s \cup (u \cup {x}) = s \cup u BY <3>2
      <4>2. QED BY <3>1, <4>1
    <3>3. CASE x \notin s
      <4> DEFINE v == s \cup u
      <4>1. s \cup (u \cup {x}) = v \cup {x} /\ v \in SUBSET D /\ x \in D \ v BY <3>3
      <4>2. Sum(s) <= Sum(v) /\ Sum(s) \in Int /\ Sum(v) \in Int BY <1>2, <3>1
      <4> HIDE DEF v
      <4>3. Sum(v \cup {x}) = Sum(v) + f[x] /\ f[x] \in Nat BY <1>2, <4>1
      <4>4. Sum(s) <= Sum(v \cup {x}) BY <4>2, <4>3
      <4>5. QED BY <4>1, <4>4
    <3>4. QED BY <3>2, <3>3
  <2> HIDE DEF G
  <2>3. QED BY <2>1, <2>2, InductionOnSubsets
<1>5. ASSUME NEW s \in SUBSET D, NEW t \in SUBSET D, s \subseteq t PROVE Sum(s) <= Sum(t)
  <2>1. s \cup t = t BY <1>5
  <2>2. t \in G(s) BY <1>4
  <2>3. QED BY <2>1, <2>2
<1>6. QED BY <1>3, <1>5 DEF Sum

\* Disjoint parts of a finite set, and how many elements each has.
AreParts(D, U, part, size) ==
  /\ IsFiniteSet(D) /\ IsFiniteSet(U) /\ part \in [D -> SUBSET U]
  /\ \A x, y \in D : x # y => part[x] \cap part[y] = {}
  /\ size \in [D -> Int] /\ \A x \in D : size[x] = Cardinality(part[x])

\* Together they have the sum of that.
LEMMA SumOfParts ==
  ASSUME NEW D, NEW U, NEW part, NEW size, AreParts(D, U, part, size)
  PROVE  \A S \in SUBSET D :
           SumFunctionOnSet(size, S) = Cardinality(UNION {part[x] : x \in S})
<1> DEFINE Sum(s) == SumFunctionOnSet(size, s)
           All(s) == UNION {part[x] : x \in s}
           T == {s \in SUBSET D : Sum(s) = Cardinality(All(s))}
<1>1. /\ IsFiniteSet(D) /\ IsFiniteSet(U) /\ part \in [D -> SUBSET U]
      /\ \A x, y \in D : x # y => part[x] \cap part[y] = {}
      /\ size \in [D -> Int] /\ \A x \in D : size[x] = Cardinality(part[x])
  BY DEF AreParts
<1>2. Sum({}) = 0 /\ \A s \in SUBSET D : \A x \in D \ s : Sum(s \cup {x}) = Sum(s) + size[x]
  BY <1>1, SumAdded
<1> HIDE DEF Sum
<1>3. {} \in T
  <2>1. All({}) = {} OBVIOUS
  <2>2. QED BY <1>2, <2>1, FS_EmptySet
<1>4. ASSUME NEW s \in SUBSET D, NEW x \in D \ s, s \in T PROVE s \cup {x} \in T
  <2> DEFINE a == All(s)  b == part[x]
  <2>1. All(s \cup {x}) = a \cup b OBVIOUS
  <2>2. a \in SUBSET U /\ b \in SUBSET U BY <1>1
  <2>3. a \cap b = {} BY <1>1
  <2>4. Sum(s) = Cardinality(a) /\ size[x] = Cardinality(b) BY <1>1, <1>4
  <2> HIDE DEF a, b, All
  <2>5. IsFiniteSet(a) /\ IsFiniteSet(b) BY <1>1, <2>2, FS_Subset
  <2>6. Cardinality(a) \in Nat /\ Cardinality(b) \in Nat BY <2>5, FS_CardinalityType
  <2>7. Cardinality(a \cap b) = 0 BY <2>3, FS_EmptySet
  <2>8. Cardinality(a \cup b) = Cardinality(a) + Cardinality(b) - Cardinality(a \cap b)
    BY <2>5, FS_Union
  <2>9. Cardinality(a \cup b) = Cardinality(a) + Cardinality(b) BY <2>6, <2>7, <2>8
  <2>10. Sum(s \cup {x}) = Sum(s) + size[x] BY <1>2
  <2>11. Sum(s \cup {x}) = Cardinality(All(s \cup {x})) BY <2>1, <2>4, <2>9, <2>10
  <2>12. QED BY <2>11
<1> HIDE DEF T
<1>5. \A s \in SUBSET D : \A x \in D \ s : s \in T => s \cup {x} \in T BY <1>4
<1>6. SUBSET D \subseteq T BY <1>1, <1>3, <1>5, InductionOnSubsets
<1>7. QED BY <1>6 DEF T, Sum

\* Disjoint sets: together they have as many elements.
LEMMA DisjointUnion ==
  ASSUME NEW S, NEW T, IsFiniteSet(S), IsFiniteSet(T), S \cap T = {}
  PROVE  IsFiniteSet(S \cup T) /\ Cardinality(S \cup T) = Cardinality(S) + Cardinality(T)
<1>1. /\ IsFiniteSet(S \cup T)
      /\ Cardinality(S \cup T) = Cardinality(S) + Cardinality(T) - Cardinality(S \cap T)
  BY FS_Union
<1>2. Cardinality(S \cap T) = 0 BY FS_EmptySet
<1>3. Cardinality(S) \in Nat /\ Cardinality(T) \in Nat BY FS_CardinalityType
<1>4. QED BY <1>1, <1>2, <1>3

\* A sum of ones and zeros counts the ones.
LEMMA SumOfBits ==
  ASSUME NEW D, IsFiniteSet(D), NEW f \in [D -> 0 .. 1]
  PROVE  SumFunctionOnSet(f, D) = Cardinality({x \in D : f[x] = 1})
<1> DEFINE part == [x \in D |-> IF f[x] = 1 THEN {x} ELSE {}]
<1>1. part \in [D -> SUBSET D] /\ \A x \in D : part[x] = IF f[x] = 1 THEN {x} ELSE {} OBVIOUS
<1>2. UNION {part[x] : x \in D} = {x \in D : f[x] = 1} OBVIOUS
<1> HIDE DEF part
<1>3. \A x, y \in D : x # y => part[x] \cap part[y] = {} BY <1>1
<1>4. f \in [D -> Int] /\ \A x \in D : f[x] = 0 \/ f[x] = 1 OBVIOUS
<1>5. \A x \in D : f[x] = Cardinality(part[x]) BY <1>1, <1>4, FS_EmptySet, FS_Singleton
<1>6. AreParts(D, D, part, f) BY <1>1, <1>3, <1>4, <1>5 DEF AreParts
<1>7. SumFunctionOnSet(f, D) = Cardinality(UNION {part[x] : x \in D}) BY <1>6, SumOfParts
<1>8. QED BY <1>2, <1>7

=============================================================================
