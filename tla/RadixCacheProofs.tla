--------------------------- MODULE RadixCacheProofs ---------------------------
(***************************************************************************)
(* The radix cache and its scheduler: what the tree, its locks, the KV     *)
(* slots and the requests have to do with each other.                      *)
(***************************************************************************)
EXTENDS RadixCache, CollectionLemmas

(***************************************************************************)
(* Prefixes.                                                               *)
(***************************************************************************)
LEMMA TakeIs ==
  ASSUME NEW s \in Path, NEW n \in 0 .. Len(s)
  PROVE  /\ Take(s, n) \in Path /\ Len(Take(s, n)) = n
         /\ \A i \in 1 .. n : Take(s, n)[i] = s[i]
         /\ IsPrefix(Take(s, n), s)
         /\ \A m \in 0 .. n : Take(Take(s, n), m) = Take(s, m)
         /\ n = 0 => Take(s, n) = <<>>
         /\ n = Len(s) => Take(s, n) = s
<1>1. Take(s, n) \in Seq(Vocabulary) /\ Len(Take(s, n)) = n /\ \A i \in 1 .. n : Take(s, n)[i] = s[i]
  BY DEF Path, Take
<1>2. ASSUME NEW m \in 0 .. n PROVE Take(Take(s, n), m) = Take(s, m)
  BY <1>1 DEF Path, Take
<1>3. IsPrefix(Take(s, n), s)
  <2>1. Take(Take(s, n), n) = Take(s, n) BY <1>1, <1>2
  <2>2. QED BY <1>1, <2>1 DEF IsPrefix, Path, Take
<1>4. n = 0 => Take(s, n) = <<>> BY <1>1
<1>5. n = Len(s) => Take(s, n) = s BY DEF Path, Take
<1>6. QED BY <1>1, <1>2, <1>3, <1>4, <1>5 DEF Path

LEMMA PrefixIs ==
  ASSUME NEW s \in Path, NEW t \in Path
  PROVE  IsPrefix(s, t) <=> Len(s) \in 0 .. Len(t) /\ s = Take(t, Len(s))
<1>1. Len(s) \in Nat /\ Len(t) \in Nat /\ SubSeq(s, 1, Len(s)) = s BY DEF Path
<1>2. Len(s) <= Len(t) <=> Len(s) \in 0 .. Len(t) BY <1>1
<1>3. QED BY <1>1, <1>2 DEF IsPrefix, Take

\* A partial order, in which the prefixes of a path are a chain.
LEMMA PrefixOrder ==
  ASSUME NEW s \in Path, NEW t \in Path, NEW u \in Path
  PROVE  /\ IsPrefix(s, s)
         /\ IsPrefix(s, t) /\ IsPrefix(t, s) => s = t
         /\ IsPrefix(s, t) /\ IsPrefix(t, u) => IsPrefix(s, u)
         /\ IsPrefix(s, u) /\ IsPrefix(t, u) /\ Len(s) <= Len(t) => IsPrefix(s, t)
         /\ IsPrefix(s, t) => Len(s) <= Len(t)
         /\ IsPrefix(s, t) /\ Len(t) <= Len(s) => s = t
         /\ IsPrefix(<<>>, s) /\ (IsPrefix(s, <<>>) => s = <<>>)
<1>1. Len(s) \in Nat /\ Len(t) \in Nat /\ Len(u) \in Nat BY DEF Path
<1>2. IsPrefix(s, s) /\ Take(s, Len(s)) = s
  <2>1. Take(s, Len(s)) = s BY <1>1, TakeIs
  <2>2. QED BY <1>1, <2>1, PrefixIs
<1>3. ASSUME IsPrefix(s, t) PROVE Len(s) \in 0 .. Len(t) /\ s = Take(t, Len(s))
  BY <1>3, PrefixIs
<1>4. Take(t, Len(t)) = t BY <1>1, TakeIs
<1>5. ASSUME IsPrefix(s, t), Len(t) <= Len(s) PROVE s = t
  <2>1. Len(s) = Len(t) BY <1>1, <1>3, <1>5
  <2>2. QED BY <1>3, <1>4, <1>5, <2>1
<1>6. ASSUME IsPrefix(s, t), IsPrefix(t, s) PROVE s = t
  <2>1. Len(t) <= Len(s) BY <1>1, <1>6, PrefixIs
  <2>2. QED BY <1>5, <1>6, <2>1
<1>7. ASSUME IsPrefix(s, t), IsPrefix(t, u) PROVE IsPrefix(s, u)
  <2>1. Len(t) \in 0 .. Len(u) /\ t = Take(u, Len(t)) BY <1>7, PrefixIs
  <2>2. Len(s) \in 0 .. Len(t) /\ s = Take(t, Len(s)) BY <1>3, <1>7
  <2>3. Take(Take(u, Len(t)), Len(s)) = Take(u, Len(s)) BY <2>1, <2>2, TakeIs
  <2>4. s = Take(u, Len(s)) BY <2>1, <2>2, <2>3
  <2>5. Len(s) \in 0 .. Len(u) BY <1>1, <2>1, <2>2
  <2>6. QED BY <2>4, <2>5, PrefixIs
<1>8. ASSUME IsPrefix(s, u), IsPrefix(t, u), Len(s) <= Len(t) PROVE IsPrefix(s, t)
  <2>1. Len(t) \in 0 .. Len(u) /\ t = Take(u, Len(t)) BY <1>8, PrefixIs
  <2>2. Len(s) \in 0 .. Len(u) /\ s = Take(u, Len(s)) BY <1>8, PrefixIs
  <2>3. Len(s) \in 0 .. Len(t) BY <1>1, <1>8
  <2>4. Take(Take(u, Len(t)), Len(s)) = Take(u, Len(s)) BY <2>1, <2>3, TakeIs
  <2>5. s = Take(t, Len(s)) BY <2>1, <2>2, <2>4
  <2>6. QED BY <2>3, <2>5, PrefixIs
<1>9. <<>> \in Path /\ Len(<<>>) = 0 BY DEF Path
<1>10. IsPrefix(<<>>, s)
  <2>1. Take(s, 0) = <<>> BY <1>1, TakeIs
  <2>2. QED BY <1>1, <1>9, <2>1, PrefixIs
<1>11. ASSUME IsPrefix(s, <<>>) PROVE s = <<>>
  <2>1. Len(s) = 0 BY <1>1, <1>9, <1>11, PrefixIs
  <2>2. QED BY <2>1 DEF Path
<1>12. QED BY <1>2, <1>3, <1>5, <1>6, <1>7, <1>8, <1>10, <1>11

-----------------------------------------------------------------------------
(***************************************************************************)
(* The tree.  Below a path of it lies one node above all others there.     *)
(***************************************************************************)
IsTop(t, p, e) == IsPrefix(p, e) /\ \A d \in Nodes(t) : IsPrefix(p, d) => IsPrefix(e, d)

Shape(t) ==
  /\ t = [slots |-> t.slots, lock |-> t.lock, evictable |-> t.evictable]
  /\ DOMAIN t.slots \subseteq Path \ {<<>>} /\ IsFiniteSet(DOMAIN t.slots)
  /\ t.slots \in [DOMAIN t.slots -> Slots]
  /\ Nodes(t) \subseteq DOMAIN t.slots /\ t.lock \in [Nodes(t) -> Int] /\ t.evictable \in Int
  /\ \A p \in DOMAIN t.slots : \A i \in 1 .. Len(p) : Take(p, i) \in DOMAIN t.slots
  /\ \A p \in DOMAIN t.slots : \E e \in Nodes(t) : IsTop(t, p, e)

Top(t, p) == CHOOSE e \in Nodes(t) : IsTop(t, p, e)

\* The paths whose tokens are on the edges above the nodes es.
OnEdges(t, es) == {p \in DOMAIN t.slots : Top(t, p) \in es}

LEMMA TopIs ==
  ASSUME NEW t, Shape(t), NEW p \in DOMAIN t.slots
  PROVE  /\ p \in Path \ {<<>>}
         /\ Top(t, p) \in Nodes(t) /\ Top(t, p) \in Path \ {<<>>} /\ IsPrefix(p, Top(t, p))
         /\ \A d \in Nodes(t) : IsPrefix(p, d) <=> IsPrefix(Top(t, p), d)
         /\ \A e \in Nodes(t) : IsTop(t, p, e) => e = Top(t, p)
<1>1. DOMAIN t.slots \subseteq Path \ {<<>>} /\ Nodes(t) \subseteq DOMAIN t.slots BY DEF Shape
<1>2. \E e \in Nodes(t) : IsTop(t, p, e) BY DEF Shape
<1> DEFINE e == Top(t, p)
<1>3. e \in Nodes(t) /\ IsTop(t, p, e) BY <1>2 DEF Top
<1> HIDE DEF e
<1>4. p \in Path /\ e \in Path /\ IsPrefix(p, e) BY <1>1, <1>3 DEF IsTop
<1>5. ASSUME NEW d \in Nodes(t) PROVE IsPrefix(p, d) <=> IsPrefix(e, d)
  <2>1. d \in Path BY <1>1
  <2>2. IsPrefix(p, d) => IsPrefix(e, d) BY <1>3 DEF IsTop
  <2>3. IsPrefix(e, d) => IsPrefix(p, d) BY <1>4, <2>1, PrefixOrder
  <2>4. QED BY <2>2, <2>3
<1>6. ASSUME NEW d \in Nodes(t), IsTop(t, p, d) PROVE d = e
  <2>1. d \in Path /\ IsPrefix(p, d) BY <1>1, <1>6 DEF IsTop
  <2>2. IsPrefix(e, d) /\ IsPrefix(d, e) BY <1>3, <1>4, <1>6, <2>1 DEF IsTop
  <2>3. QED BY <1>4, <2>1, <2>2, PrefixOrder
<1>7. QED BY <1>1, <1>3, <1>4, <1>5, <1>6 DEF e

\* The prefixes of a path that are longer than m.
Longer(p, m) == {Take(p, i) : i \in m + 1 .. Len(p)}

LEMMA LongerIs ==
  ASSUME NEW p \in Path, NEW m \in 0 .. Len(p)
  PROVE  /\ IsFiniteSet(Longer(p, m)) /\ Cardinality(Longer(p, m)) = Len(p) - m
         /\ Longer(p, m) \subseteq Path \ {<<>>}
         /\ \A q \in Path : q \in Longer(p, m) <=> IsPrefix(q, p) /\ m < Len(q)
         /\ \A i \in m + 1 .. Len(p) : Len(Take(p, i)) = i /\ Take(p, i) \in Longer(p, m)
<1>1. Len(p) \in Nat /\ m \in Nat /\ m <= Len(p) BY DEF Path
<1> DEFINE I == m + 1 .. Len(p)
           f == [i \in I |-> Take(p, i)]
<1>2. \A i \in I : Take(p, i) \in Path /\ Len(Take(p, i)) = i /\ IsPrefix(Take(p, i), p)
  <2> SUFFICES ASSUME NEW i \in I
               PROVE  Take(p, i) \in Path /\ Len(Take(p, i)) = i /\ IsPrefix(Take(p, i), p)
    OBVIOUS
  <2>1. i \in 0 .. Len(p) BY <1>1
  <2>2. QED BY <2>1, TakeIs
<1>3. IsFiniteSet(I) /\ Cardinality(I) = Len(p) - m
  <2>1. m + 1 \in Int /\ Len(p) \in Int BY <1>1
  <2>2. (IF m + 1 > Len(p) THEN 0 ELSE Len(p) - (m + 1) + 1) = Len(p) - m BY <1>1
  <2>3. QED BY <2>1, <2>2, FS_Interval
<1>4. f \in Bijection(I, Longer(p, m))
  <2>1. f \in [I -> Longer(p, m)] BY DEF Longer
  <2>2. \A i, j \in I : f[i] = f[j] => i = j BY <1>2
  <2>3. \A q \in Longer(p, m) : \E i \in I : f[i] = q BY DEF Longer
  <2>4. QED BY <2>1, <2>2, <2>3 DEF Bijection, Injection, Surjection, IsInjective
<1>5. IsFiniteSet(Longer(p, m)) /\ Cardinality(Longer(p, m)) = Len(p) - m
  <2>1. ExistsBijection(I, Longer(p, m)) BY <1>4 DEF ExistsBijection
  <2>2. QED BY <1>3, <2>1, FS_Bijection
<1>6. Longer(p, m) \subseteq Path \ {<<>>}
  <2>1. \A i \in I : Take(p, i) # <<>> BY <1>1, <1>2
  <2>2. QED BY <1>2, <2>1 DEF Longer
<1>7. ASSUME NEW q \in Path PROVE q \in Longer(p, m) <=> IsPrefix(q, p) /\ m < Len(q)
  <2>1. ASSUME q \in Longer(p, m) PROVE IsPrefix(q, p) /\ m < Len(q)
    <3>1. PICK i \in I : q = Take(p, i) BY <2>1 DEF Longer
    <3>2. IsPrefix(q, p) /\ Len(q) = i BY <1>2, <3>1
    <3>3. QED BY <1>1, <3>1, <3>2
  <2>2. ASSUME IsPrefix(q, p), m < Len(q) PROVE q \in Longer(p, m)
    <3>1. Len(q) \in 0 .. Len(p) /\ q = Take(p, Len(q)) BY <2>2, PrefixIs
    <3>2. Len(q) \in I BY <1>1, <2>2, <3>1
    <3>3. QED BY <3>1, <3>2 DEF Longer
  <2>3. QED BY <2>1, <2>2
<1>8. \A i \in I : Len(Take(p, i)) = i /\ Take(p, i) \in Longer(p, m) BY <1>2 DEF Longer
<1>9. QED BY <1>5, <1>6, <1>7, <1>8

\* What is on the edge above a node.
LEMMA EdgeIs ==
  ASSUME NEW t, Shape(t), NEW e \in Nodes(t)
  PROVE  /\ Edge(t, e) \in 1 .. Len(e)
         /\ OnEdges(t, {e}) = Longer(e, Len(e) - Edge(t, e))
         /\ IsFiniteSet(OnEdges(t, {e})) /\ Cardinality(OnEdges(t, {e})) = Edge(t, e)
<1>1. /\ DOMAIN t.slots \subseteq Path \ {<<>>} /\ Nodes(t) \subseteq DOMAIN t.slots
      /\ \A p \in DOMAIN t.slots : \A i \in 1 .. Len(p) : Take(p, i) \in DOMAIN t.slots
  BY DEF Shape
<1>2. e \in Path /\ e # <<>> /\ e \in DOMAIN t.slots BY <1>1
<1>3. Len(e) \in Nat /\ Len(e) > 0 BY <1>2 DEF Path
<1> DEFINE lens == {0} \cup {Len(d) : d \in Up(t, e) \ {e}}
           m == Max(lens)
<1>4. \A d \in Up(t, e) : d \in Nodes(t) /\ d \in Path /\ IsPrefix(d, e) BY <1>1 DEF Up
<1>5. \A d \in Up(t, e) \ {e} : Len(d) \in Nat /\ Len(d) < Len(e)
  <2> SUFFICES ASSUME NEW d \in Up(t, e) \ {e} PROVE Len(d) \in Nat /\ Len(d) < Len(e) OBVIOUS
  <2>1. d \in Path /\ IsPrefix(d, e) BY <1>4
  <2>2. Len(d) \in Nat BY <2>1 DEF Path
  <2>3. ~(Len(e) <= Len(d)) BY <1>2, <2>1, PrefixOrder
  <2>4. QED BY <1>3, <2>2, <2>3
<1>6. lens \in SUBSET Nat /\ lens # {} /\ \A x \in lens : x <= Len(e) - 1 BY <1>3, <1>5
<1>7. m \in lens /\ m \in Nat /\ \A x \in lens : x <= m
  <2>1. Len(e) - 1 \in Nat BY <1>3
  <2> HIDE DEF lens
  <2>2. QED BY <1>6, <2>1, MaxIs
<1>8. m <= Len(e) - 1 BY <1>6, <1>7
<1>9. m = 0 \/ \E d \in Up(t, e) \ {e} : m = Len(d) BY <1>7
<1>10. \A d \in Up(t, e) \ {e} : Len(d) <= m BY <1>7
<1>11. Edge(t, e) = Len(e) - m BY DEF Edge
<1> HIDE DEF m, lens
<1>12. m \in 0 .. Len(e) /\ Edge(t, e) \in 1 .. Len(e) /\ Len(e) - Edge(t, e) = m
  BY <1>3, <1>7, <1>8, <1>11
<1>13. ASSUME NEW p \in OnEdges(t, {e}) PROVE p \in Longer(e, m)
  <2>1. p \in DOMAIN t.slots /\ Top(t, p) = e BY DEF OnEdges
  <2>2. p \in Path \ {<<>>} /\ IsPrefix(p, e) /\ \A d \in Nodes(t) : IsPrefix(p, d) => IsPrefix(e, d)
    BY <2>1, TopIs
  <2>3. Len(p) \in Nat /\ Len(p) > 0 BY <2>2 DEF Path
  <2>4. ASSUME NEW d \in Up(t, e) \ {e}, Len(p) <= Len(d) PROVE FALSE
    <3>1. d \in Nodes(t) /\ d \in Path /\ IsPrefix(d, e) BY <1>4
    <3>2. IsPrefix(p, d) BY <1>2, <2>2, <2>4, <3>1, PrefixOrder
    <3>3. IsPrefix(e, d) BY <2>2, <3>1, <3>2
    <3>4. d = e BY <1>2, <3>1, <3>3, PrefixOrder
    <3>5. QED BY <3>4
  <2>5. m < Len(p)
    <3>1. CASE m = 0 BY <2>3, <3>1
    <3>2. ASSUME NEW d \in Up(t, e) \ {e}, m = Len(d) PROVE m < Len(p)
      <4>1. ~(Len(p) <= Len(d)) BY <2>4
      <4>2. QED BY <1>7, <2>3, <3>2, <4>1
    <3>3. QED BY <1>9, <3>1, <3>2
  <2>6. QED BY <1>2, <1>12, <2>2, <2>5, LongerIs
<1>14. ASSUME NEW p \in Longer(e, m) PROVE p \in OnEdges(t, {e})
  <2>1. p \in Path /\ IsPrefix(p, e) /\ m < Len(p) BY <1>2, <1>12, LongerIs
  <2>2. Len(p) \in 0 .. Len(e) /\ p = Take(e, Len(p)) BY <1>2, <2>1, PrefixIs
  <2>3. Len(p) \in 1 .. Len(e) BY <1>7, <2>1, <2>2
  <2>4. p \in DOMAIN t.slots BY <1>1, <1>2, <2>2, <2>3
  <2> DEFINE o == Top(t, p)
  <2>5. /\ o \in Nodes(t) /\ o \in Path /\ IsPrefix(p, o)
        /\ \A d \in Nodes(t) : IsPrefix(p, d) => IsPrefix(o, d)
    BY <2>4, TopIs
  <2> HIDE DEF o
  <2>6. IsPrefix(o, e) BY <2>1, <2>5
  <2>7. Len(p) <= Len(o) BY <2>1, <2>5, PrefixOrder
  <2>8. ~(Len(o) <= m) BY <1>7, <2>1, <2>2, <2>5, <2>7 DEF Path
  <2>9. o \in Up(t, e) BY <2>5, <2>6 DEF Up
  <2>10. o = e BY <1>10, <2>8, <2>9
  <2>11. QED BY <2>4, <2>10 DEF OnEdges, o
<1>15. OnEdges(t, {e}) = Longer(e, m) BY <1>13, <1>14
<1>16. IsFiniteSet(Longer(e, m)) /\ Cardinality(Longer(e, m)) = Len(e) - m BY <1>2, <1>12, LongerIs
<1>17. QED BY <1>11, <1>12, <1>15, <1>16

\* The size of some nodes is the number of tokens on the edges above them.
LEMMA SizeIs ==
  ASSUME NEW t, Shape(t), NEW es \in SUBSET Nodes(t)
  PROVE  IsFiniteSet(OnEdges(t, es)) /\ Size(t, es) = Cardinality(OnEdges(t, es))
<1> DEFINE U == DOMAIN t.slots
           part == [e \in es |-> OnEdges(t, {e})]
           size == [e \in es |-> Edge(t, e)]
<1>1. IsFiniteSet(U) /\ Nodes(t) \subseteq U BY DEF Shape
<1>2. IsFiniteSet(es)
  <2>1. es \in SUBSET U BY <1>1
  <2>2. QED BY <1>1, <2>1, FS_Subset
<1>3. part \in [es -> SUBSET U] BY DEF OnEdges
<1>4. \A e, d \in es : e # d => part[e] \cap part[d] = {} BY DEF OnEdges
<1>5. \A e \in es : size[e] \in Int /\ size[e] = Cardinality(part[e])
  <2> SUFFICES ASSUME NEW e \in es PROVE Edge(t, e) \in Int /\ Edge(t, e) = Cardinality(OnEdges(t, {e}))
    OBVIOUS
  <2>1. e \in Nodes(t) OBVIOUS
  <2>2. QED BY <2>1, EdgeIs
<1>6. size \in [es -> Int] BY <1>5
<1>7. UNION {part[e] : e \in es} = OnEdges(t, es) BY DEF OnEdges
<1>8. Size(t, es) = SumFunctionOnSet(size, es) BY DEF Size
<1> HIDE DEF part, size
<1>9. AreParts(es, U, part, size) BY <1>1, <1>2, <1>3, <1>4, <1>5, <1>6 DEF AreParts
<1>10. SumFunctionOnSet(size, es) = Cardinality(UNION {part[e] : e \in es}) BY <1>9, SumOfParts
<1>11. OnEdges(t, es) \in SUBSET U BY DEF OnEdges
<1>12. IsFiniteSet(OnEdges(t, es)) BY <1>1, <1>11, FS_Subset
<1>13. QED BY <1>7, <1>8, <1>10, <1>12

-----------------------------------------------------------------------------
(***************************************************************************)
(* The locks.  hold[r] is the node that request r keeps, <<>> if none.     *)
(***************************************************************************)
Unheld(t, hold) == {p \in DOMAIN t.slots : \A r \in Req : ~IsPrefix(p, hold[r])}

TreeInv(t, hold) ==
  /\ Shape(t) /\ hold \in [Req -> Nodes(t) \cup {<<>>}]
  /\ \A e \in Nodes(t) : t.lock[e] = Cardinality({r \in Req : IsPrefix(e, hold[r])})
  /\ t.evictable = Cardinality(Unheld(t, hold))

LEMMA ReqFinite == IsFiniteSet(Req) /\ \A R \in SUBSET Req : IsFiniteSet(R) /\ Cardinality(R) \in Nat
<1>1. IsFiniteSet(Req)
  <2>1. 1 \in Int /\ N \in Int BY SizeAssumption
  <2>2. QED BY <2>1, FS_Interval DEF Req
<1>2. QED BY <1>1, FS_Subset, FS_CardinalityType

\* A node holds what it is above of, and so do the paths on the edge above it.
LEMMA HeldIs ==
  ASSUME NEW t, NEW hold, TreeInv(t, hold)
  PROVE  /\ \A r \in Req : hold[r] \in Path
         /\ \A e \in Nodes(t) : t.lock[e] \in Nat /\ (t.lock[e] = 0 <=> \A r \in Req : ~IsPrefix(e, hold[r]))
         /\ \A p \in DOMAIN t.slots : \A r \in Req : IsPrefix(p, hold[r]) <=> IsPrefix(Top(t, p), hold[r])
         /\ IsFiniteSet(Unheld(t, hold)) /\ Unheld(t, hold) = OnEdges(t, {e \in Nodes(t) : t.lock[e] = 0})
         /\ t.evictable \in Nat
<1>1. /\ Shape(t) /\ hold \in [Req -> Nodes(t) \cup {<<>>}]
      /\ \A e \in Nodes(t) : t.lock[e] = Cardinality({r \in Req : IsPrefix(e, hold[r])})
      /\ t.evictable = Cardinality(Unheld(t, hold))
  BY DEF TreeInv
<1>2. DOMAIN t.slots \subseteq Path \ {<<>>} /\ IsFiniteSet(DOMAIN t.slots) /\ Nodes(t) \subseteq DOMAIN t.slots
  BY <1>1 DEF Shape
<1>3. <<>> \in Path BY DEF Path
<1>4. \A r \in Req : hold[r] \in Path BY <1>1, <1>2, <1>3
<1>5. ASSUME NEW e \in Nodes(t)
      PROVE  t.lock[e] \in Nat /\ (t.lock[e] = 0 <=> \A r \in Req : ~IsPrefix(e, hold[r]))
  <2> DEFINE R == {r \in Req : IsPrefix(e, hold[r])}
  <2>1. t.lock[e] = Cardinality(R) BY <1>1
  <2>2. R \in SUBSET Req /\ (R = {} <=> \A r \in Req : ~IsPrefix(e, hold[r])) OBVIOUS
  <2> HIDE DEF R
  <2>3. IsFiniteSet(R) /\ Cardinality(R) \in Nat BY <2>2, ReqFinite
  <2>4. Cardinality(R) = 0 <=> R = {} BY <2>3, FS_EmptySet
  <2>5. QED BY <2>1, <2>2, <2>3, <2>4
<1>6. ASSUME NEW p \in DOMAIN t.slots, NEW r \in Req
      PROVE  IsPrefix(p, hold[r]) <=> IsPrefix(Top(t, p), hold[r])
  <2>1. /\ p \in Path \ {<<>>} /\ Top(t, p) \in Path \ {<<>>}
        /\ \A d \in Nodes(t) : IsPrefix(p, d) <=> IsPrefix(Top(t, p), d)
    BY <1>1, TopIs
  <2>2. CASE hold[r] \in Nodes(t) BY <2>1, <2>2
  <2>3. CASE hold[r] = <<>>
    <3>1. ~IsPrefix(p, <<>>) /\ ~IsPrefix(Top(t, p), <<>>) BY <2>1, PrefixOrder
    <3>2. QED BY <2>3, <3>1
  <2>4. QED BY <1>1, <2>2, <2>3
<1>7. Unheld(t, hold) = OnEdges(t, {e \in Nodes(t) : t.lock[e] = 0})
  <2>1. ASSUME NEW p \in DOMAIN t.slots
        PROVE  (\A r \in Req : ~IsPrefix(p, hold[r])) <=> Top(t, p) \in {e \in Nodes(t) : t.lock[e] = 0}
    <3>1. Top(t, p) \in Nodes(t) BY <1>1, TopIs
    <3>2. t.lock[Top(t, p)] = 0 <=> \A r \in Req : ~IsPrefix(Top(t, p), hold[r]) BY <1>5, <3>1
    <3>3. QED BY <1>6, <3>1, <3>2
  <2>2. QED BY <2>1 DEF Unheld, OnEdges
<1>8. IsFiniteSet(Unheld(t, hold))
  <2>1. Unheld(t, hold) \in SUBSET DOMAIN t.slots BY DEF Unheld
  <2>2. QED BY <1>2, <2>1, FS_Subset
<1>9. t.evictable \in Nat BY <1>1, <1>8, FS_CardinalityType
<1>10. QED BY <1>4, <1>5, <1>6, <1>7, <1>8, <1>9

\* A tree with other locks, on the same paths.
Relocked(t, lock, evictable) == [slots |-> t.slots, lock |-> lock, evictable |-> evictable]

LEMMA SplitGood ==
  ASSUME NEW t, NEW hold, TreeInv(t, hold), NEW path \in DOMAIN t.slots \cup {<<>>}
  PROVE  /\ TreeInv(Split(t, path), hold)
         /\ Split(t, path).slots = t.slots /\ Split(t, path).evictable = t.evictable
         /\ Nodes(Split(t, path)) = Nodes(t) \cup ({path} \ {<<>>})
<1>1. /\ Shape(t) /\ hold \in [Req -> Nodes(t) \cup {<<>>}]
      /\ \A e \in Nodes(t) : t.lock[e] = Cardinality({r \in Req : IsPrefix(e, hold[r])})
      /\ t.evictable = Cardinality(Unheld(t, hold))
  BY DEF TreeInv
<1>2. /\ t = [slots |-> t.slots, lock |-> t.lock, evictable |-> t.evictable]
      /\ DOMAIN t.slots \subseteq Path \ {<<>>}
      /\ Nodes(t) \subseteq DOMAIN t.slots /\ t.lock \in [Nodes(t) -> Int]
  BY <1>1 DEF Shape
<1>3. CASE path \in {<<>>} \cup Nodes(t)
  <2>1. Split(t, path) = t BY <1>3 DEF Split
  <2>2. Nodes(t) \cup ({path} \ {<<>>}) = Nodes(t) BY <1>3
  <2>3. QED BY <2>1, <2>2
<1>4. CASE path \notin {<<>>} \cup Nodes(t)
  <2>1. path \in DOMAIN t.slots /\ path \in Path BY <1>2, <1>4
  <2> DEFINE top == Top(t, path)
             child == CHOOSE e \in Nodes(t) : /\ IsPrefix(path, e)
                                              /\ \A d \in Nodes(t) : IsPrefix(path, d) => Len(e) <= Len(d)
             lock == [e \in Nodes(t) \cup {path} |-> t.lock[IF e = path THEN child ELSE e]]
             s == Relocked(t, lock, t.evictable)
  <2>2. /\ top \in Nodes(t) /\ top \in Path /\ IsPrefix(path, top)
        /\ \A d \in Nodes(t) : IsPrefix(path, d) => IsPrefix(top, d)
    BY <1>1, <2>1, TopIs
  <2>3. Split(t, path) = s
    <3>1. Split(t, path) = [t EXCEPT !.lock = lock] BY <1>4 DEF Split
    <3> HIDE DEF lock
    <3>2. [t EXCEPT !.lock = lock] = s BY <1>2 DEF Relocked
    <3>3. QED BY <3>1, <3>2
  <2>4. \A d \in Nodes(t) : IsPrefix(top, d) => Len(top) <= Len(d)
    <3>1. \A d \in Nodes(t) : d \in Path BY <1>2
    <3>2. QED BY <2>2, <3>1, PrefixOrder
  <2> HIDE DEF top
  <2>5. child = top
    <3>1. child \in Nodes(t) /\ IsPrefix(path, child) /\ \A d \in Nodes(t) : IsPrefix(path, d) => Len(child) <= Len(d)
      <4>1. \A d \in Nodes(t) : IsPrefix(path, d) => Len(top) <= Len(d) BY <2>2, <2>4
      <4>2. QED BY <2>2, <4>1
    <3> HIDE DEF child
    <3>2. IsPrefix(top, child) /\ child \in Path /\ Len(child) <= Len(top) BY <1>2, <2>2, <3>1
    <3>3. QED BY <2>2, <3>2, PrefixOrder
  <2> HIDE DEF child
  <2>6. Nodes(s) = Nodes(t) \cup {path} /\ s.slots = t.slots /\ s.evictable = t.evictable
        /\ s = [slots |-> s.slots, lock |-> s.lock, evictable |-> s.evictable]
        /\ \A e \in Nodes(s) : s.lock[e] = t.lock[IF e = path THEN top ELSE e]
    BY <2>5 DEF Relocked, Nodes
  <2>7. s.lock \in [Nodes(s) -> Int]
    <3>1. \A e \in Nodes(t) \cup {path} : t.lock[IF e = path THEN child ELSE e] \in Int BY <1>2, <2>2, <2>5
    <3>2. lock \in [Nodes(t) \cup {path} -> Int] BY <3>1
    <3>3. s.lock = lock BY DEF Relocked
    <3>4. QED BY <2>6, <3>2, <3>3
  <2> HIDE DEF lock, s
  <2>8. ASSUME NEW p \in DOMAIN t.slots PROVE \E e \in Nodes(s) : IsTop(s, p, e)
    <3> DEFINE e == Top(t, p)
    <3>1. /\ p \in Path /\ e \in Nodes(t) /\ e \in Path /\ IsPrefix(p, e)
          /\ \A d \in Nodes(t) : IsPrefix(p, d) => IsPrefix(e, d)
      BY <1>1, TopIs
    <3> HIDE DEF e
    <3>2. CASE ~IsPrefix(p, path)
      <4>1. IsTop(s, p, e) BY <2>6, <3>1, <3>2 DEF IsTop
      <4>2. QED BY <2>6, <3>1, <4>1
    <3>3. CASE IsPrefix(p, path)
      <4>1. IsPrefix(p, top) BY <2>1, <2>2, <3>1, <3>3, PrefixOrder
      <4>2. IsPrefix(e, top) BY <2>2, <3>1, <4>1
      <4>3. CASE Len(e) <= Len(path)
        <5>1. IsPrefix(e, path) BY <2>1, <2>2, <3>1, <4>2, <4>3, PrefixOrder
        <5>2. IsTop(s, p, e) BY <2>6, <3>1, <5>1 DEF IsTop
        <5>3. QED BY <2>6, <3>1, <5>2
      <4>4. CASE Len(path) <= Len(e)
        <5>1. IsPrefix(path, e) BY <2>1, <2>2, <3>1, <4>2, <4>4, PrefixOrder
        <5>2. ASSUME NEW d \in Nodes(t), IsPrefix(p, d) PROVE IsPrefix(path, d)
          <6>1. IsPrefix(e, d) /\ d \in Path BY <1>2, <3>1, <5>2
          <6>2. QED BY <2>1, <3>1, <5>1, <6>1, PrefixOrder
        <5>3. IsPrefix(path, path) BY <2>1, PrefixOrder
        <5>4. IsTop(s, p, path) BY <2>6, <3>3, <5>2, <5>3 DEF IsTop
        <5>5. QED BY <2>6, <5>4
      <4>5. QED BY <2>1, <3>1, <4>3, <4>4 DEF Path
    <3>4. QED BY <3>2, <3>3
  <2>9. Shape(s)
    <3>1. /\ IsFiniteSet(DOMAIN t.slots) /\ t.slots \in [DOMAIN t.slots -> Slots] /\ t.evictable \in Int
          /\ \A p \in DOMAIN t.slots : \A i \in 1 .. Len(p) : Take(p, i) \in DOMAIN t.slots
      BY <1>1 DEF Shape
    <3>2. QED BY <1>2, <2>1, <2>6, <2>7, <2>8, <3>1 DEF Shape
  <2>10. hold \in [Req -> Nodes(s) \cup {<<>>}] BY <1>1, <2>6
  <2>11. ASSUME NEW e \in Nodes(s) PROVE s.lock[e] = Cardinality({r \in Req : IsPrefix(e, hold[r])})
    <3>1. CASE e # path BY <1>1, <2>6, <3>1
    <3>2. CASE e = path
      <4>1. \A r \in Req : IsPrefix(path, hold[r]) <=> IsPrefix(top, hold[r]) BY <2>1, HeldIs DEF top
      <4>2. {r \in Req : IsPrefix(path, hold[r])} = {r \in Req : IsPrefix(top, hold[r])} BY <4>1
      <4>3. s.lock[path] = Cardinality({r \in Req : IsPrefix(top, hold[r])}) BY <1>1, <2>2, <2>6
      <4>4. QED BY <3>2, <4>2, <4>3
    <3>3. QED BY <3>1, <3>2
  <2>12. Unheld(s, hold) = Unheld(t, hold) BY <2>6 DEF Unheld
  <2>13. TreeInv(s, hold) BY <1>1, <2>6, <2>9, <2>10, <2>11, <2>12 DEF TreeInv
  <2>14. Nodes(t) \cup {path} = Nodes(t) \cup ({path} \ {<<>>}) BY <1>4
  <2>15. QED BY <2>3, <2>6, <2>13, <2>14
<1>5. QED BY <1>3, <1>4

\* The part of a key that the tree holds.
LEMMA MatchedIs ==
  ASSUME NEW t, Shape(t), NEW key \in Path
  PROVE  /\ Matched(t, key) \in 0 .. Len(key)
         /\ Take(key, Matched(t, key)) \in DOMAIN t.slots \cup {<<>>}
         /\ \A i \in 1 .. Len(key) : Take(key, i) \in DOMAIN t.slots <=> i <= Matched(t, key)
<1> DEFINE S == {0} \cup {i \in 1 .. Len(key) : Take(key, i) \in DOMAIN t.slots}
           n == Max(S)
<1>1. Len(key) \in Nat BY DEF Path
<1>2. S \in SUBSET Nat /\ S # {} /\ \A x \in S : x <= Len(key) BY <1>1
<1>3. n \in S /\ n \in Nat /\ \A x \in S : x <= n
  <2> HIDE DEF S
  <2>1. QED BY <1>1, <1>2, MaxIs
<1>4. n = Matched(t, key) BY DEF Matched
<1>5. n \in 0 .. Len(key) /\ (n = 0 \/ Take(key, n) \in DOMAIN t.slots)
  <2> HIDE DEF n
  <2>1. n = 0 \/ n \in {i \in 1 .. Len(key) : Take(key, i) \in DOMAIN t.slots} BY <1>3
  <2>2. QED BY <1>1, <1>3, <2>1
<1>6. \A i \in 1 .. Len(key) : Take(key, i) \in DOMAIN t.slots => i <= n BY <1>3
<1> HIDE DEF n, S
<1>7. Take(key, n) \in DOMAIN t.slots \cup {<<>>}
  <2>1. Take(key, 0) = <<>> BY <1>1, TakeIs
  <2>2. QED BY <1>5, <2>1
<1>8. ASSUME NEW i \in 1 .. Len(key), i <= n PROVE Take(key, i) \in DOMAIN t.slots
  <2>1. n # 0 /\ i \in 0 .. n /\ i \in 1 .. n BY <1>1, <1>5, <1>8
  <2>2. Len(Take(key, n)) = n /\ Take(Take(key, n), i) = Take(key, i) BY <1>5, <2>1, TakeIs
  <2>3. Take(key, n) \in DOMAIN t.slots BY <1>5, <2>1
  <2>4. Take(Take(key, n), i) \in DOMAIN t.slots BY <2>1, <2>2, <2>3 DEF Shape
  <2>5. QED BY <2>2, <2>4
<1>9. QED BY <1>4, <1>5, <1>6, <1>7, <1>8

\* What insert does to the paths: those of key the tree did not hold are added.
LEMMA InsertGood ==
  ASSUME NEW t, NEW hold, TreeInv(t, hold), NEW key \in Path, NEW value \in [1 .. Len(key) -> Slots]
  PROVE  LET i == Insert(t, key, value)
             new == Longer(key, Matched(t, key))
         IN  /\ TreeInv(i, hold) /\ key \in Nodes(i) \cup {<<>>}
             /\ DOMAIN i.slots = DOMAIN t.slots \cup new /\ DOMAIN t.slots \cap new = {}
             /\ \A p \in DOMAIN t.slots : i.slots[p] = t.slots[p]
             /\ \A p \in new : i.slots[p] = value[Len(p)]
             /\ i.evictable = t.evictable + Len(key) - Matched(t, key)
<1> DEFINE n == Matched(t, key)
           path == Take(key, n)
           s == Split(t, path)
           new == Longer(key, n)
           i == Insert(t, key, value)
<1>1. /\ Shape(t) /\ hold \in [Req -> Nodes(t) \cup {<<>>}] /\ t.evictable = Cardinality(Unheld(t, hold))
  BY DEF TreeInv
<1>2. Len(key) \in Nat /\ n \in 0 .. Len(key) /\ path \in DOMAIN t.slots \cup {<<>>}
      /\ \A j \in 1 .. Len(key) : Take(key, j) \in DOMAIN t.slots <=> j <= n
  BY <1>1, MatchedIs DEF Path
<1>3. /\ TreeInv(s, hold) /\ s.slots = t.slots /\ s.evictable = t.evictable
      /\ Nodes(s) = Nodes(t) \cup ({path} \ {<<>>})
  BY <1>2, SplitGood
<1>4. /\ IsFiniteSet(new) /\ Cardinality(new) = Len(key) - n /\ new \subseteq Path \ {<<>>}
      /\ \A q \in Path : q \in new <=> IsPrefix(q, key) /\ n < Len(q)
  BY <1>2, LongerIs
<1>5. path \in Path /\ IsPrefix(path, key) /\ Len(path) = n /\ (n = 0 => path = <<>>) /\ (n = Len(key) => path = key)
  BY <1>2, TakeIs
<1>6. new = {Take(key, j) : j \in n + 1 .. Len(key)} BY DEF Longer
<1>7. Insert(t, key, value) =
        IF n = Len(key) THEN s
        ELSE [slots |-> [p \in DOMAIN s.slots \cup new |-> IF p \in new THEN value[Len(p)] ELSE s.slots[p]],
              lock |-> [e \in Nodes(s) \cup {key} |-> IF e = key THEN 0 ELSE s.lock[e]],
              evictable |-> s.evictable + Len(key) - n]
  BY <1>6 DEF Insert
<1>8. ASSUME NEW p \in new PROVE p \notin DOMAIN t.slots
  <2>1. p \in Path /\ IsPrefix(p, key) /\ n < Len(p) BY <1>4
  <2>2. Len(p) \in 0 .. Len(key) /\ p = Take(key, Len(p)) BY <2>1, PrefixIs
  <2>3. Len(p) \in 1 .. Len(key) /\ ~(Len(p) <= n) BY <1>2, <2>1, <2>2
  <2>4. QED BY <1>2, <2>2, <2>3
<1> HIDE DEF n, path, s, new
<1>9. CASE n = Len(key)
  <2>1. i = s BY <1>7, <1>9
  <2>2. new = {}
    <3>1. ASSUME NEW p \in new PROVE FALSE
      <4>1. p \in Path /\ IsPrefix(p, key) /\ n < Len(p) BY <1>4
      <4>2. Len(p) \in 0 .. Len(key) BY <4>1, PrefixIs
      <4>3. QED BY <1>2, <1>9, <4>1, <4>2
    <3>2. QED BY <3>1
  <2>3. key \in Nodes(s) \cup {<<>>} BY <1>3, <1>5, <1>9
  <2>4. i.evictable = t.evictable + Len(key) - n
    <3>1. t.evictable \in Nat BY HeldIs
    <3>2. QED BY <1>2, <1>3, <1>9, <2>1, <3>1
  <2>5. QED BY <1>3, <2>1, <2>2, <2>3, <2>4 DEF n, new
<1>10. CASE n # Len(key)
  <2> DEFINE slots == [p \in DOMAIN s.slots \cup new |-> IF p \in new THEN value[Len(p)] ELSE s.slots[p]]
             lock == [e \in Nodes(s) \cup {key} |-> IF e = key THEN 0 ELSE s.lock[e]]
  <2>1. i = [slots |-> slots, lock |-> lock, evictable |-> s.evictable + Len(key) - n]
    BY <1>7, <1>10
  <2>2. key \in new /\ key # <<>>
    <3>1. IsPrefix(key, key) BY PrefixOrder
    <3>2. n < Len(key) BY <1>2, <1>10
    <3>3. QED BY <1>4, <3>1, <3>2
  <2>3. /\ i = [slots |-> i.slots, lock |-> i.lock, evictable |-> i.evictable]
        /\ DOMAIN i.slots = DOMAIN t.slots \cup new
        /\ Nodes(i) = Nodes(s) \cup {key} /\ i.evictable = t.evictable + Len(key) - n
    BY <1>3, <2>1 DEF Nodes
  <2>4. /\ \A p \in DOMAIN t.slots : i.slots[p] = t.slots[p]
        /\ \A p \in new : i.slots[p] = value[Len(p)]
    BY <1>3, <1>8, <2>1
  <2>5. i.lock[key] = 0 /\ \A e \in Nodes(s) : e # key => i.lock[e] = s.lock[e] BY <2>1
  <2>6. i.slots \in [DOMAIN i.slots -> Slots] /\ i.lock \in [Nodes(i) -> Int]
    <3>1. \A p \in new : value[Len(p)] \in Slots
      <4> SUFFICES ASSUME NEW p \in new PROVE value[Len(p)] \in Slots OBVIOUS
      <4>1. p \in Path /\ IsPrefix(p, key) /\ n < Len(p) BY <1>4
      <4>2. Len(p) \in 0 .. Len(key) BY <4>1, PrefixIs
      <4>3. Len(p) \in 1 .. Len(key) BY <1>2, <4>1, <4>2
      <4>4. QED BY <4>3
    <3>2. \A p \in DOMAIN t.slots : t.slots[p] \in Slots BY <1>1 DEF Shape
    <3>3. slots \in [DOMAIN s.slots \cup new -> Slots] BY <1>3, <3>1, <3>2
    <3>4. \A e \in Nodes(s) : s.lock[e] \in Int BY <1>3 DEF TreeInv, Shape
    <3>5. lock \in [Nodes(s) \cup {key} -> Int] BY <3>4
    <3> HIDE DEF slots, lock
    <3>6. i.slots = slots /\ i.lock = lock BY <2>1
    <3>7. QED BY <1>3, <2>3, <3>3, <3>5, <3>6
  <2> HIDE DEF slots, lock, i
  <2>7. /\ DOMAIN t.slots \subseteq Path \ {<<>>} /\ IsFiniteSet(DOMAIN t.slots)
        /\ Nodes(s) \subseteq DOMAIN t.slots
        /\ \A p \in DOMAIN t.slots : \A j \in 1 .. Len(p) : Take(p, j) \in DOMAIN t.slots
        /\ \A p \in DOMAIN t.slots : \E e \in Nodes(s) : IsTop(s, p, e)
    BY <1>3 DEF TreeInv, Shape
  <2>8. ASSUME NEW p \in new, NEW j \in 1 .. Len(p) PROVE Take(p, j) \in DOMAIN i.slots
    <3>1. p \in Path /\ IsPrefix(p, key) /\ n < Len(p) BY <1>4
    <3>2. Len(p) \in 0 .. Len(key) /\ p = Take(key, Len(p)) BY <3>1, PrefixIs
    <3>3. j \in 0 .. Len(p) /\ j \in 1 .. Len(key) BY <1>2, <3>2
    <3>4. Take(p, j) = Take(key, j) BY <3>2, <3>3, TakeIs
    <3>5. CASE j <= n BY <1>2, <2>3, <3>3, <3>4, <3>5
    <3>6. CASE ~(j <= n)
      <4>1. j \in n + 1 .. Len(key) BY <1>2, <3>3, <3>6
      <4>2. Take(key, j) \in new BY <1>6, <4>1 DEF n, new
      <4>3. QED BY <2>3, <3>4, <4>2
    <3>7. QED BY <3>5, <3>6
  <2>9. ASSUME NEW p \in new PROVE IsTop(i, p, key)
    <3>1. p \in Path /\ IsPrefix(p, key) BY <1>4
    <3>2. ASSUME NEW d \in Nodes(s), IsPrefix(p, d) PROVE FALSE
      <4>1. d \in DOMAIN t.slots /\ d \in Path BY <2>7, <3>2
      <4>2. Len(p) \in 0 .. Len(d) /\ p = Take(d, Len(p)) BY <3>1, <3>2, <4>1, PrefixIs
      <4>3. Len(p) \in 1 .. Len(d) BY <1>2, <1>4, <3>1, <4>2
      <4>4. p \in DOMAIN t.slots BY <2>7, <4>1, <4>2, <4>3
      <4>5. QED BY <1>8, <4>4
    <3>3. IsPrefix(key, key) BY PrefixOrder
    <3>4. QED BY <2>3, <3>1, <3>2, <3>3 DEF IsTop
  <2>10. ASSUME NEW p \in DOMAIN t.slots PROVE \E e \in Nodes(i) : IsTop(i, p, e)
    <3>1. PICK e \in Nodes(s) : IsTop(s, p, e) BY <2>7
    <3>2. p \in Path /\ e \in Path /\ IsPrefix(p, e) BY <2>7, <3>1 DEF IsTop
    <3>3. ASSUME IsPrefix(p, key) PROVE IsPrefix(e, key)
      <4>1. Len(p) \in 0 .. Len(key) /\ p = Take(key, Len(p)) BY <3>2, <3>3, PrefixIs
      <4>2. Len(p) # 0 BY <2>7, <3>2 DEF Path
      <4>3. Len(p) \in 1 .. Len(key) BY <1>2, <4>1, <4>2
      <4>4. Len(p) <= n BY <1>2, <4>1, <4>3
      <4>5. IsPrefix(p, path) BY <1>5, <3>2, <3>3, <4>4, PrefixOrder
      <4>6. path # <<>> BY <1>5, <4>3, <4>4
      <4>7. path \in Nodes(s) BY <1>3, <4>6
      <4>8. IsPrefix(e, path) BY <3>1, <4>5, <4>7 DEF IsTop
      <4>9. QED BY <1>5, <3>2, <4>8, PrefixOrder
    <3>4. \A d \in Nodes(i) : IsPrefix(p, d) => IsPrefix(e, d) BY <2>3, <3>1, <3>3 DEF IsTop
    <3>5. IsTop(i, p, e) BY <3>2, <3>4 DEF IsTop
    <3>6. QED BY <2>3, <3>1, <3>5
  <2>11. Shape(i)
    <3>1. DOMAIN i.slots \subseteq Path \ {<<>>} /\ IsFiniteSet(DOMAIN i.slots)
      <4>1. IsFiniteSet(DOMAIN t.slots \cup new) BY <1>4, <2>7, FS_Union
      <4>2. QED BY <1>4, <2>3, <2>7, <4>1
    <3>2. Nodes(i) \subseteq DOMAIN i.slots BY <2>2, <2>3, <2>7
    <3>3. i.evictable \in Int
      <4>1. t.evictable \in Nat BY HeldIs
      <4>2. QED BY <1>2, <2>3, <4>1
    <3>4. \A p \in DOMAIN i.slots : \A j \in 1 .. Len(p) : Take(p, j) \in DOMAIN i.slots
      BY <2>3, <2>7, <2>8
    <3>5. \A p \in DOMAIN i.slots : \E e \in Nodes(i) : IsTop(i, p, e) BY <2>3, <2>9, <2>10
    <3>6. QED BY <2>3, <2>6, <3>1, <3>2, <3>3, <3>4, <3>5 DEF Shape
  <2>12. hold \in [Req -> Nodes(i) \cup {<<>>}] BY <1>1, <1>3, <2>3
  <2>13. ASSUME NEW p \in new, NEW r \in Req PROVE ~IsPrefix(p, hold[r])
    <3>1. p \in Path \ {<<>>} /\ p \notin DOMAIN t.slots BY <1>4, <1>8
    <3>2. CASE hold[r] = <<>> BY <3>1, <3>2, PrefixOrder
    <3>3. CASE hold[r] \in Nodes(t)
      <4> DEFINE d == hold[r]
      <4>1. d \in DOMAIN t.slots /\ d \in Path BY <1>1, <2>7, <3>3 DEF Shape
      <4> SUFFICES ASSUME IsPrefix(p, d) PROVE FALSE OBVIOUS
      <4> HIDE DEF d
      <4>2. Len(p) \in 0 .. Len(d) /\ p = Take(d, Len(p)) BY <3>1, <4>1, PrefixIs
      <4>3. Len(p) # 0 BY <3>1 DEF Path
      <4>4. Len(p) \in 1 .. Len(d) BY <4>2, <4>3
      <4>5. QED BY <2>7, <3>1, <4>1, <4>2, <4>4
    <3>4. QED BY <1>1, <3>2, <3>3
  <2>14. ASSUME NEW e \in Nodes(i) PROVE i.lock[e] = Cardinality({r \in Req : IsPrefix(e, hold[r])})
    <3>1. CASE e = key
      <4>1. {r \in Req : IsPrefix(key, hold[r])} = {} BY <2>2, <2>13
      <4>2. QED BY <2>5, <3>1, <4>1, FS_EmptySet
    <3>2. CASE e # key BY <1>3, <2>3, <2>5, <3>2 DEF TreeInv
    <3>3. QED BY <3>1, <3>2
  <2>15. i.evictable = Cardinality(Unheld(i, hold))
    <3> DEFINE u == Unheld(t, hold)
    <3>1. Unheld(i, hold) = u \cup new BY <2>3, <2>13 DEF Unheld
    <3>2. u \cap new = {} BY <1>8 DEF Unheld
    <3>3. IsFiniteSet(u) /\ t.evictable = Cardinality(u) /\ t.evictable \in Nat BY <1>1, HeldIs
    <3> HIDE DEF u
    <3>4. Cardinality(u \cup new) = Cardinality(u) + Cardinality(new) BY <1>4, <3>2, <3>3, DisjointUnion
    <3>5. t.evictable + (Len(key) - n) = t.evictable + Len(key) - n BY <1>2, <3>3
    <3>6. QED BY <1>4, <2>3, <3>1, <3>3, <3>4, <3>5
  <2>16. TreeInv(i, hold) BY <2>11, <2>12, <2>14, <2>15 DEF TreeInv
  <2>17. QED BY <1>8, <2>2, <2>3, <2>4, <2>16 DEF i, n, new
<1>11. QED BY <1>9, <1>10

\* Locks do not change the shape.
LEMMA RelockedShape ==
  ASSUME NEW t, Shape(t), NEW lock \in [Nodes(t) -> Int], NEW evictable \in Int
  PROVE  LET s == Relocked(t, lock, evictable)
         IN  /\ Shape(s) /\ s.slots = t.slots /\ Nodes(s) = Nodes(t)
             /\ s.lock = lock /\ s.evictable = evictable
<1> DEFINE s == Relocked(t, lock, evictable)
<1>1. /\ s.slots = t.slots /\ Nodes(s) = Nodes(t) /\ s.lock = lock /\ s.evictable = evictable
      /\ s = [slots |-> s.slots, lock |-> s.lock, evictable |-> s.evictable]
  BY DEF Relocked, Nodes
<1> HIDE DEF s
<1>2. \A p \in DOMAIN t.slots : \E e \in Nodes(s) : IsTop(s, p, e) BY <1>1 DEF Shape, IsTop
<1>3. Shape(s) BY <1>1, <1>2 DEF Shape
<1>4. QED BY <1>1, <1>3 DEF s

\* inc_lock_ref on behalf of a request that holds nothing.
LEMMA IncGood ==
  ASSUME NEW t, NEW hold, TreeInv(t, hold), NEW r \in Req, hold[r] = <<>>,
         NEW node \in Nodes(t) \cup {<<>>}
  PROVE  /\ TreeInv(IncLock(t, node), [hold EXCEPT ![r] = node])
         /\ IncLock(t, node).slots = t.slots /\ Nodes(IncLock(t, node)) = Nodes(t)
<1> DEFINE new == [hold EXCEPT ![r] = node]
           es == {e \in Up(t, node) : t.lock[e] = 0}
           lock == [e \in Nodes(t) |-> IF e \in Up(t, node) THEN t.lock[e] + 1 ELSE t.lock[e]]
           evictable == t.evictable - Size(t, es)
           s == Relocked(t, lock, evictable)
<1>1. /\ Shape(t) /\ hold \in [Req -> Nodes(t) \cup {<<>>}]
      /\ \A e \in Nodes(t) : t.lock[e] = Cardinality({q \in Req : IsPrefix(e, hold[q])})
      /\ t.evictable = Cardinality(Unheld(t, hold))
  BY DEF TreeInv
<1>2. /\ t = [slots |-> t.slots, lock |-> t.lock, evictable |-> t.evictable]
      /\ DOMAIN t.slots \subseteq Path \ {<<>>} /\ Nodes(t) \subseteq DOMAIN t.slots
      /\ t.lock \in [Nodes(t) -> Int]
  BY <1>1 DEF Shape
<1>3. IncLock(t, node) = s
  <2>1. IncLock(t, node) = [t EXCEPT !.evictable = t.evictable - Size(t, es), !.lock = lock]
    BY DEF IncLock
  <2> HIDE DEF es, lock
  <2>2. QED BY <1>2, <2>1 DEF Relocked
<1>4. es \in SUBSET Nodes(t) BY DEF Up
<1>5. IsFiniteSet(OnEdges(t, es)) /\ Size(t, es) = Cardinality(OnEdges(t, es)) BY <1>1, <1>4, SizeIs
<1>6. \A p \in DOMAIN t.slots : IsPrefix(p, node) <=> IsPrefix(Top(t, p), node)
  <2> SUFFICES ASSUME NEW p \in DOMAIN t.slots
               PROVE  IsPrefix(p, node) <=> IsPrefix(Top(t, p), node)
    OBVIOUS
  <2>1. /\ p \in Path \ {<<>>} /\ Top(t, p) \in Path \ {<<>>}
        /\ \A d \in Nodes(t) : IsPrefix(p, d) <=> IsPrefix(Top(t, p), d)
    BY <1>1, TopIs
  <2>2. ~IsPrefix(p, <<>>) /\ ~IsPrefix(Top(t, p), <<>>) BY <2>1, PrefixOrder
  <2>3. QED BY <2>1, <2>2
<1>7. lock \in [Nodes(t) -> Int] BY <1>2
<1>8. \A q \in Req : new[q] = IF q = r THEN node ELSE hold[q] BY <1>1
<1>9. new \in [Req -> Nodes(t) \cup {<<>>}] BY <1>1
<1> HIDE DEF new
<1>10. \A e \in Nodes(t) : lock[e] = Cardinality({q \in Req : IsPrefix(e, new[q])})
  <2> SUFFICES ASSUME NEW e \in Nodes(t) PROVE lock[e] = Cardinality({q \in Req : IsPrefix(e, new[q])})
    OBVIOUS
  <2> DEFINE H == {q \in Req : IsPrefix(e, hold[q])}
             K == {q \in Req : IsPrefix(e, new[q])}
  <2>1. H \in SUBSET Req /\ K \in SUBSET Req /\ t.lock[e] = Cardinality(H) BY <1>1
  <2>2. e \in Path \ {<<>>} BY <1>2
  <2>3. r \notin H BY <2>2, PrefixOrder
  <2>4. K = IF IsPrefix(e, node) THEN H \cup {r} ELSE H BY <1>8, <2>3
  <2>5. e \in Up(t, node) <=> IsPrefix(e, node) BY DEF Up
  <2>6. lock[e] = IF IsPrefix(e, node) THEN t.lock[e] + 1 ELSE t.lock[e] BY <2>5
  <2> HIDE DEF H, K, lock
  <2>7. IsFiniteSet(H) BY <2>1, ReqFinite
  <2>8. Cardinality(H \cup {r}) = Cardinality(H) + 1 BY <2>3, <2>7, FS_AddElement
  <2>9. lock[e] = Cardinality(K) BY <2>1, <2>4, <2>6, <2>8
  <2>10. QED BY <2>9 DEF K
<1>11. Unheld(t, hold) = Unheld(t, new) \cup OnEdges(t, es)
  <2>1. ASSUME NEW p \in DOMAIN t.slots
        PROVE  p \in Unheld(t, hold) <=> p \in Unheld(t, new) \/ p \in OnEdges(t, es)
    <3>1. p \in Path \ {<<>>} /\ Top(t, p) \in Nodes(t) BY <1>1, TopIs
    <3>2. ~IsPrefix(p, hold[r]) BY <3>1, PrefixOrder
    <3>3. p \in Unheld(t, new) <=> p \in Unheld(t, hold) /\ ~IsPrefix(p, node)
      BY <1>8, <3>2 DEF Unheld
    <3>4. Unheld(t, hold) = OnEdges(t, {e \in Nodes(t) : t.lock[e] = 0}) BY HeldIs
    <3>5. p \in Unheld(t, hold) <=> t.lock[Top(t, p)] = 0 BY <3>1, <3>4 DEF OnEdges
    <3>6. p \in OnEdges(t, es) <=> IsPrefix(Top(t, p), node) /\ t.lock[Top(t, p)] = 0
      BY <3>1 DEF OnEdges, Up
    <3>7. QED BY <1>6, <3>3, <3>5, <3>6
  <2>2. QED BY <2>1 DEF Unheld, OnEdges
<1>12. Unheld(t, new) \cap OnEdges(t, es) = {}
  <2>1. ASSUME NEW p \in OnEdges(t, es) PROVE p \notin Unheld(t, new)
    <3>1. p \in DOMAIN t.slots /\ IsPrefix(Top(t, p), node) BY DEF OnEdges, Up
    <3>2. IsPrefix(p, new[r]) BY <1>6, <1>8, <3>1
    <3>3. QED BY <3>2 DEF Unheld
  <2>2. QED BY <2>1
<1>13. evictable \in Int /\ evictable = Cardinality(Unheld(t, new))
  <2> DEFINE a == Unheld(t, new)  b == OnEdges(t, es)
  <2>1. IsFiniteSet(Unheld(t, hold)) /\ a \in SUBSET Unheld(t, hold) BY <1>11, HeldIs
  <2>2. IsFiniteSet(a) /\ IsFiniteSet(b) /\ a \cap b = {} BY <1>5, <1>12, <2>1, FS_Subset
  <2>3. t.evictable = Cardinality(a \cup b) /\ Size(t, es) = Cardinality(b) BY <1>1, <1>5, <1>11
  <2> HIDE DEF a, b
  <2>4. Cardinality(a \cup b) = Cardinality(a) + Cardinality(b) BY <2>2, DisjointUnion
  <2>5. Cardinality(a) \in Nat /\ Cardinality(b) \in Nat BY <2>2, FS_CardinalityType
  <2>6. evictable = Cardinality(a) BY <2>3, <2>4, <2>5
  <2>7. QED BY <2>5, <2>6 DEF a
<1> HIDE DEF lock, evictable
<1>14. Shape(s) /\ s.slots = t.slots /\ Nodes(s) = Nodes(t) /\ s.lock = lock /\ s.evictable = evictable
  BY <1>1, <1>7, <1>13, RelockedShape
<1> HIDE DEF s
<1>15. Unheld(s, new) = Unheld(t, new) BY <1>14 DEF Unheld
<1>16. TreeInv(s, new) BY <1>9, <1>10, <1>13, <1>14, <1>15 DEF TreeInv
<1>17. QED BY <1>3, <1>14, <1>16 DEF new

\* dec_lock_ref of the node a request holds.
LEMMA DecGood ==
  ASSUME NEW t, NEW hold, TreeInv(t, hold), NEW r \in Req
  PROVE  /\ TreeInv(DecLock(t, hold[r]), [hold EXCEPT ![r] = <<>>])
         /\ DecLock(t, hold[r]).slots = t.slots /\ Nodes(DecLock(t, hold[r])) = Nodes(t)
<1> DEFINE node == hold[r]
           new == [hold EXCEPT ![r] = <<>>]
           es == {e \in Up(t, node) : t.lock[e] = 1}
           lock == [e \in Nodes(t) |-> IF e \in Up(t, node) THEN t.lock[e] - 1 ELSE t.lock[e]]
           evictable == t.evictable + Size(t, es)
           s == Relocked(t, lock, evictable)
<1>1. /\ Shape(t) /\ hold \in [Req -> Nodes(t) \cup {<<>>}]
      /\ \A e \in Nodes(t) : t.lock[e] = Cardinality({q \in Req : IsPrefix(e, hold[q])})
      /\ t.evictable = Cardinality(Unheld(t, hold))
  BY DEF TreeInv
<1>2. /\ t = [slots |-> t.slots, lock |-> t.lock, evictable |-> t.evictable]
      /\ DOMAIN t.slots \subseteq Path \ {<<>>} /\ Nodes(t) \subseteq DOMAIN t.slots
      /\ t.lock \in [Nodes(t) -> Int]
  BY <1>1 DEF Shape
<1>3. DecLock(t, node) = s
  <2>1. DecLock(t, node) = [t EXCEPT !.evictable = t.evictable + Size(t, es), !.lock = lock]
    BY DEF DecLock
  <2> HIDE DEF es, lock
  <2>2. QED BY <1>2, <2>1 DEF Relocked
<1>4. es \in SUBSET Nodes(t) BY DEF Up
<1>5. IsFiniteSet(OnEdges(t, es)) /\ Size(t, es) = Cardinality(OnEdges(t, es)) BY <1>1, <1>4, SizeIs
<1>6. \A p \in DOMAIN t.slots : IsPrefix(p, node) <=> IsPrefix(Top(t, p), node) BY HeldIs
<1>7. lock \in [Nodes(t) -> Int] BY <1>2
<1>8. \A q \in Req : new[q] = IF q = r THEN <<>> ELSE hold[q] BY <1>1
<1>9. new \in [Req -> Nodes(t) \cup {<<>>}] BY <1>1
<1> HIDE DEF new, node
<1>10. ASSUME NEW e \in Nodes(t)
       PROVE  LET H == {q \in Req : IsPrefix(e, hold[q])}
                  K == {q \in Req : IsPrefix(e, new[q])}
              IN  /\ t.lock[e] = Cardinality(H) /\ IsFiniteSet(H) /\ IsFiniteSet(K)
                  /\ K = H \ {r} /\ (r \in H <=> IsPrefix(e, node))
  <2> DEFINE H == {q \in Req : IsPrefix(e, hold[q])}
             K == {q \in Req : IsPrefix(e, new[q])}
  <2>1. H \in SUBSET Req /\ K \in SUBSET Req /\ t.lock[e] = Cardinality(H) BY <1>1
  <2>2. e \in Path \ {<<>>} BY <1>2
  <2>3. ~IsPrefix(e, <<>>) BY <2>2, PrefixOrder
  <2>4. K = H \ {r} /\ (r \in H <=> IsPrefix(e, node)) BY <1>8, <2>3 DEF node
  <2>5. IsFiniteSet(H) /\ IsFiniteSet(K) BY <2>1, ReqFinite
  <2>6. QED BY <2>1, <2>4, <2>5
<1>11. \A e \in Nodes(t) : lock[e] = Cardinality({q \in Req : IsPrefix(e, new[q])})
  <2> SUFFICES ASSUME NEW e \in Nodes(t) PROVE lock[e] = Cardinality({q \in Req : IsPrefix(e, new[q])})
    OBVIOUS
  <2> DEFINE H == {q \in Req : IsPrefix(e, hold[q])}
             K == {q \in Req : IsPrefix(e, new[q])}
  <2>1. t.lock[e] = Cardinality(H) /\ IsFiniteSet(H) /\ K = H \ {r} /\ (r \in H <=> IsPrefix(e, node))
    BY <1>10
  <2>2. e \in Up(t, node) <=> IsPrefix(e, node) BY DEF Up
  <2>3. lock[e] = IF r \in H THEN t.lock[e] - 1 ELSE t.lock[e] BY <2>1, <2>2
  <2> HIDE DEF H, K, lock
  <2>4. Cardinality(H \ {r}) = IF r \in H THEN Cardinality(H) - 1 ELSE Cardinality(H)
    BY <2>1, FS_RemoveElement
  <2>5. lock[e] = Cardinality(K) BY <2>1, <2>3, <2>4
  <2>6. QED BY <2>5 DEF K
<1>12. ASSUME NEW p \in DOMAIN t.slots
       PROVE  /\ p \in OnEdges(t, es) <=> p \notin Unheld(t, hold) /\ p \in Unheld(t, new)
              /\ p \in Unheld(t, hold) => p \in Unheld(t, new)
  <2> DEFINE e == Top(t, p)
             H == {q \in Req : IsPrefix(e, hold[q])}
             K == {q \in Req : IsPrefix(e, new[q])}
  <2>1. e \in Nodes(t) /\ p \in Path \ {<<>>} /\ e \in Path \ {<<>>} BY <1>1, TopIs
  <2>2. t.lock[e] = Cardinality(H) /\ IsFiniteSet(H) /\ K = H \ {r} /\ (r \in H <=> IsPrefix(e, node))
    BY <1>10, <2>1
  <2>3. \A q \in Req : IsPrefix(p, hold[q]) <=> IsPrefix(e, hold[q]) BY HeldIs
  <2>4. ~IsPrefix(p, <<>>) /\ ~IsPrefix(e, <<>>) BY <2>1, PrefixOrder
  <2>5. \A q \in Req : IsPrefix(p, new[q]) <=> IsPrefix(e, new[q]) BY <1>8, <2>3, <2>4
  <2>6. p \in Unheld(t, hold) <=> H = {} BY <2>3 DEF Unheld
  <2>7. p \in Unheld(t, new) <=> K = {} BY <2>5 DEF Unheld
  <2>8. p \in OnEdges(t, es) <=> IsPrefix(e, node) /\ t.lock[e] = 1 BY <2>1 DEF OnEdges, Up
  <2> HIDE DEF H, K, e
  <2>9. Cardinality(H) = 1 <=> \E x : H = {x} BY <2>2, FS_Singleton
  <2>10. QED BY <2>2, <2>6, <2>7, <2>8, <2>9
<1>13. Unheld(t, new) = Unheld(t, hold) \cup OnEdges(t, es) /\ Unheld(t, hold) \cap OnEdges(t, es) = {}
  BY <1>12 DEF Unheld, OnEdges
<1>14. evictable \in Int /\ evictable = Cardinality(Unheld(t, new))
  <2> DEFINE a == Unheld(t, hold)  b == OnEdges(t, es)
  <2>1. IsFiniteSet(a) /\ IsFiniteSet(b) /\ a \cap b = {} BY <1>5, <1>13, HeldIs
  <2>2. t.evictable = Cardinality(a) /\ Size(t, es) = Cardinality(b) BY <1>1, <1>5
  <2>3. Unheld(t, new) = a \cup b BY <1>13
  <2> HIDE DEF a, b
  <2>4. Cardinality(a \cup b) = Cardinality(a) + Cardinality(b) BY <2>1, DisjointUnion
  <2>5. Cardinality(a) \in Nat /\ Cardinality(b) \in Nat BY <2>1, FS_CardinalityType
  <2>6. QED BY <2>2, <2>3, <2>4, <2>5
<1> HIDE DEF lock, evictable
<1>15. Shape(s) /\ s.slots = t.slots /\ Nodes(s) = Nodes(t) /\ s.lock = lock /\ s.evictable = evictable
  BY <1>1, <1>7, <1>14, RelockedShape
<1> HIDE DEF s
<1>16. Unheld(s, new) = Unheld(t, new) BY <1>15 DEF Unheld
<1>17. TreeInv(s, new) BY <1>9, <1>11, <1>14, <1>15, <1>16 DEF TreeInv
<1>18. QED BY <1>3, <1>15, <1>17 DEF new, node

\* One turn of evict: an unlocked leaf goes, with the edge above it.
LEMMA EvictGood ==
  ASSUME NEW t, NEW hold, TreeInv(t, hold), NEW e \in Nodes(t), t.lock[e] = 0,
         \A d \in Nodes(t) \ {e} : ~IsPrefix(e, d)
  PROVE  LET gone == Longer(e, Len(e) - Edge(t, e))
             s == [slots |-> Restrict(t.slots, DOMAIN t.slots \ gone),
                   lock |-> Restrict(t.lock, Nodes(t) \ {e}),
                   evictable |-> t.evictable - Edge(t, e)]
         IN  /\ TreeInv(s, hold) /\ gone \subseteq Unheld(t, hold)
             /\ IsFiniteSet(gone) /\ Cardinality(gone) = Edge(t, e) /\ Edge(t, e) \in Nat
             /\ DOMAIN s.slots = DOMAIN t.slots \ gone
             /\ \A p \in DOMAIN s.slots : s.slots[p] = t.slots[p]
<1> DEFINE gone == Longer(e, Len(e) - Edge(t, e))
           s == [slots |-> Restrict(t.slots, DOMAIN t.slots \ gone),
                 lock |-> Restrict(t.lock, Nodes(t) \ {e}),
                 evictable |-> t.evictable - Edge(t, e)]
<1>1. /\ Shape(t) /\ hold \in [Req -> Nodes(t) \cup {<<>>}]
      /\ \A d \in Nodes(t) : t.lock[d] = Cardinality({q \in Req : IsPrefix(d, hold[q])})
      /\ t.evictable = Cardinality(Unheld(t, hold))
  BY DEF TreeInv
<1>2. /\ DOMAIN t.slots \subseteq Path \ {<<>>} /\ Nodes(t) \subseteq DOMAIN t.slots
      /\ IsFiniteSet(DOMAIN t.slots) /\ t.slots \in [DOMAIN t.slots -> Slots]
      /\ t.lock \in [Nodes(t) -> Int]
      /\ \A p \in DOMAIN t.slots : \A i \in 1 .. Len(p) : Take(p, i) \in DOMAIN t.slots
  BY <1>1 DEF Shape
<1>3. e \in Path /\ Len(e) \in Nat BY <1>2 DEF Path
<1>4. /\ Edge(t, e) \in 1 .. Len(e) /\ OnEdges(t, {e}) = gone
      /\ IsFiniteSet(gone) /\ Cardinality(gone) = Edge(t, e)
  BY <1>1, EdgeIs
<1>5. /\ s.slots = Restrict(t.slots, DOMAIN t.slots \ gone) /\ s.lock = Restrict(t.lock, Nodes(t) \ {e})
      /\ s.evictable = t.evictable - Edge(t, e)
      /\ s = [slots |-> s.slots, lock |-> s.lock, evictable |-> s.evictable]
  OBVIOUS
<1> HIDE DEF gone, s
<1>6. /\ DOMAIN s.slots = DOMAIN t.slots \ gone /\ \A p \in DOMAIN s.slots : s.slots[p] = t.slots[p]
      /\ Nodes(s) = Nodes(t) \ {e} /\ \A d \in Nodes(s) : s.lock[d] = t.lock[d]
  BY <1>5 DEF Restrict, Nodes
<1>7. s.slots \in [DOMAIN s.slots -> Slots] /\ s.lock \in [Nodes(s) -> Int]
  BY <1>2, <1>5, <1>6 DEF Restrict
<1>8. \A p \in gone : p \in DOMAIN t.slots /\ Top(t, p) = e BY <1>4 DEF OnEdges
<1>9. \A p \in DOMAIN t.slots : Top(t, p) = e => p \in gone BY <1>4 DEF OnEdges
<1>10. \A r \in Req : ~IsPrefix(e, hold[r]) BY HeldIs
<1>11. gone \subseteq Unheld(t, hold)
  <2>1. ASSUME NEW p \in gone, NEW r \in Req PROVE ~IsPrefix(p, hold[r])
    <3>1. p \in DOMAIN t.slots /\ Top(t, p) = e BY <1>8
    <3>2. IsPrefix(p, hold[r]) <=> IsPrefix(Top(t, p), hold[r]) BY <3>1, HeldIs
    <3>3. QED BY <1>10, <3>1, <3>2
  <2>2. QED BY <1>8, <2>1 DEF Unheld
<1>12. ASSUME NEW p \in DOMAIN s.slots, NEW i \in 1 .. Len(p) PROVE Take(p, i) \in DOMAIN s.slots
  <2> DEFINE q == Take(p, i)  o == Top(t, p)
  <2>1. p \in DOMAIN t.slots /\ p \in Path /\ p \notin gone BY <1>2, <1>6
  <2>2. q \in DOMAIN t.slots /\ q \in Path BY <1>2, <2>1
  <2>3. IsPrefix(q, p)
    <3>1. i \in 0 .. Len(p) BY <2>1 DEF Path
    <3>2. QED BY <2>1, <3>1, TakeIs
  <2>4. o \in Nodes(t) /\ o \in Path /\ IsPrefix(p, o) BY <1>1, <2>1, TopIs
  <2>5. o # e BY <1>9, <2>1
  <2> HIDE DEF q, o
  <2>6. IsPrefix(q, o) BY <2>1, <2>2, <2>3, <2>4, PrefixOrder
  <2>7. Top(t, q) = e => IsPrefix(e, o) BY <1>1, <2>2, <2>4, <2>6, TopIs
  <2>8. Top(t, q) # e BY <2>4, <2>5, <2>7
  <2>9. q \notin gone BY <1>8, <2>8
  <2>10. QED BY <1>6, <2>2, <2>9 DEF q
<1>13. Nodes(s) \subseteq DOMAIN s.slots
  <2> SUFFICES ASSUME NEW d \in Nodes(s) PROVE d \in DOMAIN s.slots OBVIOUS
  <2>1. d \in Nodes(t) /\ d # e /\ d \in DOMAIN t.slots /\ d \in Path BY <1>2, <1>6
  <2>2. IsPrefix(d, d) BY <2>1, PrefixOrder
  <2>3. IsTop(t, d, d) BY <2>2 DEF IsTop
  <2>4. Top(t, d) = d BY <1>1, <2>1, <2>3, TopIs
  <2>5. QED BY <1>6, <1>8, <2>1, <2>4
<1>14. ASSUME NEW p \in DOMAIN s.slots PROVE \E d \in Nodes(s) : IsTop(s, p, d)
  <2> DEFINE o == Top(t, p)
  <2>1. p \in DOMAIN t.slots /\ p \notin gone BY <1>6
  <2>2. o \in Nodes(t) /\ IsPrefix(p, o) /\ \A d \in Nodes(t) : IsPrefix(p, d) => IsPrefix(o, d)
    BY <1>1, <2>1, TopIs
  <2>3. o # e BY <1>9, <2>1
  <2> HIDE DEF o
  <2>4. IsTop(s, p, o) BY <1>6, <2>2 DEF IsTop
  <2>5. QED BY <1>6, <2>2, <2>3, <2>4
<1>15. Shape(s)
  <2>1. DOMAIN s.slots \subseteq Path \ {<<>>} /\ IsFiniteSet(DOMAIN s.slots)
    <3>1. DOMAIN s.slots \in SUBSET DOMAIN t.slots BY <1>6
    <3>2. QED BY <1>2, <3>1, FS_Subset
  <2>2. s.evictable \in Int
    <3>1. t.evictable \in Nat BY HeldIs
    <3>2. QED BY <1>3, <1>4, <1>5, <3>1
  <2>3. QED BY <1>5, <1>7, <1>12, <1>13, <1>14, <2>1, <2>2 DEF Shape
<1>16. hold \in [Req -> Nodes(s) \cup {<<>>}]
  <2>1. IsPrefix(e, e) BY <1>3, PrefixOrder
  <2>2. \A r \in Req : hold[r] # e BY <1>10, <2>1
  <2>3. QED BY <1>1, <1>6, <2>2
<1>17. \A d \in Nodes(s) : s.lock[d] = Cardinality({q \in Req : IsPrefix(d, hold[q])}) BY <1>1, <1>6
<1>18. s.evictable = Cardinality(Unheld(s, hold))
  <2> DEFINE u == Unheld(t, hold)  v == Unheld(s, hold)
  <2>1. v = u \ gone BY <1>6 DEF Unheld
  <2>2. IsFiniteSet(u) /\ t.evictable = Cardinality(u) BY <1>1, HeldIs
  <2>3. u = v \cup gone /\ v \cap gone = {} BY <1>11, <2>1
  <2>4. v \in SUBSET u BY <2>1
  <2> HIDE DEF u, v
  <2>5. IsFiniteSet(v) BY <2>2, <2>4, FS_Subset
  <2>6. Cardinality(u) = Cardinality(v) + Cardinality(gone) BY <1>4, <2>3, <2>5, DisjointUnion
  <2>7. Cardinality(v) \in Nat /\ Cardinality(gone) \in Nat BY <1>4, <2>5, FS_CardinalityType
  <2>8. s.evictable = Cardinality(v) BY <1>4, <1>5, <2>2, <2>6, <2>7
  <2>9. QED BY <2>8 DEF v
<1>19. TreeInv(s, hold) BY <1>15, <1>16, <1>17, <1>18 DEF TreeInv
<1>20. Edge(t, e) \in Nat BY <1>3, <1>4
<1>21. QED BY <1>4, <1>6, <1>11, <1>19, <1>20 DEF gone, s

\* match_prefix of what is in the tree finds it.
LEMMA MatchWhole ==
  ASSUME NEW t, Shape(t), NEW key \in Nodes(t) \cup {<<>>}
  PROVE  MatchPrefix(t, key) = [tree |-> t, node |-> key, slots |-> SlotsOf(t, key)]
<1>1. DOMAIN t.slots \subseteq Path \ {<<>>} /\ Nodes(t) \subseteq DOMAIN t.slots BY DEF Shape
<1>2. key \in Path /\ Len(key) \in Nat
  <2>1. <<>> \in Path BY DEF Path
  <2>2. key \in Path BY <1>1, <2>1
  <2>3. QED BY <2>2 DEF Path
<1>3. Matched(t, key) \in 0 .. Len(key)
      /\ \A i \in 1 .. Len(key) : Take(key, i) \in DOMAIN t.slots <=> i <= Matched(t, key)
  BY <1>2, MatchedIs
<1>4. Take(key, Len(key)) = key BY <1>2, TakeIs
<1>5. Matched(t, key) = Len(key)
  <2>1. CASE key = <<>> BY <1>3, <2>1
  <2>2. CASE key # <<>>
    <3>1. key \in DOMAIN t.slots BY <1>1, <2>2
    <3>2. Len(key) \in 1 .. Len(key) BY <1>2, <2>2 DEF Path
    <3>3. Len(key) <= Matched(t, key) BY <1>3, <1>4, <3>1, <3>2
    <3>4. QED BY <1>2, <1>3, <3>3
  <2>3. QED BY <2>1, <2>2
<1>6. Split(t, key) = t BY DEF Split
<1>7. QED BY <1>4, <1>5, <1>6 DEF MatchPrefix

\* match_prefix of any key: the node where it ends is made if need be.
LEMMA MatchGood ==
  ASSUME NEW t, NEW hold, TreeInv(t, hold), NEW key \in Path
  PROVE  LET m == MatchPrefix(t, key)
         IN  /\ TreeInv(m.tree, hold) /\ m.tree.slots = t.slots /\ m.tree.evictable = t.evictable
             /\ m.node \in Nodes(m.tree) \cup {<<>>} /\ m.node \in Path /\ IsPrefix(m.node, key)
             /\ m.slots = SlotsOf(m.tree, m.node)
<1> DEFINE path == Take(key, Matched(t, key))
<1>1. Shape(t) BY DEF TreeInv
<1>2. Matched(t, key) \in 0 .. Len(key) /\ path \in DOMAIN t.slots \cup {<<>>} BY <1>1, MatchedIs
<1>3. path \in Path /\ IsPrefix(path, key) BY <1>2, TakeIs
<1>4. MatchPrefix(t, key) = [tree |-> Split(t, path), node |-> path, slots |-> SlotsOf(t, path)]
  BY DEF MatchPrefix
<1> HIDE DEF path
<1>5. /\ TreeInv(Split(t, path), hold) /\ Split(t, path).slots = t.slots
      /\ Split(t, path).evictable = t.evictable /\ Nodes(Split(t, path)) = Nodes(t) \cup ({path} \ {<<>>})
  BY <1>2, SplitGood
<1>6. SlotsOf(Split(t, path), path) = SlotsOf(t, path) BY <1>5 DEF SlotsOf
<1>7. QED BY <1>3, <1>4, <1>5, <1>6

-----------------------------------------------------------------------------
(***************************************************************************)
(* The owners of the KV slots: the free list, a path of the tree, or the   *)
(* uncached part own[r] of the row of request r.                           *)
(***************************************************************************)
Owned(t, fr, own) ==
  /\ fr \in [Slots -> 0 .. 1] /\ own \in [Req -> SUBSET Slots]
  /\ \A p, o \in DOMAIN t.slots : t.slots[p] = t.slots[o] => p = o
  /\ \A q, r \in Req : q # r => own[q] \cap own[r] = {}
  /\ \A r \in Req : \A p \in DOMAIN t.slots : t.slots[p] \notin own[r]
  /\ \A s \in Slots : fr[s] = 1 <=> /\ \A p \in DOMAIN t.slots : t.slots[p] # s
                                    /\ \A r \in Req : s \notin own[r]

Freed(fr, released) == [s \in Slots |-> IF s \in released THEN fr[s] + 1 ELSE fr[s]]
Forgotten(ct, released) == [s \in Slots |-> IF s \in released THEN <<>> ELSE ct[s]]

\* A request gives slots of its own back.
LEMMA ReleasedOwners ==
  ASSUME NEW t, NEW fr, NEW own, Owned(t, fr, own), NEW r \in Req, NEW X \in SUBSET own[r]
  PROVE  Owned(t, Freed(fr, X), [own EXCEPT ![r] = own[r] \ X])
<1> DEFINE new == [own EXCEPT ![r] = own[r] \ X]
           f == Freed(fr, X)
<1>1. /\ fr \in [Slots -> 0 .. 1] /\ own \in [Req -> SUBSET Slots]
      /\ \A p, o \in DOMAIN t.slots : t.slots[p] = t.slots[o] => p = o
      /\ \A q, u \in Req : q # u => own[q] \cap own[u] = {}
      /\ \A q \in Req : \A p \in DOMAIN t.slots : t.slots[p] \notin own[q]
  BY DEF Owned
<1>2. \A s \in Slots : fr[s] = 1 <=> /\ \A p \in DOMAIN t.slots : t.slots[p] # s
                                     /\ \A q \in Req : s \notin own[q]
  BY DEF Owned
<1>3. new \in [Req -> SUBSET Slots] /\ \A q \in Req : new[q] = IF q = r THEN own[r] \ X ELSE own[q]
  BY <1>1
<1>4. \A s \in Slots : f[s] = IF s \in X THEN fr[s] + 1 ELSE fr[s] BY DEF Freed
<1>5. \A s \in X : s \in Slots /\ fr[s] = 0
  <2> SUFFICES ASSUME NEW s \in X PROVE s \in Slots /\ fr[s] = 0 OBVIOUS
  <2>1. s \in own[r] /\ s \in Slots BY <1>1
  <2>2. fr[s] # 1 /\ fr[s] \in 0 .. 1 BY <1>1, <1>2, <2>1
  <2>3. QED BY <2>1, <2>2
<1> HIDE DEF new
<1>6. f \in [Slots -> 0 .. 1]
  <2>1. \A s \in Slots : fr[s] \in 0 .. 1 BY <1>1
  <2>2. \A s \in Slots : (IF s \in X THEN fr[s] + 1 ELSE fr[s]) \in 0 .. 1 BY <1>5, <2>1
  <2>3. QED BY <2>2 DEF Freed
<1> HIDE DEF f
<1>7. \A q, u \in Req : q # u => new[q] \cap new[u] = {} BY <1>1, <1>3
<1>8. \A q \in Req : \A p \in DOMAIN t.slots : t.slots[p] \notin new[q] BY <1>1, <1>3
<1>9. ASSUME NEW s \in Slots
      PROVE  f[s] = 1 <=> (\A p \in DOMAIN t.slots : t.slots[p] # s) /\ (\A q \in Req : s \notin new[q])
  <2>1. CASE s \in X
    <3>1. f[s] = 1 BY <1>4, <1>5, <2>1
    <3>2. s \in own[r] BY <2>1
    <3>3. \A p \in DOMAIN t.slots : t.slots[p] # s BY <1>1, <3>2
    <3>4. \A q \in Req : s \notin new[q] BY <1>1, <1>3, <2>1, <3>2
    <3>5. QED BY <3>1, <3>3, <3>4
  <2>2. CASE s \notin X
    <3>1. f[s] = fr[s] BY <1>4, <2>2
    <3>2. (\A q \in Req : s \notin new[q]) <=> (\A q \in Req : s \notin own[q]) BY <1>3, <2>2
    <3>3. QED BY <1>2, <3>1, <3>2
  <2>3. QED BY <2>1, <2>2
<1>10. QED BY <1>1, <1>3, <1>6, <1>7, <1>8, <1>9 DEF Owned, new, f

\* A request hands slots of its own over to the tree.
LEMMA InsertedOwners ==
  ASSUME NEW t, NEW fr, NEW own, Owned(t, fr, own), NEW r \in Req, NEW i, NEW new,
         DOMAIN i.slots = DOMAIN t.slots \cup new, DOMAIN t.slots \cap new = {},
         \A p \in DOMAIN t.slots : i.slots[p] = t.slots[p],
         \A p \in new : i.slots[p] \in own[r],
         \A p, o \in new : i.slots[p] = i.slots[o] => p = o
  PROVE  Owned(i, fr, [own EXCEPT ![r] = own[r] \ {i.slots[p] : p \in new}])
<1> DEFINE Y == {i.slots[p] : p \in new}
           o2 == [own EXCEPT ![r] = own[r] \ Y]
<1>1. /\ fr \in [Slots -> 0 .. 1] /\ own \in [Req -> SUBSET Slots]
      /\ \A p, o \in DOMAIN t.slots : t.slots[p] = t.slots[o] => p = o
      /\ \A q, u \in Req : q # u => own[q] \cap own[u] = {}
      /\ \A q \in Req : \A p \in DOMAIN t.slots : t.slots[p] \notin own[q]
  BY DEF Owned
<1>2. \A s \in Slots : fr[s] = 1 <=> /\ \A p \in DOMAIN t.slots : t.slots[p] # s
                                     /\ \A q \in Req : s \notin own[q]
  BY DEF Owned
<1>3. o2 \in [Req -> SUBSET Slots] /\ \A q \in Req : o2[q] = IF q = r THEN own[r] \ Y ELSE own[q]
  BY <1>1
<1>4. Y \subseteq own[r] /\ \A p \in new : i.slots[p] \in Y OBVIOUS
<1>5. \A s : (\E p \in new : i.slots[p] = s) <=> s \in Y OBVIOUS
<1> HIDE DEF o2, Y
<1>6. ASSUME NEW p \in DOMAIN i.slots, NEW o \in DOMAIN i.slots, i.slots[p] = i.slots[o] PROVE p = o
  <2>1. CASE p \in new /\ o \in new BY <1>6, <2>1
  <2>2. CASE p \in DOMAIN t.slots /\ o \in DOMAIN t.slots BY <1>1, <1>6, <2>2
  <2>3. \A u \in DOMAIN t.slots : \A v \in new : i.slots[u] # i.slots[v] BY <1>1
  <2>4. QED BY <1>6, <2>1, <2>2, <2>3
<1>7. \A q, u \in Req : q # u => o2[q] \cap o2[u] = {} BY <1>1, <1>3
<1>8. ASSUME NEW q \in Req, NEW p \in DOMAIN i.slots PROVE i.slots[p] \notin o2[q]
  <2>1. CASE p \in DOMAIN t.slots BY <1>1, <1>3, <2>1
  <2>2. CASE p \in new BY <1>1, <1>3, <1>4, <2>2
  <2>3. QED BY <2>1, <2>2
<1>9. ASSUME NEW s \in Slots
      PROVE  fr[s] = 1 <=> (\A p \in DOMAIN i.slots : i.slots[p] # s) /\ (\A q \in Req : s \notin o2[q])
  <2>1. CASE s \in Y
    <3>1. s \in own[r] BY <1>4, <2>1
    <3>2. fr[s] # 1 BY <1>2, <3>1
    <3>3. \E p \in new : i.slots[p] = s BY <1>5, <2>1
    <3>4. QED BY <3>2, <3>3
  <2>2. CASE s \notin Y
    <3>1. (\A q \in Req : s \notin o2[q]) <=> (\A q \in Req : s \notin own[q]) BY <1>3, <2>2
    <3>2. (\A p \in DOMAIN i.slots : i.slots[p] # s) <=> (\A p \in DOMAIN t.slots : t.slots[p] # s)
      BY <1>5, <2>2
    <3>3. QED BY <1>2, <3>1, <3>2
  <2>3. QED BY <2>1, <2>2
<1>10. Owned(i, fr, o2) BY <1>1, <1>3, <1>6, <1>7, <1>8, <1>9 DEF Owned
<1>11. QED BY <1>10 DEF o2, Y

\* The tree gives slots back.
LEMMA EvictedOwners ==
  ASSUME NEW t, NEW fr, NEW own, Owned(t, fr, own), t.slots \in [DOMAIN t.slots -> Slots],
         NEW i, NEW gone \in SUBSET DOMAIN t.slots,
         DOMAIN i.slots = DOMAIN t.slots \ gone, \A p \in DOMAIN i.slots : i.slots[p] = t.slots[p]
  PROVE  Owned(i, Freed(fr, {t.slots[p] : p \in gone}), own)
<1> DEFINE X == {t.slots[p] : p \in gone}
           f == Freed(fr, X)
<1>1. /\ fr \in [Slots -> 0 .. 1] /\ own \in [Req -> SUBSET Slots]
      /\ \A p, o \in DOMAIN t.slots : t.slots[p] = t.slots[o] => p = o
      /\ \A q, u \in Req : q # u => own[q] \cap own[u] = {}
      /\ \A q \in Req : \A p \in DOMAIN t.slots : t.slots[p] \notin own[q]
  BY DEF Owned
<1>2. \A s \in Slots : fr[s] = 1 <=> /\ \A p \in DOMAIN t.slots : t.slots[p] # s
                                     /\ \A q \in Req : s \notin own[q]
  BY DEF Owned
<1>3. \A s \in Slots : f[s] = IF s \in X THEN fr[s] + 1 ELSE fr[s] BY DEF Freed
<1>4. \A s \in X : \E p \in gone : t.slots[p] = s OBVIOUS
<1>5. \A p \in gone : t.slots[p] \in X OBVIOUS
<1> HIDE DEF X
<1>6. \A s \in X : s \in Slots /\ fr[s] = 0
  <2> SUFFICES ASSUME NEW s \in X PROVE s \in Slots /\ fr[s] = 0 OBVIOUS
  <2>1. PICK p \in gone : t.slots[p] = s BY <1>4
  <2>2. p \in DOMAIN t.slots /\ s \in Slots BY <2>1
  <2>3. fr[s] # 1 /\ fr[s] \in 0 .. 1 BY <1>1, <1>2, <2>1, <2>2
  <2>4. QED BY <2>2, <2>3
<1>7. f \in [Slots -> 0 .. 1]
  <2>1. \A s \in Slots : fr[s] \in 0 .. 1 BY <1>1
  <2>2. \A s \in Slots : (IF s \in X THEN fr[s] + 1 ELSE fr[s]) \in 0 .. 1 BY <1>6, <2>1
  <2>3. QED BY <2>2 DEF Freed
<1> HIDE DEF f
<1>8. ASSUME NEW s \in Slots
      PROVE  f[s] = 1 <=> (\A p \in DOMAIN i.slots : i.slots[p] # s) /\ (\A q \in Req : s \notin own[q])
  <2>1. CASE s \in X
    <3>1. PICK p \in gone : t.slots[p] = s BY <1>4, <2>1
    <3>2. f[s] = 1 BY <1>3, <1>6, <2>1
    <3>3. \A q \in Req : s \notin own[q] BY <1>1, <3>1
    <3>4. \A o \in DOMAIN i.slots : i.slots[o] # s
      <4> SUFFICES ASSUME NEW o \in DOMAIN i.slots, i.slots[o] = s PROVE FALSE OBVIOUS
      <4>1. o \in DOMAIN t.slots /\ o \notin gone /\ t.slots[o] = s OBVIOUS
      <4>2. o = p BY <1>1, <3>1, <4>1
      <4>3. QED BY <4>1, <4>2
    <3>5. QED BY <3>2, <3>3, <3>4
  <2>2. CASE s \notin X
    <3>1. f[s] = fr[s] BY <1>3, <2>2
    <3>2. (\A p \in DOMAIN i.slots : i.slots[p] # s) <=> (\A p \in DOMAIN t.slots : t.slots[p] # s)
      BY <1>5, <2>2
    <3>3. QED BY <1>2, <3>1, <3>2
  <2>3. QED BY <2>1, <2>2
<1>9. \A p, o \in DOMAIN i.slots : i.slots[p] = i.slots[o] => p = o BY <1>1
<1>10. \A q \in Req : \A p \in DOMAIN i.slots : i.slots[p] \notin own[q] BY <1>1
<1>11. Owned(i, f, own) BY <1>1, <1>7, <1>8, <1>9, <1>10 DEF Owned
<1>12. QED BY <1>11 DEF X, f

\* Free slots are taken: each request r gets those of more[r].
LEMMA TakenOwners ==
  ASSUME NEW t, NEW fr, NEW own, Owned(t, fr, own), NEW more \in [Req -> SUBSET Slots], NEW got,
         \A s : s \in got <=> \E r \in Req : s \in more[r],
         \A s \in got : fr[s] > 0, \A q, r \in Req : q # r => more[q] \cap more[r] = {}
  PROVE  Owned(t, [s \in Slots |-> IF s \in got THEN fr[s] - 1 ELSE fr[s]],
               [r \in Req |-> own[r] \cup more[r]])
<1> DEFINE f == [s \in Slots |-> IF s \in got THEN fr[s] - 1 ELSE fr[s]]
           new == [r \in Req |-> own[r] \cup more[r]]
<1>1. /\ fr \in [Slots -> 0 .. 1] /\ own \in [Req -> SUBSET Slots]
      /\ \A p, o \in DOMAIN t.slots : t.slots[p] = t.slots[o] => p = o
      /\ \A q, u \in Req : q # u => own[q] \cap own[u] = {}
      /\ \A q \in Req : \A p \in DOMAIN t.slots : t.slots[p] \notin own[q]
  BY DEF Owned
<1>2. \A s \in Slots : fr[s] = 1 <=> /\ \A p \in DOMAIN t.slots : t.slots[p] # s
                                     /\ \A q \in Req : s \notin own[q]
  BY DEF Owned
<1>3. \A s \in Slots : f[s] = IF s \in got THEN fr[s] - 1 ELSE fr[s] OBVIOUS
<1>4. \A s \in got : s \in Slots /\ fr[s] = 1
  <2> SUFFICES ASSUME NEW s \in got PROVE s \in Slots /\ fr[s] = 1 OBVIOUS
  <2>1. s \in Slots OBVIOUS
  <2>2. fr[s] \in 0 .. 1 /\ fr[s] > 0 BY <1>1, <2>1
  <2>3. QED BY <2>1, <2>2
<1>5. f \in [Slots -> 0 .. 1]
  <2>1. \A s \in Slots : fr[s] \in 0 .. 1 BY <1>1
  <2>2. \A s \in Slots : (IF s \in got THEN fr[s] - 1 ELSE fr[s]) \in 0 .. 1 BY <1>4, <2>1
  <2>3. QED BY <2>2
<1>6. new \in [Req -> SUBSET Slots] /\ \A r \in Req : new[r] = own[r] \cup more[r] BY <1>1
<1> HIDE DEF f, new
<1>7. \A r \in Req : \A s \in more[r] : s \in Slots /\ (\A p \in DOMAIN t.slots : t.slots[p] # s)
                                        /\ \A q \in Req : s \notin own[q]
  <2>1. \A r \in Req : \A s \in more[r] : s \in got OBVIOUS
  <2>2. QED BY <1>2, <1>4, <2>1
<1>8. \A q, u \in Req : q # u => new[q] \cap new[u] = {} BY <1>1, <1>6, <1>7
<1>9. \A q \in Req : \A p \in DOMAIN t.slots : t.slots[p] \notin new[q] BY <1>1, <1>6, <1>7
<1>10. ASSUME NEW s \in Slots
       PROVE  f[s] = 1 <=> (\A p \in DOMAIN t.slots : t.slots[p] # s) /\ (\A q \in Req : s \notin new[q])
  <2>1. CASE s \in got
    <3>1. f[s] = 0 BY <1>3, <1>4, <2>1
    <3>2. \E r \in Req : s \in new[r] BY <1>6, <2>1
    <3>3. QED BY <3>1, <3>2
  <2>2. CASE s \notin got
    <3>1. f[s] = fr[s] BY <1>3, <2>2
    <3>2. (\A q \in Req : s \notin new[q]) <=> (\A q \in Req : s \notin own[q]) BY <1>6, <2>2
    <3>3. QED BY <1>2, <3>1, <3>2
  <2>3. QED BY <2>1, <2>2
<1>11. Owned(t, f, new) BY <1>1, <1>5, <1>6, <1>8, <1>9, <1>10 DEF Owned
<1>12. QED BY <1>11 DEF f, new

\* As many as are given back.
LEMMA FreedCount ==
  ASSUME NEW fr \in [Slots -> 0 .. 1], NEW X \in SUBSET Slots, \A s \in X : fr[s] = 0
  PROVE  /\ SumFunctionOnSet(Freed(fr, X), Slots) = SumFunctionOnSet(fr, Slots) + Cardinality(X)
         /\ SumFunctionOnSet(fr, Slots) \in Nat /\ Cardinality(X) \in Nat /\ IsFiniteSet(X)
<1> DEFINE S == {s \in Slots : fr[s] = 1}
           f == Freed(fr, X)
<1>1. IsFiniteSet(Slots) BY SizeAssumption
<1>2. S \in SUBSET Slots OBVIOUS
<1>3. IsFiniteSet(S) /\ IsFiniteSet(X) /\ Cardinality(S) \in Nat /\ Cardinality(X) \in Nat
  BY <1>1, <1>2, FS_Subset, FS_CardinalityType
<1>4. SumFunctionOnSet(fr, Slots) = Cardinality(S) BY <1>1, SumOfBits
<1>5. \A s \in Slots : f[s] = IF s \in X THEN fr[s] + 1 ELSE fr[s] BY DEF Freed
<1>6. f \in [Slots -> 0 .. 1]
  <2>1. \A s \in Slots : fr[s] \in 0 .. 1 OBVIOUS
  <2>2. \A s \in Slots : (IF s \in X THEN fr[s] + 1 ELSE fr[s]) \in 0 .. 1 BY <2>1
  <2>3. QED BY <2>2 DEF Freed
<1> HIDE DEF f
<1>7. SumFunctionOnSet(f, Slots) = Cardinality({s \in Slots : f[s] = 1}) BY <1>1, <1>6, SumOfBits
<1>8. {s \in Slots : f[s] = 1} = S \cup X
  <2>1. \A s \in Slots : f[s] = 1 <=> s \in X \/ fr[s] = 1 BY <1>5
  <2>2. QED BY <2>1
<1>9. S \cap X = {} OBVIOUS
<1> HIDE DEF S
<1>10. Cardinality(S \cup X) = Cardinality(S) + Cardinality(X) BY <1>3, <1>9, DisjointUnion
<1>11. QED BY <1>3, <1>4, <1>7, <1>8, <1>10 DEF f

-----------------------------------------------------------------------------
(***************************************************************************)
(* The requests.  A request that holds a node has been admitted to the     *)
(* prefill batch and waits for its forward pass, or is due a result of     *)
(* the forward pass "extend" or "decode", or is idle until the next batch. *)
(***************************************************************************)
Stages == {"admitted", "extend", "decode", "idle"}

ReqType == [status : {"waiting", "chunked", "running", "done"}, ids : Path, fill : Nat,
            row : Seq(Slots), prefix : Seq(Slots), node : Path]

Holding(q) == q.status \in {"chunked", "running"}
PrivateOf(q) == Range(SubSeq(q.row, Len(q.prefix) + 1, Len(q.row)))
HoldOf(rq) == [r \in Req |-> IF Holding(rq[r]) THEN rq[r].node ELSE <<>>]
OwnOf(rq) == [r \in Req |-> PrivateOf(rq[r])]

\* How many of its tokens have a slot in its row.
RowLen(q, stage) == IF ~Holding(q) \/ stage = "admitted" THEN 0
                    ELSE IF q.status = "chunked" THEN q.fill
                    ELSE IF stage = "idle" THEN Len(q.ids) - 1 ELSE Len(q.ids)

\* What the tree t and the tensors ct hold for a request.
ReqOK(q, t, ct, stage) ==
  /\ q \in ReqType /\ q.ids # <<>> /\ stage \in Stages
  /\ q.status = "waiting" => q.prefix = <<>> /\ q.node = <<>>
  /\ Len(q.row) = RowLen(q, stage)
  /\ \A i \in 1 .. Len(q.row) : ct[q.row[i]] = Take(q.ids, i)
  /\ Holding(q) => /\ IsPrefix(q.node, q.ids) /\ q.prefix = SlotsOf(t, q.node)
                   /\ Len(q.node) <= q.fill /\ 0 < q.fill /\ q.fill <= Len(q.ids)
                   /\ q.status = "chunked" => q.fill < Len(q.ids)
                   /\ q.status = "running" /\ stage \in {"admitted", "extend"} => q.fill = Len(q.ids)
                   /\ stage # "admitted" => /\ Len(q.node) <= Len(q.row)
                                            /\ Take(q.row, Len(q.node)) = q.prefix

\* The memory and the requests fit together.
Sound(t, fr, ct, rq, stage) ==
  /\ rq \in [Req -> ReqType] /\ ct \in [Slots -> Path]
  /\ TreeInv(t, HoldOf(rq)) /\ Owned(t, fr, OwnOf(rq))
  /\ \A p \in DOMAIN t.slots : ct[t.slots[p]] = p
  /\ \A r \in Req : ReqOK(rq[r], t, ct, stage[r])

\* A part of a sequence.
LEMMA PartIs ==
  ASSUME NEW E, NEW s \in Seq(E), NEW a \in Nat, NEW b \in 0 .. Len(s)
  PROVE  /\ SubSeq(s, a + 1, b) \in Seq(E)
         /\ a <= b => Len(SubSeq(s, a + 1, b)) = b - a
         /\ \A i \in 1 .. b - a : SubSeq(s, a + 1, b)[i] = s[a + i]
         /\ \A x : x \in Range(SubSeq(s, a + 1, b)) <=> \E i \in a + 1 .. b : s[i] = x
<1> DEFINE u == SubSeq(s, a + 1, b)
<1>1. u \in Seq(E) /\ DOMAIN u = 1 .. b - a /\ \A i \in 1 .. b - a : u[i] = s[a + i] OBVIOUS
<1>2. a <= b => Len(u) = b - a OBVIOUS
<1> HIDE DEF u
<1>3. ASSUME NEW x \in Range(u) PROVE \E i \in a + 1 .. b : s[i] = x
  <2>1. PICK i \in 1 .. b - a : u[i] = x BY <1>1 DEF Range
  <2>2. a + i \in a + 1 .. b /\ s[a + i] = x BY <1>1, <2>1
  <2>3. QED BY <2>2
<1>4. ASSUME NEW i \in a + 1 .. b PROVE s[i] \in Range(u)
  <2>1. i - a \in 1 .. b - a /\ a + (i - a) = i OBVIOUS
  <2>2. u[i - a] = s[i] BY <1>1, <2>1
  <2>3. QED BY <1>1, <2>1, <2>2 DEF Range
<1>5. QED BY <1>1, <1>2, <1>3, <1>4 DEF u

LEMMA SlotsOfIs ==
  ASSUME NEW t, Shape(t), NEW p \in DOMAIN t.slots \cup {<<>>}
  PROVE  /\ p \in Path /\ SlotsOf(t, p) \in Seq(Slots) /\ Len(SlotsOf(t, p)) = Len(p)
         /\ \A i \in 1 .. Len(p) : /\ Take(p, i) \in DOMAIN t.slots
                                   /\ SlotsOf(t, p)[i] = t.slots[Take(p, i)]
<1>1. DOMAIN t.slots \subseteq Path \ {<<>>} /\ t.slots \in [DOMAIN t.slots -> Slots] BY DEF Shape
<1>2. p \in Path /\ Len(p) \in Nat
  <2>1. <<>> \in Path BY DEF Path
  <2>2. p \in Path BY <1>1, <2>1
  <2>3. QED BY <2>2 DEF Path
<1>3. \A i \in 1 .. Len(p) : Take(p, i) \in DOMAIN t.slots
  <2>1. CASE p = <<>> BY <2>1
  <2>2. CASE p \in DOMAIN t.slots BY <2>2 DEF Shape
  <2>3. QED BY <2>1, <2>2
<1>4. \A i \in 1 .. Len(p) : t.slots[Take(p, i)] \in Slots BY <1>1, <1>3
<1>5. SlotsOf(t, p) \in [1 .. Len(p) -> Slots] BY <1>4 DEF SlotsOf
<1>6. SlotsOf(t, p) \in Seq(Slots) /\ Len(SlotsOf(t, p)) = Len(p) BY <1>2, <1>5
<1>7. QED BY <1>2, <1>3, <1>6 DEF SlotsOf

\* The slots of a row are those of its node's path, then its own.
LEMMA RowIs ==
  ASSUME NEW q, NEW t, NEW ct, NEW stage, ReqOK(q, t, ct, stage), Shape(t),
         Holding(q) => q.node \in Nodes(t) \cup {<<>>}
  PROVE  /\ Len(q.row) \in Nat /\ Len(q.prefix) \in Nat /\ Len(q.node) \in Nat
         /\ \A x : x \in PrivateOf(q) <=> \E i \in Len(q.prefix) + 1 .. Len(q.row) : q.row[i] = x
         /\ PrivateOf(q) \subseteq Slots
         /\ Holding(q) => /\ Len(q.prefix) = Len(q.node) /\ q.node \in DOMAIN t.slots \cup {<<>>}
                          /\ \A i \in 1 .. Len(q.node) : Take(q.node, i) \in DOMAIN t.slots
         /\ \A i \in 1 .. Len(q.row) :
              \/ q.row[i] \in PrivateOf(q)
              \/ /\ Holding(q) /\ i \in 1 .. Len(q.node)
                 /\ q.row[i] = t.slots[Take(q.node, i)] /\ Take(q.node, i) \in DOMAIN t.slots
<1>1. /\ q.row \in Seq(Slots) /\ q.prefix \in Seq(Slots) /\ q.node \in Path /\ q.ids \in Path
      /\ Len(q.row) = RowLen(q, stage)
  BY DEF ReqOK, ReqType
<1>2. Len(q.row) \in Nat /\ Len(q.prefix) \in Nat /\ Len(q.node) \in Nat BY <1>1 DEF Path
<1>3. \A x : x \in PrivateOf(q) <=> \E i \in Len(q.prefix) + 1 .. Len(q.row) : q.row[i] = x
  <2>1. Len(q.row) \in 0 .. Len(q.row) BY <1>2
  <2> DEFINE s == q.row  a == Len(q.prefix)  b == Len(q.row)
  <2>2. s \in Seq(Slots) /\ a \in Nat /\ b \in 0 .. Len(s) BY <1>1, <1>2, <2>1
  <2>3. PrivateOf(q) = Range(SubSeq(s, a + 1, b)) BY DEF PrivateOf
  <2> HIDE DEF s, a, b
  <2>4. \A x : x \in Range(SubSeq(s, a + 1, b)) <=> \E i \in a + 1 .. b : s[i] = x BY <2>2, PartIs
  <2>5. QED BY <2>3, <2>4 DEF s, a, b
<1>4. PrivateOf(q) \subseteq Slots
  <2>1. \A i \in 1 .. Len(q.row) : q.row[i] \in Slots BY <1>1
  <2>2. \A i \in Len(q.prefix) + 1 .. Len(q.row) : i \in 1 .. Len(q.row) BY <1>2
  <2>3. QED BY <1>3, <2>1, <2>2
<1>5. ASSUME Holding(q)
      PROVE  /\ Len(q.prefix) = Len(q.node) /\ q.node \in DOMAIN t.slots \cup {<<>>}
             /\ \A i \in 1 .. Len(q.node) : /\ Take(q.node, i) \in DOMAIN t.slots
                                            /\ q.prefix[i] = t.slots[Take(q.node, i)]
  <2>1. q.prefix = SlotsOf(t, q.node) BY <1>5 DEF ReqOK
  <2>2. q.node \in DOMAIN t.slots \cup {<<>>} BY <1>5 DEF Shape
  <2>3. QED BY <2>1, <2>2, SlotsOfIs
<1>6. ASSUME NEW i \in 1 .. Len(q.row)
      PROVE  \/ q.row[i] \in PrivateOf(q)
             \/ /\ Holding(q) /\ i \in 1 .. Len(q.node)
                /\ q.row[i] = t.slots[Take(q.node, i)] /\ Take(q.node, i) \in DOMAIN t.slots
  <2>1. CASE i \in Len(q.prefix) + 1 .. Len(q.row) BY <1>3, <2>1
  <2>2. CASE i \notin Len(q.prefix) + 1 .. Len(q.row)
    <3>1. Len(q.row) # 0 /\ i <= Len(q.prefix) BY <1>2, <2>2
    <3>2. Holding(q) /\ stage # "admitted" BY <1>1, <3>1 DEF RowLen
    <3>3. i \in 1 .. Len(q.node) BY <1>2, <1>5, <3>1, <3>2
    <3>4. Take(q.row, Len(q.node)) = q.prefix /\ Len(q.node) <= Len(q.row) BY <3>2 DEF ReqOK
    <3>5. Take(q.row, Len(q.node))[i] = q.row[i] BY <1>1, <1>2, <3>3, <3>4 DEF Take
    <3>6. QED BY <1>5, <3>2, <3>3, <3>4, <3>5
  <2>3. QED BY <2>1, <2>2
<1>7. QED BY <1>2, <1>3, <1>4, <1>5, <1>6

\* A request is served as before if its path and its row are.
LEMMA ReqKept ==
  ASSUME NEW q, NEW t, NEW ct, NEW stage, ReqOK(q, t, ct, stage), NEW t2, NEW ct2,
         Holding(q) => \A i \in 1 .. Len(q.node) : t2.slots[Take(q.node, i)] = t.slots[Take(q.node, i)],
         \A i \in 1 .. Len(q.row) : ct2[q.row[i]] = ct[q.row[i]]
  PROVE  ReqOK(q, t2, ct2, stage)
<1>1. Holding(q) => SlotsOf(t2, q.node) = SlotsOf(t, q.node) BY DEF SlotsOf
<1>2. \A i \in 1 .. Len(q.row) : ct2[q.row[i]] = Take(q.ids, i) BY DEF ReqOK
<1>3. QED BY <1>1, <1>2 DEF ReqOK

LEMMA SoundIs ==
  ASSUME NEW t, NEW fr, NEW ct, NEW rq, NEW stage, Sound(t, fr, ct, rq, stage)
  PROVE  /\ rq \in [Req -> ReqType] /\ ct \in [Slots -> Path]
         /\ Shape(t) /\ TreeInv(t, HoldOf(rq)) /\ Owned(t, fr, OwnOf(rq)) /\ t.slots \in [DOMAIN t.slots -> Slots]
         /\ \A p \in DOMAIN t.slots : ct[t.slots[p]] = p
         /\ \A r \in Req : /\ ReqOK(rq[r], t, ct, stage[r]) /\ rq[r] \in ReqType
                           /\ OwnOf(rq)[r] = PrivateOf(rq[r])
                           /\ HoldOf(rq)[r] = IF Holding(rq[r]) THEN rq[r].node ELSE <<>>
                           /\ Holding(rq[r]) => rq[r].node \in Nodes(t) \cup {<<>>}
<1>1. /\ rq \in [Req -> ReqType] /\ ct \in [Slots -> Path]
      /\ TreeInv(t, HoldOf(rq)) /\ Owned(t, fr, OwnOf(rq))
      /\ \A p \in DOMAIN t.slots : ct[t.slots[p]] = p
      /\ \A r \in Req : ReqOK(rq[r], t, ct, stage[r])
  BY DEF Sound
<1>2. Shape(t) /\ HoldOf(rq) \in [Req -> Nodes(t) \cup {<<>>}] BY <1>1 DEF TreeInv
<1>3. t.slots \in [DOMAIN t.slots -> Slots] BY <1>2 DEF Shape
<1>4. \A r \in Req : /\ OwnOf(rq)[r] = PrivateOf(rq[r])
                     /\ HoldOf(rq)[r] = IF Holding(rq[r]) THEN rq[r].node ELSE <<>>
  BY DEF OwnOf, HoldOf
<1>5. \A r \in Req : Holding(rq[r]) => rq[r].node \in Nodes(t) \cup {<<>>} BY <1>2, <1>4
<1>6. QED BY <1>1, <1>2, <1>3, <1>4, <1>5

\* What a request gives back is nothing to the others and to the tree.
LEMMA ReleasedOthers ==
  ASSUME NEW t, NEW fr, NEW ct, NEW rq, NEW stage, Sound(t, fr, ct, rq, stage), NEW r \in Req,
         NEW X \in SUBSET PrivateOf(rq[r]), NEW t2, \A p \in DOMAIN t.slots : t2.slots[p] = t.slots[p]
  PROVE  /\ \A u \in Req \ {r} : ReqOK(rq[u], t2, Forgotten(ct, X), stage[u])
         /\ \A p \in DOMAIN t.slots : t2.slots[p] \notin X /\ Forgotten(ct, X)[t2.slots[p]] = p
<1>1. /\ Shape(t) /\ t.slots \in [DOMAIN t.slots -> Slots] /\ Owned(t, fr, OwnOf(rq))
      /\ \A p \in DOMAIN t.slots : ct[t.slots[p]] = p
      /\ \A u \in Req : /\ ReqOK(rq[u], t, ct, stage[u]) /\ OwnOf(rq)[u] = PrivateOf(rq[u])
                        /\ Holding(rq[u]) => rq[u].node \in Nodes(t) \cup {<<>>}
  BY SoundIs
<1>2. /\ \A u \in Req : u # r => PrivateOf(rq[u]) \cap PrivateOf(rq[r]) = {}
      /\ \A p \in DOMAIN t.slots : t.slots[p] \notin PrivateOf(rq[r])
      /\ PrivateOf(rq[r]) \subseteq Slots
  BY <1>1 DEF Owned
<1>3. \A s \in Slots : s \notin X => Forgotten(ct, X)[s] = ct[s] BY DEF Forgotten
<1>4. \A p \in DOMAIN t.slots : t.slots[p] \in Slots /\ t.slots[p] \notin X BY <1>1, <1>2
<1>5. \A p \in DOMAIN t.slots : t2.slots[p] \notin X /\ Forgotten(ct, X)[t2.slots[p]] = p
  BY <1>1, <1>3, <1>4
<1>6. ASSUME NEW u \in Req \ {r} PROVE ReqOK(rq[u], t2, Forgotten(ct, X), stage[u])
  <2> DEFINE q == rq[u]
  <2>1. ReqOK(q, t, ct, stage[u]) /\ (Holding(q) => q.node \in Nodes(t) \cup {<<>>}) BY <1>1
  <2>2. PrivateOf(q) \cap X = {} BY <1>2
  <2> HIDE DEF q
  <2>3. /\ PrivateOf(q) \subseteq Slots
        /\ Holding(q) => \A i \in 1 .. Len(q.node) : Take(q.node, i) \in DOMAIN t.slots
        /\ \A i \in 1 .. Len(q.row) :
             \/ q.row[i] \in PrivateOf(q)
             \/ \E p \in DOMAIN t.slots : q.row[i] = t.slots[p]
    BY <1>1, <2>1, RowIs
  <2>4. Holding(q) => \A i \in 1 .. Len(q.node) : t2.slots[Take(q.node, i)] = t.slots[Take(q.node, i)]
    BY <2>3
  <2>5. \A i \in 1 .. Len(q.row) : q.row[i] \in Slots /\ q.row[i] \notin X BY <1>4, <2>2, <2>3
  <2>6. \A i \in 1 .. Len(q.row) : Forgotten(ct, X)[q.row[i]] = ct[q.row[i]] BY <1>3, <2>5
  <2>7. ReqOK(q, t2, Forgotten(ct, X), stage[u]) BY <2>1, <2>4, <2>6, ReqKept
  <2>8. QED BY <2>7 DEF q
<1>7. QED BY <1>5, <1>6

\* Different elements are as many as their places.
LEMMA PlacesCount ==
  ASSUME NEW s, NEW a \in Int, NEW b \in Int, a <= b,
         \A i, j \in a + 1 .. b : s[i] = s[j] => i = j,
         NEW Y, \A x : x \in Y <=> \E i \in a + 1 .. b : s[i] = x
  PROVE  IsFiniteSet(Y) /\ Cardinality(Y) = b - a
<1> DEFINE I == a + 1 .. b
           X == {s[i] : i \in I}
           f == [i \in I |-> s[i]]
<1>1. IsFiniteSet(I) /\ Cardinality(I) = b - a
  <2>1. a + 1 \in Int /\ (IF a + 1 > b THEN 0 ELSE b - (a + 1) + 1) = b - a OBVIOUS
  <2>2. QED BY <2>1, FS_Interval
<1>2. f \in Bijection(I, X)
  <2>1. f \in [I -> X] OBVIOUS
  <2>2. \A i, j \in I : f[i] = f[j] => i = j OBVIOUS
  <2>3. \A x \in X : \E i \in I : f[i] = x OBVIOUS
  <2>4. QED BY <2>1, <2>2, <2>3 DEF Bijection, Injection, Surjection, IsInjective
<1>3. ExistsBijection(I, X) BY <1>2 DEF ExistsBijection
<1>4. X = Y OBVIOUS
<1>5. QED BY <1>1, <1>3, <1>4, FS_Bijection

-----------------------------------------------------------------------------
(***************************************************************************)
(* cache_unfinished_req and cache_finished_req hand the row over to the    *)
(* tree, but for the slots that the tree has already.                      *)
(***************************************************************************)
\* r has a slot for each token of key.
HasRow(t, fr, ct, rq, stage, r, key) ==
  /\ Sound(t, fr, ct, rq, stage) /\ r \in Req /\ Holding(rq[r]) /\ stage[r] # "admitted"
  /\ key \in Path /\ key # <<>> /\ IsPrefix(key, rq[r].ids) /\ Len(rq[r].row) = Len(key)

\* The slots of the prefix that another request has cached meanwhile.
Surplus(t, q, key) == {q.row[i] : i \in Len(q.prefix) + 1 .. Matched(t, key)}

\* The row holds the KV of key: first the slots of the path it started from, then its own.
RowHolds(t, ct, q, key) ==
  LET n == Matched(t, key)
  IN  /\ Len(key) \in Nat /\ Len(key) > 0 /\ Len(q.prefix) \in Nat /\ n \in Nat
      /\ Len(q.prefix) <= n /\ n <= Len(key)
      /\ q.row \in Seq(Slots) /\ Take(q.row, Len(key)) = q.row
      /\ Range(SubSeq(q.row, Len(q.prefix) + 1, n)) = Surplus(t, q, key)
      /\ Len(q.node) = Len(q.prefix) /\ IsPrefix(q.node, key)
      /\ q.node \in DOMAIN t.slots \cup {<<>>}
      /\ q.prefix = SlotsOf(t, q.node) /\ Take(q.row, Len(q.prefix)) = q.prefix
      /\ \A i \in 1 .. Len(key) : ct[q.row[i]] = Take(key, i) /\ Len(Take(key, i)) = i
      /\ \A i, j \in 1 .. Len(key) : q.row[i] = q.row[j] => i = j
      /\ \A x : x \in PrivateOf(q) <=> \E i \in Len(q.prefix) + 1 .. Len(key) : q.row[i] = x

LEMMA HasRowIs ==
  ASSUME NEW t, NEW fr, NEW ct, NEW rq, NEW stage, NEW r, NEW key,
         HasRow(t, fr, ct, rq, stage, r, key)
  PROVE  RowHolds(t, ct, rq[r], key)
<1> DEFINE q == rq[r]
           n == Matched(t, key)
           had == Len(q.prefix)
<1>1. /\ Sound(t, fr, ct, rq, stage) /\ r \in Req /\ Holding(q) /\ stage[r] # "admitted"
      /\ key \in Path /\ key # <<>> /\ IsPrefix(key, q.ids) /\ Len(q.row) = Len(key)
  BY DEF HasRow
<1>2. Len(key) \in Nat /\ Len(key) > 0 BY <1>1 DEF Path
<1>3. Shape(t) /\ ReqOK(q, t, ct, stage[r]) /\ q.node \in Nodes(t) \cup {<<>>} BY <1>1, SoundIs
<1>4. /\ q.row \in Seq(Slots) /\ q.ids \in Path /\ q.node \in Path
      /\ IsPrefix(q.node, q.ids) /\ q.prefix = SlotsOf(t, q.node)
      /\ Len(q.node) <= Len(q.row) /\ Take(q.row, Len(q.node)) = q.prefix
      /\ \A i \in 1 .. Len(q.row) : ct[q.row[i]] = Take(q.ids, i)
  BY <1>1, <1>3 DEF ReqOK, ReqType
<1>5. /\ had \in Nat /\ had = Len(q.node) /\ q.node \in DOMAIN t.slots \cup {<<>>}
      /\ \A x : x \in PrivateOf(q) <=> \E i \in had + 1 .. Len(q.row) : q.row[i] = x
  BY <1>1, <1>3, RowIs
<1>6. n \in 0 .. Len(key) /\ \A i \in 1 .. Len(key) : Take(key, i) \in DOMAIN t.slots <=> i <= n
  BY <1>1, <1>3, MatchedIs
<1> HIDE DEF n, q
<1>7. IsPrefix(q.node, key) BY <1>1, <1>4, PrefixOrder
<1>8. had <= n
  <2>1. CASE had = 0 BY <1>6, <2>1
  <2>2. CASE had # 0
    <3>1. had \in 1 .. Len(key) BY <1>1, <1>2, <1>4, <1>5, <2>2
    <3>2. q.node = Take(key, had) BY <1>1, <1>4, <1>5, <1>7, PrefixIs
    <3>3. q.node # <<>> BY <1>5, <2>2
    <3>4. QED BY <1>5, <1>6, <3>1, <3>2, <3>3
  <2>3. QED BY <2>1, <2>2
<1>9. \A i \in 1 .. Len(key) : Take(q.ids, i) = Take(key, i) /\ Len(Take(key, i)) = i
  <2> SUFFICES ASSUME NEW i \in 1 .. Len(key)
               PROVE  Take(q.ids, i) = Take(key, i) /\ Len(Take(key, i)) = i
    OBVIOUS
  <2>1. Len(key) \in 0 .. Len(q.ids) /\ key = Take(q.ids, Len(key)) BY <1>1, <1>4, PrefixIs
  <2>2. i \in 0 .. Len(key) BY <1>2
  <2>3. Take(Take(q.ids, Len(key)), i) = Take(q.ids, i) BY <1>4, <2>1, <2>2, TakeIs
  <2>4. Len(Take(key, i)) = i BY <1>1, <2>2, TakeIs
  <2>5. QED BY <2>1, <2>3, <2>4
<1>10. \A i \in 1 .. Len(key) : ct[q.row[i]] = Take(key, i) /\ Len(Take(key, i)) = i
  BY <1>1, <1>4, <1>9
<1>11. \A i, j \in 1 .. Len(key) : q.row[i] = q.row[j] => i = j BY <1>10
<1>12. Take(q.row, Len(key)) = q.row BY <1>1, <1>4 DEF Take
<1>13. Range(SubSeq(q.row, had + 1, n)) = Surplus(t, q, key)
  <2> DEFINE s == q.row
  <2>1. s \in Seq(Slots) /\ had \in Nat /\ n \in 0 .. Len(s) BY <1>1, <1>4, <1>5, <1>6
  <2> HIDE DEF s, had
  <2>2. \A x : x \in Range(SubSeq(s, had + 1, n)) <=> \E i \in had + 1 .. n : s[i] = x BY <2>1, PartIs
  <2>3. QED BY <2>2 DEF Surplus, s, had, n
<1>14. \A x : x \in PrivateOf(q) <=> \E i \in had + 1 .. Len(key) : q.row[i] = x BY <1>1, <1>5
<1>15. had <= n /\ n <= Len(key) /\ n \in Nat BY <1>2, <1>6, <1>8
<1>16. RowHolds(t, ct, q, key) BY <1>2, <1>4, <1>5, <1>7, <1>10, <1>11, <1>12, <1>13, <1>14, <1>15 DEF RowHolds, n
<1>17. QED BY <1>16 DEF q

\* After insert: r owns no slot any more, and the tree and the others are served as before.
Cached(t, fr, ct, rq, stage, r, key) ==
  LET q == rq[r]
      i == Insert(t, key, q.row)
      X == Surplus(t, q, key)
  IN  /\ TreeInv(i, HoldOf(rq)) /\ key \in Nodes(i)
      /\ \A p \in DOMAIN t.slots : p \in DOMAIN i.slots /\ i.slots[p] = t.slots[p]
      /\ Owned(i, Freed(fr, X), [OwnOf(rq) EXCEPT ![r] = {}])
      /\ \A p \in DOMAIN i.slots : Forgotten(ct, X)[i.slots[p]] = p
      /\ Forgotten(ct, X) \in [Slots -> Path]
      /\ \A u \in Req \ {r} : ReqOK(rq[u], i, Forgotten(ct, X), stage[u])
      /\ i.evictable = t.evictable + Len(key) - Matched(t, key)
      /\ SumFunctionOnSet(Freed(fr, X), Slots)
           = SumFunctionOnSet(fr, Slots) + Matched(t, key) - Len(q.prefix)
      /\ X \subseteq PrivateOf(q)

LEMMA CachedGood ==
  ASSUME NEW t, NEW fr, NEW ct, NEW rq, NEW stage, NEW r, NEW key,
         HasRow(t, fr, ct, rq, stage, r, key)
  PROVE  Cached(t, fr, ct, rq, stage, r, key)
<1> DEFINE q == rq[r]
           n == Matched(t, key)
           had == Len(q.prefix)
           own == OwnOf(rq)
           i == Insert(t, key, q.row)
           X == Surplus(t, q, key)
           new == Longer(key, n)
<1>1. Sound(t, fr, ct, rq, stage) /\ r \in Req /\ key \in Path /\ key # <<>> /\ Len(q.row) = Len(key)
  BY DEF HasRow
<1>2. /\ Len(key) \in Nat /\ Len(key) > 0 /\ had \in Nat /\ n \in Nat /\ had <= n /\ n <= Len(key)
      /\ q.row \in Seq(Slots)
      /\ \A j \in 1 .. Len(key) : ct[q.row[j]] = Take(key, j) /\ Len(Take(key, j)) = j
      /\ \A j, k \in 1 .. Len(key) : q.row[j] = q.row[k] => j = k
      /\ \A x : x \in PrivateOf(q) <=> \E j \in had + 1 .. Len(key) : q.row[j] = x
  <2> HIDE DEF own, i, X, new
  <2>1. RowHolds(t, ct, q, key) BY HasRowIs
  <2> HIDE DEF q
  <2>2. QED BY <2>1 DEF RowHolds
<1>3. /\ ct \in [Slots -> Path] /\ TreeInv(t, HoldOf(rq)) /\ Owned(t, fr, own)
      /\ own[r] = PrivateOf(q)
  BY <1>1, SoundIs
<1>4. own \in [Req -> SUBSET Slots] /\ fr \in [Slots -> 0 .. 1] BY <1>3 DEF Owned
<1>5. X = {q.row[j] : j \in had + 1 .. n} BY DEF Surplus
<1>6. q.row \in [1 .. Len(key) -> Slots] BY <1>1, <1>2
<1>7. /\ TreeInv(i, HoldOf(rq)) /\ key \in Nodes(i) \cup {<<>>}
      /\ DOMAIN i.slots = DOMAIN t.slots \cup new /\ DOMAIN t.slots \cap new = {}
      /\ \A p \in DOMAIN t.slots : i.slots[p] = t.slots[p]
      /\ \A p \in new : i.slots[p] = q.row[Len(p)]
      /\ i.evictable = t.evictable + Len(key) - n
  BY <1>1, <1>3, <1>6, InsertGood
<1>8. n \in 0 .. Len(key) BY <1>2
<1>9. \A p \in new : Len(p) \in n + 1 .. Len(key) /\ p = Take(key, Len(p))
  <2> SUFFICES ASSUME NEW p \in new PROVE Len(p) \in n + 1 .. Len(key) /\ p = Take(key, Len(p)) OBVIOUS
  <2>1. p \in Path BY <1>1, <1>8, LongerIs
  <2>2. IsPrefix(p, key) /\ n < Len(p) BY <1>1, <1>8, <2>1, LongerIs
  <2>3. Len(p) \in 0 .. Len(key) /\ p = Take(key, Len(p)) BY <1>1, <2>1, <2>2, PrefixIs
  <2>4. QED BY <1>2, <2>2, <2>3
<1>10. \A j \in n + 1 .. Len(key) : Take(key, j) \in new BY <1>1, <1>8, LongerIs
<1> HIDE DEF q, n, had, own, i, X, new
<1>11. /\ \A j \in had + 1 .. n : j \in had + 1 .. Len(key) /\ j \in 1 .. Len(key) /\ j \notin n + 1 .. Len(key)
       /\ \A j \in n + 1 .. Len(key) : j \in had + 1 .. Len(key) /\ j \in 1 .. Len(key)
       /\ \A j \in had + 1 .. Len(key) : j \in had + 1 .. n \/ j \in n + 1 .. Len(key)
  BY <1>2
<1>12. X \subseteq own[r]
  <2> SUFFICES ASSUME NEW s \in X PROVE s \in own[r] OBVIOUS
  <2>1. PICK j \in had + 1 .. n : s = q.row[j] BY <1>5
  <2>2. j \in had + 1 .. Len(key) BY <1>11
  <2>3. QED BY <1>2, <1>3, <2>1, <2>2
<1>13. \A p \in new : /\ i.slots[p] = q.row[Len(p)] /\ Len(p) \in 1 .. Len(key)
                      /\ i.slots[p] \in own[r] \ X
  <2> SUFFICES ASSUME NEW p \in new
               PROVE  /\ i.slots[p] = q.row[Len(p)] /\ Len(p) \in 1 .. Len(key)
                      /\ i.slots[p] \in own[r] \ X
    OBVIOUS
  <2>1. i.slots[p] = q.row[Len(p)] /\ Len(p) \in n + 1 .. Len(key) BY <1>7, <1>9
  <2>2. Len(p) \in had + 1 .. Len(key) /\ Len(p) \in 1 .. Len(key) BY <1>11, <2>1
  <2>3. q.row[Len(p)] \in own[r] BY <1>2, <1>3, <2>2
  <2>4. ASSUME NEW j \in had + 1 .. n, q.row[Len(p)] = q.row[j] PROVE FALSE
    <3>1. j \in 1 .. Len(key) /\ j \notin n + 1 .. Len(key) BY <1>11
    <3>2. Len(p) = j BY <1>2, <2>2, <2>4, <3>1
    <3>3. QED BY <2>1, <3>1, <3>2
  <2>5. q.row[Len(p)] \notin X BY <1>5, <2>4
  <2>6. QED BY <2>1, <2>2, <2>3, <2>5
<1>14. Owned(i, Freed(fr, X), [own EXCEPT ![r] = {}])
  <2> DEFINE o1 == [own EXCEPT ![r] = own[r] \ X]
             Y == {i.slots[p] : p \in new}
  <2>1. X \in SUBSET own[r] BY <1>12
  <2>2. Owned(t, Freed(fr, X), o1) BY <1>1, <1>3, <2>1, ReleasedOwners
  <2>3. o1[r] = own[r] \ X BY <1>1, <1>4
  <2>4. [o1 EXCEPT ![r] = {}] = [own EXCEPT ![r] = {}] BY <1>4
  <2>5. \A p, o \in new : i.slots[p] = i.slots[o] => p = o
    <3> SUFFICES ASSUME NEW p \in new, NEW o \in new, i.slots[p] = i.slots[o] PROVE p = o OBVIOUS
    <3>1. q.row[Len(p)] = q.row[Len(o)] BY <1>13
    <3>2. Len(p) = Len(o) BY <1>2, <1>13, <3>1
    <3>3. QED BY <1>9, <3>2
  <2>6. Y = own[r] \ X
    <3>1. Y \subseteq own[r] \ X BY <1>13
    <3>2. ASSUME NEW s \in own[r] \ X PROVE s \in Y
      <4>1. PICK j \in had + 1 .. Len(key) : s = q.row[j] BY <1>2, <1>3
      <4>2. j \notin had + 1 .. n BY <1>5, <4>1
      <4>3. j \in n + 1 .. Len(key) BY <1>11, <4>2
      <4>4. Take(key, j) \in new /\ Len(Take(key, j)) = j BY <1>2, <1>10, <1>11, <4>3
      <4>5. i.slots[Take(key, j)] = s BY <1>13, <4>1, <4>4
      <4>6. QED BY <4>4, <4>5
    <3>3. QED BY <3>1, <3>2
  <2>7. \A p \in new : i.slots[p] \in o1[r] BY <1>13, <2>3
  <2> HIDE DEF o1, Y
  <2>8. Owned(i, Freed(fr, X), [o1 EXCEPT ![r] = o1[r] \ {i.slots[p] : p \in new}])
    BY <1>1, <1>7, <2>2, <2>5, <2>7, InsertedOwners
  <2>9. o1[r] \ Y = {} BY <2>3, <2>6
  <2>10. QED BY <2>4, <2>8, <2>9 DEF Y
<1>15. Sound(t, fr, ct, rq, stage) /\ X \in SUBSET PrivateOf(rq[r]) BY <1>1, <1>3, <1>12 DEF q
<1>16. /\ \A u \in Req \ {r} : ReqOK(rq[u], i, Forgotten(ct, X), stage[u])
       /\ \A p \in DOMAIN t.slots : Forgotten(ct, X)[i.slots[p]] = p
  BY <1>1, <1>7, <1>15, ReleasedOthers
<1>17. Forgotten(ct, X) \in [Slots -> Path]
  <2>1. <<>> \in Path BY DEF Path
  <2>2. QED BY <1>3, <2>1 DEF Forgotten
<1>18. \A p \in DOMAIN i.slots : Forgotten(ct, X)[i.slots[p]] = p
  <2> SUFFICES ASSUME NEW p \in new PROVE Forgotten(ct, X)[i.slots[p]] = p BY <1>7, <1>16
  <2>1. /\ i.slots[p] = q.row[Len(p)] /\ Len(p) \in 1 .. Len(key)
        /\ i.slots[p] \notin X /\ i.slots[p] \in Slots
    BY <1>1, <1>4, <1>13
  <2>2. Forgotten(ct, X)[i.slots[p]] = ct[i.slots[p]] BY <2>1 DEF Forgotten
  <2>3. ct[i.slots[p]] = Take(key, Len(p)) BY <1>2, <2>1
  <2>4. QED BY <1>9, <2>2, <2>3
<1>19. SumFunctionOnSet(Freed(fr, X), Slots) = SumFunctionOnSet(fr, Slots) + n - had
  <2>1. had \in Int /\ n \in Int /\ had <= n BY <1>2
  <2>2. \A j, k \in had + 1 .. n : q.row[j] = q.row[k] => j = k BY <1>2, <1>11
  <2>3. Cardinality(X) = n - had BY <1>5, <2>1, <2>2, PlacesCount
  <2>4. X \in SUBSET Slots BY <1>1, <1>4, <1>12
  <2>5. \A s \in X : fr[s] = 0
    <3> SUFFICES ASSUME NEW s \in X PROVE fr[s] = 0 OBVIOUS
    <3>1. s \in Slots /\ s \in own[r] BY <1>12, <2>4
    <3>2. fr[s] # 1 BY <1>1, <1>3, <3>1 DEF Owned
    <3>3. fr[s] \in 0 .. 1 BY <1>4, <3>1
    <3>4. QED BY <3>2, <3>3
  <2>6. /\ SumFunctionOnSet(Freed(fr, X), Slots) = SumFunctionOnSet(fr, Slots) + Cardinality(X)
        /\ SumFunctionOnSet(fr, Slots) \in Nat
    BY <1>4, <2>4, <2>5, FreedCount
  <2>7. QED BY <2>1, <2>3, <2>6
<1>20. key \in Nodes(i) BY <1>1, <1>7
<1>21. \A p \in DOMAIN t.slots : p \in DOMAIN i.slots /\ i.slots[p] = t.slots[p] BY <1>7
<1>22. X \subseteq PrivateOf(q) BY <1>3, <1>12
<1>23. QED
  BY <1>7, <1>14, <1>16, <1>17, <1>18, <1>19, <1>20, <1>21, <1>22 DEF Cached, q, n, had, own, i, X

\* One request changes.
LEMMA SoundChanged ==
  ASSUME NEW rq \in [Req -> ReqType], NEW t, NEW fr, NEW ct \in [Slots -> Path], NEW stage,
         NEW r \in Req, NEW q,
         TreeInv(t, [HoldOf(rq) EXCEPT ![r] = IF Holding(q) THEN q.node ELSE <<>>]),
         Owned(t, fr, [OwnOf(rq) EXCEPT ![r] = PrivateOf(q)]),
         \A p \in DOMAIN t.slots : ct[t.slots[p]] = p,
         \A u \in Req \ {r} : ReqOK(rq[u], t, ct, stage[u]), ReqOK(q, t, ct, stage[r])
  PROVE  Sound(t, fr, ct, [rq EXCEPT ![r] = q], stage)
<1> DEFINE new == [rq EXCEPT ![r] = q]
<1>1. q \in ReqType BY DEF ReqOK
<1>2. new \in [Req -> ReqType] /\ \A u \in Req : new[u] = IF u = r THEN q ELSE rq[u] BY <1>1
<1> HIDE DEF new
<1>3. HoldOf(new) = [HoldOf(rq) EXCEPT ![r] = IF Holding(q) THEN q.node ELSE <<>>]
  BY <1>2 DEF HoldOf
<1>4. OwnOf(new) = [OwnOf(rq) EXCEPT ![r] = PrivateOf(q)] BY <1>2 DEF OwnOf
<1>5. \A u \in Req : ReqOK(new[u], t, ct, stage[u]) BY <1>2
<1>6. Sound(t, fr, ct, new, stage) BY <1>2, <1>3, <1>4, <1>5 DEF Sound
<1>7. QED BY <1>6 DEF new

LEMMA CoverCount ==
  ASSUME NEW A, NEW B, NEW C, IsFiniteSet(B), IsFiniteSet(C), A \subseteq B \cup C
  PROVE  Cardinality(A) <= Cardinality(B) + Cardinality(C)
<1>1. /\ IsFiniteSet(B \cup C)
      /\ Cardinality(B \cup C) = Cardinality(B) + Cardinality(C) - Cardinality(B \cap C)
  BY FS_Union
<1>2. IsFiniteSet(B \cap C) BY FS_Intersection
<1>3. /\ Cardinality(B) \in Nat /\ Cardinality(C) \in Nat /\ Cardinality(B \cap C) \in Nat
      /\ Cardinality(B \cup C) \in Nat
  BY <1>1, <1>2, FS_CardinalityType
<1>4. A \in SUBSET (B \cup C) OBVIOUS
<1>5. IsFiniteSet(A) /\ Cardinality(A) <= Cardinality(B \cup C) BY <1>1, <1>4, FS_Subset
<1>6. Cardinality(A) \in Nat BY <1>5, FS_CardinalityType
<1>7. QED BY <1>1, <1>3, <1>5, <1>6

\* What can be allocated, after an eviction if need be.
Left == AvailableSize + tree.evictable

\* Memory after the slots of request r were handed over as k says; r keeps the node hold.
Settled(k, stage, r, hold) ==
  LET fr == Freed(free, k.released)
      ct == Forgotten(content, k.released)
  IN  /\ TreeInv(k.tree, [HoldOf(req) EXCEPT ![r] = hold])
      /\ Owned(k.tree, fr, [OwnOf(req) EXCEPT ![r] = {}])
      /\ ct \in [Slots -> Path] /\ \A p \in DOMAIN k.tree.slots : ct[k.tree.slots[p]] = p
      /\ \A u \in Req \ {r} : ReqOK(req[u], k.tree, ct, stage[u])
      /\ k.tree.evictable \in Nat /\ SumFunctionOnSet(fr, Slots) \in Nat
      /\ SumFunctionOnSet(fr, Slots) >= AvailableSize
      /\ SumFunctionOnSet(fr, Slots) + k.tree.evictable >= Left

\* The tree of k has the paths of i, and one more or one less lock on them.
LEMMA Relocks ==
  ASSUME NEW stage, NEW r, NEW key, HasRow(tree, free, content, req, stage, r, key),
         NEW k, NEW hold, k.released = Surplus(tree, req[r], key),
         k.tree.slots = Insert(tree, key, req[r].row).slots,
         TreeInv(k.tree, [HoldOf(req) EXCEPT ![r] = hold]), hold \in {key, <<>>}
  PROVE  Settled(k, stage, r, hold)
<1> DEFINE q == req[r]
           n == Matched(tree, key)
           had == Len(q.prefix)
           i == Insert(tree, key, q.row)
           X == Surplus(tree, q, key)
           fr == Freed(free, X)
           ct == Forgotten(content, X)
<1>1. /\ Sound(tree, free, content, req, stage) /\ r \in Req /\ Holding(q) /\ key \in Path
      /\ key # <<>>
  BY DEF HasRow
<1>2. /\ Len(key) \in Nat /\ had \in Nat /\ n \in Nat /\ had <= n /\ n <= Len(key)
      /\ Len(q.node) = had /\ IsPrefix(q.node, key) /\ q.node \in DOMAIN tree.slots \cup {<<>>}
  <2>1. RowHolds(tree, content, q, key) BY HasRowIs
  <2>2. QED BY <2>1 DEF RowHolds
<1>3. /\ TreeInv(i, HoldOf(req)) /\ key \in Nodes(i)
      /\ Owned(i, fr, [OwnOf(req) EXCEPT ![r] = {}])
      /\ \A p \in DOMAIN i.slots : ct[i.slots[p]] = p
      /\ ct \in [Slots -> Path]
      /\ \A u \in Req \ {r} : ReqOK(req[u], i, ct, stage[u])
      /\ i.evictable = tree.evictable + Len(key) - n
      /\ SumFunctionOnSet(fr, Slots) = SumFunctionOnSet(free, Slots) + n - had
  <2>1. Cached(tree, free, content, req, stage, r, key) BY CachedGood
  <2>2. QED BY <2>1 DEF Cached
<1>4. TreeInv(tree, HoldOf(req)) /\ HoldOf(req)[r] = q.node BY <1>1, SoundIs
<1>5. tree.evictable \in Nat /\ IsFiniteSet(Unheld(tree, HoldOf(req)))
  <2>1. IsFiniteSet(Unheld(tree, HoldOf(req))) BY <1>4, HeldIs
  <2>2. tree.evictable = Cardinality(Unheld(tree, HoldOf(req))) BY <1>4 DEF TreeInv
  <2>3. QED BY <2>1, <2>2, FS_CardinalityType
<1>6. SumFunctionOnSet(free, Slots) \in Nat
  <2>1. free \in [Slots -> 0 .. 1] BY <1>1, SoundIs DEF Owned
  <2>2. free \in [Slots -> Nat] /\ IsFiniteSet(Slots) BY <2>1, SizeAssumption
  <2>3. QED BY <2>2, SumGrows
<1>7. fr = Freed(free, k.released) /\ ct = Forgotten(content, k.released) OBVIOUS
<1> DEFINE h1 == HoldOf(req)
           h2 == [HoldOf(req) EXCEPT ![r] = hold]
<1>8. TreeInv(k.tree, h2) /\ h1 \in [Req -> Nodes(tree) \cup {<<>>}] BY <1>4 DEF TreeInv
<1>9. h2 \in [Req -> Nodes(k.tree) \cup {<<>>}] /\ h2[r] = hold /\ h1[r] = q.node
      /\ \A u \in Req \ {r} : h2[u] = h1[u]
  BY <1>1, <1>4, <1>8 DEF TreeInv
<1>10. i.slots = k.tree.slots OBVIOUS
<1> HIDE DEF q, n, had, i, X, fr, ct, h1, h2
<1>11. /\ Shape(i) /\ IsFiniteSet(Unheld(k.tree, h2)) /\ k.tree.evictable = Cardinality(Unheld(k.tree, h2))
       /\ i.evictable = Cardinality(Unheld(i, h1))
  <2>1. IsFiniteSet(Unheld(k.tree, h2)) BY <1>8, HeldIs
  <2>2. QED BY <1>3, <1>8, <2>1 DEF TreeInv, h1
<1>12. DOMAIN i.slots \subseteq Path /\ q.node \in Path
  <2>1. DOMAIN i.slots \subseteq Path \ {<<>>} BY <1>11 DEF Shape
  <2>2. DOMAIN tree.slots \subseteq Path \ {<<>>} BY <1>4 DEF Shape, TreeInv
  <2>3. <<>> \in Path BY DEF Path
  <2>4. QED BY <1>2, <2>1, <2>2, <2>3
<1>13. Unheld(i, h1) \subseteq Unheld(k.tree, h2) \cup Longer(key, had)
  <2> SUFFICES ASSUME NEW p \in Unheld(i, h1), p \notin Unheld(k.tree, h2)
               PROVE  p \in Longer(key, had)
    OBVIOUS
  <2>1. p \in DOMAIN i.slots /\ p \in Path /\ \A u \in Req : ~IsPrefix(p, h1[u]) BY <1>12 DEF Unheld
  <2>2. PICK u \in Req : IsPrefix(p, h2[u]) BY <1>10, <2>1 DEF Unheld
  <2>3. u = r BY <1>9, <2>1, <2>2
  <2>4. IsPrefix(p, hold) /\ ~IsPrefix(p, q.node) BY <1>1, <1>9, <2>1, <2>2, <2>3
  <2>5. hold = key
    <3>1. CASE hold = <<>>
      <4>1. p = <<>> BY <2>1, <2>4, <3>1, <1>12, PrefixOrder
      <4>2. <<>> \notin DOMAIN i.slots BY <1>11 DEF Shape
      <4>3. QED BY <2>1, <4>1, <4>2
    <3>2. QED BY <3>1
  <2>6. ~(Len(p) <= Len(q.node)) BY <1>1, <1>2, <1>12, <2>1, <2>4, <2>5, PrefixOrder
  <2>7. Len(p) \in Nat BY <2>1 DEF Path
  <2>8. had < Len(p) /\ had \in 0 .. Len(key) BY <1>2, <2>6, <2>7
  <2>9. QED BY <1>1, <2>1, <2>4, <2>5, <2>8, LongerIs
<1>14. IsFiniteSet(Longer(key, had)) /\ Cardinality(Longer(key, had)) = Len(key) - had
  <2>1. had \in 0 .. Len(key) BY <1>2
  <2>2. QED BY <1>1, <2>1, LongerIs
<1>15. Cardinality(Unheld(i, h1)) <= Cardinality(Unheld(k.tree, h2)) + (Len(key) - had)
  BY <1>11, <1>13, <1>14, CoverCount
<1>16. k.tree.evictable \in Nat BY <1>11, FS_CardinalityType
<1>17. tree.evictable + Len(key) - n <= k.tree.evictable + (Len(key) - had) BY <1>3, <1>11, <1>15
<1> DEFINE sum == SumFunctionOnSet(free, Slots)
           sum2 == SumFunctionOnSet(fr, Slots)
<1>18. sum \in Nat /\ sum2 = sum + n - had BY <1>3, <1>6
<1>19. AvailableSize = sum /\ Left = sum + tree.evictable BY DEF AvailableSize, Left
<1> HIDE DEF sum, sum2
<1>20. sum2 \in Nat /\ sum2 >= AvailableSize BY <1>2, <1>18, <1>19
<1>21. sum2 + k.tree.evictable >= Left
  <2> DEFINE ev == tree.evictable  kev == k.tree.evictable  l == Len(key)
  <2>1. /\ ev \in Nat /\ kev \in Nat /\ l \in Nat /\ had \in Nat /\ n \in Nat
        /\ ev + l - n <= kev + (l - had)
    BY <1>2, <1>5, <1>16, <1>17
  <2>2. Left = sum + ev BY <1>19
  <2> HIDE DEF ev, kev, l
  <2>3. sum \in Int /\ sum2 \in Int /\ sum2 = sum + n - had BY <1>18, <2>1
  <2>4. kev >= ev + had - n BY <2>1
  <2>5. sum2 + kev >= sum + ev BY <2>1, <2>3, <2>4
  <2>6. QED BY <2>2, <2>5 DEF kev
<1>22. Owned(k.tree, fr, [OwnOf(req) EXCEPT ![r] = {}]) BY <1>3, <1>10 DEF Owned
<1>23. \A u \in Req \ {r} : ReqOK(req[u], k.tree, ct, stage[u])
  <2> SUFFICES ASSUME NEW u \in Req \ {r} PROVE ReqOK(req[u], k.tree, ct, stage[u]) OBVIOUS
  <2>1. ReqOK(req[u], i, ct, stage[u]) BY <1>3
  <2>2. Holding(req[u]) =>
          \A j \in 1 .. Len(req[u].node) : k.tree.slots[Take(req[u].node, j)] = i.slots[Take(req[u].node, j)]
    BY <1>10
  <2>3. QED BY <2>1, <2>2, ReqKept
<1>24. \A p \in DOMAIN k.tree.slots : ct[k.tree.slots[p]] = p BY <1>3, <1>10
<1>25. sum2 = SumFunctionOnSet(Freed(free, k.released), Slots) BY <1>7 DEF sum2
<1>26. QED BY <1>3, <1>7, <1>8, <1>16, <1>20, <1>21, <1>22, <1>23, <1>24, <1>25 DEF Settled, h2

\* What cache_unfinished_req leaves of the request: its row is the path it has cached.
Unfinished(r, stage, key) ==
  LET k == CacheUnfinished(r, key)
      s == SlotsOf(k.tree, key)
  IN  /\ Settled(k, stage, r, key) /\ key \in Nodes(k.tree)
      /\ k.req = [req[r] EXCEPT !.row = s, !.prefix = s, !.node = key]
      /\ s \in Seq(Slots) /\ Len(s) = Len(key)
      /\ \A i \in 1 .. Len(key) : Forgotten(content, k.released)[s[i]] = Take(key, i)

LEMMA CacheUnfinishedGood ==
  ASSUME NEW stage, NEW r, NEW key, HasRow(tree, free, content, req, stage, r, key)
  PROVE  Unfinished(r, stage, key)
<1> DEFINE q == req[r]
           n == Matched(tree, key)
           had == Len(q.prefix)
           i == Insert(tree, key, q.row)
           X == Surplus(tree, q, key)
           k == CacheUnfinished(r, key)
           s == SlotsOf(k.tree, key)
           d == DecLock(i, q.node)
<1>1. /\ Sound(tree, free, content, req, stage) /\ r \in Req /\ Holding(q) /\ key \in Path
      /\ key # <<>>
  BY DEF HasRow
<1>2. /\ Len(key) \in Nat /\ had \in Nat /\ n \in Nat /\ had <= n /\ n <= Len(key)
      /\ Take(q.row, Len(key)) = q.row /\ Range(SubSeq(q.row, had + 1, n)) = X
      /\ Len(q.node) = had /\ IsPrefix(q.node, key) /\ q.node \in DOMAIN tree.slots \cup {<<>>}
      /\ q.prefix = SlotsOf(tree, q.node) /\ Take(q.row, had) = q.prefix
  <2> HIDE DEF i, X
  <2>1. RowHolds(tree, content, q, key) BY HasRowIs
  <2> HIDE DEF q
  <2>2. QED BY <2>1 DEF RowHolds, X
<1>3. /\ TreeInv(i, HoldOf(req)) /\ key \in Nodes(i)
      /\ \A p \in DOMAIN tree.slots : p \in DOMAIN i.slots /\ i.slots[p] = tree.slots[p]
  <2>1. Cached(tree, free, content, req, stage, r, key) BY CachedGood
  <2>2. QED BY <2>1 DEF Cached
<1>4. HoldOf(req)[r] = q.node /\ HoldOf(req) \in [Req -> Path \cup {<<>>}]
  <2>1. HoldOf(req)[r] = q.node /\ req \in [Req -> ReqType] BY <1>1, SoundIs
  <2>2. \A u \in Req : req[u].node \in Path BY <2>1 DEF ReqType
  <2>3. QED BY <2>1, <2>2 DEF HoldOf
<1>5. Shape(i) /\ key \in Nodes(i) \cup {<<>>} BY <1>3 DEF TreeInv
<1>6. MatchPrefix(i, key) = [tree |-> i, node |-> key, slots |-> SlotsOf(i, key)] BY <1>5, MatchWhole
<1>7. /\ k.tree = IncLock(d, key) /\ k.released = X
      /\ k.req = [q EXCEPT !.row = Take(q.row, had) \o SubSeq(SlotsOf(i, key), had + 1, Len(key)),
                           !.prefix = SlotsOf(i, key), !.node = key]
  <2> HIDE DEF d, i, X
  <2>1. MatchPrefix(Insert(tree, key, Take(q.row, Len(key))), key)
          = [tree |-> i, node |-> key, slots |-> SlotsOf(i, key)]
    BY <1>2, <1>6 DEF i
  <2>2. Range(SubSeq(Take(q.row, Len(key)), had + 1, n)) = X BY <1>2
  <2>3. QED BY <2>1, <2>2 DEF CacheUnfinished, d
<1> HIDE DEF i, k, X, d
<1> DEFINE h1 == HoldOf(req)
           h2 == [h1 EXCEPT ![r] = <<>>]
           h3 == [h1 EXCEPT ![r] = key]
<1>8. TreeInv(d, h2) /\ d.slots = i.slots /\ Nodes(d) = Nodes(i)
  <2>1. d = DecLock(i, h1[r]) /\ TreeInv(i, h1) /\ r \in Req BY <1>1, <1>3, <1>4 DEF d
  <2> HIDE DEF h1
  <2>2. /\ TreeInv(DecLock(i, h1[r]), [h1 EXCEPT ![r] = <<>>])
        /\ DecLock(i, h1[r]).slots = i.slots /\ Nodes(DecLock(i, h1[r])) = Nodes(i)
    BY <2>1, DecGood
  <2>3. QED BY <2>1, <2>2
<1>9. h2[r] = <<>> /\ [h2 EXCEPT ![r] = key] = h3 BY <1>1, <1>4
<1> HIDE DEF h2, h3
<1>10. TreeInv(k.tree, h3) /\ k.tree.slots = i.slots /\ Nodes(k.tree) = Nodes(i)
  <2>1. key \in Nodes(d) \cup {<<>>} BY <1>3, <1>8
  <2>2. TreeInv(IncLock(d, key), [h2 EXCEPT ![r] = key]) /\ IncLock(d, key).slots = d.slots
        /\ Nodes(IncLock(d, key)) = Nodes(d)
    BY <1>1, <1>8, <1>9, <2>1, IncGood
  <2>3. QED BY <1>7, <1>8, <1>9, <2>2
<1>11. Settled(k, stage, r, key)
  <2>1. k.released = Surplus(tree, req[r], key) /\ k.tree.slots = Insert(tree, key, req[r].row).slots
    BY <1>7, <1>10 DEF i, X
  <2>2. TreeInv(k.tree, [HoldOf(req) EXCEPT ![r] = key]) BY <1>10 DEF h3
  <2>3. QED BY <2>1, <2>2, Relocks
<1>12. SlotsOf(i, key) = s BY <1>10 DEF SlotsOf
<1>13. Shape(k.tree) /\ key \in DOMAIN k.tree.slots \cup {<<>>} /\ key \in Nodes(k.tree)
  <2>1. Shape(k.tree) BY <1>10 DEF TreeInv
  <2>2. QED BY <1>3, <1>10, <2>1 DEF Shape
<1>14. /\ s \in Seq(Slots) /\ Len(s) = Len(key)
       /\ \A j \in 1 .. Len(key) : /\ Take(key, j) \in DOMAIN k.tree.slots
                                   /\ s[j] = k.tree.slots[Take(key, j)]
  BY <1>13, SlotsOfIs
<1>15. q.prefix \in Seq(Slots) /\ \A j \in 1 .. had : q.prefix[j] = s[j]
  <2>1. Shape(tree) BY <1>1, SoundIs
  <2>2. /\ q.prefix \in Seq(Slots)
        /\ \A j \in 1 .. had : /\ Take(q.node, j) \in DOMAIN tree.slots
                               /\ q.prefix[j] = tree.slots[Take(q.node, j)]
    BY <1>2, <2>1, SlotsOfIs
  <2>3. q.node \in Path BY <1>2, <2>1, SlotsOfIs
  <2>4. q.node = Take(key, had) /\ had \in 0 .. Len(key) BY <1>1, <1>2, <2>3, PrefixIs
  <2>5. \A j \in 1 .. had : Take(q.node, j) = Take(key, j) /\ j \in 1 .. Len(key)
    <3> SUFFICES ASSUME NEW j \in 1 .. had PROVE Take(q.node, j) = Take(key, j) /\ j \in 1 .. Len(key)
      OBVIOUS
    <3>1. j \in 0 .. had /\ j \in 1 .. Len(key) BY <1>2
    <3>2. Take(Take(key, had), j) = Take(key, j) BY <1>1, <2>4, <3>1, TakeIs
    <3>3. QED BY <2>4, <3>1, <3>2
  <2>6. QED BY <1>3, <1>10, <1>14, <2>2, <2>5
<1> HIDE DEF s
<1>16. q.prefix \o SubSeq(s, had + 1, Len(key)) = s
  <2> DEFINE a == q.prefix  b == SubSeq(s, had + 1, Len(key))  l == Len(key)
  <2>1. a \in Seq(Slots) /\ Len(a) = had
    <3>1. q.prefix \in Seq(Slots) BY <1>15
    <3>2. QED BY <3>1
  <2>2. l \in Nat /\ l \in 0 .. Len(s) /\ had \in Nat /\ had <= l BY <1>2, <1>14
  <2> HIDE DEF a, had, l
  <2>3. b \in Seq(Slots) /\ Len(b) = l - had /\ \A j \in 1 .. l - had : b[j] = s[had + j]
    BY <1>14, <2>2, PartIs DEF l
  <2>4. \A j \in 1 .. had : a[j] = s[j] BY <1>15 DEF a
  <2>5. Len(s) = l /\ s \in Seq(Slots) BY <1>14 DEF l
  <2> HIDE DEF b
  <2>6. a \o b \in Seq(Slots) /\ Len(a \o b) = l BY <2>1, <2>2, <2>3
  <2>7. ASSUME NEW j \in 1 .. l PROVE (a \o b)[j] = s[j]
    <3>1. CASE j <= had
      <4>1. j \in 1 .. had BY <2>2, <3>1
      <4>2. (a \o b)[j] = a[j] BY <2>1, <2>3, <4>1
      <4>3. QED BY <2>4, <4>1, <4>2
    <3>2. CASE ~(j <= had)
      <4>1. j - had \in 1 .. l - had /\ had + (j - had) = j BY <2>2, <3>2
      <4>2. (a \o b)[j] = b[j - had] BY <2>1, <2>2, <2>3, <3>2, <4>1
      <4>3. QED BY <2>3, <4>1, <4>2
    <3>3. QED BY <3>1, <3>2
  <2>8. a \o b = s BY <2>5, <2>6, <2>7
  <2>9. QED BY <2>8 DEF a, b, l
<1>17. k.req = [req[r] EXCEPT !.row = s, !.prefix = s, !.node = key]
  <2>1. Take(q.row, had) = q.prefix BY <1>2
  <2>2. k.req = [q EXCEPT !.row = q.prefix \o SubSeq(s, had + 1, Len(key)), !.prefix = s, !.node = key]
    BY <1>7, <1>12, <2>1
  <2>3. QED BY <1>16, <2>2
<1>18. \A j \in 1 .. Len(key) : Forgotten(content, k.released)[s[j]] = Take(key, j)
  BY <1>11, <1>14 DEF Settled
<1>19. QED BY <1>11, <1>13, <1>14, <1>17, <1>18 DEF k, s, Unfinished

\* What cache_finished_req leaves of it.
Finished(r, stage, key) ==
  LET k == CacheFinished(r, key)
  IN  /\ Settled(k, stage, r, <<>>)
      /\ k.req = [req[r] EXCEPT !.status = "done", !.row = <<>>]

LEMMA CacheFinishedGood ==
  ASSUME NEW stage, NEW r, NEW key, HasRow(tree, free, content, req, stage, r, key)
  PROVE  Finished(r, stage, key)
<1> DEFINE q == req[r]
           had == Len(q.prefix)
           n == Matched(tree, key)
           i == Insert(tree, key, q.row)
           X == Surplus(tree, q, key)
           k == CacheFinished(r, key)
<1>1. Sound(tree, free, content, req, stage) /\ r \in Req /\ Holding(q) BY DEF HasRow
<1>2. Take(q.row, Len(key)) = q.row /\ Range(SubSeq(q.row, had + 1, n)) = X
  <2> HIDE DEF i, X
  <2>1. RowHolds(tree, content, q, key) BY HasRowIs
  <2> HIDE DEF q
  <2>2. QED BY <2>1 DEF RowHolds, X
<1>3. TreeInv(i, HoldOf(req))
  <2>1. Cached(tree, free, content, req, stage, r, key) BY CachedGood
  <2>2. QED BY <2>1 DEF Cached
<1>4. HoldOf(req)[r] = q.node BY <1>1, SoundIs
<1>5. /\ k.tree = DecLock(i, q.node) /\ k.released = X
      /\ k.req = [q EXCEPT !.status = "done", !.row = <<>>]
  <2> HIDE DEF i, X
  <2>1. Insert(tree, key, Take(q.row, Len(key))) = i BY <1>2 DEF i
  <2>2. Range(SubSeq(Take(q.row, Len(key)), had + 1, n)) = X BY <1>2
  <2>3. QED BY <2>1, <2>2 DEF CacheFinished
<1> HIDE DEF k
<1>6. TreeInv(k.tree, [HoldOf(req) EXCEPT ![r] = <<>>]) /\ k.tree.slots = i.slots
  BY <1>1, <1>3, <1>4, <1>5, DecGood
<1>7. Settled(k, stage, r, <<>>) BY <1>5, <1>6, Relocks
<1>8. QED BY <1>5, <1>7 DEF k, Finished

-----------------------------------------------------------------------------
(***************************************************************************)
(* alloc_token_slots: each request of the batch gets its share of the      *)
(* slots that alloc returns.                                               *)
(***************************************************************************)
LEMMA AllocGood ==
  ASSUME free \in [Slots -> 0 .. 1], NEW n \in Nat, n <= AvailableSize
  PROVE  LET got == Alloc(n)
         IN  /\ got \in Seq(Slots) /\ Len(got) = n
             /\ \A i \in 1 .. n : free[got[i]] = 1
             /\ \A i, j \in 1 .. n : got[i] = got[j] => i = j
<1> DEFINE U == {s \in Slots : free[s] > 0}
           upto(s) == {u \in U : u <= s}
           Before == {x \in U \X U : x[1] < x[2]}
           got == Alloc(n)
<1>1. Slots \subseteq Nat /\ IsFiniteSet(Slots) BY SizeAssumption
<1>2. U = {s \in Slots : free[s] = 1}
  <2>1. \A s \in Slots : free[s] = 0 \/ free[s] = 1 OBVIOUS
  <2>2. QED BY <2>1
<1>3. IsFiniteSet(U) /\ U \subseteq Nat
  <2>1. U \in SUBSET Slots OBVIOUS
  <2>2. QED BY <1>1, <2>1, FS_Subset
<1>4. AvailableSize = Cardinality(U) BY <1>1, <1>2, SumOfBits DEF AvailableSize
<1>5. got = [i \in 1 .. n |-> CHOOSE s \in U : Cardinality(upto(s)) = i] BY DEF Alloc
<1> HIDE DEF got
<1>6. IsStrictOrder(U, Before)
  <2> HIDE DEF U
  <2>1. \A x, y \in U : <<x, y>> \in Before <=> x < y OBVIOUS
  <2>2. Before \subseteq U \X U OBVIOUS
  <2> HIDE DEF Before
  <2>3. \A x \in U : <<x, x>> \notin Before BY <1>3, <2>1
  <2>4. \A x, y, z \in U : <<x, y>> \in Before /\ <<y, z>> \in Before => <<x, z>> \in Before
    BY <1>3, <2>1
  <2>5. \A x, y \in U : x = y \/ x < y \/ y < x
    <3>1. \A x \in U : x \in Nat BY <1>3
    <3>2. \A x, y \in Nat : x = y \/ x < y \/ y < x OBVIOUS
    <3>3. QED BY <3>1, <3>2
  <2>6. ASSUME NEW x \in U, NEW y \in U PROVE x = y \/ <<x, y>> \in Before \/ <<y, x>> \in Before
    <3>1. (<<x, y>> \in Before <=> x < y) /\ (<<y, x>> \in Before <=> y < x) BY <2>1
    <3>2. x = y \/ x < y \/ y < x BY <2>5
    <3>3. QED BY <3>1, <3>2, Zenon
  <2>7. QED BY <2>2, <2>3, <2>4, <2>6 DEF IsStrictOrder
<1>7. ASSUME NEW i \in 1 .. n PROVE \E s \in U : Cardinality(upto(s)) = i
  <2>1. i \in 1 .. Cardinality(U)
    <3>1. Cardinality(U) \in Nat BY <1>3, FS_CardinalityType
    <3> HIDE DEF U
    <3>2. QED BY <1>4, <3>1
  <2> HIDE DEF U, Before
  <2>2. PICK s \in U : Cardinality(Below(U, Before, s)) = i - 1 BY <1>3, <1>6, <2>1, EveryRankTaken
  <2>3. Below(U, Before, s) = {u \in U : u < s} BY DEF Below, Before
  <2>4. upto(s) = {u \in U : u < s} \cup {s} /\ s \notin {u \in U : u < s}
    <3>1. s \in Nat /\ \A u \in U : u \in Nat BY <1>3
    <3>2. ~(s < s) /\ \A u \in U : u <= s <=> u < s \/ u = s BY <3>1
    <3>3. QED BY <3>2
  <2>5. IsFiniteSet({u \in U : u < s}) BY <1>3, FS_Subset
  <2>6. Cardinality(upto(s)) = Cardinality({u \in U : u < s}) + 1 BY <2>4, <2>5, FS_AddElement
  <2>7. QED BY <2>2, <2>3, <2>6
<1> HIDE DEF upto
<1>8. \A i \in 1 .. n : got[i] \in U /\ Cardinality(upto(got[i])) = i BY <1>5, <1>7
<1>9. \A i, j \in 1 .. n : got[i] = got[j] => i = j BY <1>8
<1>10. \A i \in 1 .. n : free[got[i]] = 1 /\ got[i] \in Slots BY <1>2, <1>8
<1>11. got \in [1 .. n -> Slots] BY <1>5, <1>10
<1>12. got \in Seq(Slots) /\ Len(got) = n BY <1>11
<1>13. QED BY <1>9, <1>10, <1>12 DEF got

\* The part of got that request r gets, when r gets size[r].
Share(got, size, set, r) ==
  LET skip == SumFunctionOnSet(size, {q \in set : q < r})
  IN  SubSeq(got, skip + 1, skip + size[r])

\* Each gets as many as it asked for; every slot goes to one.
Dealt(got, size, set) ==
  /\ \A r \in set : /\ Share(got, size, set, r) \in Seq(Slots)
                    /\ Len(Share(got, size, set, r)) = size[r]
                    /\ \A i, j \in 1 .. size[r] :
                         Share(got, size, set, r)[i] = Share(got, size, set, r)[j] => i = j
  /\ \A q, r \in set : q # r =>
       Range(Share(got, size, set, q)) \cap Range(Share(got, size, set, r)) = {}
  /\ \A s : s \in Range(got) <=> \E r \in set : s \in Range(Share(got, size, set, r))

LEMMA SharesDealt ==
  ASSUME NEW set \in SUBSET Req, NEW size \in [set -> Nat], NEW got \in Seq(Slots),
         Len(got) = SumFunctionOnSet(size, set),
         \A i, j \in 1 .. Len(got) : got[i] = got[j] => i = j
  PROVE  Dealt(got, size, set)
<1> DEFINE upto(m) == {q \in set : q <= m}
           under(r) == {q \in set : q < r}
           sum(S) == SumFunctionOnSet(size, S)
           share(r) == Share(got, size, set, r)
<1>1. IsFiniteSet(set) /\ \A r \in set : r \in Nat /\ 1 <= r /\ r <= N BY ReqFinite, SizeAssumption DEF Req
<1>2. /\ \A S \in SUBSET set : sum(S) \in Nat
      /\ \A S, T \in SUBSET set : S \subseteq T => sum(S) <= sum(T)
  BY <1>1, SumGrows
<1>3. sum({}) = 0 /\ \A S \in SUBSET set : \A x \in set \ S : sum(S \cup {x}) = sum(S) + size[x]
  <2>1. size \in [set -> Int] OBVIOUS
  <2>2. QED BY <1>1, <2>1, SumAdded
<1>4. Len(got) = sum(set) /\ Len(got) \in Nat OBVIOUS
<1>5. \A r \in set : share(r) = SubSeq(got, sum(under(r)) + 1, sum(under(r)) + size[r]) BY DEF Share
<1> HIDE DEF sum, share
<1>6. ASSUME NEW r \in set
      PROVE  /\ sum(under(r)) \in Nat /\ size[r] \in Nat /\ sum(upto(r)) = sum(under(r)) + size[r]
             /\ sum(upto(r)) \in Nat /\ sum(upto(r)) <= Len(got)
  <2>1. under(r) \in SUBSET set /\ r \in set \ under(r) /\ under(r) \cup {r} = upto(r) BY <1>1
  <2>2. upto(r) \in SUBSET set OBVIOUS
  <2> HIDE DEF under, upto
  <2>3. sum(upto(r)) = sum(under(r)) + size[r] BY <1>3, <2>1
  <2>4. sum(upto(r)) <= sum(set) BY <1>2, <2>2
  <2>5. QED BY <1>2, <1>4, <2>1, <2>2, <2>3, <2>4
<1>7. \A q, r \in set : q < r => sum(upto(q)) <= sum(under(r))
  <2> SUFFICES ASSUME NEW q \in set, NEW r \in set, q < r PROVE sum(upto(q)) <= sum(under(r)) OBVIOUS
  <2>1. upto(q) \subseteq under(r) BY <1>1
  <2>2. upto(q) \in SUBSET set /\ under(r) \in SUBSET set OBVIOUS
  <2>3. QED BY <1>2, <2>1, <2>2
<1>8. ASSUME NEW r \in set
      PROVE  /\ share(r) \in Seq(Slots) /\ Len(share(r)) = size[r]
             /\ \A i \in 1 .. size[r] : share(r)[i] = got[sum(under(r)) + i]
             /\ \A x : x \in Range(share(r)) <=> \E i \in sum(under(r)) + 1 .. sum(upto(r)) : got[i] = x
  <2> DEFINE a == sum(under(r))  b == sum(upto(r))
  <2>1. /\ a \in Nat /\ b \in 0 .. Len(got) /\ a <= b /\ b = a + size[r] /\ b - a = size[r]
        /\ size[r] \in Nat
    <3>1. a \in Nat /\ size[r] \in Nat /\ b = a + size[r] /\ b \in Nat /\ b <= Len(got) BY <1>6
    <3> HIDE DEF a, b
    <3>2. QED BY <1>4, <3>1
  <2>2. share(r) = SubSeq(got, a + 1, b) BY <1>5, <2>1
  <2> HIDE DEF a, b
  <2>3. /\ SubSeq(got, a + 1, b) \in Seq(Slots) /\ Len(SubSeq(got, a + 1, b)) = b - a
        /\ \A i \in 1 .. b - a : SubSeq(got, a + 1, b)[i] = got[a + i]
        /\ \A x : x \in Range(SubSeq(got, a + 1, b)) <=> \E i \in a + 1 .. b : got[i] = x
    <3>1. got \in Seq(Slots) OBVIOUS
    <3>2. SubSeq(got, a + 1, b) \in Seq(Slots) BY <2>1, <3>1
    <3>3. Len(SubSeq(got, a + 1, b)) = b - a BY <2>1, <3>1
    <3>4. \A i \in 1 .. b - a : SubSeq(got, a + 1, b)[i] = got[a + i] BY <2>1, <3>1
    <3>5. \A x : x \in Range(SubSeq(got, a + 1, b)) <=> \E i \in a + 1 .. b : got[i] = x
      <4>1. a \in Nat /\ b \in 0 .. Len(got) BY <2>1
      <4>2. QED BY <3>1, <4>1, PartIs
    <3>6. QED BY <3>2, <3>3, <3>4, <3>5
  <2>4. QED BY <2>1, <2>2, <2>3 DEF a, b
<1>9. ASSUME NEW r \in set, NEW i \in 1 .. size[r], NEW j \in 1 .. size[r], share(r)[i] = share(r)[j]
      PROVE  i = j
  <2> DEFINE a == sum(under(r))
  <2>1. got[a + i] = got[a + j] BY <1>8, <1>9
  <2>2. a \in Nat /\ size[r] \in Nat /\ a + size[r] <= Len(got) BY <1>6
  <2> HIDE DEF a
  <2>3. a + i \in 1 .. Len(got) /\ a + j \in 1 .. Len(got) BY <1>4, <2>2
  <2>4. a + i = a + j BY <2>1, <2>3
  <2>5. QED BY <2>2, <2>4
<1>10. ASSUME NEW q \in set, NEW r \in set, q < r PROVE Range(share(q)) \cap Range(share(r)) = {}
  <2> SUFFICES ASSUME NEW x \in Range(share(q)), x \in Range(share(r)) PROVE FALSE OBVIOUS
  <2>1. PICK i \in sum(under(q)) + 1 .. sum(upto(q)) : got[i] = x BY <1>8
  <2>2. PICK j \in sum(under(r)) + 1 .. sum(upto(r)) : got[j] = x BY <1>8
  <2>3. sum(upto(q)) <= sum(under(r)) BY <1>7, <1>10
  <2>4. /\ sum(under(q)) \in Nat /\ sum(upto(q)) \in Nat /\ sum(upto(q)) <= Len(got)
        /\ sum(under(r)) \in Nat /\ sum(upto(r)) \in Nat /\ sum(upto(r)) <= Len(got)
    BY <1>6
  <2>5. i \in 1 .. Len(got) /\ j \in 1 .. Len(got) /\ i < j BY <1>4, <2>3, <2>4
  <2>6. QED BY <2>1, <2>2, <2>5
<1>11. ASSUME NEW q \in set, NEW r \in set, q # r PROVE Range(share(q)) \cap Range(share(r)) = {}
  <2>1. q < r \/ r < q BY <1>1, <1>11
  <2>2. QED BY <1>10, <2>1
<1>12. ASSUME NEW s \in Range(got) PROVE \E r \in set : s \in Range(share(r))
  <2>1. PICK i \in 1 .. Len(got) : got[i] = s BY DEF Range
  <2> DEFINE T == {m \in Nat : i <= sum(upto(m))}
  <2>2. upto(N) = set BY <1>1
  <2>3. N \in T
    <3>1. N \in Nat BY SizeAssumption
    <3>2. sum(upto(N)) = Len(got) /\ Len(got) \in Nat BY <1>4, <2>2
    <3> HIDE DEF upto
    <3>3. i <= sum(upto(N)) BY <3>2
    <3>4. QED BY <3>1, <3>3
  <2>4. PICK m \in T : \A l \in T : m <= l BY <2>3, LeastNat
  <2>5. m \in Nat /\ i <= sum(upto(m)) OBVIOUS
  <2>6. upto(0) = {} BY <1>1
  <2>7. m # 0
    <3>1. sum(upto(0)) = 0 BY <1>3, <2>6
    <3> HIDE DEF T, upto
    <3>2. QED BY <2>5, <3>1
  <2>8. m - 1 \in Nat /\ m - 1 \notin T BY <2>4, <2>5, <2>7
  <2>9. upto(m - 1) \in SUBSET set OBVIOUS
  <2>10. sum(upto(m - 1)) \in Nat BY <1>2, <2>9
  <2>11. sum(upto(m - 1)) < i BY <2>8, <2>10
  <2>12. upto(m - 1) = under(m) BY <1>1, <2>5
  <2>13. m \in set
    <3> SUFFICES ASSUME m \notin set PROVE FALSE OBVIOUS
    <3>1. upto(m) = under(m) BY <1>1, <2>5
    <3>2. i <= sum(upto(m - 1)) BY <2>5, <2>12, <3>1
    <3> HIDE DEF T, upto, under
    <3>3. QED BY <2>10, <2>11, <3>2
  <2>14. i \in sum(under(m)) + 1 .. sum(upto(m))
    <3>1. sum(under(m)) \in Nat /\ sum(upto(m)) \in Nat /\ i <= sum(upto(m)) /\ sum(under(m)) < i
      BY <1>6, <2>5, <2>11, <2>12, <2>13
    <3> HIDE DEF T, upto, under
    <3>2. QED BY <3>1
  <2>15. QED BY <1>8, <2>1, <2>13, <2>14
<1>13. ASSUME NEW r \in set, NEW s \in Range(share(r)) PROVE s \in Range(got)
  <2>1. PICK i \in sum(under(r)) + 1 .. sum(upto(r)) : got[i] = s BY <1>8
  <2>2. i \in 1 .. Len(got)
    <3>1. sum(under(r)) \in Nat /\ sum(upto(r)) \in Nat /\ sum(upto(r)) <= Len(got) BY <1>6
    <3> HIDE DEF upto, under
    <3>2. QED BY <1>4, <3>1
  <2>3. QED BY <2>1, <2>2 DEF Range
<1>14. QED BY <1>8, <1>9, <1>11, <1>12, <1>13 DEF Dealt, share

\* One sequence after the other.
LEMMA JoinIs ==
  ASSUME NEW E, NEW s \in Seq(E), NEW t \in Seq(E)
  PROVE  /\ s \o t \in Seq(E) /\ Len(s) \in Nat /\ Len(t) \in Nat /\ Len(s \o t) = Len(s) + Len(t)
         /\ \A i \in 1 .. Len(s) : (s \o t)[i] = s[i]
         /\ \A i \in Len(s) + 1 .. Len(s) + Len(t) :
              i - Len(s) \in 1 .. Len(t) /\ (s \o t)[i] = t[i - Len(s)]
         /\ \A n \in 0 .. Len(s) : SubSeq(s \o t, 1, n) = SubSeq(s, 1, n)
<1> DEFINE u == s \o t
<1>1. u \in Seq(E) /\ Len(u) = Len(s) + Len(t) /\ Len(s) \in Nat /\ Len(t) \in Nat OBVIOUS
<1>2. \A i \in 1 .. Len(s) : u[i] = s[i] OBVIOUS
<1>3. \A i \in Len(s) + 1 .. Len(s) + Len(t) : i - Len(s) \in 1 .. Len(t) /\ u[i] = t[i - Len(s)]
  OBVIOUS
<1> HIDE DEF u
<1>4. \A n \in 0 .. Len(s) : SubSeq(u, 1, n) = SubSeq(s, 1, n)
  <2> SUFFICES ASSUME NEW n \in 0 .. Len(s) PROVE SubSeq(u, 1, n) = SubSeq(s, 1, n) OBVIOUS
  <2>1. n \in 0 .. Len(u) /\ n \in Nat BY <1>1
  <2>2. /\ SubSeq(u, 1, n) \in Seq(E) /\ Len(SubSeq(u, 1, n)) = n
        /\ \A i \in 1 .. n : SubSeq(u, 1, n)[i] = u[i]
    BY <1>1, <2>1
  <2>3. /\ SubSeq(s, 1, n) \in Seq(E) /\ Len(SubSeq(s, 1, n)) = n
        /\ \A i \in 1 .. n : SubSeq(s, 1, n)[i] = s[i]
    BY <2>1
  <2>4. \A i \in 1 .. n : u[i] = s[i] BY <1>1, <1>2, <2>1
  <2>5. QED BY <2>2, <2>3, <2>4
<1>5. QED BY <1>1, <1>2, <1>3, <1>4 DEF u

\* The row so far, and how many slots the forward pass adds to it.
Base(q, use) == IF use = "decode" THEN q.row ELSE q.prefix
Missing(q, use) == IF use = "decode" THEN 1 ELSE q.fill - Len(q.prefix)

\* A request of a batch, before the forward pass and after it.
Ready(q, use, stage) == /\ Holding(q) /\ use \in {"extend", "decode"}
                        /\ use = "extend" => stage = "admitted"
                        /\ use = "decode" => stage = "idle" /\ q.status = "running"
After(q, use) == IF q.status = "chunked" THEN "idle" ELSE use

\* base is the row of q so far, which m more slots complete.
GrowsFrom(q, t, ct, use, base, m) ==
  /\ base \in Seq(Slots) /\ m \in Nat /\ Len(base) \in Nat /\ Len(q.prefix) <= Len(base)
  /\ Len(q.prefix) \in Nat /\ Len(q.node) = Len(q.prefix)
  /\ SubSeq(base, 1, Len(q.prefix)) = q.prefix
  /\ q.status = "running" => Len(base) + m = Len(q.ids)
  /\ q.status = "chunked" => Len(base) + m = q.fill
  /\ q.status = "running" /\ use = "extend" => q.fill = Len(q.ids)
  /\ \A i \in 1 .. Len(base) :
       /\ ct[base[i]] = Take(q.ids, i)
       /\ base[i] \in PrivateOf(q) \/ \E p \in DOMAIN t.slots : base[i] = t.slots[p]
  /\ \A x : x \in PrivateOf(q) <=> \E i \in Len(q.prefix) + 1 .. Len(base) : base[i] = x

LEMMA BaseIs ==
  ASSUME NEW q, NEW t, NEW ct, NEW stage, NEW use, ReqOK(q, t, ct, stage), Shape(t),
         q.node \in Nodes(t) \cup {<<>>}, Ready(q, use, stage),
         \A p \in DOMAIN t.slots : ct[t.slots[p]] = p
  PROVE  GrowsFrom(q, t, ct, use, Base(q, use), Missing(q, use))
<1>1. /\ q \in ReqType /\ q.row \in Seq(Slots) /\ q.prefix \in Seq(Slots) /\ q.ids \in Path
      /\ q.node \in Path /\ q.fill \in Nat
      /\ Len(q.row) = RowLen(q, stage)
      /\ \A i \in 1 .. Len(q.row) : ct[q.row[i]] = Take(q.ids, i)
  BY DEF ReqOK, ReqType
<1>2. /\ Holding(q) /\ use \in {"extend", "decode"}
      /\ use = "extend" => stage = "admitted"
      /\ use = "decode" => stage = "idle" /\ q.status = "running"
  BY DEF Ready
<1>3. /\ IsPrefix(q.node, q.ids) /\ q.prefix = SlotsOf(t, q.node)
      /\ Len(q.node) <= q.fill
      /\ q.status = "running" /\ stage \in {"admitted", "extend"} => q.fill = Len(q.ids)
      /\ stage # "admitted" => /\ Len(q.node) <= Len(q.row)
                               /\ Take(q.row, Len(q.node)) = q.prefix
  BY <1>2 DEF ReqOK
<1>4. /\ Len(q.row) \in Nat /\ Len(q.prefix) \in Nat /\ Len(q.node) = Len(q.prefix)
      /\ \A x : x \in PrivateOf(q) <=> \E i \in Len(q.prefix) + 1 .. Len(q.row) : q.row[i] = x
      /\ q.node \in DOMAIN t.slots \cup {<<>>}
      /\ \A i \in 1 .. Len(q.row) :
           q.row[i] \in PrivateOf(q) \/ \E p \in DOMAIN t.slots : q.row[i] = t.slots[p]
  BY <1>2, RowIs
<1>5. Len(q.ids) \in Nat BY <1>1 DEF Path
<1>6. CASE use = "decode"
  <2>1. Base(q, use) = q.row /\ Missing(q, use) = 1 /\ q.status = "running" /\ stage = "idle"
    BY <1>2, <1>6 DEF Base, Missing
  <2>2. Len(q.row) = Len(q.ids) - 1 BY <1>1, <1>2, <2>1 DEF RowLen
  <2>3. Len(q.prefix) <= Len(q.row) /\ SubSeq(q.row, 1, Len(q.prefix)) = q.prefix
    BY <1>3, <1>4, <2>1 DEF Take
  <2>4. Len(q.row) + 1 = Len(q.ids) BY <1>4, <1>5, <2>2
  <2>5. q.status # "chunked" BY <2>1
  <2>6. GrowsFrom(q, t, ct, use, q.row, 1) BY <1>1, <1>4, <1>6, <2>3, <2>4, <2>5 DEF GrowsFrom
  <2>7. QED BY <2>1, <2>6
<1>7. CASE use = "extend"
  <2> DEFINE l == Len(q.prefix)
  <2>1. Base(q, use) = q.prefix /\ Missing(q, use) = q.fill - l /\ stage = "admitted"
    BY <1>2, <1>7 DEF Base, Missing
  <2>2. Len(q.row) = 0 BY <1>1, <2>1 DEF RowLen
  <2>3. \A i \in 1 .. Len(q.node) : /\ Take(q.node, i) \in DOMAIN t.slots
                                    /\ q.prefix[i] = t.slots[Take(q.node, i)]
    BY <1>3, <1>4, SlotsOfIs
  <2>4. \A i \in 1 .. Len(q.node) : Take(q.node, i) = Take(q.ids, i)
    <3> SUFFICES ASSUME NEW i \in 1 .. Len(q.node) PROVE Take(q.node, i) = Take(q.ids, i) OBVIOUS
    <3>1. Len(q.node) \in 0 .. Len(q.ids) /\ q.node = Take(q.ids, Len(q.node)) BY <1>1, <1>3, PrefixIs
    <3>2. i \in 0 .. Len(q.node) BY <1>4
    <3>3. Take(Take(q.ids, Len(q.node)), i) = Take(q.ids, i) BY <1>1, <3>1, <3>2, TakeIs
    <3>4. QED BY <3>1, <3>3
  <2>5. \A i \in 1 .. l : /\ ct[q.prefix[i]] = Take(q.ids, i)
                          /\ \E p \in DOMAIN t.slots : q.prefix[i] = t.slots[p]
    BY <1>4, <2>3, <2>4
  <2>6. \A x : x \notin PrivateOf(q) BY <1>4, <2>2
  <2>7. SubSeq(q.prefix, 1, l) = q.prefix BY <1>1
  <2>8. l \in Nat /\ l <= q.fill /\ q.fill \in Nat BY <1>1, <1>3, <1>4
  <2>9. q.fill - l \in Nat /\ l + (q.fill - l) = q.fill
    <3> HIDE DEF l
    <3>1. QED BY <2>8
  <2>10. q.status = "running" => q.fill = Len(q.ids) BY <1>3, <2>1
  <2>11. \A x : x \in PrivateOf(q) <=> \E i \in l + 1 .. l : q.prefix[i] = x
    <3>1. \A i \in l + 1 .. l : FALSE BY <2>8
    <3>2. QED BY <2>6, <3>1
  <2>12. GrowsFrom(q, t, ct, use, q.prefix, q.fill - l)
    BY <1>1, <1>4, <2>5, <2>7, <2>8, <2>9, <2>10, <2>11 DEF GrowsFrom
  <2>13. QED BY <2>1, <2>12
<1>8. QED BY <1>2, <1>6, <1>7

\* The request after it: mine is added to the slots it owns.
Grown(q, t, ct, use, base, mine) ==
  LET new == [q EXCEPT !.row = base \o mine]
  IN  /\ ReqOK(new, t, ct, After(q, use))
      /\ \A x : x \in PrivateOf(new) <=> x \in PrivateOf(q) \/ x \in Range(mine)

LEMMA GrownOK ==
  ASSUME NEW q, NEW t, NEW ct, NEW stage, NEW use, ReqOK(q, t, ct, stage), Ready(q, use, stage),
         NEW base, NEW m, GrowsFrom(q, t, ct, use, base, m), NEW mine \in Seq(Slots), Len(mine) = m,
         NEW ct2, \A i \in 1 .. Len(base) : ct2[base[i]] = ct[base[i]],
         \A i \in 1 .. m : ct2[mine[i]] = Take(q.ids, Len(base) + i)
  PROVE  Grown(q, t, ct2, use, base, mine)
<1> DEFINE row == base \o mine
           new == [q EXCEPT !.row = row]
           l == Len(base)
           c == Len(q.prefix)
<1>1. /\ q \in ReqType /\ q.ids # <<>> /\ stage \in Stages
      /\ IsPrefix(q.node, q.ids) /\ q.prefix = SlotsOf(t, q.node)
      /\ Len(q.node) <= q.fill /\ 0 < q.fill /\ q.fill <= Len(q.ids)
      /\ q.status = "chunked" => q.fill < Len(q.ids)
      /\ Holding(q) /\ use \in {"extend", "decode"}
  BY DEF ReqOK, Ready
<1>2. /\ base \in Seq(Slots) /\ m \in Nat /\ l \in Nat /\ c <= l /\ c \in Nat /\ Len(q.node) = c
      /\ SubSeq(base, 1, c) = q.prefix
      /\ q.status = "running" => l + m = Len(q.ids)
      /\ q.status = "chunked" => l + m = q.fill
      /\ q.status = "running" /\ use = "extend" => q.fill = Len(q.ids)
      /\ \A i \in 1 .. l : ct[base[i]] = Take(q.ids, i)
      /\ \A x : x \in PrivateOf(q) <=> \E i \in c + 1 .. l : base[i] = x
  BY DEF GrowsFrom
<1>3. /\ row \in Seq(Slots) /\ Len(row) = l + m
      /\ \A i \in 1 .. l : row[i] = base[i]
      /\ \A i \in l + 1 .. l + m : i - l \in 1 .. m /\ row[i] = mine[i - l]
      /\ \A n \in 0 .. l : SubSeq(row, 1, n) = SubSeq(base, 1, n)
  <2>1. base \in Seq(Slots) /\ mine \in Seq(Slots) BY <1>2
  <2>2. /\ row \in Seq(Slots) /\ Len(row) = Len(base) + Len(mine)
        /\ \A i \in 1 .. Len(base) : row[i] = base[i]
    <3>1. row \in Seq(Slots) BY <2>1
    <3>2. Len(row) = Len(base) + Len(mine)
      <4> HIDE DEF l, c, new
      <4>1. \A s, u \in Seq(Slots) : Len(s \o u) = Len(s) + Len(u) BY JoinIs
      <4>2. QED BY <2>1, <4>1
    <3>3. \A i \in 1 .. Len(base) : row[i] = base[i] BY <2>1
    <3>4. QED BY <3>1, <3>2, <3>3
  <2>3. \A i \in Len(base) + 1 .. Len(base) + Len(mine) :
          i - Len(base) \in 1 .. Len(mine) /\ row[i] = mine[i - Len(base)]
    BY <2>1, JoinIs
  <2>4. \A n \in 0 .. Len(base) : SubSeq(row, 1, n) = SubSeq(base, 1, n) BY <2>1, JoinIs
  <2>5. QED BY <2>2, <2>3, <2>4
<1>4. /\ new \in ReqType /\ new.row = row /\ new.ids = q.ids /\ new.prefix = q.prefix
      /\ new.node = q.node /\ new.status = q.status /\ new.fill = q.fill
  BY <1>1, <1>3 DEF ReqType
<1> HIDE DEF row, new, l, c
<1>5. \A i \in 1 .. Len(row) : ct2[row[i]] = Take(q.ids, i)
  <2> SUFFICES ASSUME NEW i \in 1 .. Len(row) PROVE ct2[row[i]] = Take(q.ids, i) OBVIOUS
  <2>1. CASE i \in 1 .. l BY <1>2, <1>3, <2>1 DEF l
  <2>2. CASE i \notin 1 .. l
    <3>1. i \in l + 1 .. l + m /\ l + (i - l) = i BY <1>2, <1>3, <2>2
    <3>2. i - l \in 1 .. m /\ row[i] = mine[i - l] BY <1>3, <3>1
    <3>3. ct2[mine[i - l]] = Take(q.ids, l + (i - l)) BY <3>2 DEF l
    <3>4. QED BY <3>1, <3>2, <3>3
  <2>3. QED BY <2>1, <2>2
<1>6. Holding(new) /\ After(q, use) \in Stages /\ After(q, use) # "admitted"
  BY <1>1, <1>4 DEF Holding, After, Stages
<1>7. Len(row) = RowLen(new, After(q, use))
  <2>1. q.status \in {"chunked", "running"} BY <1>1 DEF Holding
  <2>2. CASE q.status = "chunked" BY <1>2, <1>3, <1>4, <1>6, <2>2 DEF RowLen
  <2>3. CASE q.status = "running"
    <3>1. After(q, use) = use /\ use # "idle" /\ use # "admitted" BY <1>1, <2>3 DEF After
    <3>2. RowLen(new, After(q, use)) = Len(q.ids) BY <1>4, <1>6, <2>3, <3>1 DEF RowLen
    <3>3. QED BY <1>2, <1>3, <2>3, <3>2
  <2>4. QED BY <2>1, <2>2, <2>3
<1>8. c <= Len(row) /\ Take(row, c) = q.prefix
  <2>1. c \in 0 .. l BY <1>2
  <2>2. SubSeq(row, 1, c) = q.prefix BY <1>2, <1>3, <2>1
  <2>3. QED BY <1>2, <1>3, <2>2 DEF Take
<1>9. q.status = "running" /\ After(q, use) \in {"admitted", "extend"} => q.fill = Len(q.ids)
  BY <1>1, <1>2 DEF After
<1>10. ReqOK(new, t, ct2, After(q, use))
  BY <1>1, <1>2, <1>4, <1>5, <1>6, <1>7, <1>8, <1>9 DEF ReqOK, Holding
<1>11. ASSUME NEW x PROVE x \in PrivateOf(new) <=> x \in PrivateOf(q) \/ x \in Range(mine)
  <2>1. x \in PrivateOf(new) <=> \E i \in c + 1 .. l + m : row[i] = x
    <3>1. PrivateOf(new) = Range(SubSeq(row, c + 1, Len(row))) BY <1>4 DEF PrivateOf, c
    <3>2. Len(row) \in 0 .. Len(row) BY <1>2, <1>3
    <3>3. x \in Range(SubSeq(row, c + 1, Len(row))) <=> \E i \in c + 1 .. Len(row) : row[i] = x
      <4> DEFINE b == Len(row)
      <4>1. row \in Seq(Slots) /\ c \in Nat /\ b \in 0 .. Len(row) BY <1>2, <1>3, <3>2
      <4> HIDE DEF b
      <4>2. \A y : y \in Range(SubSeq(row, c + 1, b)) <=> \E i \in c + 1 .. b : row[i] = y
        BY <4>1, PartIs
      <4>3. QED BY <4>2 DEF b
    <3>4. QED BY <1>3, <3>1, <3>3
  <2>2. ASSUME NEW i \in c + 1 .. l + m, row[i] = x PROVE x \in PrivateOf(q) \/ x \in Range(mine)
    <3>1. CASE i <= l
      <4>1. i \in c + 1 .. l /\ i \in 1 .. l BY <1>2, <3>1
      <4>2. base[i] = x BY <1>3, <2>2, <4>1
      <4>3. QED BY <1>2, <4>1, <4>2
    <3>2. CASE ~(i <= l)
      <4>1. i \in l + 1 .. l + m BY <1>2, <3>2
      <4>2. i - l \in 1 .. m /\ mine[i - l] = x BY <1>3, <2>2, <4>1
      <4>3. QED BY <4>2 DEF Range
    <3>3. QED BY <3>1, <3>2
  <2>3. ASSUME x \in PrivateOf(q) PROVE \E i \in c + 1 .. l + m : row[i] = x
    <3>1. PICK i \in c + 1 .. l : base[i] = x BY <1>2, <2>3
    <3>2. i \in 1 .. l /\ i \in c + 1 .. l + m BY <1>2
    <3>3. QED BY <1>3, <3>1, <3>2
  <2>4. ASSUME x \in Range(mine) PROVE \E i \in c + 1 .. l + m : row[i] = x
    <3>1. PICK i \in 1 .. m : mine[i] = x BY <2>4 DEF Range
    <3>2. l + i \in l + 1 .. l + m /\ l + i \in c + 1 .. l + m /\ (l + i) - l = i BY <1>2
    <3>3. row[l + i] = mine[(l + i) - l] BY <1>3, <3>2
    <3>4. row[l + i] = x BY <3>1, <3>2, <3>3
    <3>5. QED BY <3>2, <3>4
  <2>5. QED BY <2>1, <2>2, <2>3, <2>4
<1>12. QED BY <1>10, <1>11 DEF new, row, Grown

\* The forward pass of a batch: each of its requests is ready, and has the stage after it.
LEMMA RunGood ==
  ASSUME NEW stage, NEW stage2, Sound(tree, free, content, req, stage), Run, batch \in SUBSET Req,
         \A r \in batch : Ready(req[r], phase, stage[r]),
         \A r \in Req : stage2[r] = IF r \in batch THEN After(req[r], phase) ELSE stage[r]
  PROVE  /\ Sound(tree, free', content', req', stage2)
         /\ \A r \in Req : /\ req'[r].status = req[r].status
                           /\ req'[r].ids = req[r].ids /\ req'[r].fill = req[r].fill
         /\ SumFunctionOnSet(free', Slots) = AvailableSize - Wanted(phase)
         /\ Wanted(phase) \in Nat /\ AvailableSize \in Nat
<1> DEFINE size == [r \in batch |-> New(phase, r)]
           want == Wanted(phase)
           got == Alloc(want)
           skip(r) == SumFunctionOnSet([q \in batch |-> New(phase, q)], {q \in batch : q < r})
           mine(r) == SubSeq(got, skip(r) + 1, skip(r) + New(phase, r))
           base(r) == IF phase = "decode" THEN req[r].row ELSE req[r].prefix
           row(r) == base(r) \o mine(r)
           G == Range(got)
<1>1. /\ req \in [Req -> ReqType] /\ content \in [Slots -> Path] /\ Shape(tree)
      /\ TreeInv(tree, HoldOf(req)) /\ Owned(tree, free, OwnOf(req))
      /\ tree.slots \in [DOMAIN tree.slots -> Slots]
      /\ \A p \in DOMAIN tree.slots : content[tree.slots[p]] = p
      /\ \A r \in Req : /\ ReqOK(req[r], tree, content, stage[r])
                        /\ OwnOf(req)[r] = PrivateOf(req[r])
                        /\ Holding(req[r]) => req[r].node \in Nodes(tree) \cup {<<>>}
  BY SoundIs
<1>2. free \in [Slots -> 0 .. 1] BY <1>1 DEF Owned
<1>3. \A r \in batch : /\ New(phase, r) = Missing(req[r], phase)
                       /\ GrowsFrom(req[r], tree, content, phase, base(r), New(phase, r))
                       /\ New(phase, r) \in Nat
  <2> SUFFICES ASSUME NEW r \in batch
               PROVE  /\ New(phase, r) = Missing(req[r], phase)
                      /\ GrowsFrom(req[r], tree, content, phase, base(r), New(phase, r))
                      /\ New(phase, r) \in Nat
    OBVIOUS
  <2>1. New(phase, r) = Missing(req[r], phase) BY DEF New, Missing
  <2>2. Ready(req[r], phase, stage[r]) /\ r \in Req OBVIOUS
  <2>3. Holding(req[r]) BY <2>2 DEF Ready
  <2>4. GrowsFrom(req[r], tree, content, phase, Base(req[r], phase), Missing(req[r], phase))
    BY <1>1, <2>2, <2>3, BaseIs
  <2>5. Missing(req[r], phase) \in Nat BY <2>4 DEF GrowsFrom
  <2>6. base(r) = Base(req[r], phase) BY DEF Base
  <2> HIDE DEF base
  <2>7. QED BY <2>1, <2>4, <2>5, <2>6
<1>4. IsFiniteSet(batch) /\ size \in [batch -> Nat] BY <1>3, ReqFinite
<1>5. want = SumFunctionOnSet(size, batch) BY DEF Wanted
<1>6. want \in Nat
  <2> HIDE DEF size, want
  <2>1. SumFunctionOnSet(size, batch) \in Nat BY <1>4, SumGrows
  <2>2. QED BY <1>5, <2>1
<1>7. want <= AvailableSize /\ AvailableSize \in Nat
  <2>1. AvailableSize >= Wanted(phase) BY Zenon DEF Run
  <2>2. free \in [Slots -> Nat] /\ IsFiniteSet(Slots) BY <1>2, SizeAssumption
  <2>3. AvailableSize \in Nat BY <2>2, SumGrows DEF AvailableSize
  <2> HIDE DEF want
  <2>4. QED BY <1>6, <2>1, <2>3 DEF want
<1>8. /\ req' = [r \in Req |-> IF r \in batch THEN [req[r] EXCEPT !.row = row(r)] ELSE req[r]]
      /\ free' = [s \in Slots |-> IF s \in G THEN free[s] - 1 ELSE free[s]]
      /\ content' = [s \in Slots |->
           IF s \notin G THEN content[s]
           ELSE LET r == CHOOSE q \in batch : s \in Range(mine(q))
                IN  Take(req[r].ids, CHOOSE i \in DOMAIN row(r) : row(r)[i] = s)]
  BY Zenon DEF Run
<1>9. \A r \in batch : mine(r) = Share(got, size, batch, r) BY DEF Share
<1> HIDE DEF size, want, got
<1>10. /\ got \in Seq(Slots) /\ Len(got) = want /\ \A i \in 1 .. want : free[got[i]] = 1
       /\ \A i, j \in 1 .. want : got[i] = got[j] => i = j
  BY <1>2, <1>6, <1>7, AllocGood DEF got
<1>11. Dealt(got, size, batch)
  <2>1. Len(got) = SumFunctionOnSet(size, batch) /\ \A i, j \in 1 .. Len(got) : got[i] = got[j] => i = j
    BY <1>5, <1>10
  <2>2. got \in Seq(Slots) BY <1>10
  <2>3. QED BY <1>4, <2>1, <2>2, SharesDealt
<1> HIDE DEF skip, mine
<1>12. /\ \A r \in batch : /\ mine(r) \in Seq(Slots) /\ Len(mine(r)) = New(phase, r)
                           /\ \A i, j \in 1 .. New(phase, r) : mine(r)[i] = mine(r)[j] => i = j
       /\ \A q, r \in batch : q # r => Range(mine(q)) \cap Range(mine(r)) = {}
       /\ \A s : s \in G <=> \E r \in batch : s \in Range(mine(r))
  <2>1. \A r \in batch : size[r] = New(phase, r) BY DEF size
  <2> HIDE DEF G
  <2>2. G = Range(got) BY DEF G
  <2>3. QED BY <1>9, <1>11, <2>1, <2>2 DEF Dealt
<1>13. \A s \in G : s \in Slots /\ free[s] = 1
  <2> SUFFICES ASSUME NEW s \in G PROVE s \in Slots /\ free[s] = 1 OBVIOUS
  <2>1. DOMAIN got = 1 .. want BY <1>10
  <2>2. PICK i \in 1 .. want : got[i] = s BY <2>1 DEF Range
  <2>3. QED BY <1>10, <2>1, <2>2
<1> HIDE DEF G, base
<1>14. /\ \A p \in DOMAIN tree.slots : tree.slots[p] \notin G /\ tree.slots[p] \in Slots
       /\ \A r \in Req : PrivateOf(req[r]) \cap G = {} /\ PrivateOf(req[r]) \subseteq Slots
  <2>1. \A s \in Slots : free[s] = 1 => /\ \A p \in DOMAIN tree.slots : tree.slots[p] # s
                                        /\ \A r \in Req : s \notin OwnOf(req)[r]
    BY <1>1 DEF Owned
  <2>2. \A p \in DOMAIN tree.slots : tree.slots[p] \notin G /\ tree.slots[p] \in Slots
    BY <1>1, <1>13, <2>1
  <2>3. \A r \in Req : PrivateOf(req[r]) \cap G = {} BY <1>1, <1>13, <2>1
  <2>4. \A r \in Req : PrivateOf(req[r]) \subseteq Slots BY <1>1 DEF Owned
  <2>5. QED BY <2>2, <2>3, <2>4
<1>15. \A s \in Slots : s \notin G => content'[s] = content[s] BY <1>8
<1>16. \A r \in batch : \A i \in 1 .. Len(base(r)) : base(r)[i] \in Slots /\ base(r)[i] \notin G
  <2> SUFFICES ASSUME NEW r \in batch, NEW i \in 1 .. Len(base(r))
               PROVE  base(r)[i] \in Slots /\ base(r)[i] \notin G
    OBVIOUS
  <2>1. \/ base(r)[i] \in PrivateOf(req[r])
        \/ \E p \in DOMAIN tree.slots : base(r)[i] = tree.slots[p]
    BY <1>3 DEF GrowsFrom
  <2>2. r \in Req OBVIOUS
  <2>3. QED BY <1>14, <2>1, <2>2
<1>17. ASSUME NEW r \in batch, NEW j \in 1 .. New(phase, r)
       PROVE  content'[mine(r)[j]] = Take(req[r].ids, Len(base(r)) + j)
  <2> DEFINE s == mine(r)[j]
             n == New(phase, r)
             l == Len(base(r))
             e == CHOOSE q \in batch : s \in Range(mine(q))
  <2>1. mine(r) \in Seq(Slots) /\ Len(mine(r)) = n /\ n \in Nat BY <1>3, <1>12
  <2>2. base(r) \in Seq(Slots) /\ l \in Nat BY <1>3 DEF GrowsFrom
  <2>3. s \in Range(mine(r))
    <3>1. DOMAIN mine(r) = 1 .. n BY <2>1
    <3>2. QED BY <3>1 DEF Range
  <2>4. s \in G /\ s \in Slots BY <1>12, <1>13, <2>3
  <2>5. e = r
    <3>1. e \in batch /\ s \in Range(mine(e)) BY <2>3
    <3> HIDE DEF e, s
    <3>2. QED BY <1>12, <2>3, <3>1
  <2>6. content'[s] = Take(req[e].ids, CHOOSE i \in DOMAIN row(e) : row(e)[i] = s) BY <1>8, <2>4
  <2> HIDE DEF e, s, n, l
  <2>7. /\ row(r) \in Seq(Slots) /\ Len(row(r)) = Len(base(r)) + Len(mine(r))
        /\ \A i \in 1 .. Len(base(r)) : row(r)[i] = base(r)[i]
        /\ \A i \in Len(base(r)) + 1 .. Len(base(r)) + Len(mine(r)) :
             i - Len(base(r)) \in 1 .. Len(mine(r)) /\ row(r)[i] = mine(r)[i - Len(base(r))]
    <3>1. base(r) \in Seq(Slots) /\ mine(r) \in Seq(Slots) BY <2>1, <2>2
    <3>2. row(r) \in Seq(Slots) BY <3>1
    <3>3. \A a, b \in Seq(Slots) : Len(a \o b) = Len(a) + Len(b) BY JoinIs
    <3>4. \A i \in 1 .. Len(base(r)) : row(r)[i] = base(r)[i] BY <3>1, JoinIs
    <3>5. \A i \in Len(base(r)) + 1 .. Len(base(r)) + Len(mine(r)) :
            i - Len(base(r)) \in 1 .. Len(mine(r)) /\ row(r)[i] = mine(r)[i - Len(base(r))]
      BY <3>1, JoinIs
    <3>6. QED BY <3>1, <3>2, <3>3, <3>4, <3>5
  <2> HIDE DEF row
  <2>8. /\ DOMAIN row(r) = 1 .. l + n
        /\ \A i \in 1 .. l : row(r)[i] = base(r)[i]
        /\ \A i \in l + 1 .. l + n : i - l \in 1 .. n /\ row(r)[i] = mine(r)[i - l]
    <3>1. Len(row(r)) = l + n /\ row(r) \in Seq(Slots) BY <2>1, <2>7 DEF l
    <3>2. DOMAIN row(r) = 1 .. l + n BY <3>1
    <3>3. QED BY <2>1, <2>7, <3>2 DEF l
  <2>9. l + j \in 1 .. l + n /\ row(r)[l + j] = s
    <3>1. j \in 1 .. n BY DEF n
    <3>2. l + j \in l + 1 .. l + n /\ l + j \in 1 .. l + n /\ (l + j) - l = j BY <2>1, <2>2, <3>1
    <3>3. QED BY <2>8, <3>2 DEF s
  <2>10. ASSUME NEW i \in 1 .. l + n, row(r)[i] = s PROVE i = l + j
    <3>1. CASE i <= l
      <4>1. i \in 1 .. l BY <2>2, <3>1
      <4>2. base(r)[i] = s /\ base(r)[i] \notin G BY <1>16, <2>8, <2>10, <4>1 DEF l
      <4>3. QED BY <2>4, <4>2
    <3>2. CASE ~(i <= l)
      <4>1. i \in l + 1 .. l + n BY <2>1, <2>2, <3>2
      <4>2. i - l \in 1 .. n /\ mine(r)[i - l] = s BY <2>8, <2>10, <4>1
      <4>3. i - l = j BY <1>12, <4>2 DEF n, s
      <4>4. QED BY <2>2, <4>3
    <3>3. QED BY <3>1, <3>2
  <2>11. (CHOOSE i \in DOMAIN row(r) : row(r)[i] = s) = l + j BY <2>8, <2>9, <2>10
  <2>12. QED BY <2>5, <2>6, <2>11 DEF s, l
<1> HIDE DEF row
<1>18. ASSUME NEW r \in batch
       PROVE  /\ ReqOK([req[r] EXCEPT !.row = row(r)], tree, content', After(req[r], phase))
              /\ \A x : x \in PrivateOf([req[r] EXCEPT !.row = row(r)])
                          <=> x \in PrivateOf(req[r]) \/ x \in Range(mine(r))
  <2> DEFINE q == req[r]
             b == base(r)
             w == mine(r)
             n == New(phase, r)
  <2>1. r \in Req OBVIOUS
  <2>2. ReqOK(q, tree, content, stage[r]) /\ Ready(q, phase, stage[r]) BY <1>1, <2>1
  <2>3. GrowsFrom(q, tree, content, phase, b, n) /\ w \in Seq(Slots) /\ Len(w) = n BY <1>3, <1>12
  <2>4. \A i \in 1 .. Len(b) : content'[b[i]] = content[b[i]] BY <1>15, <1>16
  <2>5. \A i \in 1 .. n : content'[w[i]] = Take(q.ids, Len(b) + i) BY <1>17
  <2> HIDE DEF q, b, w, n
  <2>6. Grown(q, tree, content', phase, b, w) BY <2>2, <2>3, <2>4, <2>5, GrownOK
  <2>7. QED BY <2>6 DEF q, b, w, row, Grown
<1>19. ASSUME NEW r \in Req \ batch PROVE ReqOK(req[r], tree, content', stage[r])
  <2> DEFINE q == req[r]
  <2>1. ReqOK(q, tree, content, stage[r]) /\ (Holding(q) => q.node \in Nodes(tree) \cup {<<>>}) BY <1>1
  <2>2. PrivateOf(q) \cap G = {} /\ PrivateOf(q) \subseteq Slots BY <1>14
  <2> HIDE DEF q
  <2>3. \A i \in 1 .. Len(q.row) :
          q.row[i] \in PrivateOf(q) \/ \E p \in DOMAIN tree.slots : q.row[i] = tree.slots[p]
    BY <1>1, <2>1, RowIs
  <2>4. \A i \in 1 .. Len(q.row) : content'[q.row[i]] = content[q.row[i]] BY <1>14, <1>15, <2>2, <2>3
  <2>5. ReqOK(q, tree, content', stage[r]) BY <2>1, <2>4, ReqKept
  <2>6. QED BY <2>5 DEF q
<1>20. /\ req' \in [Req -> ReqType]
       /\ \A r \in Req : /\ ReqOK(req'[r], tree, content', stage2[r])
                         /\ \A x : x \in PrivateOf(req'[r]) <=>
                                     \/ x \in PrivateOf(req[r])
                                     \/ r \in batch /\ x \in Range(mine(r))
                         /\ req'[r].status = req[r].status /\ req'[r].node = req[r].node
                         /\ req'[r].ids = req[r].ids /\ req'[r].fill = req[r].fill
  <2>1. ASSUME NEW r \in Req
        PROVE  /\ ReqOK(req'[r], tree, content', stage2[r])
               /\ \A x : x \in PrivateOf(req'[r]) <=>
                           \/ x \in PrivateOf(req[r])
                           \/ r \in batch /\ x \in Range(mine(r))
               /\ req'[r].status = req[r].status /\ req'[r].node = req[r].node
               /\ req'[r].ids = req[r].ids /\ req'[r].fill = req[r].fill
    <3>1. CASE r \in batch
      <4>1. req'[r] = [req[r] EXCEPT !.row = row(r)] /\ stage2[r] = After(req[r], phase) BY <1>8, <3>1
      <4>2. req[r] \in ReqType BY <1>1
      <4>3. /\ req'[r].status = req[r].status /\ req'[r].node = req[r].node
            /\ req'[r].ids = req[r].ids /\ req'[r].fill = req[r].fill
        BY <4>1, <4>2 DEF ReqType
      <4>4. QED BY <1>18, <3>1, <4>1, <4>3
    <3>2. CASE r \notin batch
      <4>1. req'[r] = req[r] /\ stage2[r] = stage[r] BY <1>8, <3>2
      <4>2. QED BY <1>19, <3>2, <4>1
    <3>3. QED BY <3>1, <3>2
  <2>2. \A r \in Req : req'[r] \in ReqType BY <2>1 DEF ReqOK
  <2>3. req' \in [Req -> ReqType] BY <1>8, <2>2
  <2>4. QED BY <2>1, <2>3
<1>21. HoldOf(req') = HoldOf(req) BY <1>20 DEF HoldOf, Holding
<1>22. Owned(tree, free', OwnOf(req'))
  <2> DEFINE more == [r \in Req |-> IF r \in batch THEN Range(mine(r)) ELSE {}]
  <2>1. \A r \in Req : more[r] = IF r \in batch THEN Range(mine(r)) ELSE {} OBVIOUS
  <2>2. more \in [Req -> SUBSET Slots]
    <3>1. \A r \in batch : Range(mine(r)) \subseteq Slots BY <1>12, <1>13
    <3>2. QED BY <3>1
  <2> HIDE DEF more
  <2>3. \A s : s \in G <=> \E r \in Req : s \in more[r] BY <1>12, <2>1
  <2>4. \A s \in G : free[s] > 0 BY <1>13
  <2>5. \A q, r \in Req : q # r => more[q] \cap more[r] = {} BY <1>12, <2>1
  <2> DEFINE own == OwnOf(req)
  <2>6. Owned(tree, [s \in Slots |-> IF s \in G THEN free[s] - 1 ELSE free[s]],
              [r \in Req |-> OwnOf(req)[r] \cup more[r]])
    <3>1. Owned(tree, free, own) BY <1>1
    <3> HIDE DEF own
    <3>2. Owned(tree, [s \in Slots |-> IF s \in G THEN free[s] - 1 ELSE free[s]],
                [r \in Req |-> own[r] \cup more[r]])
      BY <2>2, <2>3, <2>4, <2>5, <3>1, TakenOwners
    <3>3. QED BY <3>2 DEF own
  <2>7. OwnOf(req') = [r \in Req |-> OwnOf(req)[r] \cup more[r]]
    <3>1. \A r \in Req : PrivateOf(req'[r]) = OwnOf(req)[r] \cup more[r] BY <1>1, <1>20, <2>1
    <3>2. QED BY <3>1 DEF OwnOf
  <2>8. QED BY <1>8, <2>6, <2>7
<1>23. \A p \in DOMAIN tree.slots : content'[tree.slots[p]] = p BY <1>1, <1>14, <1>15
<1>24. content' \in [Slots -> Path]
  <2>1. ASSUME NEW s \in Slots PROVE content'[s] \in Path
    <3>1. CASE s \notin G BY <1>1, <1>15, <3>1
    <3>2. CASE s \in G
      <4>1. PICK r \in batch : s \in Range(mine(r)) BY <1>12, <3>2
      <4>2. mine(r) \in Seq(Slots) /\ Len(mine(r)) = New(phase, r) BY <1>12
      <4>3. PICK j \in 1 .. New(phase, r) : mine(r)[j] = s BY <4>1, <4>2 DEF Range
      <4>4. content'[s] = Take(req[r].ids, Len(base(r)) + j) BY <1>17, <4>3
      <4>5. req[r].ids \in Seq(Vocabulary) /\ Len(req[r].ids) \in Nat BY <1>1 DEF ReqType, Path
      <4>6. ReqOK(req[r], tree, content, stage[r]) /\ Holding(req[r]) BY <1>1 DEF Ready
      <4>7. req[r].fill <= Len(req[r].ids) /\ req[r].fill \in Nat BY <1>1, <4>6 DEF ReqOK, ReqType
      <4>8. /\ Len(base(r)) \in Nat /\ New(phase, r) \in Nat
            /\ Len(base(r)) + New(phase, r) \in {Len(req[r].ids), req[r].fill}
        BY <1>3, <4>6 DEF GrowsFrom, Holding
      <4>9. Len(base(r)) + j \in 0 .. Len(req[r].ids) BY <4>5, <4>7, <4>8
      <4>10. req[r].ids \in Path BY <4>5 DEF Path
      <4>11. QED BY <4>4, <4>9, <4>10, TakeIs
    <3>3. QED BY <3>1, <3>2
  <2>2. QED BY <1>8, <2>1
<1>25. SumFunctionOnSet(free', Slots) = AvailableSize - want
  <2>1. free' \in [Slots -> 0 .. 1] BY <1>22 DEF Owned
  <2>2. \A s \in G : free'[s] = 0 BY <1>8, <1>13
  <2>3. G \in SUBSET Slots BY <1>13
  <2>4. Freed(free', G) = free
    <3>1. \A s \in Slots : free[s] = IF s \in G THEN free'[s] + 1 ELSE free'[s]
      <4> SUFFICES ASSUME NEW s \in Slots
                   PROVE  free[s] = IF s \in G THEN free'[s] + 1 ELSE free'[s]
        OBVIOUS
      <4>1. CASE s \in G BY <1>13, <2>2, <4>1
      <4>2. CASE s \notin G BY <1>8, <4>2
      <4>3. QED BY <4>1, <4>2
    <3>2. QED BY <1>2, <3>1 DEF Freed
  <2>5. Cardinality(G) = want
    <3> DEFINE a == 0
    <3>1. a \in Int /\ want \in Int /\ a <= want /\ a + 1 = 1 /\ want - a = want BY <1>6
    <3>2. DOMAIN got = 1 .. want BY <1>10
    <3> HIDE DEF a
    <3>3. \A x : x \in G <=> \E i \in a + 1 .. want : got[i] = x BY <3>1, <3>2 DEF G, Range
    <3>4. \A i, j \in a + 1 .. want : got[i] = got[j] => i = j BY <1>10, <3>1
    <3>5. Cardinality(G) = want - a BY <3>1, <3>3, <3>4, PlacesCount
    <3>6. QED BY <3>1, <3>3, <3>5
  <2>6. /\ SumFunctionOnSet(free, Slots) = SumFunctionOnSet(free', Slots) + Cardinality(G)
        /\ SumFunctionOnSet(free', Slots) \in Nat
    BY <2>1, <2>2, <2>3, <2>4, FreedCount
  <2>7. AvailableSize = SumFunctionOnSet(free, Slots) BY DEF AvailableSize
  <2>8. QED BY <1>6, <2>5, <2>6, <2>7
<1>26. Sound(tree, free', content', req', stage2) BY <1>1, <1>20, <1>21, <1>22, <1>23, <1>24 DEF Sound
<1>27. QED BY <1>6, <1>7, <1>20, <1>25, <1>26 DEF want

-----------------------------------------------------------------------------
(***************************************************************************)
(* The invariant: what the phases of an iteration keep of the requests.    *)
(***************************************************************************)
\* What the iteration is about while evict frees slots for it.
at == IF phase \in {"evict", "exited"} THEN back ELSE phase

Stage == [r \in Req |-> IF at \in {"admit", "extend"} /\ r \in batch THEN "admitted"
                        ELSE IF phase = "results" /\ r \in todo THEN back ELSE "idle"]

PhaseInv ==
  /\ phase \in {"start", "admit", "extend", "check", "decode", "retract", "results", "evict",
                "exited", "failed"}
  /\ phase \in {"evict", "exited"} => back \in {"extend", "decode", "retract"}
  /\ phase = "retract" => back = "retract"
  /\ phase = "results" => back \in {"extend", "decode"} /\ todo \subseteq With("running")
  /\ batch \subseteq Req /\ todo \subseteq Req /\ chunkLeft \in Nat /\ prompt \in [Req -> Path]
  /\ at \in {"admit", "extend"} => With("chunked") \subseteq batch /\ \A r \in batch : Holding(req[r])
  /\ at = "admit" /\ With("chunked") # {} => chunkLeft = 0
  /\ at \in {"check", "decode", "retract", "failed"} => With("chunked") = {}
  /\ at \in {"decode", "retract"} => batch \subseteq With("running")
  /\ \A q, r \in With("chunked") : q = r

Inv == PhaseInv /\ Sound(tree, free, content, req, Stage)

\* The tokens of r that are still to be prefilled after this batch.
Rest(r) == Len(req[r].ids) - req[r].fill

\* The slots that requests B of rq, admitted, ask for.
Need(B, rq) == SumFunctionOnSet([r \in B |-> rq[r].fill - Len(rq[r].prefix)], B)

LEMMA NeedIs ==
  ASSUME NEW rq \in [Req -> ReqType], NEW B \in SUBSET Req
  PROVE  /\ Need(B, rq) \in Int /\ Need({}, rq) = 0
         /\ \A r \in Req \ B : \A rq2 \in [Req -> ReqType] :
              (\A u \in B : rq2[u] = rq[u])
                => Need(B \cup {r}, rq2) = Need(B, rq) + (rq2[r].fill - Len(rq2[r].prefix))
<1>1. ASSUME NEW q \in [Req -> ReqType], NEW D \in SUBSET Req
      PROVE  IsFiniteSet(D) /\ [r \in D |-> q[r].fill - Len(q[r].prefix)] \in [D -> Int]
  <2>1. IsFiniteSet(D) BY ReqFinite
  <2>2. \A r \in D : q[r].fill \in Nat /\ Len(q[r].prefix) \in Nat BY DEF ReqType
  <2>3. QED BY <2>1, <2>2
<1>2. Need(B, rq) \in Int
  <2> DEFINE f == [r \in B |-> rq[r].fill - Len(rq[r].prefix)]
  <2>1. IsFiniteSet(B) /\ f \in [B -> Int] /\ B \in SUBSET B BY <1>1
  <2>2. Need(B, rq) = SumFunctionOnSet(f, B) BY DEF Need
  <2> HIDE DEF f
  <2>3. QED BY <2>1, <2>2, SumType
<1>3. Need({}, rq) = 0
  <2> DEFINE f == [r \in {} |-> rq[r].fill - Len(rq[r].prefix)]
  <2>1. IsFiniteSet({}) /\ f \in [{} -> Int] BY <1>1
  <2>2. Need({}, rq) = SumFunctionOnSet(f, {}) BY DEF Need
  <2> HIDE DEF f
  <2>3. QED BY <2>1, <2>2, SumAdded
<1>4. ASSUME NEW r \in Req \ B, NEW rq2 \in [Req -> ReqType], \A u \in B : rq2[u] = rq[u]
      PROVE  Need(B \cup {r}, rq2) = Need(B, rq) + (rq2[r].fill - Len(rq2[r].prefix))
  <2> DEFINE D == B \cup {r}
             f == [u \in D |-> rq2[u].fill - Len(rq2[u].prefix)]
             g == [u \in B |-> rq[u].fill - Len(rq[u].prefix)]
  <2>1. D \in SUBSET Req OBVIOUS
  <2>2. f[r] = rq2[r].fill - Len(rq2[r].prefix) /\ \A u \in B : f[u] = g[u] BY <1>4
  <2>3. /\ Need(B \cup {r}, rq2) = SumFunctionOnSet(f, B \cup {r})
        /\ Need(B, rq) = SumFunctionOnSet(g, B)
    BY DEF Need
  <2>4. B \in SUBSET D /\ r \in D \ B /\ IsFiniteSet(B) BY <1>1
  <2> HIDE DEF D
  <2>5. IsFiniteSet(D) /\ f \in [D -> Int] BY <1>1, <2>1
  <2> HIDE DEF f, g
  <2>6. SumFunctionOnSet(f, B \cup {r}) = SumFunctionOnSet(f, B) + f[r] BY <2>4, <2>5, SumAdded
  <2>7. SumFunctionOnSet(f, B) = SumFunctionOnSet(g, B) BY <2>2, <2>4, SumSame
  <2>8. QED BY <2>2, <2>3, <2>6, <2>7
<1>5. QED BY <1>2, <1>3, <1>4

LEMMA WantedIs == Wanted("extend") = Need(batch, req) /\ Wanted("extend")' = Need(batch', req')
<1>1. Wanted("extend") = Need(batch, req) BY DEF Wanted, New, Need
<1>2. Wanted("extend")' = Need(batch', req') BY DEF Wanted, New, Need
<1>3. QED BY <1>1, <1>2

\* A decoding batch wants a slot for each of its requests.
LEMMA DecodeWants ==
  ASSUME batch \in SUBSET Req
  PROVE  Wanted("decode") = Cardinality(batch) /\ Cardinality(batch) \in Nat
<1>1. IsFiniteSet(batch) /\ Cardinality(batch) \in Nat BY ReqFinite
<1>2. Wanted("decode") = SumFunctionOnSet([r \in batch |-> 1], batch) BY DEF Wanted, New
<1>3. batch \in SUBSET batch OBVIOUS
<1>4. QED BY <1>1, <1>2, <1>3, SumOfOnes

LEMMA SizesAre ==
  ASSUME Inv
  PROVE  /\ AvailableSize \in Nat /\ tree.evictable \in Nat /\ Left \in Nat
         /\ Wanted("extend") \in Int /\ batch \in SUBSET Req
         /\ \A r \in Req : Rest(r) \in Int /\ Len(req[r].ids) \in Nat /\ req[r].fill \in Nat
<1>1. /\ TreeInv(tree, HoldOf(req)) /\ Owned(tree, free, OwnOf(req)) /\ req \in [Req -> ReqType]
      /\ batch \in SUBSET Req
  BY DEF Inv, Sound, PhaseInv
<1>2. tree.evictable \in Nat
  <2> DEFINE h == HoldOf(req)
  <2>1. TreeInv(tree, h) BY <1>1
  <2> HIDE DEF h
  <2>2. QED BY <2>1, HeldIs
<1>3. AvailableSize \in Nat
  <2>1. free \in [Slots -> 0 .. 1] /\ {} \in SUBSET Slots /\ \A s \in {} : free[s] = 0
    BY <1>1 DEF Owned
  <2>2. SumFunctionOnSet(free, Slots) \in Nat BY <2>1, FreedCount
  <2>3. QED BY <2>2 DEF AvailableSize
<1>4. Wanted("extend") \in Int BY <1>1, NeedIs, WantedIs
<1>5. ASSUME NEW r \in Req PROVE Rest(r) \in Int /\ Len(req[r].ids) \in Nat /\ req[r].fill \in Nat
  <2>1. Len(req[r].ids) \in Nat /\ req[r].fill \in Nat BY <1>1 DEF ReqType, Path
  <2>2. QED BY <2>1 DEF Rest
<1>6. QED BY <1>1, <1>2, <1>3, <1>4, <1>5 DEF Left

\* A step that leaves memory, the requests and the batch alone.
LEMMA SizesStay ==
  ASSUME UNCHANGED <<memory, req, batch>>
  PROVE  /\ AvailableSize' = AvailableSize /\ Left' = Left /\ Wanted("extend")' = Wanted("extend")
         /\ \A s : With(s)' = With(s)
         /\ \A r : Rest(r)' = Rest(r)
<1>1. tree' = tree /\ free' = free /\ req' = req /\ batch' = batch BY DEF memory
<1>2. AvailableSize' = AvailableSize BY <1>1 DEF AvailableSize
<1>3. Left' = Left BY <1>1, <1>2 DEF Left
<1>4. Wanted("extend")' = Wanted("extend") BY <1>1, WantedIs
<1>5. \A s : With(s)' = With(s) BY <1>1 DEF With
<1>6. \A r : Rest(r)' = Rest(r) BY <1>1 DEF Rest
<1>7. QED BY <1>2, <1>3, <1>4, <1>5, <1>6

\* Only the stages of the requests count.
LEMMA StageOnly ==
  ASSUME NEW t, NEW fr, NEW ct, NEW rq, NEW stage, Sound(t, fr, ct, rq, stage),
         NEW stage2, \A r \in Req : stage2[r] = stage[r]
  PROVE  Sound(t, fr, ct, rq, stage2)
BY DEF Sound

\* A step that leaves memory and requests alone, and the stages too.
LEMMA SoundStays ==
  ASSUME Inv, UNCHANGED <<memory, req>>, \A r \in Req : Stage'[r] = Stage[r]
  PROVE  Sound(tree, free, content, req, Stage)'
<1>1. Sound(tree, free, content, req, Stage) BY DEF Inv
<1>2. tree' = tree /\ free' = free /\ content' = content /\ req' = req BY DEF memory
<1> DEFINE s2 == Stage'
<1>3. \A r \in Req : s2[r] = Stage[r] OBVIOUS
<1> HIDE DEF s2
<1>4. Sound(tree, free, content, req, s2) BY <1>1, <1>3, StageOnly
<1>5. QED BY <1>2, <1>4 DEF s2, Sound, HoldOf, OwnOf

LEMMA StopAddingGood == ASSUME Inv, StopAdding PROVE Inv'
<1>1. PhaseInv BY DEF Inv
<1>2. /\ phase = "admit" /\ phase' = IF batch = {} THEN "check" ELSE "extend"
      /\ UNCHANGED <<back, need, memory, available, budget, chunkLeft, batch, todo, prompt, req>>
  BY DEF StopAdding, Full
<1>3. at = "admit" /\ at' = IF batch = {} THEN "check" ELSE "extend" BY <1>2 DEF at
<1>4. PhaseInv' BY <1>1, <1>2, <1>3 DEF PhaseInv, With
<1>5. \A r \in Req : Stage'[r] = Stage[r] BY <1>2, <1>3 DEF Stage
<1>6. QED BY <1>2, <1>4, <1>5, SoundStays DEF Inv

LEMMA EvictForBatchGood == ASSUME Inv, EvictForBatch PROVE Inv'
<1>1. PhaseInv BY DEF Inv
<1>2. /\ phase \in {"extend", "decode"} /\ back' = phase /\ phase' = "evict"
      /\ UNCHANGED <<memory, available, budget, chunkLeft, batch, todo, prompt, req>>
  BY DEF EvictForBatch
<1>3. at = phase /\ at' = phase BY <1>2 DEF at
<1>4. PhaseInv' BY <1>1, <1>2, <1>3 DEF PhaseInv, With
<1>5. \A r \in Req : Stage'[r] = Stage[r] BY <1>2, <1>3 DEF Stage
<1>6. QED BY <1>2, <1>4, <1>5, SoundStays DEF Inv

LEMMA EvictDoneGood == ASSUME Inv, EvictDone PROVE Inv'
<1>1. PhaseInv BY DEF Inv
<1>2. /\ phase = "evict" /\ phase' \in {"exited", back}
      /\ UNCHANGED <<back, memory, available, budget, chunkLeft, batch, todo, prompt, req>>
  BY DEF EvictDone
<1>3. back \in {"extend", "decode", "retract"} BY <1>1, <1>2 DEF PhaseInv
<1>4. at = back /\ at' = back BY <1>2, <1>3 DEF at
<1>5. PhaseInv' BY <1>1, <1>2, <1>3, <1>4 DEF PhaseInv, With
<1>6. \A r \in Req : Stage'[r] = Stage[r] BY <1>2, <1>3, <1>4 DEF Stage
<1>7. QED BY <1>2, <1>5, <1>6, SoundStays DEF Inv

LEMMA CheckDecodeMemGood == ASSUME Inv, CheckDecodeMem PROVE Inv'
<1>1. PhaseInv BY DEF Inv
<1>2. /\ phase = "check" /\ batch' = With("running") /\ phase' \in {"start", "decode", "evict"}
      /\ phase' = "evict" => back' = "retract"
      /\ UNCHANGED <<memory, available, budget, chunkLeft, todo, prompt, req>>
  BY DEF CheckDecodeMem
<1>3. at = "check" /\ at' \in {"start", "decode", "retract"} BY <1>2 DEF at
<1>4. PhaseInv' BY <1>1, <1>2, <1>3 DEF PhaseInv, With
<1>5. \A r \in Req : Stage'[r] = Stage[r] BY <1>2, <1>3 DEF Stage
<1>6. QED BY <1>2, <1>4, <1>5, SoundStays DEF Inv

LEMMA RetractDoneGood == ASSUME Inv, RetractDone PROVE Inv'
<1>1. PhaseInv BY DEF Inv
<1>2. /\ phase = "retract" /\ phase' \in {"decode", "failed"}
      /\ UNCHANGED <<back, need, memory, available, budget, chunkLeft, batch, todo, prompt, req>>
  BY DEF RetractDone
<1>3. at = "retract" /\ at' = phase' BY <1>2 DEF at
<1>4. PhaseInv' BY <1>1, <1>2, <1>3 DEF PhaseInv, With
<1>5. \A r \in Req : Stage'[r] = Stage[r] BY <1>2, <1>3 DEF Stage
<1>6. QED BY <1>2, <1>4, <1>5, SoundStays DEF Inv

LEMMA EvictLeafGood == ASSUME Inv, EvictLeaf PROVE Inv'
<1>1. PhaseInv /\ Sound(tree, free, content, req, Stage) BY DEF Inv
<1>2. /\ phase = "evict"
      /\ UNCHANGED <<phase, back, available, budget, chunkLeft, batch, todo, prompt, req>>
  BY DEF EvictLeaf
<1>3. PICK e \in Evictable :
        LET gone == {Take(e, i) : i \in Len(e) - Edge(tree, e) + 1 .. Len(e)}
        IN  /\ tree' = [slots |-> Restrict(tree.slots, DOMAIN tree.slots \ gone),
                        lock |-> Restrict(tree.lock, Nodes(tree) \ {e}),
                        evictable |-> tree.evictable - Edge(tree, e)]
            /\ Free({tree.slots[p] : p \in gone})
  BY DEF EvictLeaf
<1> DEFINE gone == Longer(e, Len(e) - Edge(tree, e))
           X == {tree.slots[p] : p \in gone}
           s == [slots |-> Restrict(tree.slots, DOMAIN tree.slots \ gone),
                 lock |-> Restrict(tree.lock, Nodes(tree) \ {e}),
                 evictable |-> tree.evictable - Edge(tree, e)]
           hold == HoldOf(req)
<1>4. tree' = s /\ free' = Freed(free, X) /\ content' = Forgotten(content, X)
  BY <1>3 DEF Free, Freed, Forgotten, Longer
<1>5. /\ e \in Nodes(tree) /\ tree.lock[e] = 0
      /\ \A d \in Nodes(tree) \ {e} : ~IsPrefix(e, d)
  BY DEF Evictable
<1>6. /\ req \in [Req -> ReqType] /\ content \in [Slots -> Path] /\ Shape(tree)
      /\ TreeInv(tree, hold) /\ Owned(tree, free, OwnOf(req))
      /\ tree.slots \in [DOMAIN tree.slots -> Slots]
      /\ \A p \in DOMAIN tree.slots : content[tree.slots[p]] = p
      /\ \A r \in Req : /\ ReqOK(req[r], tree, content, Stage[r])
                        /\ OwnOf(req)[r] = PrivateOf(req[r])
                        /\ hold[r] = IF Holding(req[r]) THEN req[r].node ELSE <<>>
                        /\ Holding(req[r]) => req[r].node \in Nodes(tree) \cup {<<>>}
  BY <1>1, SoundIs
<1> HIDE DEF hold
<1>7. /\ TreeInv(s, hold) /\ gone \subseteq Unheld(tree, hold)
      /\ DOMAIN s.slots = DOMAIN tree.slots \ gone
      /\ \A p \in DOMAIN s.slots : s.slots[p] = tree.slots[p]
  BY <1>5, <1>6, EvictGood
<1> HIDE DEF gone, s, X
<1>8. gone \subseteq DOMAIN tree.slots /\ \A p \in gone : \A r \in Req : ~IsPrefix(p, hold[r])
  BY <1>7 DEF Unheld
<1>9. Owned(s, Freed(free, X), OwnOf(req))
  <2> DEFINE own == OwnOf(req)
  <2>1. Owned(tree, free, own) BY <1>6
  <2> HIDE DEF own
  <2>2. Owned(s, Freed(free, X), own) BY <1>6, <1>7, <1>8, <2>1, EvictedOwners DEF X
  <2>3. QED BY <2>2 DEF own
<1>10. /\ \A p \in DOMAIN s.slots : s.slots[p] \in Slots /\ s.slots[p] \notin X
       /\ \A r \in Req : PrivateOf(req[r]) \cap X = {} /\ PrivateOf(req[r]) \subseteq Slots
  <2>1. /\ \A p, o \in DOMAIN tree.slots : tree.slots[p] = tree.slots[o] => p = o
        /\ \A r \in Req : \A p \in DOMAIN tree.slots : tree.slots[p] \notin OwnOf(req)[r]
        /\ \A r \in Req : OwnOf(req)[r] \subseteq Slots
    BY <1>6 DEF Owned
  <2>2. \A p \in DOMAIN s.slots : s.slots[p] \in Slots /\ s.slots[p] \notin X
    BY <1>6, <1>7, <1>8, <2>1 DEF X
  <2>3. QED BY <1>6, <1>8, <2>1, <2>2 DEF X
<1>11. \A x \in Slots : x \notin X => content'[x] = content[x] BY <1>4 DEF Forgotten
<1>12. \A p \in DOMAIN s.slots : content'[s.slots[p]] = p BY <1>6, <1>7, <1>10, <1>11
<1>13. content' \in [Slots -> Path]
  <2>1. <<>> \in Path BY DEF Path
  <2>2. QED BY <1>4, <1>6, <2>1 DEF Forgotten
<1>14. ASSUME NEW r \in Req PROVE ReqOK(req[r], s, content', Stage[r])
  <2> DEFINE q == req[r]
  <2>1. /\ ReqOK(q, tree, content, Stage[r]) /\ (Holding(q) => q.node \in Nodes(tree) \cup {<<>>})
        /\ q.node \in Path /\ hold[r] = IF Holding(q) THEN q.node ELSE <<>>
    BY <1>6 DEF ReqType
  <2>2. PrivateOf(q) \cap X = {} /\ PrivateOf(q) \subseteq Slots BY <1>10
  <2> HIDE DEF q
  <2>3. /\ Holding(q) => \A i \in 1 .. Len(q.node) : Take(q.node, i) \in DOMAIN tree.slots
        /\ \A i \in 1 .. Len(q.row) :
             \/ q.row[i] \in PrivateOf(q)
             \/ /\ Holding(q) /\ i \in 1 .. Len(q.node)
                /\ q.row[i] = tree.slots[Take(q.node, i)] /\ Take(q.node, i) \in DOMAIN tree.slots
    BY <1>6, <2>1, RowIs
  <2>4. Holding(q) => \A i \in 1 .. Len(q.node) : /\ Take(q.node, i) \in DOMAIN s.slots
                                                  /\ s.slots[Take(q.node, i)] = tree.slots[Take(q.node, i)]
    <3> SUFFICES ASSUME Holding(q), NEW i \in 1 .. Len(q.node)
                 PROVE  /\ Take(q.node, i) \in DOMAIN s.slots
                        /\ s.slots[Take(q.node, i)] = tree.slots[Take(q.node, i)]
      OBVIOUS
    <3>1. i \in 0 .. Len(q.node) BY <2>1 DEF Path
    <3>2. IsPrefix(Take(q.node, i), q.node) BY <2>1, <3>1, TakeIs
    <3>3. Take(q.node, i) \notin gone BY <1>8, <2>1, <3>2
    <3>4. QED BY <1>7, <2>3, <3>3
  <2>5. \A i \in 1 .. Len(q.row) : q.row[i] \in Slots /\ q.row[i] \notin X
    BY <1>10, <2>2, <2>3, <2>4
  <2>6. \A i \in 1 .. Len(q.row) : content'[q.row[i]] = content[q.row[i]] BY <1>11, <2>5
  <2>7. Holding(q) => \A i \in 1 .. Len(q.node) : s.slots[Take(q.node, i)] = tree.slots[Take(q.node, i)]
    BY <2>4
  <2>8. ReqOK(q, s, content', Stage[r]) BY <2>1, <2>6, <2>7, ReqKept
  <2>9. QED BY <2>8 DEF q
<1>15. \A r \in Req : Stage'[r] = Stage[r] BY <1>2 DEF Stage, at
<1>16. Sound(tree', free', content', req', Stage')
  <2>1. Sound(s, free', content', req, Stage)
    BY <1>4, <1>6, <1>7, <1>9, <1>12, <1>13, <1>14 DEF Sound, hold
  <2> DEFINE s2 == Stage'
  <2>2. \A r \in Req : s2[r] = Stage[r] BY <1>15
  <2> HIDE DEF s2
  <2>3. Sound(s, free', content', req, s2) BY <2>1, <2>2, StageOnly
  <2>4. QED BY <1>2, <1>4, <2>3 DEF s2
<1>17. PhaseInv' BY <1>1, <1>2 DEF PhaseInv, With, at
<1>18. QED BY <1>16, <1>17 DEF Inv, Sound, HoldOf, OwnOf

\* Another tree on the same paths.
LEMMA TreeReplaced ==
  ASSUME NEW t, NEW fr, NEW ct, NEW rq, NEW stage, Sound(t, fr, ct, rq, stage),
         NEW t2, TreeInv(t2, HoldOf(rq)), t2.slots = t.slots
  PROVE  Sound(t2, fr, ct, rq, stage)
<1>1. Owned(t2, fr, OwnOf(rq)) BY DEF Sound, Owned
<1>2. ASSUME NEW r \in Req PROVE ReqOK(rq[r], t2, ct, stage[r])
  <2>1. ReqOK(rq[r], t, ct, stage[r]) BY DEF Sound
  <2>2. QED BY <2>1, ReqKept
<1>3. QED BY <1>1, <1>2 DEF Sound

\* A row no longer than the cached prefix holds no slot of its own.
LEMMA NoneOwned ==
  ASSUME NEW q, NEW t, NEW ct, NEW stage, ReqOK(q, t, ct, stage), Shape(t),
         Holding(q) => q.node \in Nodes(t) \cup {<<>>}, Len(q.row) <= Len(q.prefix)
  PROVE  PrivateOf(q) = {}
<1>1. /\ Len(q.row) \in Nat /\ Len(q.prefix) \in Nat
      /\ \A x : x \in PrivateOf(q) <=> \E i \in Len(q.prefix) + 1 .. Len(q.row) : q.row[i] = x
  BY RowIs
<1>2. \A i \in Len(q.prefix) + 1 .. Len(q.row) : FALSE BY <1>1
<1>3. QED BY <1>1, <1>2

\* After a request has handed its slots over.
LEMMA SettledSound ==
  ASSUME NEW k, NEW stage, NEW r \in Req, NEW hold, Settled(k, stage, r, hold),
         req \in [Req -> ReqType],
         NEW stage2, \A u \in Req \ {r} : stage2[u] = stage[u],
         NEW q, ReqOK(q, k.tree, Forgotten(content, k.released), stage2[r]),
         Len(q.row) <= Len(q.prefix), hold = IF Holding(q) THEN q.node ELSE <<>>
  PROVE  Sound(k.tree, Freed(free, k.released), Forgotten(content, k.released),
               [req EXCEPT ![r] = q], stage2)
<1> DEFINE fr == Freed(free, k.released)
           ct == Forgotten(content, k.released)
           t == k.tree
<1>1. /\ TreeInv(t, [HoldOf(req) EXCEPT ![r] = hold])
      /\ Owned(t, fr, [OwnOf(req) EXCEPT ![r] = {}])
      /\ ct \in [Slots -> Path] /\ \A p \in DOMAIN t.slots : ct[t.slots[p]] = p
      /\ \A u \in Req \ {r} : ReqOK(req[u], t, ct, stage[u])
  BY DEF Settled
<1>2. ReqOK(q, t, ct, stage2[r]) OBVIOUS
<1> HIDE DEF fr, ct, t
<1>3. Shape(t) /\ (Holding(q) => q.node \in Nodes(t) \cup {<<>>})
  <2> DEFINE h == [HoldOf(req) EXCEPT ![r] = hold]
  <2>1. Shape(t) /\ h \in [Req -> Nodes(t) \cup {<<>>}] BY <1>1 DEF TreeInv
  <2>2. h[r] = hold BY DEF HoldOf
  <2> HIDE DEF h
  <2>3. QED BY <2>1, <2>2
<1>4. PrivateOf(q) = {} BY <1>2, <1>3, NoneOwned
<1>5. \A u \in Req \ {r} : ReqOK(req[u], t, ct, stage2[u]) BY <1>1
<1>6. Sound(t, fr, ct, [req EXCEPT ![r] = q], stage2) BY <1>1, <1>2, <1>4, <1>5, SoundChanged
<1>7. QED BY <1>6 DEF fr, ct, t

\* The requests of a batch about to run are ready for it.
LEMMA BatchReady ==
  ASSUME Inv, phase \in {"extend", "decode"}
  PROVE  batch \in SUBSET Req /\ \A r \in batch : Ready(req[r], phase, Stage[r])
<1>1. PhaseInv BY DEF Inv
<1>2. at = phase BY DEF at
<1>3. batch \in SUBSET Req BY <1>1 DEF PhaseInv
<1>4. ASSUME NEW r \in batch PROVE Ready(req[r], phase, Stage[r])
  <2>1. r \in Req BY <1>3
  <2>2. CASE phase = "extend"
    <3>1. Stage[r] = "admitted" BY <1>2, <2>1, <2>2 DEF Stage
    <3>2. Holding(req[r]) BY <1>1, <1>2, <2>2 DEF PhaseInv
    <3>3. QED BY <2>2, <3>1, <3>2 DEF Ready
  <2>3. CASE phase = "decode"
    <3>1. Stage[r] = "idle" BY <1>2, <2>1, <2>3 DEF Stage
    <3>2. req[r].status = "running" BY <1>1, <1>2, <2>3 DEF PhaseInv, With
    <3>3. QED BY <2>3, <3>1, <3>2 DEF Ready, Holding
  <2>4. QED BY <2>2, <2>3
<1>5. QED BY <1>3, <1>4

\* Running a batch takes what it wants, and leaves its requests' tokens as they were.
RunTakes == /\ Left' = Left - Wanted(phase) /\ Wanted(phase) \in Nat
            /\ With("chunked")' = With("chunked") /\ \A r \in Req : Rest(r)' = Rest(r)

LEMMA RunStep == ASSUME Inv, Run PROVE Inv' /\ RunTakes
<1>1. PhaseInv /\ Sound(tree, free, content, req, Stage) BY DEF Inv
<1>2. phase \in {"extend", "decode"} /\ todo' = batch \ With("chunked") /\ back' = phase BY Zenon DEF Run
<1>3. phase' = IF todo' = {} THEN "start" ELSE "results" BY Zenon DEF Run
<1>4. UNCHANGED <<need, tree, available, budget, chunkLeft, batch, prompt>> BY Zenon DEF Run
<1>5. at = phase /\ at' = phase' BY <1>2, <1>3 DEF at
<1> DEFINE stage2 == [r \in Req |-> IF r \in batch THEN After(req[r], phase) ELSE Stage[r]]
<1>6. batch \in SUBSET Req BY <1>1 DEF PhaseInv
<1>7. \A r \in batch : Ready(req[r], phase, Stage[r]) BY <1>2, BatchReady
<1>8. \A r \in Req : stage2[r] = IF r \in batch THEN After(req[r], phase) ELSE Stage[r] OBVIOUS
<1> HIDE DEF stage2
<1>9. /\ Sound(tree, free', content', req', stage2)
      /\ \A r \in Req : /\ req'[r].status = req[r].status
                        /\ req'[r].ids = req[r].ids /\ req'[r].fill = req[r].fill
      /\ SumFunctionOnSet(free', Slots) = AvailableSize - Wanted(phase) /\ Wanted(phase) \in Nat
  <2> DEFINE s1 == Stage
  <2>1. /\ Sound(tree, free, content, req, s1) /\ \A r \in batch : Ready(req[r], phase, s1[r])
        /\ \A r \in Req : stage2[r] = IF r \in batch THEN After(req[r], phase) ELSE s1[r]
    BY <1>1, <1>7, <1>8
  <2> HIDE DEF s1
  <2>2. QED BY <1>6, <2>1, RunGood
<1>10. ASSUME NEW r \in Req PROVE Stage'[r] = stage2[r]
  <2>1. Stage'[r] = IF phase' = "results" /\ r \in todo' THEN phase ELSE "idle"
    BY <1>2, <1>3, <1>5 DEF Stage
  <2>2. CASE r \in todo'
    <3>1. r \in batch /\ req[r].status # "chunked" BY <1>2, <2>2 DEF With
    <3>2. QED BY <1>3, <1>8, <2>1, <2>2, <3>1 DEF After
  <2>3. CASE r \notin todo'
    <3>1. CASE r \in batch
      <4>1. req[r].status = "chunked" BY <1>2, <2>3, <3>1 DEF With
      <4>2. QED BY <1>8, <2>1, <2>3, <3>1, <4>1 DEF After
    <3>2. CASE r \notin batch
      <4>1. Stage[r] = "idle" BY <1>2, <1>5, <3>2 DEF Stage
      <4>2. QED BY <1>8, <2>1, <2>3, <3>2, <4>1
    <3>3. QED BY <3>1, <3>2
  <2>4. QED BY <2>2, <2>3
<1>11. Sound(tree', free', content', req', Stage')
  <2> DEFINE s2 == Stage'
  <2>1. \A r \in Req : s2[r] = stage2[r] BY <1>10
  <2> HIDE DEF s2
  <2>2. Sound(tree, free', content', req', s2) BY <1>9, <2>1, StageOnly
  <2>3. QED BY <1>4, <2>2 DEF s2
<1>12. With("chunked")' = With("chunked") /\ With("running")' = With("running") BY <1>9 DEF With
<1>13. todo' \subseteq With("running") /\ todo' \subseteq Req
  <2>1. CASE phase = "extend"
    <3>1. \A r \in batch : Holding(req[r]) BY <1>1, <1>5, <2>1 DEF PhaseInv
    <3>2. QED BY <1>2, <1>6, <3>1 DEF Holding, With
  <2>2. CASE phase = "decode"
    <3>1. batch \subseteq With("running") BY <1>1, <1>5, <2>2 DEF PhaseInv
    <3>2. QED BY <1>2, <1>6, <3>1
  <2>3. QED BY <1>2, <2>1, <2>2
<1>14. PhaseInv' BY <1>1, <1>2, <1>3, <1>4, <1>5, <1>12, <1>13 DEF PhaseInv
<1>15. Inv' BY <1>11, <1>14 DEF Inv, Sound, HoldOf, OwnOf
<1>16. Left' = Left - Wanted(phase)
  <2>1. AvailableSize \in Nat /\ tree.evictable \in Nat BY SizesAre
  <2>2. AvailableSize' = AvailableSize - Wanted(phase) /\ tree'.evictable = tree.evictable
    BY <1>4, <1>9 DEF AvailableSize
  <2>3. QED BY <1>9, <2>1, <2>2 DEF Left
<1>17. \A r \in Req : Rest(r)' = Rest(r) BY <1>9 DEF Rest
<1>18. QED BY <1>9, <1>12, <1>15, <1>16, <1>17 DEF RunTakes

LEMMA RetractOneGood == ASSUME Inv, RetractOne PROVE Inv'
<1>1. PhaseInv /\ Sound(tree, free, content, req, Stage) BY DEF Inv
<1>2. phase = "retract" /\ phase' = "evict" /\ UNCHANGED <<back, available, budget, chunkLeft, todo, prompt>>
  BY Zenon DEF RetractOne
<1>3. PICK r \in Victims :
        /\ batch' = batch \ {r}
        /\ Free(Range(SubSeq(req[r].row, Len(req[r].prefix) + 1, Len(req[r].row))))
        /\ tree' = DecLock(tree, req[r].node)
        /\ req' = [req EXCEPT ![r] = [@ EXCEPT !.status = "waiting", !.row = <<>>,
                                                !.prefix = <<>>, !.node = <<>>]]
  BY Zenon DEF RetractOne
<1>4. at = "retract" /\ at' = "retract" /\ back = "retract" BY <1>1, <1>2 DEF at, PhaseInv
<1>5. r \in batch /\ r \in Req /\ req[r].status = "running" /\ batch \subseteq With("running")
  BY <1>1, <1>4 DEF Victims, PhaseInv, With
<1> DEFINE p == req[r]
           X == PrivateOf(p)
           none == <<>>
           q == [p EXCEPT !.status = "waiting", !.row = none, !.prefix = none, !.node = none]
           hold == HoldOf(req)
           own == OwnOf(req)
           t2 == DecLock(tree, p.node)
           s2 == Stage'
<1>6. free' = Freed(free, X) /\ content' = Forgotten(content, X) /\ tree' = t2 /\ req' = [req EXCEPT ![r] = q]
  BY <1>3 DEF Free, Freed, Forgotten, PrivateOf
<1>7. /\ req \in [Req -> ReqType] /\ content \in [Slots -> Path]
      /\ TreeInv(tree, hold) /\ Owned(tree, free, own)
      /\ \A u \in Req : ReqOK(req[u], tree, content, Stage[u])
      /\ own[r] = X /\ p \in ReqType /\ (Holding(p) => hold[r] = p.node)
      /\ ReqOK(p, tree, content, Stage[r])
  BY <1>1, <1>5, SoundIs
<1>8. Holding(p) /\ hold[r] = p.node BY <1>5, <1>7 DEF Holding
<1>9. \A u \in Req : s2[u] = "idle" /\ Stage[u] = "idle" BY <1>2, <1>4 DEF Stage
<1>10. /\ q \in ReqType /\ q.status = "waiting" /\ q.row = none /\ q.prefix = none /\ q.node = none
       /\ q.ids = p.ids
  <2>1. none \in Path /\ none \in Seq(Slots) BY DEF Path
  <2>2. p \in ReqType BY <1>7
  <2> HIDE DEF p, none
  <2>3. QED BY <2>1, <2>2 DEF ReqType
<1>11. p.ids # <<>> BY <1>7 DEF ReqOK
<1> HIDE DEF s2, hold, own, q
<1>12. TreeInv(t2, [hold EXCEPT ![r] = <<>>]) /\ t2.slots = tree.slots
  <2>1. t2 = DecLock(tree, hold[r]) BY <1>8
  <2> HIDE DEF t2
  <2>2. /\ TreeInv(DecLock(tree, hold[r]), [hold EXCEPT ![r] = <<>>])
        /\ DecLock(tree, hold[r]).slots = tree.slots
    BY <1>5, <1>7, DecGood
  <2>3. QED BY <2>1, <2>2
<1>13. PrivateOf(q) = {} BY <1>10 DEF PrivateOf, Range
<1>14. Owned(t2, free', [own EXCEPT ![r] = {}])
  <2>1. X \in SUBSET own[r] /\ own[r] \ X = {} /\ Owned(tree, free, own) BY <1>7
  <2> HIDE DEF X
  <2>2. Owned(tree, Freed(free, X), [own EXCEPT ![r] = own[r] \ X]) BY <1>5, <2>1, ReleasedOwners
  <2>3. Owned(tree, free', [own EXCEPT ![r] = {}]) BY <1>6, <2>1, <2>2
  <2> HIDE DEF t2
  <2>4. QED BY <1>12, <2>3 DEF Owned
<1> HIDE DEF t2
<1>15. /\ \A u \in Req \ {r} : ReqOK(req[u], t2, content', s2[u])
       /\ \A o \in DOMAIN tree.slots : content'[t2.slots[o]] = o
  <2> DEFINE s1 == Stage
  <2>1. Sound(tree, free, content, req, s1) /\ X \in SUBSET PrivateOf(req[r]) BY <1>1
  <2>2. \A o \in DOMAIN tree.slots : t2.slots[o] = tree.slots[o] BY <1>12
  <2>3. \A u \in Req : s1[u] = s2[u] BY <1>9
  <2> HIDE DEF s1, X
  <2>4. \A u \in Req \ {r} : ReqOK(req[u], t2, Forgotten(content, X), s1[u])
    BY <1>5, <2>1, <2>2, ReleasedOthers
  <2>5. \A o \in DOMAIN tree.slots : Forgotten(content, X)[t2.slots[o]] = o
    BY <1>5, <2>1, <2>2, ReleasedOthers
  <2>6. QED BY <1>6, <2>3, <2>4, <2>5
<1>16. ReqOK(q, t2, content', s2[r])
  BY <1>5, <1>9, <1>10, <1>11 DEF ReqOK, RowLen, Holding, Stages
<1>17. content' \in [Slots -> Path]
  <2>1. <<>> \in Path BY DEF Path
  <2>2. QED BY <1>6, <1>7, <2>1 DEF Forgotten
<1>18. Sound(t2, free', content', [req EXCEPT ![r] = q], s2)
  <2>1. TreeInv(t2, [HoldOf(req) EXCEPT ![r] = IF Holding(q) THEN q.node ELSE <<>>])
    BY <1>10, <1>12 DEF hold, Holding
  <2>2. Owned(t2, free', [OwnOf(req) EXCEPT ![r] = PrivateOf(q)]) BY <1>13, <1>14 DEF own
  <2>3. \A o \in DOMAIN t2.slots : content'[t2.slots[o]] = o BY <1>12, <1>15
  <2>4. QED BY <1>5, <1>7, <1>15, <1>16, <1>17, <2>1, <2>2, <2>3, SoundChanged
<1>19. \A u \in Req : req'[u] = IF u = r THEN q ELSE req[u] BY <1>5, <1>6, <1>7
<1>20. /\ With("chunked")' = With("chunked") /\ With("running")' = With("running") \ {r}
  BY <1>5, <1>10, <1>19 DEF With
<1>21. PhaseInv' BY <1>1, <1>2, <1>3, <1>4, <1>5, <1>20 DEF PhaseInv
<1>22. QED BY <1>6, <1>18, <1>21 DEF Inv, Sound, HoldOf, OwnOf, s2

\* One more token.
LEMMA AppendIs ==
  ASSUME NEW s \in Path, NEW x \in Vocabulary
  PROVE  /\ Append(s, x) \in Path /\ Append(s, x) # <<>> /\ Len(Append(s, x)) = Len(s) + 1
         /\ Len(s) \in Nat /\ \A i \in 0 .. Len(s) : Take(Append(s, x), i) = Take(s, i)
         /\ IsPrefix(s, Append(s, x))
<1> DEFINE t == Append(s, x)
<1>1. t \in Path /\ t # <<>> /\ Len(t) = Len(s) + 1 /\ Len(s) \in Nat /\ \A i \in 1 .. Len(s) : t[i] = s[i]
  BY DEF Path
<1> HIDE DEF t
<1>2. ASSUME NEW i \in 0 .. Len(s) PROVE Take(t, i) = Take(s, i)
  <2>1. i \in 0 .. Len(t) /\ \A j \in 1 .. i : j \in 1 .. Len(s) BY <1>1
  <2>2. /\ Take(t, i) \in Seq(Vocabulary) /\ Len(Take(t, i)) = i
        /\ \A j \in 1 .. i : Take(t, i)[j] = t[j]
    BY <1>1, <2>1, TakeIs DEF Path
  <2>3. /\ Take(s, i) \in Seq(Vocabulary) /\ Len(Take(s, i)) = i
        /\ \A j \in 1 .. i : Take(s, i)[j] = s[j]
    BY <1>1, <2>1, TakeIs DEF Path
  <2>4. QED BY <1>1, <2>1, <2>2, <2>3
<1>3. IsPrefix(s, t)
  <2>1. Len(s) \in 0 .. Len(t) /\ Len(s) \in 0 .. Len(s) BY <1>1
  <2>2. Take(t, Len(s)) = s BY <1>2, <2>1, TakeIs
  <2>3. QED BY <1>1, <2>1, <2>2, PrefixIs
<1>4. QED BY <1>1, <1>2, <1>3 DEF t

\* A request that is due a result, and is idle once it has got it.
Due(r, stage, stage2) ==
  /\ Sound(tree, free, content, req, stage) /\ r \in Req /\ req[r].status = "running"
  /\ stage[r] \in {"extend", "decode"} /\ stage2[r] = "idle"
  /\ \A u \in Req \ {r} : stage2[u] = stage[u]

LEMMA DueIs ==
  ASSUME NEW r, NEW stage, NEW stage2, Due(r, stage, stage2)
  PROVE  /\ HasRow(tree, free, content, req, stage, r, req[r].ids)
         /\ req[r] \in ReqType /\ req[r].ids \in Path /\ ReqOK(req[r], tree, content, stage[r])
         /\ Len(req[r].row) = Len(req[r].ids)
<1> DEFINE p == req[r]
<1>1. /\ Sound(tree, free, content, req, stage) /\ r \in Req /\ p.status = "running"
      /\ stage[r] \in {"extend", "decode"}
  BY DEF Due
<1>2. ReqOK(p, tree, content, stage[r]) BY <1>1, SoundIs
<1>3. /\ p \in ReqType /\ p.ids # <<>> /\ Len(p.row) = RowLen(p, stage[r]) /\ p.ids \in Path
  BY <1>2 DEF ReqOK, ReqType
<1>4. Len(p.row) = Len(p.ids) /\ Holding(p) BY <1>1, <1>3 DEF RowLen, Holding
<1>5. IsPrefix(p.ids, p.ids) BY <1>3, PrefixOrder
<1>6. QED BY <1>1, <1>2, <1>3, <1>4, <1>5 DEF HasRow

LEMMA EndsGood ==
  ASSUME NEW r, NEW stage, NEW stage2, Due(r, stage, stage2), NEW token \in Vocabulary
  PROVE  LET k == CacheFinished(r, req[r].ids)
             q == [k.req EXCEPT !.ids = Append(@, token)]
         IN  /\ Sound(k.tree, Freed(free, k.released), Forgotten(content, k.released),
                      [req EXCEPT ![r] = q], stage2)
             /\ q.status = "done"
             /\ SumFunctionOnSet(Freed(free, k.released), Slots) + k.tree.evictable >= Left
<1> DEFINE p == req[r]
           k == CacheFinished(r, p.ids)
           none == <<>>
           ids == Append(p.ids, token)
           d == [p EXCEPT !.status = "done", !.row = none]
           q == [d EXCEPT !.ids = ids]
<1>1. HasRow(tree, free, content, req, stage, r, p.ids) /\ p \in ReqType /\ p.ids \in Path BY DueIs
<1>2. Settled(k, stage, r, none) /\ k.req = d
  <2> DEFINE key == p.ids
  <2>1. HasRow(tree, free, content, req, stage, r, key) BY <1>1
  <2> HIDE DEF key
  <2>2. Finished(r, stage, key) BY <2>1, CacheFinishedGood
  <2>3. QED BY <2>2 DEF key, Finished
<1>3. ids \in Path /\ ids # <<>> BY <1>1, AppendIs
<1>4. d \in ReqType /\ d.status = "done" /\ d.row = none /\ d.ids = p.ids
  <2>1. none \in Seq(Slots) OBVIOUS
  <2> HIDE DEF p, none
  <2>2. QED BY <1>1, <2>1 DEF ReqType
<1>5. [k.req EXCEPT !.ids = Append(@, token)] = q BY <1>2, <1>4
<1> HIDE DEF d, ids
<1>6. q \in ReqType /\ q.status = "done" /\ q.row = none /\ q.ids = ids
  <2> HIDE DEF none
  <2>1. QED BY <1>3, <1>4 DEF ReqType
<1> HIDE DEF q, k
<1>7. /\ r \in Req /\ stage2[r] = "idle" /\ (\A u \in Req \ {r} : stage2[u] = stage[u])
      /\ req \in [Req -> ReqType]
  BY DEF Due, Sound
<1>8. ReqOK(q, k.tree, Forgotten(content, k.released), stage2[r])
  BY <1>3, <1>6, <1>7 DEF ReqOK, RowLen, Holding, Stages
<1>9. ~Holding(q) /\ Len(q.row) <= Len(q.prefix)
  <2>1. q.prefix \in Seq(Slots) BY <1>6 DEF ReqType
  <2>2. QED BY <1>6, <2>1 DEF Holding
<1>10. Sound(k.tree, Freed(free, k.released), Forgotten(content, k.released), [req EXCEPT ![r] = q], stage2)
  BY <1>2, <1>7, <1>8, <1>9, SettledSound
<1>11. SumFunctionOnSet(Freed(free, k.released), Slots) + k.tree.evictable >= Left
  BY <1>2 DEF Settled
<1>12. QED BY <1>5, <1>6, <1>10, <1>11 DEF k, p

LEMMA CachedResultGood ==
  ASSUME NEW r, NEW stage, NEW stage2, Due(r, stage, stage2), NEW token \in Vocabulary,
         stage[r] = "extend"
  PROVE  LET k == CacheUnfinished(r, Take(req[r].ids, req[r].fill))
             q == [k.req EXCEPT !.ids = Append(@, token)]
         IN  /\ Sound(k.tree, Freed(free, k.released), Forgotten(content, k.released),
                      [req EXCEPT ![r] = q], stage2)
             /\ q.status = "running"
             /\ SumFunctionOnSet(Freed(free, k.released), Slots) + k.tree.evictable >= Left
<1> DEFINE p == req[r]
           key == p.ids
           k == CacheUnfinished(r, key)
           s == SlotsOf(k.tree, key)
           ids == Append(p.ids, token)
           d == [p EXCEPT !.row = s, !.prefix = s, !.node = key]
           q == [d EXCEPT !.ids = ids]
           ct == Forgotten(content, k.released)
<1>1. /\ HasRow(tree, free, content, req, stage, r, key) /\ p \in ReqType /\ key \in Path
      /\ ReqOK(p, tree, content, stage[r])
  BY DueIs
<1>2. /\ r \in Req /\ stage2[r] = "idle" /\ (\A u \in Req \ {r} : stage2[u] = stage[u])
      /\ req \in [Req -> ReqType] /\ p.status = "running"
  BY DEF Due, Sound
<1>3. p.fill = Len(p.ids) BY <1>1, <1>2 DEF ReqOK, Holding
<1>4. Take(p.ids, p.fill) = key
  <2>1. Len(key) \in 0 .. Len(key) BY <1>1 DEF Path
  <2>2. QED BY <1>1, <1>3, <2>1, TakeIs
<1> HIDE DEF key
<1>5. /\ Settled(k, stage, r, key) /\ k.req = d /\ s \in Seq(Slots) /\ Len(s) = Len(key)
      /\ \A i \in 1 .. Len(key) : ct[s[i]] = Take(key, i)
  <2>1. Unfinished(r, stage, key) BY <1>1, CacheUnfinishedGood
  <2>2. QED BY <2>1 DEF Unfinished
<1>6. /\ ids \in Path /\ ids # <<>> /\ Len(ids) = Len(key) + 1 /\ Len(key) \in Nat
      /\ \A i \in 0 .. Len(key) : Take(ids, i) = Take(key, i)
      /\ IsPrefix(key, ids)
  BY <1>1, AppendIs DEF key
<1> HIDE DEF k, ids
<1>7. /\ d \in ReqType /\ d.status = "running" /\ d.row = s /\ d.prefix = s /\ d.node = key
      /\ d.ids = p.ids /\ d.fill = p.fill
  <2> HIDE DEF p, s
  <2>1. QED BY <1>1, <1>2, <1>5 DEF ReqType
<1>8. [k.req EXCEPT !.ids = Append(@, token)] = q BY <1>5, <1>7 DEF ids
<1> HIDE DEF d
<1>9. /\ q \in ReqType /\ q.status = "running" /\ q.row = s /\ q.prefix = s /\ q.node = key
      /\ q.ids = ids /\ q.fill = Len(key)
  <2>1. d.fill = Len(key) BY <1>3, <1>7 DEF key
  <2> HIDE DEF p, s
  <2>2. QED BY <1>6, <1>7, <2>1 DEF ReqType
<1> HIDE DEF q
<1>10. ReqOK(q, k.tree, ct, stage2[r])
  <2>1. Take(s, Len(key)) = s BY <1>5 DEF Take
  <2>2. Len(q.row) = RowLen(q, stage2[r])
    <3>1. RowLen(q, stage2[r]) = Len(ids) - 1 BY <1>2, <1>9 DEF RowLen, Holding
    <3>2. QED BY <1>5, <1>6, <1>9, <3>1
  <2>3. \A i \in 1 .. Len(q.row) : ct[q.row[i]] = Take(q.ids, i) BY <1>5, <1>6, <1>9
  <2>4. 0 < Len(key)
    <3>1. key # <<>> BY <1>1 DEF HasRow
    <3>2. QED BY <1>1, <3>1 DEF Path
  <2>5. q.prefix = SlotsOf(k.tree, q.node) BY <1>9
  <2>6. stage2[r] \in Stages BY <1>2 DEF Stages
  <2> HIDE DEF s, ct
  <2>7. QED BY <1>2, <1>5, <1>6, <1>9, <2>1, <2>2, <2>3, <2>4, <2>5, <2>6 DEF ReqOK, Holding
<1>11. Len(q.row) <= Len(q.prefix) /\ key = IF Holding(q) THEN q.node ELSE <<>>
  BY <1>5, <1>6, <1>9 DEF Holding
<1>12. Sound(k.tree, Freed(free, k.released), Forgotten(content, k.released), [req EXCEPT ![r] = q], stage2)
  BY <1>2, <1>5, <1>10, <1>11, SettledSound DEF ct
<1>13. SumFunctionOnSet(Freed(free, k.released), Slots) + k.tree.evictable >= Left
  BY <1>5 DEF Settled
<1>14. QED BY <1>4, <1>8, <1>9, <1>12, <1>13 DEF k

LEMMA DecodedGood ==
  ASSUME NEW r, NEW stage, NEW stage2, Due(r, stage, stage2), NEW token \in Vocabulary
  PROVE  LET q == [req[r] EXCEPT !.ids = Append(@, token)]
         IN  /\ Sound(tree, Freed(free, {}), Forgotten(content, {}), [req EXCEPT ![r] = q], stage2)
             /\ q.status = "running"
             /\ Freed(free, {}) = free
<1> DEFINE p == req[r]
           ids == Append(p.ids, token)
           q == [p EXCEPT !.ids = ids]
<1>1. /\ p \in ReqType /\ p.ids \in Path /\ ReqOK(p, tree, content, stage[r]) /\ Len(p.row) = Len(p.ids)
  BY DueIs
<1>2. /\ r \in Req /\ stage2[r] = "idle" /\ (\A u \in Req \ {r} : stage2[u] = stage[u])
      /\ Sound(tree, free, content, req, stage) /\ p.status = "running" /\ stage[r] # "admitted"
  BY DEF Due
<1>3. /\ req \in [Req -> ReqType] /\ content \in [Slots -> Path]
      /\ TreeInv(tree, HoldOf(req)) /\ Owned(tree, free, OwnOf(req))
      /\ \A o \in DOMAIN tree.slots : content[tree.slots[o]] = o
      /\ \A u \in Req : ReqOK(req[u], tree, content, stage[u])
      /\ OwnOf(req)[r] = PrivateOf(p) /\ HoldOf(req)[r] = IF Holding(p) THEN p.node ELSE <<>>
  BY <1>2, SoundIs
<1>4. Freed(free, {}) = free /\ Forgotten(content, {}) = content
  <2>1. free \in [Slots -> 0 .. 1] BY <1>3 DEF Owned
  <2>2. QED BY <1>3, <2>1 DEF Freed, Forgotten
<1>5. /\ ids \in Path /\ ids # <<>> /\ Len(ids) = Len(p.ids) + 1 /\ Len(p.ids) \in Nat
      /\ \A i \in 0 .. Len(p.ids) : Take(ids, i) = Take(p.ids, i)
      /\ IsPrefix(p.ids, ids)
  BY <1>1, AppendIs
<1> HIDE DEF ids
<1>6. /\ q \in ReqType /\ q.status = "running" /\ q.ids = ids /\ q.row = p.row /\ q.prefix = p.prefix
      /\ q.node = p.node /\ q.fill = p.fill
  <2> HIDE DEF p
  <2>1. QED BY <1>1, <1>2, <1>5 DEF ReqType
<1>7. [req[r] EXCEPT !.ids = Append(@, token)] = q BY DEF ids
<1> HIDE DEF q
<1>8. PrivateOf(q) = PrivateOf(p) /\ (IF Holding(q) THEN q.node ELSE <<>>) = HoldOf(req)[r]
  BY <1>2, <1>3, <1>6 DEF PrivateOf, Holding
<1>9. ReqOK(q, tree, content, stage2[r])
  <2>1. /\ IsPrefix(p.node, p.ids) /\ p.prefix = SlotsOf(tree, p.node) /\ p.node \in Path
        /\ Len(p.node) <= p.fill /\ 0 < p.fill /\ p.fill <= Len(p.ids)
        /\ Len(p.node) <= Len(p.row) /\ Take(p.row, Len(p.node)) = p.prefix
        /\ \A i \in 1 .. Len(p.row) : content[p.row[i]] = Take(p.ids, i)
    BY <1>1, <1>2 DEF ReqOK, Holding, ReqType
  <2>2. IsPrefix(p.node, ids) BY <1>1, <1>5, <2>1, PrefixOrder
  <2>3. Len(q.row) = RowLen(q, stage2[r])
    <3>1. RowLen(q, stage2[r]) = Len(ids) - 1 BY <1>2, <1>6 DEF RowLen, Holding
    <3>2. QED BY <1>1, <1>5, <1>6, <3>1
  <2>4. \A i \in 1 .. Len(q.row) : content[q.row[i]] = Take(q.ids, i) BY <1>1, <1>5, <1>6, <2>1
  <2>5. stage2[r] \in Stages BY <1>2 DEF Stages
  <2>6. p.fill \in Nat /\ p.fill <= Len(ids) BY <1>1, <1>5, <2>1 DEF ReqType
  <2> HIDE DEF p
  <2>7. QED BY <1>2, <1>5, <1>6, <2>1, <2>2, <2>3, <2>4, <2>5, <2>6 DEF ReqOK, Holding
<1>10. Sound(tree, free, content, [req EXCEPT ![r] = q], stage2)
  <2>1. [HoldOf(req) EXCEPT ![r] = IF Holding(q) THEN q.node ELSE <<>>] = HoldOf(req)
    BY <1>2, <1>8 DEF HoldOf
  <2>2. [OwnOf(req) EXCEPT ![r] = PrivateOf(q)] = OwnOf(req) BY <1>2, <1>3, <1>8 DEF OwnOf
  <2>3. \A u \in Req \ {r} : ReqOK(req[u], tree, content, stage2[u]) BY <1>2, <1>3
  <2>4. QED BY <1>2, <1>3, <1>9, <2>1, <2>2, <2>3, SoundChanged
<1>11. QED BY <1>4, <1>6, <1>7, <1>10

\* Its result leaves the others as they were, and as much to allocate as before or more.
ResultKeeps(r) == /\ With("chunked")' = With("chunked") /\ Left' >= Left
                  /\ \A u \in Req \ {r} : req'[u] = req[u]

LEMMA ResultGood == ASSUME Inv, NEW r \in Req, Result(r) PROVE Inv' /\ ResultKeeps(r)
<1>1. PhaseInv /\ Sound(tree, free, content, req, Stage) BY DEF Inv
<1>2. /\ phase = "results" /\ r \in todo /\ todo' = todo \ {r}
      /\ phase' = IF todo' = {} THEN "start" ELSE "results"
      /\ UNCHANGED <<back, need, available, budget, chunkLeft, batch, prompt>>
  BY Zenon DEF Result
<1>3. PICK token \in Vocabulary, ends \in BOOLEAN :
        LET k == IF ends THEN CacheFinished(r, req[r].ids)
                 ELSE CacheUnfinished(r, Take(req[r].ids, req[r].fill))
            kept == [tree |-> tree, released |-> {}, req |-> req[r]]
            got == IF ~ends /\ back = "decode" THEN kept ELSE k
        IN  /\ Outputs(r) + 1 >= MaxNew[r] => ends
            /\ tree' = got.tree /\ Free(got.released)
            /\ req' = [req EXCEPT ![r] = [got.req EXCEPT !.ids = Append(@, token)]]
  BY Zenon DEF Result
<1>4. back \in {"extend", "decode"} /\ todo \subseteq With("running") /\ todo \subseteq Req
  BY <1>1, <1>2 DEF PhaseInv
<1> DEFINE s2 == Stage'
<1>5. /\ Stage[r] = back /\ s2[r] = "idle"
      /\ \A u \in Req \ {r} : s2[u] = Stage[u]
  BY <1>2, <1>4 DEF Stage, at
<1>6. Due(r, Stage, s2) BY <1>1, <1>2, <1>4, <1>5 DEF Due, With
<1> HIDE DEF s2
<1>7. \E q : /\ Sound(tree', free', content', [req EXCEPT ![r] = q], s2)
             /\ req' = [req EXCEPT ![r] = q] /\ q.status \in {"running", "done"}
             /\ SumFunctionOnSet(free', Slots) + tree'.evictable >= Left
  <2> DEFINE s1 == Stage
             e == CacheFinished(r, req[r].ids)
             c == CacheUnfinished(r, Take(req[r].ids, req[r].fill))
  <2>1. Due(r, s1, s2) /\ s1[r] = back BY <1>5, <1>6
  <2> HIDE DEF s1
  <2>2. CASE ends
    <3>1. /\ tree' = e.tree /\ Free(e.released)
          /\ req' = [req EXCEPT ![r] = [e.req EXCEPT !.ids = Append(@, token)]]
      BY <1>3, <2>2
    <3> DEFINE q == [e.req EXCEPT !.ids = Append(@, token)]
    <3>2. Sound(e.tree, Freed(free, e.released), Forgotten(content, e.released), [req EXCEPT ![r] = q], s2)
          /\ q.status = "done"
          /\ SumFunctionOnSet(Freed(free, e.released), Slots) + e.tree.evictable >= Left
      BY <2>1, EndsGood
    <3> HIDE DEF e, q
    <3>3. free' = Freed(free, e.released) /\ content' = Forgotten(content, e.released)
      BY <3>1 DEF Free, Freed, Forgotten
    <3>4. QED BY <3>1, <3>2, <3>3 DEF q
  <2>3. CASE ~ends /\ back = "extend"
    <3>1. /\ tree' = c.tree /\ Free(c.released)
          /\ req' = [req EXCEPT ![r] = [c.req EXCEPT !.ids = Append(@, token)]]
      BY <1>3, <2>3
    <3> DEFINE q == [c.req EXCEPT !.ids = Append(@, token)]
    <3>2. Sound(c.tree, Freed(free, c.released), Forgotten(content, c.released), [req EXCEPT ![r] = q], s2)
          /\ q.status = "running"
          /\ SumFunctionOnSet(Freed(free, c.released), Slots) + c.tree.evictable >= Left
      BY <2>1, <2>3, CachedResultGood
    <3> HIDE DEF c, q
    <3>3. free' = Freed(free, c.released) /\ content' = Forgotten(content, c.released)
      BY <3>1 DEF Free, Freed, Forgotten
    <3>4. QED BY <3>1, <3>2, <3>3 DEF q
  <2>4. CASE ~ends /\ back = "decode"
    <3>1. /\ tree' = tree /\ Free({})
          /\ req' = [req EXCEPT ![r] = [req[r] EXCEPT !.ids = Append(@, token)]]
      BY <1>3, <2>4
    <3> DEFINE q == [req[r] EXCEPT !.ids = Append(@, token)]
    <3>2. Sound(tree, Freed(free, {}), Forgotten(content, {}), [req EXCEPT ![r] = q], s2)
          /\ q.status = "running" /\ Freed(free, {}) = free
      BY <2>1, DecodedGood
    <3> HIDE DEF q
    <3>3. SumFunctionOnSet(Freed(free, {}), Slots) + tree.evictable >= Left
      <4>1. AvailableSize = SumFunctionOnSet(Freed(free, {}), Slots) BY <3>2 DEF AvailableSize
      <4>2. Left \in Nat BY SizesAre
      <4>3. QED BY <4>1, <4>2 DEF Left
    <3>4. free' = Freed(free, {}) /\ content' = Forgotten(content, {})
      BY <3>1 DEF Free, Freed, Forgotten
    <3>5. QED BY <3>1, <3>2, <3>3, <3>4 DEF q
  <2>5. QED BY <1>4, <2>2, <2>3, <2>4
<1>8. PICK q : /\ Sound(tree', free', content', [req EXCEPT ![r] = q], s2)
               /\ req' = [req EXCEPT ![r] = q] /\ q.status \in {"running", "done"}
               /\ SumFunctionOnSet(free', Slots) + tree'.evictable >= Left
  BY <1>7
<1>9. \A u \in Req : req'[u] = IF u = r THEN q ELSE req[u] BY <1>1, <1>8 DEF Sound
<1>10. req[r].status = "running" BY <1>2, <1>4 DEF With
<1>11. With("chunked")' = With("chunked") /\ With("running") \ {r} \subseteq With("running")'
  BY <1>8, <1>9, <1>10 DEF With
<1>12. at' \in {"start", "results"} BY <1>2 DEF at
<1>13. todo' \subseteq Req /\ todo' \subseteq With("running")' BY <1>2, <1>4, <1>11
<1>14. PhaseInv' BY <1>1, <1>2, <1>4, <1>11, <1>12, <1>13 DEF PhaseInv
<1>15. Inv' BY <1>8, <1>14 DEF Inv, Sound, HoldOf, OwnOf, s2
<1>16. Left' >= Left BY <1>8 DEF Left, AvailableSize
<1>17. QED BY <1>9, <1>11, <1>15, <1>16 DEF ResultKeeps

\* A waiting request that joins the batch: its cached prefix is locked, now tokens are new.
Joined(r, m, now) ==
  LET ext == Len(req[r].ids) - Len(m.node)
  IN  [req[r] EXCEPT !.prefix = m.slots, !.node = m.node, !.fill = Len(m.node) + now,
                     !.status = IF now < ext THEN "chunked" ELSE "running"]

JoinGood(r, m, now, stage2) ==
  /\ Sound(IncLock(m.tree, m.node), free, content, [req EXCEPT ![r] = Joined(r, m, now)], stage2)
  /\ Joined(r, m, now).status = IF now < Len(req[r].ids) - Len(m.node) THEN "chunked" ELSE "running"

LEMMA JoinedGood ==
  ASSUME NEW r \in Req, NEW stage, NEW stage2, Sound(tree, free, content, req, stage),
         req[r].status = "waiting", stage2[r] = "admitted",
         \A u \in Req \ {r} : stage2[u] = stage[u],
         NEW m, m = MatchPrefix(tree, Take(req[r].ids, Len(req[r].ids) - 1)),
         NEW now \in Nat, now > 0, now <= Len(req[r].ids) - Len(m.node)
  PROVE  JoinGood(r, m, now, stage2)
<1> DEFINE p == req[r]
           key == Take(p.ids, Len(p.ids) - 1)
           q == Joined(r, m, now)
           t2 == IncLock(m.tree, m.node)
           ext == Len(p.ids) - Len(m.node)
<1>1. /\ req \in [Req -> ReqType] /\ content \in [Slots -> Path]
      /\ TreeInv(tree, HoldOf(req)) /\ Owned(tree, free, OwnOf(req)) /\ Shape(tree)
      /\ \A o \in DOMAIN tree.slots : content[tree.slots[o]] = o
      /\ \A u \in Req : ReqOK(req[u], tree, content, stage[u])
      /\ OwnOf(req)[r] = PrivateOf(p) /\ HoldOf(req)[r] = IF Holding(p) THEN p.node ELSE <<>>
      /\ p \in ReqType /\ ReqOK(p, tree, content, stage[r])
  BY SoundIs
<1>2. /\ p.ids \in Path /\ p.ids # <<>> /\ p.row \in Seq(Slots) /\ p.prefix \in Seq(Slots)
      /\ Len(p.row) = 0 /\ ~Holding(p)
  BY <1>1 DEF ReqOK, ReqType, RowLen, Holding
<1>3. Len(p.ids) \in Nat /\ Len(p.ids) - 1 \in 0 .. Len(p.ids) BY <1>2 DEF Path
<1>4. key \in Path /\ IsPrefix(key, p.ids) BY <1>2, <1>3, TakeIs
<1>5. /\ TreeInv(m.tree, HoldOf(req)) /\ m.tree.slots = tree.slots
      /\ m.node \in Nodes(m.tree) \cup {<<>>} /\ m.node \in Path /\ IsPrefix(m.node, key)
      /\ m.slots = SlotsOf(m.tree, m.node)
  <2> HIDE DEF key
  <2>1. m = MatchPrefix(tree, key) BY DEF key
  <2>2. TreeInv(m.tree, HoldOf(req)) BY <1>1, <1>4, <2>1, MatchGood
  <2>3. m.tree.slots = tree.slots BY <1>1, <1>4, <2>1, MatchGood
  <2>4. m.node \in Nodes(m.tree) \cup {<<>>} /\ m.node \in Path BY <1>1, <1>4, <2>1, MatchGood
  <2>5. IsPrefix(m.node, key) /\ m.slots = SlotsOf(m.tree, m.node) BY <1>1, <1>4, <2>1, MatchGood
  <2>6. QED BY <2>2, <2>3, <2>4, <2>5
<1>6. IsPrefix(m.node, p.ids) BY <1>2, <1>4, <1>5, PrefixOrder
<1>7. Len(m.node) \in Nat /\ ext \in Nat /\ now <= ext /\ Len(m.node) + ext = Len(p.ids)
  <2> DEFINE n == m.node  ids == p.ids
  <2>1. n \in Path /\ ids \in Path /\ IsPrefix(n, ids) BY <1>2, <1>5, <1>6
  <2>2. now <= Len(ids) - Len(n) OBVIOUS
  <2> HIDE DEF n, ids
  <2>3. Len(n) <= Len(ids) BY <2>1, PrefixOrder
  <2> DEFINE a == Len(n)  b == Len(ids)
  <2>4. a \in Nat /\ b \in Nat BY <2>1 DEF Path
  <2>5. a <= b /\ now <= b - a BY <2>2, <2>3
  <2> HIDE DEF a, b
  <2>6. b - a \in Nat /\ a + (b - a) = b BY <2>4, <2>5
  <2>7. QED BY <2>4, <2>5, <2>6 DEF n, ids, a, b
<1>8. HoldOf(req)[r] = <<>> BY <1>1, <1>2
<1>9. TreeInv(t2, [HoldOf(req) EXCEPT ![r] = m.node]) /\ t2.slots = tree.slots
  <2> DEFINE h == HoldOf(req)
  <2>1. TreeInv(m.tree, h) /\ h[r] = <<>> BY <1>5, <1>8
  <2> HIDE DEF h
  <2>2. /\ TreeInv(IncLock(m.tree, m.node), [h EXCEPT ![r] = m.node])
        /\ IncLock(m.tree, m.node).slots = m.tree.slots
    BY <1>5, <2>1, IncGood
  <2> HIDE DEF t2
  <2>3. t2 = IncLock(m.tree, m.node) BY DEF t2
  <2>4. m.tree.slots = tree.slots BY <1>5
  <2>5. QED BY <2>2, <2>3, <2>4, Zenon DEF h
<1> HIDE DEF q, t2, ext, key
<1>10. SlotsOf(t2, m.node) = m.slots
  <2>1. t2.slots = m.tree.slots /\ m.slots = SlotsOf(m.tree, m.node) BY <1>5, <1>9
  <2>2. ASSUME NEW a, NEW b, NEW n, a.slots = b.slots PROVE SlotsOf(a, n) = SlotsOf(b, n)
    BY <2>2 DEF SlotsOf
  <2>3. QED BY <2>1, <2>2
<1>11. m.slots \in Seq(Slots)
  <2> DEFINE t == m.tree
  <2>1. TreeInv(t, HoldOf(req)) BY <1>5
  <2> HIDE DEF t
  <2>2. Shape(t) /\ Nodes(t) \subseteq DOMAIN t.slots BY <2>1 DEF TreeInv, Shape
  <2>3. m.node \in DOMAIN t.slots \cup {<<>>} BY <1>5, <2>2 DEF t
  <2>4. SlotsOf(t, m.node) \in Seq(Slots) BY <2>2, <2>3, SlotsOfIs
  <2>5. QED BY <1>5, <2>4 DEF t
<1>12. /\ q \in ReqType /\ q.status = (IF now < ext THEN "chunked" ELSE "running")
       /\ q.prefix = m.slots /\ q.node = m.node /\ q.fill = Len(m.node) + now
       /\ q.ids = p.ids /\ q.row = p.row
  <2> DEFINE s == IF now < ext THEN "chunked" ELSE "running"
             f == Len(m.node) + now
  <2>1. s \in {"waiting", "chunked", "running", "done"} /\ f \in Nat BY <1>7
  <2>2. q = [p EXCEPT !.prefix = m.slots, !.node = m.node, !.fill = f, !.status = s] BY DEF Joined, q, ext
  <2> HIDE DEF s, f, p, q
  <2>3. /\ q \in ReqType /\ q.status = s /\ q.prefix = m.slots /\ q.node = m.node /\ q.fill = f
        /\ q.ids = p.ids /\ q.row = p.row
    BY <1>1, <1>5, <1>11, <2>1, <2>2 DEF ReqType
  <2>4. QED BY <2>3 DEF s, f
<1>13. Holding(q) BY <1>12 DEF Holding
<1>14. ReqOK(q, t2, content, stage2[r])
  <2>1. RowLen(q, stage2[r]) = 0 BY <1>13 DEF RowLen
  <2> DEFINE a == Len(m.node)  b == Len(p.ids)
  <2>2. /\ a \in Nat /\ b \in Nat /\ ext \in Nat /\ now <= ext /\ a + ext = b
         /\ q.fill = a + now /\ Len(q.node) = a
         /\ q.status = (IF now < ext THEN "chunked" ELSE "running")
    BY <1>3, <1>7, <1>12
  <2> HIDE DEF a, b
  <2>3. /\ 0 < q.fill /\ q.fill <= b /\ Len(q.node) <= q.fill
        /\ q.status = "chunked" => q.fill < b
        /\ q.status = "running" => q.fill = b
    BY <2>2
  <2>4. \A i \in 1 .. Len(q.row) : FALSE BY <1>2, <1>12
  <2>5. stage2[r] \in Stages BY DEF Stages
  <2>6. Len(q.row) = 0 BY <1>2, <1>12
  <2>7. q.status # "waiting" BY <1>12
  <2>8. b = Len(p.ids) BY DEF b
  <2> HIDE DEF p
  <2>9. QED BY <1>2, <1>6, <1>10, <1>12, <1>13, <2>1, <2>3, <2>4, <2>5, <2>6, <2>7, <2>8 DEF ReqOK
<1>15. PrivateOf(q) = {} /\ PrivateOf(p) = {}
  <2>1. ASSUME NEW x, x.row \in Seq(Slots), x.prefix \in Seq(Slots), Len(x.row) = 0
        PROVE  PrivateOf(x) = {}
    <3> DEFINE a == Len(x.prefix)  b == Len(x.row)  s == x.row
    <3>1. s \in Seq(Slots) /\ a \in Nat /\ b \in 0 .. Len(s) /\ b = 0 BY <2>1
    <3> HIDE DEF a, b, s
    <3>2. \A y : y \in Range(SubSeq(s, a + 1, b)) <=> \E i \in a + 1 .. b : s[i] = y BY <3>1, PartIs
    <3>3. \A i \in a + 1 .. b : FALSE BY <3>1
    <3>4. QED BY <3>2, <3>3 DEF PrivateOf, a, b, s
  <2>2. q.row \in Seq(Slots) /\ q.prefix \in Seq(Slots) /\ Len(q.row) = 0 BY <1>2, <1>11, <1>12
  <2> HIDE DEF p
  <2>3. QED BY <1>2, <2>1, <2>2
<1>16. Sound(t2, free, content, [req EXCEPT ![r] = q], stage2)
  <2>1. TreeInv(t2, [HoldOf(req) EXCEPT ![r] = IF Holding(q) THEN q.node ELSE <<>>])
    BY <1>9, <1>12, <1>13
  <2>2. Owned(t2, free, [OwnOf(req) EXCEPT ![r] = PrivateOf(q)])
    <3>1. [OwnOf(req) EXCEPT ![r] = PrivateOf(q)] = OwnOf(req) BY <1>1, <1>15 DEF OwnOf
    <3>2. QED BY <1>1, <1>9, <3>1 DEF Owned
  <2>3. \A o \in DOMAIN t2.slots : content[t2.slots[o]] = o BY <1>1, <1>9
  <2>4. ASSUME NEW u \in Req \ {r} PROVE ReqOK(req[u], t2, content, stage2[u])
    <3>1. ReqOK(req[u], tree, content, stage2[u]) BY <1>1
    <3>2. QED BY <1>9, <3>1, ReqKept
  <2>5. QED BY <1>1, <1>14, <2>1, <2>2, <2>3, <2>4, SoundChanged
<1>17. QED BY <1>12, <1>16 DEF JoinGood, q, t2, ext

LEMMA TryAddGood == ASSUME Inv, NEW r \in Req, TryAdd(r) PROVE Inv'
<1> DEFINE m == MatchPrefix(tree, Take(req[r].ids, Len(req[r].ids) - 1))
           ext == Len(req[r].ids) - Len(m.node)
           now == Min({ext, chunkLeft})
           locked == IncLock(m.tree, m.node)
           delta == locked.evictable - m.tree.evictable
           q == Joined(r, m, now)
           s1 == Stage
           s2 == Stage'
<1>1. PhaseInv /\ Sound(tree, free, content, req, s1) BY DEF Inv
<1>2. /\ phase = "admit" /\ req[r].status = "waiting"
      /\ UNCHANGED <<back, need, free, content, available, todo, prompt>>
  BY Zenon DEF TryAdd
<1>3. \/ /\ chunkLeft > 0 /\ tree' = locked /\ batch' = batch \cup {r}
         /\ chunkLeft' = chunkLeft - now
         /\ req' = [req EXCEPT ![r] = q]
         /\ phase' = IF budget' > 0 /\ chunkLeft' > 0 THEN "admit" ELSE "extend"
      \/ tree' = m.tree /\ phase' = Full /\ UNCHANGED <<batch, chunkLeft, budget, req>>
  BY Zenon DEF TryAdd, Joined
<1>4. /\ at = "admit" /\ batch \subseteq Req /\ chunkLeft \in Nat
      /\ With("chunked") \subseteq batch /\ \A u \in batch : Holding(req[u])
      /\ With("chunked") # {} => chunkLeft = 0
  BY <1>1, <1>2 DEF PhaseInv, at
<1>5. /\ req \in [Req -> ReqType] /\ TreeInv(tree, HoldOf(req))
      /\ req[r].ids \in Path /\ req[r].ids # <<>>
  <2> HIDE DEF s1
  <2>1. req \in [Req -> ReqType] /\ TreeInv(tree, HoldOf(req)) /\ ReqOK(req[r], tree, content, s1[r])
    BY <1>1, SoundIs
  <2>2. QED BY <2>1 DEF ReqOK, ReqType
<1>6. /\ TreeInv(m.tree, HoldOf(req)) /\ m.tree.slots = tree.slots
      /\ m.node \in Path /\ Len(m.node) <= Len(req[r].ids) - 1
  <2> DEFINE ids == req[r].ids
             key == Take(ids, Len(ids) - 1)
             h == HoldOf(req)
  <2>1. ids \in Path /\ Len(ids) \in Nat /\ Len(ids) - 1 \in 0 .. Len(ids) BY <1>5 DEF Path
  <2> HIDE DEF ids
  <2>2. key \in Path /\ Len(key) = Len(ids) - 1 BY <2>1, TakeIs
  <2>3. m = MatchPrefix(tree, key) /\ TreeInv(tree, h) BY <1>5 DEF ids
  <2> HIDE DEF key, m, h
  <2>4. TreeInv(m.tree, h) BY <2>2, <2>3, MatchGood
  <2>5. m.tree.slots = tree.slots BY <2>2, <2>3, MatchGood
  <2>6. m.node \in Path /\ IsPrefix(m.node, key) BY <2>2, <2>3, MatchGood
  <2>7. Len(m.node) <= Len(key) BY <2>2, <2>6, PrefixOrder
  <2>8. QED BY <2>2, <2>4, <2>5, <2>6, <2>7 DEF h, ids
<1> HIDE DEF s1, s2, m, q, locked, delta
<1>7. CASE /\ chunkLeft > 0 /\ tree' = locked /\ batch' = batch \cup {r}
           /\ chunkLeft' = chunkLeft - now
           /\ req' = [req EXCEPT ![r] = q]
           /\ phase' = IF budget' > 0 /\ chunkLeft' > 0 THEN "admit" ELSE "extend"
  <2> DEFINE a == Len(m.node)  b == Len(req[r].ids)
  <2>1. a \in Nat /\ b \in Nat /\ a <= b - 1 BY <1>5, <1>6 DEF Path
  <2>2. ext = b - a OBVIOUS
  <2> HIDE DEF a, b, ext
  <2>3. ext \in Int /\ ext > 0 BY <2>1, <2>2
  <2>4. now = IF ext <= chunkLeft THEN ext ELSE chunkLeft
    <3>1. chunkLeft \in Int BY <1>4
    <3>2. QED BY <2>3, <3>1, MinOfTwo
  <2> HIDE DEF now
  <2>5. now \in Nat /\ now > 0 /\ now <= ext /\ now <= chunkLeft /\ (now < ext => now = chunkLeft)
    BY <1>4, <1>7, <2>3, <2>4
  <2>6. With("chunked") = {} /\ r \notin batch /\ phase' \in {"admit", "extend"} /\ at' = phase'
    BY <1>2, <1>4, <1>7 DEF at, Holding
  <2>7. s2[r] = "admitted" /\ \A u \in Req \ {r} : s2[u] = s1[u]
    BY <1>2, <1>4, <1>7, <2>6 DEF s1, s2, Stage
  <2>8. /\ Sound(locked, free, content, [req EXCEPT ![r] = q], s2)
        /\ q.status = IF now < ext THEN "chunked" ELSE "running"
    <3>1. now <= Len(req[r].ids) - Len(m.node) BY <2>2, <2>5 DEF a, b
    <3>2. m = MatchPrefix(tree, Take(req[r].ids, Len(req[r].ids) - 1)) BY DEF m
    <3>3. now \in Nat /\ now > 0 BY <2>5
    <3>4. JoinGood(r, m, now, s2) BY <1>1, <1>2, <2>7, <3>1, <3>2, <3>3, JoinedGood
    <3>5. QED BY <2>2, <3>4 DEF JoinGood, q, locked, a, b
  <2>9. Sound(tree', free', content', req', s2) BY <1>2, <1>7, <2>8
  <2>10. \A u \in Req : req'[u] = IF u = r THEN q ELSE req[u] BY <1>5, <1>7
  <2>11. With("chunked")' = IF now < ext THEN {r} ELSE {} BY <2>6, <2>8, <2>10 DEF With
  <2>12. chunkLeft' \in Nat /\ (now < ext => chunkLeft' = 0) BY <1>4, <1>7, <2>5
  <2>13. \A u \in batch' : Holding(req'[u]) BY <1>4, <1>7, <2>8, <2>10 DEF Holding
  <2>14. batch' \subseteq Req /\ With("chunked")' \subseteq batch' BY <1>4, <1>7, <2>11
  <2>15. \A x, y \in With("chunked")' : x = y BY <2>11
  <2>16. PhaseInv'
    BY <1>1, <1>2, <2>6, <2>11, <2>12, <2>13, <2>14, <2>15 DEF PhaseInv
  <2>17. QED BY <2>9, <2>16 DEF Inv, Sound, HoldOf, OwnOf, s2
<1>8. CASE tree' = m.tree /\ phase' = Full /\ UNCHANGED <<batch, chunkLeft, budget, req>>
  <2>1. phase' = IF batch = {} THEN "check" ELSE "extend" BY <1>8 DEF Full
  <2>2. at' = phase' BY <2>1 DEF at
  <2>3. \A u \in Req : s2[u] = s1[u] BY <1>2, <1>4, <1>8, <2>1, <2>2 DEF s1, s2, Stage
  <2>4. Sound(m.tree, free, content, req, s1) BY <1>1, <1>6, TreeReplaced
  <2>5. Sound(m.tree, free, content, req, s2) BY <2>3, <2>4, StageOnly
  <2>6. Sound(tree', free', content', req', s2) BY <1>2, <1>8, <2>5
  <2>7. PhaseInv' BY <1>1, <1>2, <1>4, <1>8, <2>1, <2>2 DEF PhaseInv, With
  <2>8. QED BY <2>6, <2>7 DEF Inv, Sound, HoldOf, OwnOf, s2
<1>9. QED BY <1>3, <1>7, <1>8

\* What the request being chunked becomes in the new batch: now more tokens to prefill.
NextChunk(r, now) ==
  [CacheUnfinished(r, Take(req[r].ids, req[r].fill)).req EXCEPT !.row = <<>>, !.fill = @ + now,
     !.status = IF now < Len(req[r].ids) - req[r].fill THEN "chunked" ELSE "running"]

ChunkGood(r, now, stage, stage2) ==
  LET key == Take(req[r].ids, req[r].fill)
      k == CacheUnfinished(r, key)
      q == NextChunk(r, now)
  IN  /\ Sound(k.tree, Freed(free, k.released), Forgotten(content, k.released),
               [req EXCEPT ![r] = q], stage2)
      /\ Settled(k, stage, r, key)
      /\ q.status = IF now < Len(req[r].ids) - req[r].fill THEN "chunked" ELSE "running"
      /\ q.fill = req[r].fill + now /\ q.ids = req[r].ids
      /\ Len(q.prefix) = req[r].fill

LEMMA NextChunkGood ==
  ASSUME NEW r \in Req, NEW stage, NEW stage2, Sound(tree, free, content, req, stage),
         req[r].status = "chunked", stage[r] = "idle", stage2[r] = "admitted",
         \A u \in Req \ {r} : stage2[u] = stage[u],
         NEW now \in Nat, now > 0, now <= Len(req[r].ids) - req[r].fill
  PROVE  ChunkGood(r, now, stage, stage2)
<1> DEFINE p == req[r]
           f == p.fill
           key == Take(p.ids, f)
           k == CacheUnfinished(r, key)
           s == SlotsOf(k.tree, key)
           none == <<>>
           rest == Len(p.ids) - f
           st == IF now < rest THEN "chunked" ELSE "running"
           d == [p EXCEPT !.row = s, !.prefix = s, !.node = key]
           q == [d EXCEPT !.row = none, !.fill = f + now, !.status = st]
           ct == Forgotten(content, k.released)
<1>1. /\ req \in [Req -> ReqType] /\ p \in ReqType /\ ReqOK(p, tree, content, stage[r])
      /\ Holding(p)
  BY SoundIs DEF Holding
<1>2. /\ p.ids \in Path /\ f \in Nat /\ 0 < f /\ f < Len(p.ids) /\ Len(p.ids) \in Nat
      /\ Len(p.row) = f
  <2>1. p.ids \in Path /\ f \in Nat /\ Len(p.ids) \in Nat BY <1>1 DEF ReqType, Path
  <2>2. 0 < f /\ f < Len(p.ids) /\ Len(p.row) = RowLen(p, stage[r]) BY <1>1 DEF ReqOK
  <2>3. RowLen(p, stage[r]) = f BY <1>1 DEF RowLen
  <2>4. QED BY <2>1, <2>2, <2>3
<1>3. key \in Path /\ Len(key) = f /\ IsPrefix(key, p.ids) /\ key # <<>>
  <2>1. f \in 0 .. Len(p.ids) BY <1>2
  <2> HIDE DEF f
  <2>2. key \in Path /\ Len(key) = f /\ IsPrefix(key, p.ids) BY <1>2, <2>1, TakeIs
  <2>3. QED BY <1>2, <2>2
<1> HIDE DEF key
<1>4. HasRow(tree, free, content, req, stage, r, key) BY <1>1, <1>2, <1>3 DEF HasRow
<1>5. /\ Settled(k, stage, r, key) /\ k.req = d /\ s \in Seq(Slots) /\ Len(s) = Len(key)
  <2>1. Unfinished(r, stage, key) BY <1>4, CacheUnfinishedGood
  <2>2. QED BY <2>1 DEF Unfinished
<1> HIDE DEF k
<1>6. /\ d \in ReqType /\ d.prefix = s /\ d.node = key /\ d.ids = p.ids /\ d.fill = f
  <2> HIDE DEF p, s
  <2>1. QED BY <1>1, <1>3, <1>5 DEF ReqType, f
<1>7. NextChunk(r, now) = q
  <2>1. NextChunk(r, now) = [k.req EXCEPT !.row = <<>>, !.fill = @ + now,
          !.status = IF now < Len(p.ids) - p.fill THEN "chunked" ELSE "running"]
    BY DEF NextChunk, k, key, f
  <2>2. QED BY <1>5, <1>6, <2>1
<1>8. st \in {"waiting", "chunked", "running", "done"} /\ f + now \in Nat /\ none \in Seq(Slots)
  BY <1>2
<1> HIDE DEF d
<1>9. /\ q \in ReqType /\ q.status = st /\ q.row = none /\ q.prefix = s /\ q.node = key
      /\ q.ids = p.ids /\ q.fill = f + now
  <2> HIDE DEF p, s, none, st, f
  <2>1. QED BY <1>6, <1>8 DEF ReqType
<1> HIDE DEF q
<1>10. ReqOK(q, k.tree, ct, stage2[r])
  <2> DEFINE b == Len(p.ids)
  <2>1. /\ b \in Nat /\ f \in Nat /\ 0 < f /\ f < b /\ rest = b - f
        /\ now <= rest /\ q.fill = f + now /\ st = IF now < rest THEN "chunked" ELSE "running"
    BY <1>2, <1>9
  <2> HIDE DEF b, f, rest, st
  <2>2. /\ 0 < q.fill /\ q.fill <= b /\ f <= q.fill
        /\ st = "chunked" => q.fill < b
        /\ st = "running" => q.fill = b
        /\ st \in {"chunked", "running"}
    BY <2>1
  <2>3. b = Len(p.ids) BY DEF b
  <2>4. p.ids # <<>> /\ IsPrefix(q.node, q.ids) BY <1>1, <1>3, <1>9 DEF ReqOK
  <2>5. q.prefix = SlotsOf(k.tree, q.node) BY <1>9
  <2>6. Len(q.row) = 0 /\ \A i \in 1 .. Len(q.row) : FALSE BY <1>9
  <2>7. RowLen(q, stage2[r]) = 0 BY DEF RowLen
  <2>8. stage2[r] \in Stages BY DEF Stages
  <2> HIDE DEF p, s, ct, none
  <2>9. QED BY <1>3, <1>9, <2>2, <2>3, <2>4, <2>5, <2>6, <2>7, <2>8 DEF ReqOK
<1>11. Len(q.row) <= Len(q.prefix) /\ key = IF Holding(q) THEN q.node ELSE <<>>
  <2>1. Len(q.row) = 0 /\ Len(q.prefix) \in Nat BY <1>5, <1>9
  <2>2. Holding(q) BY <1>9 DEF Holding
  <2>3. QED BY <1>9, <2>1, <2>2
<1>12. Sound(k.tree, Freed(free, k.released), ct, [req EXCEPT ![r] = q], stage2)
  BY <1>1, <1>5, <1>10, <1>11, SettledSound DEF ct
<1>13. Len(q.prefix) = f BY <1>3, <1>5, <1>9
<1>14. QED BY <1>5, <1>7, <1>9, <1>12, <1>13 DEF ChunkGood, k, key, ct

\* The request being chunked starts the new batch.
ChunkStarted(c, now) ==
  LET k == CacheUnfinished(c, Take(req[c].ids, req[c].fill))
  IN  /\ c \in Req /\ req[c].status = "chunked" /\ With("chunked") = {c}
      /\ now \in Nat /\ now > 0 /\ now <= Rest(c) /\ now <= ChunkSize /\ Rest(c) \in Nat
      /\ now < Rest(c) => now = ChunkSize
      /\ tree' = k.tree /\ free' = Freed(free, k.released) /\ content' = Forgotten(content, k.released)
      /\ req' = [req EXCEPT ![c] = NextChunk(c, now)] /\ batch' = {c} /\ chunkLeft' = ChunkSize - now
      /\ \E reserved \in Reserved :
           budget' = 2 * (AvailableSize + k.tree.evictable - now
                          - (IF now < Rest(c) THEN 0 ELSE MaxNew[c])) - reserved
      /\ ChunkGood(c, now, Stage, Stage')

LEMMA StartsChunk ==
  ASSUME Inv, Start, With("chunked") # {}
  PROVE  \E c, now : ChunkStarted(c, now)
<1> DEFINE c == CHOOSE r \in With("chunked") : TRUE
           key == Take(req[c].ids, req[c].fill)
           k == CacheUnfinished(c, key)
           rest == Len(req[c].ids) - req[c].fill
           now == Min({rest, ChunkSize})
           s1 == Stage
           s2 == Stage'
<1>1. PhaseInv /\ Sound(tree, free, content, req, s1) BY DEF Inv
<1>2. phase = "start" /\ phase' = "admit" /\ UNCHANGED <<back, need, todo, prompt>> BY Zenon DEF Start
<1>3. /\ tree' = k.tree /\ Free(k.released)
      /\ req' = [req EXCEPT ![c] = NextChunk(c, now)] /\ batch' = {c} /\ chunkLeft' = ChunkSize - now
      /\ \E reserved \in Reserved :
           budget' = 2 * (AvailableSize + k.tree.evictable - now
                          - (IF now < rest THEN 0 ELSE MaxNew[c])) - reserved
  BY Zenon DEF Start, NextChunk
<1>4. at = "start" /\ at' = "admit" BY <1>2 DEF at
<1>5. ChunkSize \in Nat \ {0} BY SizeAssumption
<1>6. c \in With("chunked") OBVIOUS
<1>7. c \in Req /\ req[c].status = "chunked" BY <1>6 DEF With
<1>8. With("chunked") = {c} BY <1>1, <1>6 DEF PhaseInv
<1> HIDE DEF c
<1>9. ReqOK(req[c], tree, content, s1[c])
  <2> HIDE DEF s1
  <2>1. QED BY <1>1, <1>7, SoundIs
<1>10. rest \in Nat /\ rest > 0
  <2>1. req[c].ids \in Path /\ req[c].fill \in Nat /\ req[c].fill < Len(req[c].ids)
    BY <1>7, <1>9 DEF ReqOK, ReqType, Holding
  <2>2. QED BY <2>1 DEF Path
<1>11. now = IF rest <= ChunkSize THEN rest ELSE ChunkSize
  <2>1. rest \in Int /\ ChunkSize \in Int BY <1>5, <1>10
  <2> HIDE DEF rest
  <2>2. QED BY <2>1, MinOfTwo
<1> DEFINE nw == now
           rs == rest
<1>12. now = nw /\ Rest(c) = rs BY DEF Rest
<1> HIDE DEF now
<1>13. /\ nw \in Nat /\ nw > 0 /\ nw <= rs /\ nw <= ChunkSize /\ rs \in Nat
       /\ nw < rs => nw = ChunkSize
  BY <1>5, <1>10, <1>11, <1>12
<1>14. s1[c] = "idle" /\ s2[c] = "admitted" /\ \A u \in Req \ {c} : s2[u] = s1[u]
  BY <1>2, <1>3, <1>4, <1>7 DEF Stage
<1>15. nw <= Len(req[c].ids) - req[c].fill BY <1>13
<1> HIDE DEF s1, s2, nw
<1>16. ChunkGood(c, nw, s1, s2) BY <1>1, <1>7, <1>13, <1>14, <1>15, NextChunkGood
<1>17. free' = Freed(free, k.released) /\ content' = Forgotten(content, k.released)
  BY <1>3 DEF Free, Freed, Forgotten
<1>18. /\ tree' = k.tree /\ req' = [req EXCEPT ![c] = NextChunk(c, nw)]
       /\ batch' = {c} /\ chunkLeft' = ChunkSize - nw
       /\ \E reserved \in Reserved :
            budget' = 2 * (AvailableSize + k.tree.evictable - nw
                           - (IF nw < Rest(c) THEN 0 ELSE MaxNew[c])) - reserved
  BY <1>3, <1>12 DEF Rest
<1> HIDE DEF rs
<1>19. ChunkStarted(c, nw)
  BY <1>7, <1>8, <1>12, <1>13, <1>16, <1>17, <1>18 DEF ChunkStarted, k, key, s1, s2
<1>20. QED BY <1>19

LEMMA StartGood == ASSUME Inv, Start PROVE Inv'
<1>1. PhaseInv BY DEF Inv
<1>2. phase = "start" /\ phase' = "admit" /\ UNCHANGED <<back, need, todo, prompt>> BY Zenon DEF Start
<1>3. at = "start" /\ at' = "admit" BY <1>2 DEF at
<1>4. ChunkSize \in Nat BY SizeAssumption
<1>5. CASE With("chunked") = {}
  <2>1. chunkLeft' = ChunkSize /\ batch' = {} /\ UNCHANGED <<memory, req>> BY <1>5, Zenon DEF Start
  <2>2. \A u \in Req : Stage'[u] = Stage[u] BY <1>2, <1>3, <2>1 DEF Stage
  <2>3. With("chunked")' = {} BY <1>5, <2>1 DEF With
  <2>4. PhaseInv' BY <1>1, <1>2, <1>3, <1>4, <2>1, <2>3 DEF PhaseInv
  <2>5. QED BY <2>1, <2>2, <2>4, SoundStays DEF Inv
<1>6. CASE With("chunked") # {}
  <2>1. PICK c, now : ChunkStarted(c, now) BY <1>6, StartsChunk
  <2> DEFINE q == NextChunk(c, now)
             rest == Len(req[c].ids) - req[c].fill
             s2 == Stage'
  <2>2. /\ c \in Req /\ With("chunked") = {c} /\ now \in Nat /\ now <= ChunkSize
        /\ now < rest => now = ChunkSize
        /\ req' = [req EXCEPT ![c] = q] /\ batch' = {c} /\ chunkLeft' = ChunkSize - now
        /\ ChunkGood(c, now, Stage, s2)
    BY <2>1 DEF ChunkStarted, Rest
  <2>3. Sound(tree', free', content', req', s2) BY <2>1 DEF ChunkStarted, ChunkGood
  <2>4. q.status = IF now < rest THEN "chunked" ELSE "running" BY <2>2 DEF ChunkGood
  <2>5. req \in [Req -> ReqType] BY DEF Inv, Sound
  <2> HIDE DEF q, rest, s2
  <2>6. \A u \in Req : req'[u] = IF u = c THEN q ELSE req[u] BY <2>2, <2>5
  <2>7. With("chunked")' = IF now < rest THEN {c} ELSE {} BY <2>2, <2>4, <2>6 DEF With
  <2>8. chunkLeft' \in Nat /\ (now < rest => chunkLeft' = 0) BY <1>4, <2>2
  <2>9. \A u \in batch' : Holding(req'[u]) BY <2>2, <2>4, <2>6 DEF Holding
  <2>10. batch' \subseteq Req /\ With("chunked")' \subseteq batch' BY <2>2, <2>7
  <2>11. \A x, y \in With("chunked")' : x = y BY <2>7
  <2>12. PhaseInv' BY <1>1, <1>2, <1>3, <2>7, <2>8, <2>9, <2>10, <2>11 DEF PhaseInv
  <2>13. QED BY <2>3, <2>12 DEF Inv, Sound, HoldOf, OwnOf, s2
<1>7. QED BY <1>5, <1>6

LEMMA InitGood == ASSUME Init PROVE Inv
<1> DEFINE none == <<>>
           t == [slots |-> none, lock |-> none, evictable |-> 0]
           h == [r \in Req |-> none]
           own == [r \in Req |-> {}]
<1>1. /\ phase = "start" /\ back = "start" /\ chunkLeft = 0 /\ batch = {} /\ todo = {}
      /\ tree = t /\ free = [s \in Slots |-> 1] /\ content = [s \in Slots |-> none]
      /\ prompt \in Prompts
      /\ req = [r \in Req |-> [status |-> "waiting", ids |-> prompt[r], fill |-> 0,
                               row |-> none, prefix |-> none, node |-> none]]
  BY DEF Init
<1>2. none \in Path /\ none \in Seq(Slots) /\ Len(none) = 0 /\ DOMAIN none = {} /\ Range(SubSeq(none, 1, 0)) = {}
  BY DEF Path, Range
<1>3. \A S : none \in [{} -> S]
  <2> TAKE S
  <2>1. none = [x \in {} |-> 0] BY <1>2
  <2>2. QED BY <2>1
<1>4. prompt \in [Req -> Path \ {<<>>}] BY <1>1, PromptAssumption
<1>5. Nodes(t) = {} /\ DOMAIN t.slots = {} /\ t.lock = none /\ t.slots = none /\ t.evictable = 0
  BY <1>2 DEF Nodes
<1>6. /\ req \in [Req -> ReqType]
      /\ \A r \in Req : /\ req[r].status = "waiting" /\ req[r].ids = prompt[r] /\ req[r].row = none
                        /\ req[r].prefix = none /\ req[r].node = none
  <2> DEFINE q(r) == [status |-> "waiting", ids |-> prompt[r], fill |-> 0,
                      row |-> none, prefix |-> none, node |-> none]
  <2> HIDE DEF none
  <2>1. ASSUME NEW r \in Req PROVE q(r) \in ReqType BY <1>2, <1>4, <2>1 DEF ReqType
  <2>2. \A r \in Req : req[r] = q(r) BY <1>1
  <2>3. \A r \in Req : /\ q(r).status = "waiting" /\ q(r).ids = prompt[r] /\ q(r).row = none
                       /\ q(r).prefix = none /\ q(r).node = none
    OBVIOUS
  <2>4. req = [r \in Req |-> q(r)] BY <1>1
  <2> HIDE DEF q
  <2>5. QED BY <2>1, <2>2, <2>3, <2>4
<1>7. HoldOf(req) = h /\ OwnOf(req) = own
  <2>1. \A r \in Req : ~Holding(req[r]) BY <1>6 DEF Holding
  <2>2. \A r \in Req : PrivateOf(req[r]) = {}
    <3> SUFFICES ASSUME NEW r \in Req PROVE PrivateOf(req[r]) = {} OBVIOUS
    <3>1. PrivateOf(req[r]) = Range(SubSeq(none, Len(none) + 1, Len(none))) BY <1>6 DEF PrivateOf
    <3>2. Len(none) + 1 = 1 /\ Len(none) = 0 BY <1>2
    <3> HIDE DEF none
    <3>3. QED BY <1>2, <3>1, <3>2
  <2>3. QED BY <2>1, <2>2 DEF HoldOf, OwnOf
<1>8. Shape(t)
  <2>1. t.slots \in [{} -> Slots] /\ t.lock \in [{} -> Int] BY <1>3, <1>5
  <2>2. IsFiniteSet({}) BY FS_EmptySet
  <2>3. t = [slots |-> t.slots, lock |-> t.lock, evictable |-> t.evictable] OBVIOUS
  <2> HIDE DEF t
  <2>4. QED BY <1>5, <2>1, <2>2, <2>3 DEF Shape
<1>9. TreeInv(t, h)
  <2>1. Unheld(t, h) = {} BY <1>5 DEF Unheld
  <2>2. Cardinality({}) = 0 BY FS_EmptySet
  <2>3. h \in [Req -> {none}] OBVIOUS
  <2> HIDE DEF t, h
  <2>4. QED BY <1>5, <1>8, <2>1, <2>2, <2>3 DEF TreeInv
<1>10. Owned(t, free, own)
  <2>1. free \in [Slots -> 0 .. 1] /\ \A s \in Slots : free[s] = 1 BY <1>1
  <2> HIDE DEF t
  <2>2. QED BY <1>5, <2>1 DEF Owned
<1>11. content \in [Slots -> Path] BY <1>1, <1>2
<1>12. \A p \in DOMAIN t.slots : content[t.slots[p]] = p BY <1>5
<1>13. ASSUME NEW r \in Req, NEW ct PROVE ReqOK(req[r], t, ct, "idle")
  <2>1. req[r] \in ReqType /\ req[r].ids # <<>> BY <1>4, <1>6
  <2>2. \A i \in 1 .. Len(none) : FALSE BY <1>2
  <2>3. req[r].status = "waiting" /\ req[r].row = none /\ req[r].prefix = <<>> /\ req[r].node = <<>>
    BY <1>6
  <2>4. "idle" \in Stages BY DEF Stages
  <2> HIDE DEF t, none
  <2>5. QED BY <1>2, <2>1, <2>2, <2>3, <2>4 DEF ReqOK, RowLen, Holding
<1>14. \A r \in Req : Stage[r] = "idle" BY <1>1 DEF Stage, at
<1>15. Sound(tree, free, content, req, Stage)
  <2> HIDE DEF t, h, own
  <2>1. \A r \in Req : ReqOK(req[r], t, content, Stage[r]) BY <1>13, <1>14
  <2>2. QED BY <1>1, <1>6, <1>7, <1>9, <1>10, <1>11, <1>12, <2>1 DEF Sound
<1>16. With("chunked") = {} BY <1>6 DEF With
<1>17. prompt \in [Req -> Path] BY <1>4
<1>18. PhaseInv BY <1>1, <1>16, <1>17 DEF PhaseInv, at
<1>19. QED BY <1>15, <1>18 DEF Inv

LEMMA StutterGood == ASSUME Inv, UNCHANGED vars PROVE Inv'
<1>1. PhaseInv BY DEF Inv
<1>2. UNCHANGED <<phase, back, memory, chunkLeft, batch, todo, prompt, req>> BY DEF vars
<1>3. at' = at BY <1>2 DEF at
<1>4. PhaseInv' BY <1>1, <1>2, <1>3 DEF PhaseInv, With
<1>5. \A r \in Req : Stage'[r] = Stage[r] BY <1>2, <1>3 DEF Stage
<1>6. QED BY <1>2, <1>4, <1>5, SoundStays DEF Inv

LEMMA InvStep == ASSUME Inv, [Next]_vars PROVE Inv'
<1>1. CASE Start BY <1>1, StartGood
<1>2. CASE StopAdding BY <1>2, StopAddingGood
<1>3. CASE Run BY <1>3, RunStep
<1>4. CASE EvictForBatch BY <1>4, EvictForBatchGood
<1>5. CASE EvictLeaf BY <1>5, EvictLeafGood
<1>6. CASE EvictDone BY <1>6, EvictDoneGood
<1>7. CASE CheckDecodeMem BY <1>7, CheckDecodeMemGood
<1>8. CASE RetractOne BY <1>8, RetractOneGood
<1>9. CASE RetractDone BY <1>9, RetractDoneGood
<1>10. ASSUME NEW r \in Req, TryAdd(r) PROVE Inv' BY <1>10, TryAddGood
<1>11. ASSUME NEW r \in Req, Result(r) PROVE Inv' BY <1>11, ResultGood
<1>12. CASE UNCHANGED vars BY <1>12, StutterGood
<1>13. QED
  BY <1>1, <1>2, <1>3, <1>4, <1>5, <1>6, <1>7, <1>8, <1>9, <1>10, <1>11, <1>12 DEF Next

\* Whatever is matched, split, inserted, locked, evicted, chunked or retracted, in any
\* order: the tree keeps its shape, its locks are the requests' nodes, every slot has one
\* owner, and rows, prefixes and fill counts are what their phase of the iteration needs.
THEOREM InvHolds == Spec => []Inv
<1>1. Init => Inv BY InitGood
<1>2. Inv /\ [Next]_vars => Inv' BY InvStep
<1>3. QED BY <1>1, <1>2, PTL DEF Spec

LEMMA OwnedOnce == ASSUME Inv PROVE SlotsOwnedOnce
<1>1. Owned(tree, free, OwnOf(req)) BY DEF Inv, Sound
<1>2. \A r \in Req : OwnOf(req)[r] = Private(r) BY DEF OwnOf, PrivateOf, Private
<1> SUFFICES ASSUME NEW s \in Slots
             PROVE  free[s] + Cardinality({p \in DOMAIN tree.slots : tree.slots[p] = s})
                            + Cardinality({r \in Req : s \in Private(r)}) = 1
  BY DEF SlotsOwnedOnce
<1> DEFINE P == {p \in DOMAIN tree.slots : tree.slots[p] = s}
           R == {r \in Req : s \in Private(r)}
<1>3. /\ free[s] \in 0 .. 1 /\ (free[s] = 1 <=> P = {} /\ R = {})
      /\ \A p, o \in P : p = o
      /\ \A q, r \in R : q = r
      /\ P = {} \/ R = {}
  <2>1. /\ free \in [Slots -> 0 .. 1]
        /\ \A p, o \in DOMAIN tree.slots : tree.slots[p] = tree.slots[o] => p = o
        /\ \A q, r \in Req : q # r => Private(q) \cap Private(r) = {}
        /\ \A r \in Req : \A p \in DOMAIN tree.slots : tree.slots[p] \notin Private(r)
        /\ free[s] = 1 <=> /\ \A p \in DOMAIN tree.slots : tree.slots[p] # s
                           /\ \A r \in Req : s \notin Private(r)
    BY <1>1, <1>2 DEF Owned
  <2>2. QED BY <2>1
<1> HIDE DEF P, R
<1>4. ASSUME NEW S, \A x, y \in S : x = y PROVE Cardinality(S) = IF S = {} THEN 0 ELSE 1
  <2>1. CASE S = {} BY <2>1, FS_EmptySet
  <2>2. CASE S # {}
    <3>1. PICK x : x \in S BY <2>2
    <3>2. S \subseteq {x} BY <1>4, <3>1
    <3>3. QED BY <2>2, <3>1, <3>2, OneElement
  <2>3. QED BY <2>1, <2>2
<1>5. /\ Cardinality(P) = IF P = {} THEN 0 ELSE 1
      /\ Cardinality(R) = IF R = {} THEN 0 ELSE 1
  BY <1>3, <1>4
<1>6. free[s] + Cardinality(P) + Cardinality(R) = 1 BY <1>3, <1>5
<1>7. QED BY <1>6 DEF P, R

LEMMA LocksMatch == ASSUME Inv PROVE LocksMatchHolders
<1>1. TreeInv(tree, HoldOf(req)) /\ req \in [Req -> ReqType] BY DEF Inv, Sound
<1>2. ASSUME NEW e \in Nodes(tree)
      PROVE  tree.lock[e] =
               Cardinality({r \in With("chunked") \cup With("running") : IsPrefix(e, req[r].node)})
  <2> DEFINE A == {r \in Req : IsPrefix(e, HoldOf(req)[r])}
             B == {r \in With("chunked") \cup With("running") : IsPrefix(e, req[r].node)}
  <2>1. tree.lock[e] = Cardinality(A) BY <1>1 DEF TreeInv
  <2>2. e \in Path \ {<<>>} BY <1>1 DEF TreeInv, Shape
  <2>3. ~IsPrefix(e, <<>>) BY <2>2, PrefixOrder
  <2>4. \A r \in Req : HoldOf(req)[r] = IF r \in With("chunked") \cup With("running")
                                        THEN req[r].node ELSE <<>>
    BY DEF HoldOf, Holding, With
  <2>5. \A r : r \in A <=> r \in B
    <3>1. With("chunked") \cup With("running") \subseteq Req BY DEF With
    <3>2. QED BY <2>3, <2>4, <3>1
  <2>6. A = B BY <2>5
  <2> HIDE DEF A
  <2>7. QED BY <2>1, <2>6
<1>3. tree.evictable = Size(tree, {e \in Nodes(tree) : tree.lock[e] = 0})
  <2> DEFINE es == {e \in Nodes(tree) : tree.lock[e] = 0}
             h == HoldOf(req)
  <2>1. TreeInv(tree, h) /\ Shape(tree) BY <1>1 DEF TreeInv
  <2>2. tree.evictable = Cardinality(Unheld(tree, h)) BY <2>1 DEF TreeInv
  <2> HIDE DEF h
  <2>3. Unheld(tree, h) = OnEdges(tree, es) BY <2>1, HeldIs
  <2>4. es \in SUBSET Nodes(tree) OBVIOUS
  <2> HIDE DEF es
  <2>5. Size(tree, es) = Cardinality(OnEdges(tree, es)) BY <2>1, <2>4, SizeIs
  <2>6. QED BY <2>2, <2>3, <2>5 DEF es
<1>4. QED BY <1>2, <1>3 DEF LocksMatchHolders

LEMMA KVMatches == ASSUME Inv PROVE KVMatchesTokens
<1>1. /\ \A p \in DOMAIN tree.slots : content[tree.slots[p]] = p
      /\ \A r \in Req : ReqOK(req[r], tree, content, Stage[r])
  BY DEF Inv, Sound
<1>2. ASSUME NEW r \in Req
      PROVE  /\ \A i \in DOMAIN req[r].row : content[req[r].row[i]] = Take(req[r].ids, i)
             /\ req[r].status \in {"chunked", "running"} => req[r].prefix = SlotsOf(tree, req[r].node)
  <2>1. DOMAIN req[r].row = 1 .. Len(req[r].row) BY <1>1 DEF ReqOK, ReqType
  <2>2. QED BY <1>1, <2>1 DEF ReqOK, Holding
<1>3. QED BY <1>1, <1>2 DEF KVMatchesTokens

\* Every KV slot is free, in the tree or in the uncached part of one request's row, and
\* only once: cache_unfinished_req, cache_finished_req, evict and retract_decode free no
\* slot twice and lose none, whatever prefixes the tree got from other requests meanwhile.
THEOREM SlotsOwnedOnceHolds == Spec => []SlotsOwnedOnce
<1>1. Inv => SlotsOwnedOnce BY OwnedOnce
<1>2. QED BY <1>1, InvHolds, PTL

\* inc_lock_ref and dec_lock_ref stay paired although _split_node copies lock_ref to new
\* nodes: lock_ref counts the requests below a node, and evictable_size_ the tokens that
\* none of them holds.
THEOREM LocksMatchHoldersHolds == Spec => []LocksMatchHolders
<1>1. Inv => LocksMatchHolders BY LocksMatch
<1>2. QED BY <1>1, InvHolds, PTL

\* A request attends to the KV of its own tokens, although the slots of its row are
\* exchanged for those another request put into the tree, and freed slots are reused.
THEOREM KVMatchesTokensHolds == Spec => []KVMatchesTokens
<1>1. Inv => KVMatchesTokens BY KVMatches
<1>2. QED BY <1>1, InvHolds, PTL

-----------------------------------------------------------------------------
(***************************************************************************)
(* What an admitted request will need is there, or can be evicted.         *)
(***************************************************************************)
MemInv ==
  /\ budget \in Int /\ available \in Int /\ need \in Int
  /\ at \in {"admit", "extend"} =>
       /\ Left >= Wanted("extend")
       /\ \A c \in With("chunked") : Left - Wanted("extend") >= Rest(c)
  /\ at = "admit" => budget <= 2 * (Left - Wanted("extend"))
  /\ phase \in {"start", "results"} => \A c \in With("chunked") : Left >= Rest(c)
  /\ phase = "evict" => /\ back # "decode"
                        /\ back = "extend" => AvailableSize + need >= Wanted("extend")
  /\ at \in {"admit", "extend", "check", "retract", "decode"} => available <= AvailableSize
  /\ phase = "decode" => Cardinality(batch) <= available
  /\ phase # "exited"

LEMMA MemStutter == ASSUME MemInv, UNCHANGED vars PROVE MemInv'
<1>1. UNCHANGED <<phase, back, need, memory, available, budget, batch, req>> BY DEF vars
<1>2. /\ AvailableSize' = AvailableSize /\ Left' = Left /\ Wanted("extend")' = Wanted("extend")
      /\ With("chunked")' = With("chunked") /\ \A c : Rest(c)' = Rest(c)
  BY <1>1, SizesStay
<1>3. at' = at BY <1>1 DEF at
<1>4. QED BY <1>1, <1>2, <1>3 DEF MemInv

LEMMA MemStopAdding == ASSUME Inv, MemInv, StopAdding PROVE MemInv'
<1>1. /\ phase = "admit" /\ phase' = IF batch = {} THEN "check" ELSE "extend"
      /\ UNCHANGED <<back, need, memory, available, budget, batch, req>>
  BY DEF StopAdding, Full
<1>2. /\ AvailableSize' = AvailableSize /\ Left' = Left /\ Wanted("extend")' = Wanted("extend")
      /\ With("chunked")' = With("chunked") /\ \A c : Rest(c)' = Rest(c)
  BY <1>1, SizesStay
<1>3. at = "admit" /\ at' = phase' BY <1>1 DEF at
<1>4. QED BY <1>1, <1>2, <1>3 DEF MemInv

LEMMA MemEvictForBatch == ASSUME Inv, MemInv, EvictForBatch PROVE MemInv'
<1>1. /\ phase \in {"extend", "decode"} /\ AvailableSize < Wanted(phase) /\ need' = Wanted(phase)
      /\ back' = phase /\ phase' = "evict"
      /\ UNCHANGED <<memory, available, budget, batch, req>>
  BY DEF EvictForBatch
<1>2. /\ AvailableSize' = AvailableSize /\ Left' = Left /\ Wanted("extend")' = Wanted("extend")
      /\ With("chunked")' = With("chunked") /\ \A c : Rest(c)' = Rest(c)
  BY <1>1, SizesStay
<1>3. at = phase /\ at' = phase BY <1>1 DEF at
<1>4. AvailableSize \in Nat /\ Wanted("extend") \in Int /\ batch \in SUBSET Req BY SizesAre
<1>5. phase # "decode"
  <2>1. SUFFICES ASSUME phase = "decode" PROVE FALSE OBVIOUS
  <2>2. Wanted("decode") = Cardinality(batch) /\ Cardinality(batch) \in Nat BY <1>4, DecodeWants
  <2>3. Cardinality(batch) <= available /\ available <= AvailableSize /\ available \in Int
    BY <1>3, <2>1 DEF MemInv
  <2>4. AvailableSize < Cardinality(batch) BY <1>1, <2>1, <2>2
  <2>5. QED BY <1>4, <2>2, <2>3, <2>4
<1>6. phase = "extend" /\ need' = Wanted("extend") BY <1>1, <1>5
<1>7. AvailableSize + need' >= Wanted("extend") BY <1>4, <1>6
<1>8. QED BY <1>1, <1>2, <1>3, <1>4, <1>6, <1>7 DEF MemInv

LEMMA MemCheckDecodeMem == ASSUME Inv, MemInv, CheckDecodeMem PROVE MemInv'
<1>1. /\ phase = "check" /\ batch' = With("running")
      /\ \/ phase' = "start" /\ UNCHANGED <<back, need>>
         \/ phase' = "decode" /\ available >= Cardinality(batch') /\ UNCHANGED <<back, need>>
         \/ phase' = "evict" /\ back' = "retract" /\ need' = Cardinality(batch')
      /\ UNCHANGED <<memory, available, budget, req>>
  BY DEF CheckDecodeMem
<1>2. AvailableSize' = AvailableSize /\ With("chunked")' = With("chunked")
  BY <1>1 DEF memory, AvailableSize, With
<1>3. at = "check" /\ at' = IF phase' = "evict" THEN "retract" ELSE phase' BY <1>1 DEF at
<1>4. With("chunked") = {} BY <1>3 DEF Inv, PhaseInv
<1>5. Cardinality(batch') \in Nat
  <2>1. batch' \in SUBSET Req BY <1>1 DEF With
  <2>2. QED BY <2>1, ReqFinite
<1>6. AvailableSize \in Nat BY SizesAre
<1>7. QED BY <1>1, <1>2, <1>3, <1>4, <1>5, <1>6 DEF MemInv

LEMMA MemRetractDone == ASSUME Inv, MemInv, RetractDone PROVE MemInv'
<1>1. /\ phase = "retract"
      /\ available >= Cardinality(batch) * RetractSteps \/ Cardinality(batch) = 1
      /\ phase' = IF available >= Cardinality(batch) * RetractSteps \/ available > 0
                  THEN "decode" ELSE "failed"
      /\ UNCHANGED <<back, need, memory, available, budget, batch, req>>
  BY DEF RetractDone
<1>2. AvailableSize' = AvailableSize BY <1>1, SizesStay
<1>3. at = "retract" /\ at' = phase' /\ phase' \in {"decode", "failed"}
  <2>1. phase' \in {"decode", "failed"} BY <1>1
  <2>2. QED BY <1>1, <2>1 DEF at
<1>4. Cardinality(batch) \in Nat
  <2>1. batch \in SUBSET Req BY SizesAre
  <2>2. QED BY <2>1, ReqFinite
<1>5. ASSUME NEW n \in Nat PROVE n * RetractSteps >= n
  <2>1. RetractSteps \in Nat /\ RetractSteps >= 1 BY SizeAssumption
  <2>2. ASSUME NEW m \in Nat, m >= 1 PROVE n * m >= n BY <2>2
  <2>3. QED BY <2>1, <2>2
<1>6. available \in Int BY DEF MemInv
<1>7. phase' = "decode" => Cardinality(batch) <= available
  <2> DEFINE n == Cardinality(batch)
             x == n * RetractSteps
  <2>1. n \in Nat /\ x >= n /\ x \in Int
    <3>1. RetractSteps \in Nat BY SizeAssumption
    <3>2. n \in Nat BY <1>4
    <3> HIDE DEF n
    <3>3. QED BY <1>5, <3>1, <3>2
  <2>2. phase' = "decode" => available >= x \/ (n = 1 /\ available > 0) BY <1>1
  <2> HIDE DEF n, x
  <2>3. phase' = "decode" => n <= available BY <1>6, <2>1, <2>2
  <2>4. QED BY <2>3 DEF n
<1>8. QED BY <1>1, <1>2, <1>3, <1>7 DEF MemInv

\* Some path of a finite set is the longest.
LEMMA LongestIs ==
  ASSUME NEW D \in SUBSET Path, IsFiniteSet(D), D # {}
  PROVE  \E e \in D : \A d \in D : Len(d) <= Len(e)
<1> DEFINE T == {s \in SUBSET D : s = {} \/ \E e \in s : \A d \in s : Len(d) <= Len(e)}
<1>1. {} \in T OBVIOUS
<1>2. ASSUME NEW s \in SUBSET D, NEW x \in D \ s, s \in T PROVE s \cup {x} \in T
  <2>1. \A d \in D : Len(d) \in Nat BY DEF Path
  <2>2. CASE s = {}
    <3>1. x \in s \cup {x} /\ \A d \in s \cup {x} : Len(d) <= Len(x) BY <2>1, <2>2
    <3>2. QED BY <3>1
  <2>3. CASE s # {}
    <3>1. PICK e \in s : \A d \in s : Len(d) <= Len(e) BY <1>2, <2>3
    <3>2. CASE Len(x) <= Len(e) BY <3>1, <3>2
    <3>3. CASE Len(e) <= Len(x)
      <4>1. \A d \in s \cup {x} : Len(d) <= Len(x) BY <2>1, <3>1, <3>3
      <4>2. QED BY <4>1
    <3>4. QED BY <2>1, <3>1, <3>2, <3>3
  <2>4. QED BY <2>2, <2>3
<1> HIDE DEF T
<1>3. \A s \in SUBSET D : s \in T BY <1>1, <1>2, InductionOnSubsets
<1>4. D \in T BY <1>3
<1>5. QED BY <1>4 DEF T

\* When evict finds no leaf, everything in the tree is held.
LEMMA NothingEvictable ==
  ASSUME Inv, Evictable = {}
  PROVE  tree.evictable = 0
<1> DEFINE h == HoldOf(req)
           es == {e \in Nodes(tree) : tree.lock[e] = 0}
<1>1. TreeInv(tree, h) /\ Shape(tree) BY DEF Inv, Sound, TreeInv
<1> HIDE DEF h
<1>2. /\ \A r \in Req : h[r] \in Path
      /\ \A e \in Nodes(tree) : tree.lock[e] = 0 <=> \A r \in Req : ~IsPrefix(e, h[r])
      /\ Unheld(tree, h) = OnEdges(tree, es)
  <2>1. \A r \in Req : h[r] \in Path BY <1>1, HeldIs
  <2>2. \A e \in Nodes(tree) : tree.lock[e] = 0 <=> \A r \in Req : ~IsPrefix(e, h[r]) BY <1>1, HeldIs
  <2>3. Unheld(tree, h) = OnEdges(tree, es) BY <1>1, HeldIs
  <2>4. QED BY <2>1, <2>2, <2>3
<1>3. es = {}
  <2>1. SUFFICES ASSUME es # {} PROVE FALSE OBVIOUS
  <2>2. Nodes(tree) \in SUBSET Path /\ IsFiniteSet(Nodes(tree))
    <3>1. /\ Nodes(tree) \in SUBSET DOMAIN tree.slots /\ IsFiniteSet(DOMAIN tree.slots)
          /\ DOMAIN tree.slots \subseteq Path
      BY <1>1 DEF Shape
    <3>2. QED BY <3>1, FS_Subset
  <2>3. es \in SUBSET Path /\ es \in SUBSET Nodes(tree) BY <2>2
  <2>4. IsFiniteSet(es) BY <2>2, <2>3, FS_Subset
  <2>5. PICK e \in es : \A d \in es : Len(d) <= Len(e) BY <2>1, <2>3, <2>4, LongestIs
  <2>6. ASSUME NEW d \in Nodes(tree) \ {e}, IsPrefix(e, d) PROVE FALSE
    <3>1. e \in Path /\ d \in Path /\ e \in Nodes(tree) /\ tree.lock[e] = 0 BY <2>2
    <3>2. \A r \in Req : ~IsPrefix(d, h[r])
      <4> SUFFICES ASSUME NEW r \in Req, IsPrefix(d, h[r]) PROVE FALSE OBVIOUS
      <4>1. IsPrefix(e, h[r]) BY <1>2, <2>6, <3>1, PrefixOrder
      <4>2. QED BY <1>2, <3>1, <4>1
    <3>3. d \in es BY <1>2, <3>2
    <3>4. Len(d) <= Len(e) BY <2>5, <3>3
    <3>5. e = d BY <2>6, <3>1, <3>4, PrefixOrder
    <3>6. QED BY <3>5
  <2>7. e \in Evictable BY <2>6 DEF Evictable
  <2>8. QED BY <2>7
<1>4. Unheld(tree, h) = {} BY <1>2, <1>3 DEF OnEdges
<1>5. tree.evictable = Cardinality({}) BY <1>1, <1>4 DEF TreeInv
<1>6. QED BY <1>5, FS_EmptySet

LEMMA MemEvictDone == ASSUME Inv, MemInv, EvictDone PROVE MemInv'
<1>1. /\ phase = "evict" /\ (need <= 0 \/ Evictable = {})
      /\ phase' = IF back \in {"extend", "decode"} /\ AvailableSize < Wanted(back)
                  THEN "exited" ELSE back
      /\ need' = 0
      /\ UNCHANGED <<back, memory, available, budget, batch, req>>
  BY DEF EvictDone
<1>2. /\ AvailableSize' = AvailableSize /\ Left' = Left /\ Wanted("extend")' = Wanted("extend")
      /\ With("chunked")' = With("chunked") /\ \A c : Rest(c)' = Rest(c)
  BY <1>1, SizesStay
<1>3. back \in {"extend", "retract"} /\ at = back BY <1>1 DEF Inv, PhaseInv, MemInv, at
<1>4. AvailableSize \in Nat /\ Wanted("extend") \in Int /\ tree.evictable \in Nat BY SizesAre
<1>5. back = "extend" => AvailableSize >= Wanted("extend")
  <2> SUFFICES ASSUME back = "extend" PROVE AvailableSize >= Wanted("extend") OBVIOUS
  <2>1. /\ Left >= Wanted("extend") /\ AvailableSize + need >= Wanted("extend") /\ need \in Int
    BY <1>1, <1>3 DEF MemInv
  <2>2. CASE need <= 0 BY <1>4, <2>1, <2>2
  <2>3. CASE Evictable = {}
    <3>1. tree.evictable = 0 BY <2>3, NothingEvictable
    <3>2. Left = AvailableSize BY <1>4, <3>1 DEF Left
    <3>3. QED BY <2>1, <3>2
  <2>4. QED BY <1>1, <2>2, <2>3
<1>6. phase' = back
  <2>1. CASE back = "extend" BY <1>1, <1>4, <1>5, <2>1
  <2>2. CASE back = "retract" BY <1>1, <2>2
  <2>3. QED BY <1>3, <2>1, <2>2
<1>7. at' = at BY <1>1, <1>3, <1>6 DEF at
<1>8. QED BY <1>1, <1>2, <1>3, <1>6, <1>7 DEF MemInv

\* Evicting a leaf gives back as many slots as its edge has tokens.
LEMMA EvictCount ==
  ASSUME Inv, NEW e \in Nodes(tree),
         NEW gone, gone = Longer(e, Len(e) - Edge(tree, e))
  PROVE  LET X == {tree.slots[p] : p \in gone}
         IN  /\ SumFunctionOnSet(Freed(free, X), Slots) = AvailableSize + Edge(tree, e)
             /\ Edge(tree, e) \in Nat
<1> DEFINE X == {tree.slots[p] : p \in gone}
           len == Len(e)
           edge == Edge(tree, e)
           s == SlotsOf(tree, e)
<1>1. Shape(tree) /\ Owned(tree, free, OwnOf(req)) BY DEF Inv, Sound, TreeInv
<1>2. e \in DOMAIN tree.slots /\ e \in Path /\ edge \in 1 .. len /\ len \in Nat
  <2>1. e \in DOMAIN tree.slots /\ e \in Path BY <1>1 DEF Shape
  <2>2. len \in Nat BY <2>1 DEF Path
  <2>3. edge \in 1 .. len BY <1>1, EdgeIs
  <2>4. QED BY <2>1, <2>2, <2>3
<1>3. \A i \in 1 .. len : Take(e, i) \in DOMAIN tree.slots /\ s[i] = tree.slots[Take(e, i)]
  BY <1>1, <1>2, SlotsOfIs
<1>4. gone = {Take(e, i) : i \in len - edge + 1 .. len} BY DEF Longer
<1> HIDE DEF s, edge, len
<1>5. len - edge \in Int /\ len - edge <= len /\ len - (len - edge) = edge /\ edge \in Nat
      /\ \A i \in len - edge + 1 .. len : i \in 1 .. len /\ i \in 0 .. len
  BY <1>2
<1>6. \A i \in len - edge + 1 .. len : Len(Take(e, i)) = i BY <1>2, <1>5, TakeIs DEF len
<1>7. /\ \A p, o \in DOMAIN tree.slots : tree.slots[p] = tree.slots[o] => p = o
      /\ free \in [Slots -> 0 .. 1] /\ tree.slots \in [DOMAIN tree.slots -> Slots]
      /\ \A x \in Slots : free[x] = 1 => \A p \in DOMAIN tree.slots : tree.slots[p] # x
  BY <1>1 DEF Owned, Shape
<1>8. \A i, j \in len - edge + 1 .. len : s[i] = s[j] => i = j
  <2> SUFFICES ASSUME NEW i \in len - edge + 1 .. len, NEW j \in len - edge + 1 .. len, s[i] = s[j]
               PROVE  i = j
    OBVIOUS
  <2>1. tree.slots[Take(e, i)] = tree.slots[Take(e, j)] BY <1>3, <1>5
  <2>2. Take(e, i) = Take(e, j) BY <1>3, <1>5, <1>7, <2>1
  <2>3. QED BY <1>6, <2>2
<1>9. \A x : x \in X <=> \E i \in len - edge + 1 .. len : s[i] = x
  <2>1. \A x : x \in X <=> \E i \in len - edge + 1 .. len : tree.slots[Take(e, i)] = x BY <1>4
  <2>2. QED BY <1>3, <1>5, <2>1
<1>10. X \in SUBSET Slots /\ \A x \in X : free[x] = 0
  <2> SUFFICES ASSUME NEW x \in X PROVE x \in Slots /\ free[x] = 0 OBVIOUS
  <2>1. PICK i \in len - edge + 1 .. len : s[i] = x BY <1>9
  <2>2. Take(e, i) \in DOMAIN tree.slots /\ tree.slots[Take(e, i)] = x BY <1>3, <1>5, <2>1
  <2>3. x \in Slots BY <1>7, <2>2
  <2>4. free[x] # 1 /\ free[x] \in 0 .. 1 BY <1>7, <2>2, <2>3
  <2>5. QED BY <2>3, <2>4
<1> HIDE DEF X
<1> DEFINE a == len - edge
<1>11. Cardinality(X) = edge
  <2>1. a \in Int /\ len \in Int /\ a <= len /\ len - a = edge BY <1>2, <1>5
  <2>2. /\ \A i, j \in a + 1 .. len : s[i] = s[j] => i = j
        /\ \A x : x \in X <=> \E i \in a + 1 .. len : s[i] = x
    BY <1>8, <1>9
  <2> HIDE DEF a
  <2>3. QED BY <2>1, <2>2, PlacesCount
<1>12. SumFunctionOnSet(Freed(free, X), Slots) = SumFunctionOnSet(free, Slots) + Cardinality(X)
  BY <1>7, <1>10, FreedCount
<1>13. QED BY <1>5, <1>11, <1>12 DEF AvailableSize, X, edge

LEMMA MemRun == ASSUME Inv, MemInv, Run PROVE MemInv'
<1>1. /\ phase \in {"extend", "decode"} /\ phase' \in {"start", "results"}
      /\ UNCHANGED <<need, available, budget>>
  <2>1. phase \in {"extend", "decode"} /\ phase' = IF todo' = {} THEN "start" ELSE "results"
    BY Zenon DEF Run
  <2>2. UNCHANGED <<need, available, budget>> BY Zenon DEF Run
  <2>3. QED BY <2>1, <2>2
<1>2. RunTakes BY RunStep
<1>3. at = phase /\ at' = phase' BY <1>1 DEF at
<1>4. With("chunked") \subseteq Req BY DEF With
<1>5. \A c \in With("chunked") : Left - Wanted(phase) >= Rest(c)
  <2>1. CASE phase = "extend" BY <1>3, <2>1 DEF MemInv
  <2>2. CASE phase = "decode"
    <3>1. With("chunked") = {} BY <1>3, <2>2 DEF Inv, PhaseInv
    <3>2. QED BY <3>1
  <2>3. QED BY <1>1, <2>1, <2>2
<1>6. \A c \in With("chunked")' : Left' >= Rest(c)' BY <1>2, <1>4, <1>5 DEF RunTakes
<1>7. QED BY <1>1, <1>3, <1>6 DEF MemInv

LEMMA LeftIs == Inv => Left \in Nat BY SizesAre

LEMMA MemResult == ASSUME Inv, MemInv, NEW r \in Req, Result(r) PROVE MemInv'
<1>1. /\ phase = "results" /\ phase' \in {"start", "results"} /\ r \in todo
      /\ UNCHANGED <<need, available, budget>>
  <2>1. phase = "results" /\ r \in todo /\ phase' = IF todo' = {} THEN "start" ELSE "results"
    BY Zenon DEF Result
  <2>2. UNCHANGED <<need, available, budget>> BY Zenon DEF Result
  <2>3. QED BY <2>1, <2>2
<1>2. Inv' /\ ResultKeeps(r) BY ResultGood
<1>3. at' = phase' BY <1>1 DEF at
<1>4. \A c \in With("chunked") : Left >= Rest(c) BY <1>1 DEF MemInv
<1>5. \A c \in With("chunked") : c \in Req \ {r}
  <2>1. todo \subseteq With("running") BY <1>1 DEF Inv, PhaseInv
  <2>2. QED BY <1>1, <2>1 DEF With
<1>6. \A c \in With("chunked") : Rest(c)' = Rest(c) /\ Rest(c) \in Int
  BY <1>2, <1>5, SizesAre DEF ResultKeeps, Rest
<1>7. Left' >= Left /\ Left \in Int /\ Left' \in Int
  <2>1. Left \in Int BY SizesAre
  <2>2. Left' \in Int
    <3>1. Inv' => (Left \in Nat)' BY LeftIs, PTL
    <3>2. QED BY <1>2, <3>1
  <2>3. QED BY <1>2, <2>1, <2>2 DEF ResultKeeps
<1>8. \A c \in With("chunked")' : Left' >= Rest(c)' BY <1>2, <1>4, <1>6, <1>7 DEF ResultKeeps
<1>9. QED BY <1>1, <1>3, <1>8 DEF MemInv

LEMMA MemEvictLeaf == ASSUME Inv, MemInv, EvictLeaf PROVE MemInv'
<1>1. phase = "evict" /\ UNCHANGED <<phase, back, available, budget, batch, req>> BY DEF EvictLeaf
<1>2. PICK e \in Evictable :
        LET gone == {Take(e, i) : i \in Len(e) - Edge(tree, e) + 1 .. Len(e)}
        IN  /\ need' = need - Edge(tree, e)
            /\ tree' = [slots |-> Restrict(tree.slots, DOMAIN tree.slots \ gone),
                        lock |-> Restrict(tree.lock, Nodes(tree) \ {e}),
                        evictable |-> tree.evictable - Edge(tree, e)]
            /\ Free({tree.slots[p] : p \in gone})
  BY DEF EvictLeaf
<1> DEFINE gone == Longer(e, Len(e) - Edge(tree, e))
           X == {tree.slots[p] : p \in gone}
           edge == Edge(tree, e)
<1>3. free' = Freed(free, X) /\ tree'.evictable = tree.evictable - edge /\ need' = need - edge
  BY <1>2 DEF Free, Freed, Longer
<1>4. e \in Nodes(tree) BY DEF Evictable
<1>5. SumFunctionOnSet(Freed(free, X), Slots) = AvailableSize + edge /\ edge \in Nat
  <2> DEFINE g == gone
  <2>1. g = Longer(e, Len(e) - Edge(tree, e)) OBVIOUS
  <2> HIDE DEF g
  <2>2. LET Y == {tree.slots[p] : p \in g}
        IN  /\ SumFunctionOnSet(Freed(free, Y), Slots) = AvailableSize + Edge(tree, e)
            /\ Edge(tree, e) \in Nat
    BY <1>4, <2>1, EvictCount
  <2>3. QED BY <2>2 DEF g
<1> HIDE DEF X, edge
<1>6. AvailableSize' = AvailableSize + edge BY <1>3, <1>5 DEF AvailableSize
<1>7. AvailableSize \in Nat /\ tree.evictable \in Nat /\ Wanted("extend") \in Int BY SizesAre
<1>8. Left' = Left BY <1>3, <1>5, <1>6, <1>7 DEF Left
<1>9. /\ Wanted("extend")' = Wanted("extend") /\ With("chunked")' = With("chunked")
      /\ \A c : Rest(c)' = Rest(c)
  <2>1. Wanted("extend")' = Wanted("extend") BY <1>1, WantedIs
  <2>2. QED BY <1>1, <2>1 DEF With, Rest
<1>10. at' = at BY <1>1 DEF at
<1>11. need \in Int /\ available \in Int BY DEF MemInv
<1>12. need' \in Int /\ AvailableSize' + need' = AvailableSize + need /\ AvailableSize' >= AvailableSize
       /\ AvailableSize' \in Int
  BY <1>3, <1>5, <1>6, <1>7, <1>11
<1>13. available <= AvailableSize => available' <= AvailableSize' BY <1>1, <1>7, <1>11, <1>12
<1>14. QED BY <1>1, <1>8, <1>9, <1>10, <1>12, <1>13 DEF MemInv

LEMMA MemRetractOne == ASSUME Inv, MemInv, RetractOne PROVE MemInv'
<1>1. phase = "retract" /\ phase' = "evict" /\ UNCHANGED <<back, available, budget>>
  BY Zenon DEF RetractOne
<1>2. PICK r \in Victims :
        /\ batch' = batch \ {r}
        /\ Free(Range(SubSeq(req[r].row, Len(req[r].prefix) + 1, Len(req[r].row))))
  BY Zenon DEF RetractOne
<1>3. need' = Max({0, Cardinality(batch') * RetractSteps - SumFunctionOnSet(free', Slots)})
  BY Zenon DEF RetractOne
<1>4. at = "retract" /\ at' = "retract" /\ back = "retract" BY <1>1 DEF at, Inv, PhaseInv
<1>5. r \in Req /\ batch \in SUBSET Req BY SizesAre DEF Victims
<1> DEFINE X == PrivateOf(req[r])
<1>6. free' = Freed(free, X) BY <1>2 DEF Free, Freed, PrivateOf
<1>7. /\ free \in [Slots -> 0 .. 1] /\ X \in SUBSET Slots /\ \A s \in X : free[s] = 0
  <2>1. Owned(tree, free, OwnOf(req)) /\ OwnOf(req)[r] = X BY <1>5 DEF Inv, Sound, OwnOf
  <2> HIDE DEF X
  <2>2. free \in [Slots -> 0 .. 1] /\ X \in SUBSET Slots BY <1>5, <2>1 DEF Owned
  <2>3. ASSUME NEW s \in X PROVE free[s] = 0
    <3>1. s \in Slots /\ free[s] # 1 BY <1>5, <2>1, <2>2 DEF Owned
    <3>2. free[s] \in 0 .. 1 BY <2>2, <3>1
    <3>3. QED BY <3>1, <3>2
  <2>4. QED BY <2>2, <2>3
<1> HIDE DEF X
<1>8. AvailableSize' = AvailableSize + Cardinality(X) /\ Cardinality(X) \in Nat
  BY <1>6, <1>7, FreedCount DEF AvailableSize
<1>9. AvailableSize \in Nat /\ available \in Int /\ available <= AvailableSize
  BY <1>4, SizesAre DEF MemInv
<1>10. available' <= AvailableSize' BY <1>1, <1>8, <1>9
<1>11. need' \in Int
  <2> DEFINE x == Cardinality(batch') * RetractSteps - AvailableSize'
  <2>1. Cardinality(batch') \in Nat
    <3>1. batch' \in SUBSET Req BY <1>2, <1>5
    <3>2. QED BY <3>1, ReqFinite
  <2>2. RetractSteps \in Nat BY SizeAssumption
  <2>3. x \in Int
    <3>1. Cardinality(batch') * RetractSteps \in Int BY <2>1, <2>2
    <3>2. AvailableSize' \in Int BY <1>8, <1>9
    <3>3. QED BY <3>1, <3>2
  <2>4. need' = Max({0, x}) BY <1>3 DEF AvailableSize
  <2> HIDE DEF x
  <2>5. Max({0, x}) \in {0, x}
    <3> DEFINE m == IF 0 <= x THEN x ELSE 0
    <3>1. m \in {0, x} /\ \A y \in {0, x} : m >= y BY <2>3
    <3> HIDE DEF m
    <3>2. QED BY <3>1 DEF Max
  <2>6. QED BY <2>3, <2>4, <2>5
<1>12. budget' \in Int /\ available' \in Int BY <1>1 DEF MemInv
<1>13. QED BY <1>1, <1>4, <1>10, <1>11, <1>12 DEF MemInv

LEMMA ReservedIs == ASSUME Inv, NEW x \in Reserved PROVE x \in Nat
<1> DEFINE f == [r \in Req |-> MaxNew[r] - Outputs(r)]
           rest == SumFunctionOnSet(f, With("running"))
<1>1. f \in [Req -> Int]
  <2>1. MaxNew \in [Req -> Nat \ {0}] BY SizeAssumption
  <2>2. req \in [Req -> ReqType] /\ prompt \in [Req -> Path] BY DEF Inv, Sound, PhaseInv
  <2>3. ASSUME NEW r \in Req PROVE MaxNew[r] - Outputs(r) \in Int
    <3>1. MaxNew[r] \in Int BY <2>1
    <3>2. Len(req[r].ids) \in Int BY <2>2 DEF ReqType, Path
    <3>3. Len(prompt[r]) \in Int BY <2>2 DEF Path
    <3>4. Outputs(r) \in Int BY <3>2, <3>3 DEF Outputs
    <3>5. QED BY <3>1, <3>4
  <2>4. QED BY <2>3
<1>2. With("running") \in SUBSET Req BY DEF With
<1>3. IsFiniteSet(Req) BY ReqFinite
<1>4. Reserved = IF rest = 0 THEN {0} ELSE 1 .. 2 * rest BY DEF Reserved
<1> HIDE DEF f
<1>5. rest \in Int BY <1>1, <1>2, <1>3, SumType
<1> HIDE DEF rest
<1>6. QED BY <1>4, <1>5

LEMMA MemStart == ASSUME Inv, MemInv, Start PROVE MemInv'
<1>1. phase = "start" /\ phase' = "admit" /\ available' = AvailableSize /\ UNCHANGED <<back, need>>
  BY Zenon DEF Start
<1>2. at' = "admit" BY <1>1 DEF at
<1>3. /\ AvailableSize \in Nat /\ tree.evictable \in Nat /\ Left \in Nat /\ need \in Int
      /\ req \in [Req -> ReqType]
  BY SizesAre DEF MemInv, Inv, Sound
<1>4. CASE With("chunked") = {}
  <2>1. batch' = {} /\ UNCHANGED <<memory, req>> BY <1>4, Zenon DEF Start
  <2>2. \E reserved \in Reserved : budget' = 2 * (AvailableSize + tree.evictable) - reserved
    BY <1>4, Zenon DEF Start
  <2>3. budget' \in Int /\ budget' <= 2 * Left
    <3>1. PICK x \in Reserved : budget' = 2 * (AvailableSize + tree.evictable) - x BY <2>2
    <3>2. x \in Nat BY ReservedIs
    <3>3. Left = AvailableSize + tree.evictable BY DEF Left
    <3>4. QED BY <1>3, <3>1, <3>2, <3>3
  <2>4. AvailableSize' = AvailableSize /\ Left' = Left BY <2>1 DEF memory, AvailableSize, Left
  <2>5. Wanted("extend")' = 0
    <3>1. Wanted("extend")' = Need({}, req) BY <2>1, WantedIs
    <3>2. Need({}, req) = 0 BY <1>3, NeedIs
    <3>3. QED BY <3>1, <3>2
  <2>6. With("chunked")' = {} BY <1>4, <2>1 DEF With
  <2>7. Left' >= Wanted("extend")' /\ budget' <= 2 * (Left' - Wanted("extend")')
    BY <1>3, <2>3, <2>4, <2>5
  <2>8. available' \in Int /\ available' <= AvailableSize' BY <1>1, <1>3, <2>4
  <2>9. QED BY <1>1, <1>2, <1>3, <2>3, <2>6, <2>7, <2>8 DEF MemInv
<1>5. CASE With("chunked") # {}
  <2>1. PICK c, now : ChunkStarted(c, now) BY <1>5, StartsChunk
  <2> DEFINE k == CacheUnfinished(c, Take(req[c].ids, req[c].fill))
             q == NextChunk(c, now)
             size == SumFunctionOnSet(Freed(free, k.released), Slots)
             ev == k.tree.evictable
  <2>2. /\ c \in Req /\ With("chunked") = {c} /\ now \in Nat /\ now <= Rest(c) /\ Rest(c) \in Nat
        /\ tree' = k.tree /\ free' = Freed(free, k.released)
        /\ req' = [req EXCEPT ![c] = q] /\ batch' = {c}
        /\ ChunkGood(c, now, Stage, Stage')
    BY <2>1 DEF ChunkStarted
  <2>3. \E reserved \in Reserved :
          budget' = 2 * (AvailableSize + ev - now - (IF now < Rest(c) THEN 0 ELSE MaxNew[c])) - reserved
    BY <2>1 DEF ChunkStarted
  <2>4. /\ q.fill = req[c].fill + now /\ q.ids = req[c].ids /\ Len(q.prefix) = req[c].fill
        /\ ev \in Nat /\ size \in Nat /\ size >= AvailableSize /\ size + ev >= Left
    <3>1. /\ q.fill = req[c].fill + now /\ q.ids = req[c].ids /\ Len(q.prefix) = req[c].fill
          /\ Settled(k, Stage, c, Take(req[c].ids, req[c].fill))
      BY <2>2 DEF ChunkGood
    <3> HIDE DEF k, q
    <3>2. ev \in Nat /\ size \in Nat /\ size >= AvailableSize /\ size + ev >= Left
      BY <3>1 DEF Settled
    <3>3. QED BY <3>1, <3>2
  <2>5. AvailableSize' = size /\ Left' = size + ev BY <2>2 DEF AvailableSize, Left
  <2>6. Left >= Rest(c) BY <1>1, <2>2 DEF MemInv
  <2> HIDE DEF k, q, size, ev
  <2>7. req' \in [Req -> ReqType] /\ req'[c] = q
    <3>1. Inv' BY StartGood
    <3>2. req' \in [Req -> ReqType] BY <3>1 DEF Inv, Sound
    <3>3. QED BY <1>3, <2>2, <3>2
  <2>8. Len(req[c].ids) \in Nat /\ req[c].fill \in Nat BY <2>2, SizesAre
  <2>9. Wanted("extend")' = now
    <3>1. Wanted("extend")' = Need({} \cup {c}, req') BY <2>2, WantedIs
    <3>2. Need({} \cup {c}, req') = Need({}, req) + (req'[c].fill - Len(req'[c].prefix))
      <4>1. {} \in SUBSET Req /\ c \in Req \ {} /\ \A u \in {} : req'[u] = req[u] BY <2>2
      <4>2. QED BY <1>3, <2>7, <4>1, NeedIs
    <3>3. Need({}, req) = 0 BY <1>3, NeedIs
    <3>4. QED BY <2>2, <2>4, <2>7, <2>8, <3>1, <3>2, <3>3
  <2>10. Rest(c)' = Rest(c) - now
    <3> DEFINE a == Len(req[c].ids)  f == req[c].fill
    <3>1. Rest(c)' = a - (f + now) BY <2>4, <2>7 DEF Rest
    <3>2. Rest(c) = a - f BY DEF Rest
    <3>3. a \in Nat /\ f \in Nat BY <2>8
    <3> HIDE DEF a, f
    <3>4. QED BY <2>2, <3>1, <3>2, <3>3
  <2>11. With("chunked")' \subseteq {c}
    <3>1. \A u \in Req \ {c} : req'[u] = req[u] BY <1>3, <2>2
    <3>2. QED BY <2>2, <3>1 DEF With
  <2>12. Left' >= Wanted("extend")' /\ Left' - Wanted("extend")' >= Rest(c)'
    BY <1>3, <2>2, <2>4, <2>5, <2>6, <2>9, <2>10
  <2>13. budget' \in Int /\ budget' <= 2 * (Left' - Wanted("extend")')
    <3>1. PICK x \in Reserved :
            budget' = 2 * (AvailableSize + ev - now - (IF now < Rest(c) THEN 0 ELSE MaxNew[c])) - x
      BY <2>3
    <3>2. x \in Nat BY ReservedIs
    <3> DEFINE y == IF now < Rest(c) THEN 0 ELSE MaxNew[c]
    <3>3. y \in Nat BY <2>2, SizeAssumption
    <3>4. budget' = 2 * (AvailableSize + ev - now - y) - x BY <3>1
    <3> HIDE DEF y
    <3>5. QED BY <1>3, <2>2, <2>4, <2>5, <2>9, <3>2, <3>3, <3>4
  <2>14. available' \in Int /\ available' <= AvailableSize' BY <1>1, <1>3, <2>4, <2>5
  <2>15. \A u \in With("chunked")' : Left' - Wanted("extend")' >= Rest(u)' BY <2>11, <2>12
  <2>16. QED BY <1>1, <1>2, <1>3, <2>12, <2>13, <2>14, <2>15 DEF MemInv
<1>6. QED BY <1>4, <1>5

LEMMA EvictableIs == Inv => tree.evictable \in Nat BY SizesAre

LEMMA MemTryAdd == ASSUME Inv, MemInv, NEW r \in Req, TryAdd(r) PROVE MemInv'
<1> DEFINE m == MatchPrefix(tree, Take(req[r].ids, Len(req[r].ids) - 1))
           ext == Len(req[r].ids) - Len(m.node)
           now == Min({ext, chunkLeft})
           locked == IncLock(m.tree, m.node)
           delta == locked.evictable - m.tree.evictable
           q == Joined(r, m, now)
<1>1. /\ phase = "admit" /\ req[r].status = "waiting"
      /\ UNCHANGED <<back, need, free, content, available>>
  BY Zenon DEF TryAdd
<1>2. \/ /\ Fits(ext + MaxNew[r], delta) /\ chunkLeft > 0 /\ tree' = locked /\ batch' = batch \cup {r}
         /\ budget' = budget + 2 * (delta - now - (IF now < ext THEN 0 ELSE MaxNew[r]))
         /\ req' = [req EXCEPT ![r] = q]
         /\ phase' = IF budget' > 0 /\ chunkLeft' > 0 THEN "admit" ELSE "extend"
      \/ tree' = m.tree /\ phase' = Full /\ UNCHANGED <<batch, chunkLeft, budget, req>>
  BY Zenon DEF TryAdd, Joined
<1>3. /\ at = "admit" /\ batch \in SUBSET Req /\ chunkLeft \in Nat
      /\ \A u \in batch : Holding(req[u])
      /\ With("chunked") # {} => chunkLeft = 0
      /\ req \in [Req -> ReqType] /\ TreeInv(tree, HoldOf(req)) /\ req[r].ids \in Path
  <2>1. at = "admit" BY <1>1 DEF at
  <2>2. req \in [Req -> ReqType] /\ TreeInv(tree, HoldOf(req)) BY DEF Inv, Sound
  <2>3. PhaseInv BY DEF Inv
  <2>4. QED BY <2>1, <2>2, <2>3 DEF PhaseInv, ReqType
<1>4. /\ AvailableSize \in Nat /\ tree.evictable \in Nat /\ Left \in Nat /\ Wanted("extend") \in Int
      /\ need \in Int /\ available \in Int /\ budget \in Int /\ available <= AvailableSize
      /\ Left >= Wanted("extend") /\ budget <= 2 * (Left - Wanted("extend"))
      /\ \A c \in With("chunked") : Left - Wanted("extend") >= Rest(c)
  BY <1>3, SizesAre DEF MemInv
<1>5. m.tree.evictable = tree.evictable /\ Len(m.slots) = Len(m.node) /\ Len(m.node) \in Nat
  <2> DEFINE ids == req[r].ids
             key == Take(ids, Len(ids) - 1)
             h == HoldOf(req)
  <2>1. TreeInv(tree, h) /\ key \in Path BY <1>3 DEF Path, Take
  <2>2. m = MatchPrefix(tree, key) OBVIOUS
  <2> HIDE DEF h, key, m
  <2>3. m.tree.evictable = tree.evictable BY <2>1, <2>2, MatchGood
  <2>4. m.node \in Path BY <2>1, <2>2, MatchGood
  <2>5. m.slots = SlotsOf(m.tree, m.node) BY <2>1, <2>2, MatchGood
  <2>6. Len(m.node) \in Nat BY <2>4 DEF Path
  <2>7. QED BY <2>3, <2>5, <2>6 DEF SlotsOf
<1>6. AvailableSize' = AvailableSize BY <1>1 DEF AvailableSize
<1> HIDE DEF m, locked, delta
<1>7. CASE /\ Fits(ext + MaxNew[r], delta) /\ chunkLeft > 0 /\ tree' = locked /\ batch' = batch \cup {r}
           /\ budget' = budget + 2 * (delta - now - (IF now < ext THEN 0 ELSE MaxNew[r]))
           /\ req' = [req EXCEPT ![r] = q]
           /\ phase' = IF budget' > 0 /\ chunkLeft' > 0 THEN "admit" ELSE "extend"
  <2> DEFINE a == Len(m.node)  b == Len(req[r].ids)  w == Wanted("extend")
             more == IF now < ext THEN 0 ELSE MaxNew[r]
  <2>1. a \in Nat /\ b \in Nat /\ ext = b - a BY <1>3, <1>5 DEF Path
  <2>2. ext \in Int /\ chunkLeft \in Int BY <1>3, <2>1
  <2> HIDE DEF ext
  <2>3. now \in Int /\ now <= ext
    <3>1. now = IF ext <= chunkLeft THEN ext ELSE chunkLeft BY <2>2, MinOfTwo
    <3> HIDE DEF now
    <3>2. QED BY <2>2, <3>1
  <2>4. q.fill = a + now /\ q.prefix = m.slots /\ q.ids = req[r].ids
    <3> HIDE DEF now
    <3>1. req[r] \in ReqType BY <1>3
    <3> DEFINE p == req[r]
    <3> HIDE DEF p
    <3>2. q = [p EXCEPT !.prefix = m.slots, !.node = m.node, !.fill = a + now,
                        !.status = IF now < Len(req[r].ids) - Len(m.node) THEN "chunked" ELSE "running"]
      BY DEF p, Joined
    <3>3. p \in ReqType BY <3>1 DEF p
    <3> HIDE DEF q, a
    <3>4. q.fill = a + now /\ q.prefix = m.slots /\ q.ids = p.ids BY <3>2, <3>3 DEF ReqType
    <3>5. QED BY <3>4 DEF p
  <2> HIDE DEF now, q
  <2>5. Inv' BY TryAddGood
  <2>6. req' \in [Req -> ReqType] /\ req'[r] = q /\ \A u \in Req \ {r} : req'[u] = req[u]
    <3>1. req' \in [Req -> ReqType] BY <2>5 DEF Inv, Sound
    <3>2. QED BY <1>3, <1>7, <3>1
  <2>7. tree'.evictable \in Nat
    <3>1. Inv' => (tree.evictable \in Nat)' BY EvictableIs, PTL
    <3>2. QED BY <2>5, <3>1
  <2>8. delta \in Int /\ Left' = Left + delta
    <3>1. delta = tree'.evictable - tree.evictable BY <1>5, <1>7 DEF delta
    <3>2. Left' = AvailableSize + tree'.evictable /\ Left = AvailableSize + tree.evictable
      BY <1>6 DEF Left
    <3>3. QED BY <1>4, <2>7, <3>1, <3>2
  <2>9. With("chunked") = {} BY <1>3, <1>7
  <2>10. r \in Req \ batch BY <1>1, <1>3 DEF Holding
  <2>11. Wanted("extend")' = w + now
    <3>1. /\ Wanted("extend")' = Need(batch \cup {r}, req')
          /\ Wanted("extend") = Need(batch, req)
      BY <1>7, WantedIs
    <3>2. \A u \in batch : req'[u] = req[u] BY <1>3, <2>6, <2>10
    <3>3. Need(batch \cup {r}, req') = Need(batch, req) + (req'[r].fill - Len(req'[r].prefix))
      BY <1>3, <2>6, <2>10, <3>2, NeedIs
    <3>4. req'[r].fill - Len(req'[r].prefix) = (a + now) - a BY <1>5, <2>4, <2>6
    <3>5. (a + now) - a = now BY <2>1, <2>3
    <3>6. QED BY <3>1, <3>3, <3>4, <3>5
  <2>12. With("chunked")' \subseteq {r} BY <2>6, <2>9 DEF With
  <2>13. Rest(r)' = ext - now
    <3>1. Rest(r)' = b - (a + now) BY <2>4, <2>6 DEF Rest
    <3> HIDE DEF a, b
    <3>2. QED BY <2>1, <2>3, <3>1
  <2>14. MaxNew[r] \in Nat BY SizeAssumption
  <2>15. more \in Nat /\ budget' = budget + 2 * (delta - now - more) BY <1>7, <2>14
  <2>16. 2 * (ext + MaxNew[r]) <= budget + 2 * delta BY <1>7 DEF Fits
  <2> HIDE DEF more, w
  <2>17. w \in Int /\ Left >= w /\ budget <= 2 * (Left - w) /\ Left \in Nat /\ budget \in Int
    BY <1>4 DEF w
  <2>18. /\ Left' >= Wanted("extend")' /\ budget' \in Int
         /\ budget' <= 2 * (Left' - Wanted("extend")')
         /\ Left' - Wanted("extend")' >= ext - now
    BY <2>2, <2>3, <2>8, <2>11, <2>14, <2>15, <2>16, <2>17
  <2>19. \A c \in With("chunked")' : Left' - Wanted("extend")' >= Rest(c)' BY <2>12, <2>13, <2>18
  <2>20. phase' \in {"admit", "extend"} /\ at' = phase' BY <1>7 DEF at
  <2>21. QED BY <1>1, <1>4, <1>6, <2>18, <2>19, <2>20 DEF MemInv
<1>8. CASE tree' = m.tree /\ phase' = Full /\ UNCHANGED <<batch, chunkLeft, budget, req>>
  <2>1. Left' = Left BY <1>5, <1>6, <1>8 DEF Left
  <2>2. Wanted("extend")' = Wanted("extend") BY <1>8, WantedIs
  <2>3. With("chunked")' = With("chunked") /\ \A c : Rest(c)' = Rest(c) BY <1>8 DEF With, Rest
  <2>4. phase' \in {"check", "extend"} BY <1>8 DEF Full
  <2>5. at' = phase' BY <2>4 DEF at
  <2>6. QED BY <1>1, <1>4, <1>6, <1>8, <2>1, <2>2, <2>3, <2>4, <2>5 DEF MemInv
<1>9. QED BY <1>2, <1>7, <1>8

LEMMA MemStep == ASSUME Inv, MemInv, [Next]_vars PROVE MemInv'
<1>1. CASE Start BY <1>1, MemStart
<1>2. CASE StopAdding BY <1>2, MemStopAdding
<1>3. CASE Run BY <1>3, MemRun
<1>4. CASE EvictForBatch BY <1>4, MemEvictForBatch
<1>5. CASE EvictLeaf BY <1>5, MemEvictLeaf
<1>6. CASE EvictDone BY <1>6, MemEvictDone
<1>7. CASE CheckDecodeMem BY <1>7, MemCheckDecodeMem
<1>8. CASE RetractOne BY <1>8, MemRetractOne
<1>9. CASE RetractDone BY <1>9, MemRetractDone
<1>10. ASSUME NEW r \in Req, TryAdd(r) PROVE MemInv' BY <1>10, MemTryAdd
<1>11. ASSUME NEW r \in Req, Result(r) PROVE MemInv' BY <1>11, MemResult
<1>12. CASE UNCHANGED vars BY <1>12, MemStutter
<1>13. QED
  BY <1>1, <1>2, <1>3, <1>4, <1>5, <1>6, <1>7, <1>8, <1>9, <1>10, <1>11, <1>12 DEF Next

LEMMA MemInit == ASSUME Init PROVE MemInv
<1>1. phase = "start" /\ back = "start" /\ need = 0 /\ available = 0 /\ budget = 0 BY DEF Init
<1>2. With("chunked") = {} BY DEF Init, With
<1>3. QED BY <1>1, <1>2 DEF MemInv, at

\* The slots that add_one_req counted on are there when alloc_token_slots asks for them,
\* evicted at most once: chunked prompts, locked prefixes and requests that were retracted
\* in between leave the promise of evictable_size_ standing, so the process does not exit.
THEOREM AdmittedFitsHolds == Spec => []AdmittedFits
<1>1. Init => Inv /\ MemInv BY InitGood, MemInit
<1>2. Inv /\ MemInv /\ [Next]_vars => Inv' /\ MemInv' BY InvStep, MemStep
<1>3. MemInv => AdmittedFits BY DEF MemInv, AdmittedFits
<1>4. QED BY <1>1, <1>2, <1>3, PTL DEF Spec

=============================================================================
