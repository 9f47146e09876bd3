------------------------ MODULE TraceChunker_proofs ------------------------
(***************************************************************************)
(* Proofs about TraceChunker, for traces of any length with events of any  *)
(* size, and any chunk_size and chunk_overlap.  What is recursive in the   *)
(* code (the sort, the sizes of texts) is counted in the model, so that    *)
(* the theorems on finite sets apply.                                      *)
(*                                                                         *)
(* The argument: the texts of the chunks are windows lo[i] .. hi[i] of the *)
(* ordered trace (Cut).  Their ends follow one another up to the last      *)
(* event seen, each window begins no later than after the end of the one   *)
(* before it, and as far before that end as the overlap takes.  Taking an  *)
(* event moves the last end by one; closing a chunk adds a window.  What   *)
(* is new in a chunk is then the events between two ends.                  *)
(***************************************************************************)
EXTENDS TraceChunker, FiniteSetTheorems, FunctionTheorems, WellFoundedInduction, TLAPS

-----------------------------------------------------------------------------
(* Sums and sizes.                                                         *)

(* An initial segment of the numbers is as large as its last one.          *)
LEMMA Segment == ASSUME NEW n \in Nat PROVE IsFiniteSet(1 .. n) /\ Cardinality(1 .. n) = n
  <1>1. 1 \in Int /\ n \in Int
    OBVIOUS
  <1>2. IsFiniteSet(1 .. n) /\ Cardinality(1 .. n) = IF 1 > n THEN 0 ELSE n - 1 + 1
    BY <1>1, FS_Interval
  <1>. QED
    BY <1>2

(* One row of ones.                                                        *)
LEMMA Row ==
    ASSUME NEW i, NEW n \in Nat
    PROVE  IsFiniteSet({i} \X (1 .. n)) /\ Cardinality({i} \X (1 .. n)) = n
  <1>1. IsFiniteSet({i}) /\ Cardinality({i}) = 1
    BY FS_Singleton
  <1>2. /\ IsFiniteSet({i} \X (1 .. n))
        /\ Cardinality({i} \X (1 .. n)) = Cardinality({i}) * Cardinality(1 .. n)
    BY <1>1, Segment, FS_Product, Zenon
  <1>. QED
    BY <1>1, <1>2, Segment

(* The ones that are counted are finitely many.                            *)
LEMMA TotalIsNat ==
    ASSUME NEW n \in Nat, NEW f \in [1 .. n -> Nat]
    PROVE  /\ IsFiniteSet(UNION {{i} \X (1 .. f[i]) : i \in 1 .. n})
           /\ Total(f) \in Nat
  <1> DEFINE row == [i \in 1 .. n |-> {i} \X (1 .. f[i])]
             R == {{i} \X (1 .. f[i]) : i \in 1 .. n}
  <1>1. row \in Surjection(1 .. n, R)
    <2>1. \A i \in 1 .. n : row[i] \in R
      OBVIOUS
    <2>2. \A r \in R : \E i \in 1 .. n : row[i] = r
      OBVIOUS
    <2>3. row \in [1 .. n -> R]
      BY <2>1, Zenon
    <2>. QED
      BY <2>2, <2>3, Zenon DEF Surjection
  <1>2. IsFiniteSet(R)
    BY <1>1, FS_Interval, FS_Surjection
  <1>3. \A r \in R : IsFiniteSet(r)
    <2>1. \A i \in 1 .. n : f[i] \in Nat
      OBVIOUS
    <2>2. \A i \in 1 .. n : IsFiniteSet({i} \X (1 .. f[i]))
      BY <2>1, Row
    <2>. QED
      BY <2>2
  <1>4. IsFiniteSet(UNION R)
    BY <1>2, <1>3, FS_UNION
  <1>5. Total(f) = Cardinality(UNION R)
    BY DEF Total
  <1>. QED
    BY <1>4, <1>5, FS_CardinalityType

(* One more number is added to the sum.                                    *)
LEMMA TotalOfMore ==
    ASSUME NEW n \in Nat, NEW f \in [1 .. n -> Nat], NEW g \in [1 .. n + 1 -> Nat],
           \A i \in 1 .. n : g[i] = f[i]
    PROVE  Total(g) = Total(f) + g[n + 1]
  <1> DEFINE A == UNION {{i} \X (1 .. f[i]) : i \in 1 .. n}
             B == {n + 1} \X (1 .. g[n + 1])
  <1>1. IsFiniteSet(A) /\ Total(f) = Cardinality(A) /\ Cardinality(A) \in Nat
    BY TotalIsNat DEF Total
  <1>2. IsFiniteSet(B) /\ Cardinality(B) = g[n + 1] /\ g[n + 1] \in Nat
    <2>1. g[n + 1] \in Nat
      OBVIOUS
    <2>. QED
      BY <2>1, Row
  <1>3. UNION {{i} \X (1 .. g[i]) : i \in 1 .. n + 1} = A \cup B
    <2>1. 1 .. n + 1 = (1 .. n) \cup {n + 1}
      OBVIOUS
    <2>2. \A i \in 1 .. n : {i} \X (1 .. g[i]) = {i} \X (1 .. f[i])
      OBVIOUS
    <2>. QED
      BY <2>1, <2>2
  <1>4. A \cap B = {}
    OBVIOUS
  <1>5. Total(g) = Cardinality(A \cup B)
    BY <1>3 DEF Total
  <1>6. Cardinality(A \cup B) = Cardinality(A) + Cardinality(B) - Cardinality(A \cap B)
    BY <1>1, <1>2, FS_Union
  <1>7. Cardinality(A \cap B) = 0
    BY <1>4, FS_EmptySet
  <1> HIDE DEF A, B
  <1>. QED
    BY <1>1, <1>2, <1>5, <1>6, <1>7

(* A line has a size.                                                      *)
LEMMA LineSizeIsNat == ASSUME NEW e, IsEvent(e) PROVE LineSize(e) \in Nat
  <1> DEFINE n == Len(e.parts)
             present == {i \in DOMAIN e.parts : e.parts[i] > 0}
  <1>1. n \in Nat /\ e.parts \in [1 .. n -> Nat]
    BY DEF IsEvent
  <1>2. Total(e.parts) \in Nat
    BY <1>1, TotalIsNat
  <1>3. IsFiniteSet(present) /\ present # {}
    <2>1. present \subseteq 1 .. n
      BY <1>1
    <2>2. IsFiniteSet(1 .. n)
      BY <1>1, Segment
    <2>3. present # {}
      BY DEF IsEvent
    <2>. QED
      BY <2>1, <2>2, <2>3, FS_Subset
  <1>4. Cardinality(present) \in Nat \ {0}
    BY <1>3, FS_CardinalityType, FS_EmptySet
  <1>5. LineSize(e) = Total(e.parts) + 3 * (Cardinality(present) - 1)
    BY DEF LineSize
  <1> HIDE DEF present
  <1>. QED
    BY <1>2, <1>4, <1>5

(* A text has a size.                                                      *)
LEMMA TextSizeIsNat == ASSUME NEW es, IsTrace(es) PROVE TextSize(es) \in Nat
  <1> DEFINE n == Len(es)
             sizes == [i \in DOMAIN es |-> LineSize(es[i])]
  <1>1. n \in Nat /\ DOMAIN es = 1 .. n
    BY DEF IsTrace
  <1>2. sizes \in [1 .. n -> Nat]
    BY <1>1, LineSizeIsNat DEF IsTrace, ToSet
  <1>3. Total(sizes) \in Nat
    BY <1>1, <1>2, TotalIsNat
  <1>4. TextSize(es) = IF es = <<>> THEN 0 ELSE Total(sizes) + n - 1
    BY DEF TextSize
  <1>5. es # <<>> => n # 0
    BY DEF IsTrace
  <1> HIDE DEF n, sizes
  <1>. QED
    BY <1>1, <1>3, <1>4, <1>5

(* One more event adds a separator and its line.                           *)
LEMMA TextSizeOfMore ==
    ASSUME NEW es, IsTrace(es), es # <<>>, NEW e, IsEvent(e)
    PROVE  TextSize(Append(es, e)) = TextSize(es) + 1 + LineSize(e)
  <1> DEFINE n == Len(es)
             more == Append(es, e)
             f == [i \in DOMAIN es |-> LineSize(es[i])]
             g == [i \in DOMAIN more |-> LineSize(more[i])]
             S == ToSet(es) \cup {e}
  <1>1. n \in Nat /\ DOMAIN es = 1 .. n /\ es \in Seq(S)
    BY DEF IsTrace
  <1>2. /\ more \in Seq(S) /\ Len(more) = n + 1 /\ DOMAIN more = 1 .. n + 1
        /\ \A i \in 1 .. n : more[i] = es[i]
        /\ more[n + 1] = e
    BY <1>1
  <1>3. \A i \in 1 .. n : LineSize(es[i]) \in Nat
    BY <1>1, LineSizeIsNat DEF IsTrace, ToSet
  <1>4. LineSize(e) \in Nat
    BY LineSizeIsNat
  <1> HIDE DEF more, n
  <1>5. f \in [1 .. n -> Nat] /\ \A i \in 1 .. n : f[i] = LineSize(es[i])
    BY <1>1, <1>3
  <1>6. g \in [1 .. n + 1 -> Nat] /\ (\A i \in 1 .. n : g[i] = f[i]) /\ g[n + 1] = LineSize(e)
    <2>1. \A i \in 1 .. n + 1 : LineSize(more[i]) \in Nat
      <3> SUFFICES ASSUME NEW i \in 1 .. n + 1 PROVE LineSize(more[i]) \in Nat
        OBVIOUS
      <3>1. CASE i = n + 1
        BY <1>2, <1>4, <3>1
      <3>2. CASE i # n + 1
        <4>1. i \in 1 .. n
          BY <1>1, <3>2
        <4>. QED
          BY <1>2, <1>3, <4>1
      <3>. QED
        BY <3>1, <3>2
    <2>2. n + 1 \in 1 .. n + 1 /\ \A i \in 1 .. n : i \in 1 .. n + 1
      BY <1>1
    <2>. QED
      BY <1>1, <1>2, <2>1, <2>2
  <1> HIDE DEF f, g
  <1>7. Total(g) = Total(f) + LineSize(e) /\ Total(f) \in Nat
    BY <1>1, <1>5, <1>6, TotalIsNat, TotalOfMore
  <1>8. TextSize(es) = Total(f) + n - 1
    BY DEF TextSize, f, n
  <1>9. TextSize(more) = Total(g) + (n + 1) - 1
    <2>1. more # <<>>
      BY <1>1, <1>2
    <2>. QED
      BY <1>2, <2>1 DEF TextSize, g
  <1>. QED
    BY <1>1, <1>4, <1>7, <1>8, <1>9 DEF more

-----------------------------------------------------------------------------
(* The sort.                                                               *)

(* A trace has as many events as places.                                   *)
LEMMA TraceHasEvents ==
    ASSUME NEW es, IsTrace(es), \A i, j \in DOMAIN es : es[i].id = es[j].id => i = j
    PROVE  /\ Len(es) \in Nat
           /\ DOMAIN es = 1 .. Len(es)
           /\ IsFiniteSet(ToSet(es))
           /\ Cardinality(ToSet(es)) = Len(es)
  <1> DEFINE n == Len(es)
             S == ToSet(es)
  <1>1. n \in Nat /\ DOMAIN es = 1 .. n /\ es \in [1 .. n -> S]
    BY DEF IsTrace
  <1>2. S = {es[i] : i \in 1 .. n}
    BY <1>1 DEF ToSet
  <1> HIDE DEF n, S
  <1>3. es \in Injection(1 .. n, S)
    BY <1>1 DEF Injection, IsInjective
  <1>4. es \in Surjection(1 .. n, S)
    BY <1>1, <1>2 DEF Surjection
  <1>5. IsFiniteSet(1 .. n) /\ Cardinality(1 .. n) = n
    BY <1>1, Segment
  <1>6. IsFiniteSet(S) /\ Cardinality(S) = Cardinality(1 .. n)
    BY <1>3, <1>4, <1>5, FS_Surjection
  <1>. QED
    BY <1>1, <1>5, <1>6 DEF n, S

(* The key orders the events: a strict order, total if the ids differ.     *)
LEMMA BeforeIsAnOrder ==
    ASSUME NEW d, NEW e, NEW f, IsEvent(d), IsEvent(e), IsEvent(f)
    PROVE  /\ ~Before(d, d)
           /\ Before(d, e) /\ Before(e, f) => Before(d, f)
           /\ d.id # e.id => Before(d, e) \/ Before(e, d)
  <1> DEFINE Key(x) == x.seq \in Int /\ x.time \in Int /\ x.id \in Int
  <1>1. Key(d) /\ Key(e) /\ Key(f)
    BY DEF IsEvent
  <1>2. \A a, b, c, u, v, w, x, y, z \in Int :
           (a < u \/ (a = u /\ b < v) \/ (a = u /\ b = v /\ c < w))
           /\ (u < x \/ (u = x /\ v < y) \/ (u = x /\ v = y /\ w < z))
           => (a < x \/ (a = x /\ b < y) \/ (a = x /\ b = y /\ c < z))
    OBVIOUS
  <1>3. \A a, b, c, u, v, w \in Int :
           c # w => \/ a < u \/ (a = u /\ b < v) \/ (a = u /\ b = v /\ c < w)
                    \/ u < a \/ (u = a /\ v < b) \/ (u = a /\ v = b /\ w < c)
    OBVIOUS
  <1>4. ~Before(d, d)
    BY <1>1 DEF Before
  <1>5. Before(d, e) /\ Before(e, f) => Before(d, f)
    <2>1. PICK a, b, c, u, v, w, x, y, z \in Int :
             /\ d.seq = a /\ d.time = b /\ d.id = c
             /\ e.seq = u /\ e.time = v /\ e.id = w
             /\ f.seq = x /\ f.time = y /\ f.id = z
      BY <1>1
    <2>. QED
      BY <1>2, <2>1 DEF Before
  <1>6. d.id # e.id => Before(d, e) \/ Before(e, d)
    <2>1. PICK a, b, c, u, v, w \in Int :
             /\ d.seq = a /\ d.time = b /\ d.id = c
             /\ e.seq = u /\ e.time = v /\ e.id = w
      BY <1>1
    <2>. QED
      BY <1>3, <2>1 DEF Before
  <1>. QED
    BY <1>4, <1>5, <1>6

(* The events before one are fewer than those before a later one.          *)
LEMMA Ranks ==
    ASSUME NEW es, IsTrace(es), \A i, j \in DOMAIN es : es[i].id = es[j].id => i = j,
           NEW d \in ToSet(es), NEW e \in ToSet(es)
    PROVE  /\ Cardinality({f \in ToSet(es) : Before(f, e)}) \in 0 .. Len(es) - 1
           /\ d # e => Before(d, e) \/ Before(e, d)
           /\ Before(d, e) => Cardinality({f \in ToSet(es) : Before(f, d)})
                                  < Cardinality({f \in ToSet(es) : Before(f, e)})
  <1> DEFINE S == ToSet(es)
             Lower(x) == {f \in S : Before(f, x)}
  <1>1. \A f \in S : IsEvent(f)
    BY DEF IsTrace
  <1>2. Len(es) \in Nat /\ IsFiniteSet(S) /\ Cardinality(S) = Len(es)
    BY TraceHasEvents
  <1>3. /\ IsFiniteSet(Lower(d)) /\ Cardinality(Lower(d)) \in Nat
        /\ IsFiniteSet(Lower(e)) /\ Cardinality(Lower(e)) \in Nat
    <2>1. Lower(d) \subseteq S /\ Lower(e) \subseteq S
      OBVIOUS
    <2>. QED
      BY <1>2, <2>1, FS_Subset, FS_CardinalityType
  <1>4. ~Before(e, e) /\ ~Before(d, d)
    BY <1>1, BeforeIsAnOrder
  <1>5. Cardinality(Lower(e)) < Len(es)
    <2>1. Lower(e) \subseteq S /\ Lower(e) # S
      BY <1>4
    <2>2. Cardinality(Lower(e)) <= Cardinality(S) /\ Cardinality(Lower(e)) # Cardinality(S)
      BY <1>2, <2>1, FS_Subset
    <2> HIDE DEF Lower
    <2>. QED
      BY <1>2, <1>3, <2>2
  <1>6. d # e => Before(d, e) \/ Before(e, d)
    <2>1. d # e => d.id # e.id
      BY DEF ToSet
    <2>2. IsEvent(d) /\ IsEvent(e)
      BY <1>1
    <2>. QED
      BY <2>1, <2>2, BeforeIsAnOrder
  <1>7. ASSUME Before(d, e) PROVE Cardinality(Lower(d)) < Cardinality(Lower(e))
    <2>1. \A f \in S : Before(f, d) => Before(f, e)
      <3> TAKE f \in S
      <3>1. IsEvent(d) /\ IsEvent(e) /\ IsEvent(f)
        BY <1>1
      <3>. QED
        BY <1>7, <3>1, BeforeIsAnOrder
    <2>2. Lower(d) \subseteq Lower(e) /\ Lower(d) # Lower(e)
      BY <1>4, <1>7, <2>1
    <2>3. /\ Cardinality(Lower(d)) <= Cardinality(Lower(e))
          /\ Cardinality(Lower(d)) # Cardinality(Lower(e))
      BY <1>3, <2>2, FS_Subset
    <2> HIDE DEF Lower
    <2>. QED
      BY <1>3, <2>3
  <1>8. Cardinality(Lower(e)) \in 0 .. Len(es) - 1
    <2> HIDE DEF Lower
    <2>. QED
      BY <1>2, <1>3, <1>5
  <1>. QED
    BY <1>6, <1>7, <1>8

(* The events in order: the same ones, each before the next.               *)
LEMMA SortedIsInOrder ==
    ASSUME NEW es, IsTrace(es), \A i, j \in DOMAIN es : es[i].id = es[j].id => i = j
    PROVE  /\ IsTrace(Sorted(es))
           /\ Len(Sorted(es)) = Len(es)
           /\ ToSet(Sorted(es)) = ToSet(es)
           /\ \A i, j \in 1 .. Len(es) : i < j => Before(Sorted(es)[i], Sorted(es)[j])
  <1> DEFINE n == Len(es)
             S == ToSet(es)
             Rank(e) == Cardinality({f \in S : Before(f, e)})
             s == Sorted(es)
  <1>1. n \in Nat /\ DOMAIN es = 1 .. n /\ IsFiniteSet(S) /\ Cardinality(S) = n
    BY TraceHasEvents
  <1>2. \A e \in S : Rank(e) \in 0 .. n - 1
    BY Ranks
  <1>3. \A d, e \in S : d # e => Before(d, e) \/ Before(e, d)
    BY Ranks
  <1>4. \A d, e \in S : Before(d, e) => Rank(d) < Rank(e)
    BY Ranks
  <1>5. s = [k \in 1 .. n |-> CHOOSE e \in S : Rank(e) = k - 1]
    BY <1>1 DEF Sorted
  <1> HIDE DEF n, S, Rank, s
  <1>6. \A d, e \in S : Rank(d) = Rank(e) => d = e
    BY <1>2, <1>3, <1>4
  <1>7. \A k \in 1 .. n : \E e \in S : Rank(e) = k - 1
    <2> DEFINE T == 0 .. n - 1
               rank == [e \in S |-> Rank(e)]
    <2>1. rank \in Injection(S, T)
      BY <1>2, <1>6 DEF Injection, IsInjective
    <2>2. IsFiniteSet(T) /\ Cardinality(T) = n
      <3>1. 0 \in Int /\ n - 1 \in Int
        BY <1>1
      <3>2. IsFiniteSet(T) /\ Cardinality(T) = IF 0 > n - 1 THEN 0 ELSE (n - 1) - 0 + 1
        BY <3>1, FS_Interval
      <3>. QED
        BY <1>1, <3>2
    <2>3. rank \in Surjection(S, T)
      BY <1>1, <2>1, <2>2, FS_Injection
    <2>4. \A k \in 1 .. n : k - 1 \in T
      BY <1>1
    <2>. QED
      BY <2>3, <2>4 DEF Surjection
  <1>8. \A k \in 1 .. n : s[k] \in S /\ Rank(s[k]) = k - 1
    BY <1>5, <1>7
  <1>9. s \in Seq(S) /\ Len(s) = n /\ DOMAIN s = 1 .. n
    BY <1>1, <1>5, <1>8
  <1>10. \A e \in S : \E k \in 1 .. n : s[k] = e
    <2> TAKE e \in S
    <2>1. Rank(e) + 1 \in 1 .. n /\ (Rank(e) + 1) - 1 = Rank(e)
      BY <1>1, <1>2
    <2>2. s[Rank(e) + 1] = e
      BY <1>6, <1>8, <2>1
    <2>. QED
      BY <2>1, <2>2
  <1>11. ToSet(s) = S
    BY <1>8, <1>9, <1>10 DEF ToSet
  <1>12. \A i, j \in 1 .. n : i < j => Before(s[i], s[j])
    <2> SUFFICES ASSUME NEW i \in 1 .. n, NEW j \in 1 .. n, i < j PROVE Before(s[i], s[j])
      OBVIOUS
    <2>1. Rank(s[i]) < Rank(s[j])
      BY <1>1, <1>8
    <2>2. s[i] # s[j] /\ ~Before(s[j], s[i])
      BY <1>2, <1>4, <1>8, <2>1
    <2>. QED
      BY <1>3, <1>8, <2>2
  <1>13. IsTrace(s)
    BY <1>9, <1>11 DEF IsTrace, S
  <1>. QED
    BY <1>9, <1>11, <1>12, <1>13 DEF n, S, s

-----------------------------------------------------------------------------
(* Windows of a trace.                                                     *)

(* Sequences with the same elements are the same.                          *)
LEMMA SameElements ==
    ASSUME NEW S, NEW a \in Seq(S), NEW b \in Seq(S), Len(a) = Len(b),
           \A i \in 1 .. Len(a) : a[i] = b[i]
    PROVE  a = b
  OBVIOUS

(* Some events in a row are a trace.                                       *)
LEMMA Window ==
    ASSUME NEW s, IsTrace(s), NEW a \in 1 .. Len(s) + 1, NEW b \in 0 .. Len(s), a <= b + 1
    PROVE  /\ IsTrace(SubSeq(s, a, b))
           /\ SubSeq(s, a, b) \in Seq(ToSet(s))
           /\ Len(SubSeq(s, a, b)) = b - a + 1
           /\ DOMAIN SubSeq(s, a, b) = 1 .. b - a + 1
           /\ \A k \in 1 .. b - a + 1 : SubSeq(s, a, b)[k] = s[a + k - 1]
  <1> DEFINE w == SubSeq(s, a, b)
  <1>1. s \in Seq(ToSet(s)) /\ Len(s) \in Nat
    BY DEF IsTrace
  <1>2. /\ w \in Seq(ToSet(s)) /\ Len(w) = b - a + 1 /\ DOMAIN w = 1 .. b - a + 1
        /\ \A k \in 1 .. b - a + 1 : w[k] = s[a + k - 1]
    BY <1>1
  <1> HIDE DEF w
  <1>3. b - a + 1 \in Nat
    BY <1>1
  <1>4. \A k \in 1 .. b - a + 1 : w[k] \in ToSet(w) /\ w[k] \in ToSet(s)
    <2>1. \A k \in 1 .. b - a + 1 : w[k] \in ToSet(w)
      BY <1>2 DEF ToSet
    <2>2. \A k \in 1 .. b - a + 1 : w[k] \in ToSet(s)
      BY <1>2
    <2>. QED
      BY <2>1, <2>2
  <1>5. w \in Seq(ToSet(w))
    BY <1>2, <1>3, <1>4
  <1>6. \A e \in ToSet(w) : IsEvent(e)
    BY <1>2, <1>4 DEF ToSet, IsTrace
  <1>. QED
    BY <1>2, <1>5, <1>6 DEF IsTrace, w

(* The end of a window is a window.                                        *)
LEMMA WindowOfWindow ==
    ASSUME NEW s, IsTrace(s), NEW a \in 1 .. Len(s) + 1, NEW b \in 0 .. Len(s), a <= b + 1,
           NEW k \in 1 .. b - a + 2
    PROVE  SubSeq(SubSeq(s, a, b), k, b - a + 1) = SubSeq(s, a + k - 1, b)
  <1> DEFINE w == SubSeq(s, a, b)
             v == SubSeq(w, k, b - a + 1)
             u == SubSeq(s, a + k - 1, b)
             S == ToSet(s)
  <1>1. Len(s) \in Nat
    BY DEF IsTrace
  <1>2. /\ w \in Seq(S) /\ Len(w) = b - a + 1
        /\ \A l \in 1 .. b - a + 1 : w[l] = s[a + l - 1]
    BY Window
  <1> HIDE DEF w, S
  <1>3. /\ v \in Seq(S) /\ Len(v) = b - a + 1 - k + 1
        /\ \A l \in 1 .. b - a + 1 - k + 1 : v[l] = w[k + l - 1]
    BY <1>1, <1>2
  <1>4. a + k - 1 \in 1 .. Len(s) + 1 /\ a + k - 1 <= b + 1
    BY <1>1
  <1>5. /\ u \in Seq(S) /\ Len(u) = b - (a + k - 1) + 1
        /\ \A l \in 1 .. b - (a + k - 1) + 1 : u[l] = s[a + k - 1 + l - 1]
    BY <1>4, Window DEF S
  <1> HIDE DEF v, u
  <1>6. Len(u) = Len(v)
    BY <1>1, <1>3, <1>5
  <1>7. ASSUME NEW l \in 1 .. Len(v) PROVE v[l] = u[l]
    <2>1. /\ l \in 1 .. b - a + 1 - k + 1
          /\ k + l - 1 \in 1 .. b - a + 1
          /\ a + (k + l - 1) - 1 = a + k - 1 + l - 1
          /\ l \in 1 .. b - (a + k - 1) + 1
      BY <1>1, <1>3
    <2>2. v[l] = w[k + l - 1] /\ w[k + l - 1] = s[a + (k + l - 1) - 1]
      BY <1>2, <1>3, <2>1
    <2>. QED
      BY <1>5, <2>1, <2>2
  <1>8. v = u
    BY <1>3, <1>5, <1>6, <1>7, SameElements
  <1>. QED
    BY <1>8 DEF v, u, w

(* A window grows by the event that follows.                               *)
LEMMA WindowGrows ==
    ASSUME NEW s, IsTrace(s), NEW a \in 1 .. Len(s), NEW b \in 0 .. Len(s) - 1, a <= b + 1
    PROVE  Append(SubSeq(s, a, b), s[b + 1]) = SubSeq(s, a, b + 1)
  <1> DEFINE w == SubSeq(s, a, b)
             v == Append(w, s[b + 1])
             u == SubSeq(s, a, b + 1)
             S == ToSet(s)
  <1>1. Len(s) \in Nat /\ s \in Seq(S) /\ b + 1 \in 1 .. Len(s) /\ s[b + 1] \in S
    BY DEF IsTrace
  <1>2. /\ w \in Seq(S) /\ Len(w) = b - a + 1
        /\ \A l \in 1 .. b - a + 1 : w[l] = s[a + l - 1]
    <2>1. a \in 1 .. Len(s) + 1 /\ b \in 0 .. Len(s)
      BY <1>1
    <2>. QED
      BY <2>1, Window
  <1>3. /\ u \in Seq(S) /\ Len(u) = b + 1 - a + 1
        /\ \A l \in 1 .. b + 1 - a + 1 : u[l] = s[a + l - 1]
    <2>1. a \in 1 .. Len(s) + 1 /\ b + 1 \in 0 .. Len(s) /\ a <= b + 1 + 1
      BY <1>1
    <2>. QED
      BY <2>1, Window
  <1> HIDE DEF w, u, S
  <1>4. /\ v \in Seq(S) /\ Len(v) = b - a + 1 + 1
        /\ \A l \in 1 .. b - a + 1 : v[l] = w[l]
        /\ v[b - a + 1 + 1] = s[b + 1]
    BY <1>1, <1>2
  <1> HIDE DEF v
  <1>5. ASSUME NEW l \in 1 .. Len(v) PROVE v[l] = u[l]
    <2>1. l \in 1 .. b + 1 - a + 1
      BY <1>1, <1>4
    <2>2. CASE l = b - a + 1 + 1
      <3>1. a + l - 1 = b + 1
        BY <1>1, <2>2
      <3>. QED
        BY <1>3, <1>4, <2>1, <2>2, <3>1
    <2>3. CASE l # b - a + 1 + 1
      <3>1. l \in 1 .. b - a + 1
        BY <1>1, <2>1, <2>3
      <3>. QED
        BY <1>2, <1>3, <1>4, <2>1, <3>1
    <2>. QED
      BY <2>2, <2>3
  <1>6. Len(v) = Len(u)
    BY <1>1, <1>3, <1>4
  <1>7. v = u
    BY <1>3, <1>4, <1>5, <1>6, SameElements
  <1>. QED
    BY <1>7 DEF v, u, w

-----------------------------------------------------------------------------
(* The overlap.                                                            *)

(* A set of numbers has a smallest one.                                    *)
LEMMA SmallestNat ==
    ASSUME NEW S \in SUBSET Nat, S # {}
    PROVE  \E m \in S : \A n \in S : m <= n
  <1> DEFINE R == {ss \in Nat \X Nat : ss[1] < ss[2]}
  <1>1. IsWellFoundedOn(R, Nat)
    BY NatLessThanWellFounded DEF OpToRel
  <1> HIDE DEF R
  <1>2. PICK m \in S : \A n \in S : ~(<<n, m>> \in R)
    BY <1>1, WFMin
  <1>3. ASSUME NEW n \in S PROVE m <= n
    <2>1. m \in Nat /\ n \in Nat /\ <<n, m>> \in Nat \X Nat
      OBVIOUS
    <2>2. ~(n < m)
      BY <1>2, <2>1 DEF R
    <2>. QED
      BY <2>1, <2>2
  <1>. QED
    BY <1>3

(* A set of places of a sequence has a last one, and that is its maximum.  *)
LEMMA LastPlace ==
    ASSUME NEW n \in Nat, NEW K \in SUBSET (1 .. n), K # {}
    PROVE  Max(K) \in K /\ \A k \in K : k <= Max(K)
  <1> DEFINE D == {n - k : k \in K}
  <1>1. D \in SUBSET Nat /\ D # {}
    <2>1. \A k \in K : n - k \in Nat
      OBVIOUS
    <2>2. PICK k \in K : TRUE
      OBVIOUS
    <2>. QED
      BY <2>1, <2>2
  <1>2. PICK m \in D : \A d \in D : m <= d
    BY <1>1, SmallestNat
  <1>3. PICK x \in K : m = n - x
    BY <1>2
  <1>4. \A k \in K : x >= k
    <2> TAKE k \in K
    <2>1. n - k \in D /\ k \in 1 .. n /\ x \in 1 .. n
      OBVIOUS
    <2>2. n - x <= n - k
      BY <1>2, <1>3, <2>1
    <2>. QED
      BY <2>1, <2>2
  <1>5. Max(K) \in K /\ \A k \in K : Max(K) >= k
    BY <1>4 DEF Max
  <1>6. \A k \in K : k \in 1 .. n
    OBVIOUS
  <1>. QED
    BY <1>5, <1>6

(* The text of no events is empty.                                         *)
LEMMA NoText == TextSize(<<>>) = 0
  BY DEF TextSize

(* The overlap is the end of the chunk, as much of it as is needed.        *)
LEMMA OverlapIsAnEnd ==
    ASSUME NEW es, IsTrace(es), es # <<>>
    PROVE  \E k \in 1 .. Len(es) + 1 :
              /\ Overlap(es) = SubSeq(es, k, Len(es))
              /\ TextSize(SubSeq(es, k, Len(es))) >= ChunkOverlap \/ k = 1
              /\ k <= Len(es) => TextSize(SubSeq(es, k + 1, Len(es))) < ChunkOverlap
  <1> DEFINE n == Len(es)
             tail(k) == SubSeq(es, k, n)
             enough == {k \in DOMAIN es : TextSize(tail(k)) >= ChunkOverlap}
  <1>1. n \in Nat \ {0} /\ DOMAIN es = 1 .. n /\ es \in Seq(ToSet(es))
    BY DEF IsTrace
  <1>2. ChunkOverlap \in Nat
    BY ChunkerAssumption
  <1>3. \A k \in 1 .. n + 1 : IsTrace(tail(k)) /\ TextSize(tail(k)) \in Nat
    BY <1>1, Window, TextSizeIsNat
  <1>4. tail(n + 1) = <<>> /\ TextSize(tail(n + 1)) = 0
    <2>1. tail(n + 1) = <<>>
      BY <1>1
    <2>. QED
      BY <2>1, NoText
  <1>5. \A k \in 1 .. n : k \notin enough => TextSize(tail(k)) < ChunkOverlap
    <2> TAKE k \in 1 .. n
    <2>1. TextSize(tail(k)) \in Nat
      BY <1>1, <1>3
    <2>. QED
      BY <1>1, <1>2, <2>1
  <1>6. Overlap(es) = IF ChunkOverlap = 0 THEN <<>>
                      ELSE IF enough = {} THEN es ELSE tail(Max(enough))
    BY DEF Overlap
  <1>7. enough \subseteq 1 .. n /\ \A k \in enough : TextSize(tail(k)) >= ChunkOverlap
    BY <1>1
  <1>8. tail(1) = es
    BY <1>1
  <1> HIDE DEF n, tail, enough
  <1>9. \E k \in 1 .. n + 1 : /\ Overlap(es) = tail(k)
                              /\ TextSize(tail(k)) >= ChunkOverlap \/ k = 1
                              /\ k <= n => TextSize(tail(k + 1)) < ChunkOverlap
    <2>1. CASE ChunkOverlap = 0
      <3>1. n + 1 \in 1 .. n + 1 /\ ~(n + 1 <= n)
        BY <1>1
      <3>2. Overlap(es) = tail(n + 1) /\ TextSize(tail(n + 1)) >= ChunkOverlap
        BY <1>4, <1>6, <2>1
      <3>. QED
        BY <3>1, <3>2
    <2>2. CASE ChunkOverlap # 0 /\ enough = {}
      <3>1. 1 \in 1 .. n + 1 /\ Overlap(es) = tail(1)
        BY <1>1, <1>6, <1>8, <2>2
      <3>2. TextSize(tail(1 + 1)) < ChunkOverlap
        <4>1. CASE n = 1
          BY <1>2, <1>4, <2>2, <4>1
        <4>2. CASE n # 1
          BY <1>1, <1>5, <2>2, <4>2
        <4>. QED
          BY <4>1, <4>2
      <3>. QED
        BY <3>1, <3>2
    <2>3. CASE ChunkOverlap # 0 /\ enough # {}
      <3>1. Max(enough) \in enough /\ \A k \in enough : k <= Max(enough)
        BY <1>1, <1>7, <2>3, LastPlace
      <3>2. PICK k \in 1 .. n : k = Max(enough)
        BY <1>7, <3>1
      <3>3. k \in 1 .. n + 1 /\ Overlap(es) = tail(k) /\ TextSize(tail(k)) >= ChunkOverlap
        BY <1>1, <1>6, <1>7, <2>3, <3>1, <3>2
      <3>4. TextSize(tail(k + 1)) < ChunkOverlap
        <4>1. CASE k = n
          BY <1>2, <1>4, <2>3, <4>1
        <4>2. CASE k # n
          <5>1. k + 1 \in 1 .. n /\ ~(k + 1 <= k)
            BY <1>1, <4>2
          <5>2. k + 1 \notin enough
            BY <3>1, <3>2, <5>1
          <5>. QED
            BY <1>5, <5>1, <5>2
        <4>. QED
          BY <4>1, <4>2
      <3>. QED
        BY <3>3, <3>4
    <2>. QED
      BY <2>1, <2>2, <2>3
  <1>. QED
    BY <1>9 DEF n, tail

-----------------------------------------------------------------------------
(* The cut of a trace: the i-th text is made of the events lo[i] .. hi[i]  *)
(* of the ordered trace, of which those after hi[i - 1] are new.           *)

Piece(s, T, lo, hi, i) ==
    LET p == hi[i - 1]
    IN  /\ lo[i] <= p + 1
        /\ T[i] = SubSeq(s, lo[i], hi[i])
        /\ TextSize(T[i]) > ChunkSize => hi[i] = p + 1
        /\ i = 1 => lo[i] = 1
        /\ i > 1 =>
              /\ lo[i - 1] <= lo[i]
              /\ TextSize(SubSeq(s, lo[i], p)) >= ChunkOverlap \/ lo[i] = lo[i - 1]
              /\ lo[i] <= p => TextSize(SubSeq(s, lo[i] + 1, p)) < ChunkOverlap

Cut(s, T, n, lo, hi) ==
    /\ lo \in [1 .. n -> 1 .. Len(s)]
    /\ hi \in [0 .. n -> 0 .. Len(s)]
    /\ hi[0] = 0
    /\ \A i, j \in 0 .. n : i < j => hi[i] < hi[j]
    /\ \A i \in 1 .. n : Piece(s, T, lo, hi, i)

\* U is T whose n-th text took the next event, which fits.
Grown(s, T, n, hi, U) ==
    /\ hi[n] < Len(s)
    /\ \A i \in 1 .. n - 1 : U[i] = T[i]
    /\ U[n] = Append(T[n], s[hi[n] + 1])
    /\ TextSize(U[n]) <= ChunkSize

\* U is T followed by the overlap of its n-th text and the next event.
Continued(s, T, n, hi, U) ==
    /\ hi[n] < Len(s)
    /\ \A i \in 1 .. n : U[i] = T[i]
    /\ U[n + 1] = Append(Overlap(T[n]), s[hi[n] + 1])

\* The i-th text of a cut: a window of the trace, which ends after the one before.
IsWindow(s, T, lo, hi, i) ==
    /\ Len(s) \in Nat
    /\ lo[i] \in 1 .. Len(s) /\ hi[i] \in 1 .. Len(s) /\ lo[i] <= hi[i]
    /\ hi[i - 1] \in 0 .. Len(s) /\ hi[i - 1] < hi[i] /\ lo[i] <= hi[i - 1] + 1
    /\ T[i] = SubSeq(s, lo[i], hi[i])
    /\ IsTrace(T[i])
    /\ T[i] \in Seq(ToSet(s))
    /\ T[i] # <<>>
    /\ Len(T[i]) = hi[i] - lo[i] + 1
    /\ DOMAIN T[i] = 1 .. hi[i] - lo[i] + 1
    /\ \A k \in 1 .. hi[i] - lo[i] + 1 : T[i][k] = s[lo[i] + k - 1]

(* The parts of a cut are windows, and traces.                             *)
LEMMA PiecesAreTraces ==
    ASSUME NEW s, IsTrace(s), NEW T, NEW n \in Nat, NEW lo, NEW hi, Cut(s, T, n, lo, hi),
           NEW i \in 1 .. n
    PROVE  IsWindow(s, T, lo, hi, i)
  <1>0. Len(s) \in Nat
    BY DEF IsTrace
  <1>1. i - 1 \in 0 .. n /\ i \in 0 .. n /\ i - 1 < i
    OBVIOUS
  <1>2. lo[i] \in 1 .. Len(s) /\ hi[i] \in 0 .. Len(s) /\ hi[i - 1] \in 0 .. Len(s)
    BY <1>1 DEF Cut
  <1>3. hi[i - 1] < hi[i]
    BY <1>1 DEF Cut
  <1>4. lo[i] <= hi[i - 1] + 1 /\ T[i] = SubSeq(s, lo[i], hi[i])
    BY DEF Cut, Piece
  <1>5. hi[i] \in 1 .. Len(s) /\ lo[i] <= hi[i]
    BY <1>0, <1>2, <1>3, <1>4
  <1>6. lo[i] \in 1 .. Len(s) + 1 /\ hi[i] \in 0 .. Len(s) /\ lo[i] <= hi[i] + 1
    BY <1>0, <1>2, <1>5
  <1>7. /\ IsTrace(T[i])
        /\ T[i] \in Seq(ToSet(s))
        /\ Len(T[i]) = hi[i] - lo[i] + 1
        /\ DOMAIN T[i] = 1 .. hi[i] - lo[i] + 1
        /\ \A k \in 1 .. hi[i] - lo[i] + 1 : T[i][k] = s[lo[i] + k - 1]
    <2> DEFINE a == lo[i]
               b == hi[i]
    <2>1. a \in 1 .. Len(s) + 1 /\ b \in 0 .. Len(s) /\ a <= b + 1 /\ T[i] = SubSeq(s, a, b)
      BY <1>4, <1>6
    <2> HIDE DEF a, b
    <2>2. /\ IsTrace(T[i])
          /\ T[i] \in Seq(ToSet(s))
          /\ Len(T[i]) = b - a + 1
          /\ DOMAIN T[i] = 1 .. b - a + 1
          /\ \A k \in 1 .. b - a + 1 : T[i][k] = s[a + k - 1]
      BY <2>1, Window
    <2>. QED
      BY <2>2 DEF a, b
  <1>8. T[i] # <<>>
    <2>1. hi[i] - lo[i] + 1 # 0
      BY <1>0, <1>2, <1>5
    <2>. QED
      BY <1>7, <2>1
  <1>. QED
    BY <1>0, <1>2, <1>3, <1>4, <1>5, <1>7, <1>8 DEF IsWindow

(* The first event is the first text.                                      *)
LEMMA FirstPiece ==
    ASSUME NEW s, IsTrace(s), s # <<>>, NEW T, T[1] = <<s[1]>>
    PROVE  \E lo, hi : Cut(s, T, 1, lo, hi) /\ hi[1] = 1
  <1> DEFINE lo == [i \in 1 .. 1 |-> 1]
             hi == [i \in 0 .. 1 |-> i]
  <1>1. Len(s) \in Nat \ {0} /\ s \in Seq(ToSet(s))
    BY DEF IsTrace
  <1>2. lo \in [1 .. 1 -> 1 .. Len(s)] /\ hi \in [0 .. 1 -> 0 .. Len(s)]
    BY <1>1
  <1>3. hi[0] = 0 /\ hi[1] = 1 /\ lo[1] = 1
    OBVIOUS
  <1>4. T[1] = SubSeq(s, 1, 1)
    BY <1>1
  <1> HIDE DEF lo, hi
  <1>5. Piece(s, T, lo, hi, 1)
    <2>1. 1 - 1 = 0
      OBVIOUS
    <2>. QED
      BY <1>3, <1>4, <2>1 DEF Piece
  <1>6. \A i, j \in 0 .. 1 : i < j => hi[i] < hi[j]
    <2>1. \A i, j \in 0 .. 1 : i < j => i = 0 /\ j = 1
      OBVIOUS
    <2>. QED
      BY <1>3, <2>1
  <1>7. \A i \in 1 .. 1 : i = 1
    OBVIOUS
  <1>8. Cut(s, T, 1, lo, hi)
    BY <1>2, <1>3, <1>5, <1>6, <1>7 DEF Cut
  <1>. QED
    BY <1>3, <1>8

(* The last text takes the next event, which fits.                         *)
LEMMA PieceGrows ==
    ASSUME NEW s, IsTrace(s), NEW T, NEW n \in Nat \ {0}, NEW lo, NEW hi, Cut(s, T, n, lo, hi),
           NEW U, Grown(s, T, n, hi, U)
    PROVE  \E up : Cut(s, U, n, lo, up) /\ up[n] = hi[n] + 1
  <1>0. /\ hi[n] < Len(s)
        /\ \A i \in 1 .. n - 1 : U[i] = T[i]
        /\ U[n] = Append(T[n], s[hi[n] + 1])
        /\ TextSize(U[n]) <= ChunkSize
    BY DEF Grown
  <1> DEFINE m == hi[n]
             up == [i \in 0 .. n |-> IF i = n THEN m + 1 ELSE hi[i]]
  <1>1. n \in 1 .. n /\ n \in 0 .. n /\ n - 1 \in 0 .. n
    OBVIOUS
  <1>2. /\ Len(s) \in Nat /\ m \in 1 .. Len(s) /\ m < Len(s) /\ lo[n] \in 1 .. Len(s)
        /\ hi[n - 1] < m /\ T[n] = SubSeq(s, lo[n], m) /\ lo[n] <= m
    <2>1. IsWindow(s, T, lo, hi, n)
      BY <1>1, PiecesAreTraces
    <2>. QED
      BY <1>0, <2>1 DEF IsWindow
  <1>3. /\ hi \in [0 .. n -> 0 .. Len(s)] /\ hi[0] = 0 /\ lo \in [1 .. n -> 1 .. Len(s)]
        /\ \A i, j \in 0 .. n : i < j => hi[i] < hi[j]
        /\ \A i \in 1 .. n : Piece(s, T, lo, hi, i)
    BY DEF Cut
  <1>4. U[n] = SubSeq(s, lo[n], m + 1)
    <2>1. m \in 0 .. Len(s) - 1 /\ lo[n] <= m + 1
      BY <1>2
    <2>. QED
      BY <1>0, <1>2, <2>1, WindowGrows
  <1> HIDE DEF m
  <1>5. /\ up \in [0 .. n -> 0 .. Len(s)]
        /\ up[n] = m + 1
        /\ \A i \in 0 .. n : i # n => up[i] = hi[i]
    <2>1. m + 1 \in 0 .. Len(s)
      BY <1>2
    <2>. QED
      BY <1>1, <1>3, <2>1
  <1> HIDE DEF up
  <1>6. up[0] = 0
    BY <1>3, <1>5
  <1>7. \A i, j \in 0 .. n : i < j => up[i] < up[j]
    <2> SUFFICES ASSUME NEW i \in 0 .. n, NEW j \in 0 .. n, i < j PROVE up[i] < up[j]
      OBVIOUS
    <2>1. i # n /\ up[i] = hi[i] /\ hi[i] \in 0 .. Len(s) /\ hi[i] < hi[j]
      BY <1>3, <1>5
    <2>2. CASE j = n
      BY <1>2, <1>5, <2>1, <2>2 DEF m
    <2>3. CASE j # n
      BY <1>5, <2>1, <2>3
    <2>. QED
      BY <2>2, <2>3
  <1>8. ASSUME NEW i \in 1 .. n PROVE Piece(s, U, lo, up, i)
    <2>1. i - 1 \in 0 .. n /\ i - 1 # n /\ up[i - 1] = hi[i - 1]
      BY <1>5
    <2>2. Piece(s, T, lo, hi, i)
      BY <1>3
    <2>3. CASE i = n
      <3>1. ~(TextSize(U[n]) > ChunkSize)
        <4>1. IsTrace(U[n])
          <5>1. lo[n] \in 1 .. Len(s) + 1 /\ m + 1 \in 0 .. Len(s) /\ lo[n] <= m + 1 + 1
            BY <1>2
          <5>. QED
            BY <1>4, <5>1, Window
        <4>2. TextSize(U[n]) \in Nat /\ ChunkSize \in Nat
          BY <4>1, TextSizeIsNat, ChunkerAssumption
        <4>. QED
          BY <1>0, <4>2
      <3>. QED
        BY <1>4, <1>5, <2>1, <2>2, <2>3, <3>1 DEF Piece
    <2>4. CASE i # n
      <3>1. i \in 1 .. n - 1 /\ i \in 0 .. n /\ up[i] = hi[i] /\ U[i] = T[i]
        BY <1>0, <1>5, <2>4
      <3>. QED
        BY <2>1, <2>2, <3>1 DEF Piece
    <2>. QED
      BY <2>3, <2>4
  <1>9. Cut(s, U, n, lo, up)
    BY <1>3, <1>5, <1>6, <1>7, <1>8 DEF Cut
  <1>. QED
    BY <1>5, <1>9 DEF m

(* The next text is the overlap and the next event.                        *)
LEMMA NextPiece ==
    ASSUME NEW s, IsTrace(s), NEW T, NEW n \in Nat \ {0}, NEW lo, NEW hi, Cut(s, T, n, lo, hi),
           NEW U, Continued(s, T, n, hi, U)
    PROVE  \E lp, up : Cut(s, U, n + 1, lp, up) /\ up[n + 1] = hi[n] + 1
  <1>0. /\ hi[n] < Len(s)
        /\ \A i \in 1 .. n : U[i] = T[i]
        /\ U[n + 1] = Append(Overlap(T[n]), s[hi[n] + 1])
    BY DEF Continued
  <1> DEFINE m == hi[n]
             a == lo[n]
  <1>1. /\ Len(s) \in Nat /\ m \in 1 .. Len(s) /\ m < Len(s) /\ a \in 1 .. Len(s) /\ a <= m
        /\ IsTrace(T[n]) /\ T[n] # <<>> /\ T[n] = SubSeq(s, a, m) /\ Len(T[n]) = m - a + 1
    <2>1. n \in 1 .. n
      OBVIOUS
    <2>2. IsWindow(s, T, lo, hi, n)
      BY <2>1, PiecesAreTraces
    <2>. QED
      BY <1>0, <2>2 DEF IsWindow
  <1> HIDE DEF m, a
  <1>2. PICK k \in 1 .. Len(T[n]) + 1 :
           /\ Overlap(T[n]) = SubSeq(T[n], k, Len(T[n]))
           /\ TextSize(SubSeq(T[n], k, Len(T[n]))) >= ChunkOverlap \/ k = 1
           /\ k <= Len(T[n]) => TextSize(SubSeq(T[n], k + 1, Len(T[n]))) < ChunkOverlap
    BY <1>1, OverlapIsAnEnd
  <1> DEFINE x == a + k - 1
  <1>3. /\ k \in 1 .. m - a + 2 /\ x \in 1 .. Len(s) /\ a <= x /\ x <= m + 1
        /\ (k = 1 => x = a) /\ (x <= m => k <= Len(T[n]) /\ k + 1 \in 1 .. m - a + 2)
        /\ a + (k + 1) - 1 = x + 1
    BY <1>1, <1>2
  <1>4. \A l \in 1 .. m - a + 2 : SubSeq(T[n], l, Len(T[n])) = SubSeq(s, a + l - 1, m)
    <2>1. a \in 1 .. Len(s) + 1 /\ m \in 0 .. Len(s) /\ a <= m + 1
      BY <1>1
    <2>. QED
      BY <1>1, <2>1, WindowOfWindow
  <1>5. Overlap(T[n]) = SubSeq(s, x, m)
    BY <1>2, <1>3, <1>4
  <1>6. TextSize(SubSeq(s, x, m)) >= ChunkOverlap \/ x = a
    BY <1>2, <1>3, <1>4
  <1>7. x <= m => TextSize(SubSeq(s, x + 1, m)) < ChunkOverlap
    <2>1. ASSUME x <= m PROVE SubSeq(T[n], k + 1, Len(T[n])) = SubSeq(s, x + 1, m)
      BY <1>3, <1>4, <2>1
    <2>. QED
      BY <1>2, <1>3, <2>1
  <1> HIDE DEF x
  <1>8. U[n + 1] = SubSeq(s, x, m + 1)
    <2>1. m \in 0 .. Len(s) - 1
      BY <1>1
    <2>2. Append(SubSeq(s, x, m), s[m + 1]) = SubSeq(s, x, m + 1)
      BY <1>1, <1>3, <2>1, WindowGrows
    <2>. QED
      BY <1>0, <1>5, <2>2 DEF m
  <1> DEFINE lp == [i \in 1 .. n + 1 |-> IF i = n + 1 THEN x ELSE lo[i]]
             up == [i \in 0 .. n + 1 |-> IF i = n + 1 THEN m + 1 ELSE hi[i]]
  <1>9. /\ hi \in [0 .. n -> 0 .. Len(s)] /\ hi[0] = 0 /\ lo \in [1 .. n -> 1 .. Len(s)]
        /\ \A i, j \in 0 .. n : i < j => hi[i] < hi[j]
        /\ \A i \in 1 .. n : Piece(s, T, lo, hi, i)
    BY DEF Cut
  <1>10. /\ lp \in [1 .. n + 1 -> 1 .. Len(s)]
         /\ lp[n + 1] = x
         /\ \A i \in 1 .. n : lp[i] = lo[i]
    <2>1. n + 1 \in 1 .. n + 1 /\ \A i \in 1 .. n : i \in 1 .. n + 1 /\ i # n + 1
      OBVIOUS
    <2>2. \A i \in 1 .. n + 1 : i # n + 1 => i \in 1 .. n
      OBVIOUS
    <2>. QED
      BY <1>3, <1>9, <2>1, <2>2
  <1>11. /\ up \in [0 .. n + 1 -> 0 .. Len(s)]
         /\ up[n + 1] = m + 1
         /\ \A i \in 0 .. n : up[i] = hi[i]
    <2>1. n + 1 \in 0 .. n + 1 /\ \A i \in 0 .. n : i \in 0 .. n + 1 /\ i # n + 1
      OBVIOUS
    <2>2. \A i \in 0 .. n + 1 : i # n + 1 => i \in 0 .. n
      OBVIOUS
    <2>3. m + 1 \in 0 .. Len(s)
      BY <1>1
    <2>. QED
      BY <1>9, <2>1, <2>2, <2>3
  <1> HIDE DEF lp, up
  <1>12. up[0] = 0
    BY <1>9, <1>11
  <1>13. \A i, j \in 0 .. n + 1 : i < j => up[i] < up[j]
    <2> SUFFICES ASSUME NEW i \in 0 .. n + 1, NEW j \in 0 .. n + 1, i < j PROVE up[i] < up[j]
      OBVIOUS
    <2>1. i \in 0 .. n /\ up[i] = hi[i] /\ hi[i] \in 0 .. Len(s)
      BY <1>9, <1>11
    <2>2. CASE j = n + 1
      <3>1. hi[i] <= m
        <4>1. CASE i = n
          BY <1>1, <4>1 DEF m
        <4>2. CASE i # n
          <5>1. i < n /\ n \in 0 .. n
            BY <2>1, <4>2
          <5>. QED
            BY <1>1, <1>9, <2>1, <5>1 DEF m
        <4>. QED
          BY <4>1, <4>2
      <3>. QED
        BY <1>1, <1>11, <2>1, <2>2, <3>1
    <2>3. CASE j # n + 1
      <3>1. j \in 0 .. n
        BY <2>3
      <3>. QED
        BY <1>9, <1>11, <2>1, <3>1
    <2>. QED
      BY <2>2, <2>3
  <1>14. ASSUME NEW i \in 1 .. n + 1 PROVE Piece(s, U, lp, up, i)
    <2>1. CASE i = n + 1
      <3>1. i - 1 = n /\ n \in 0 .. n /\ n \in 1 .. n /\ i > 1 /\ i # 1
        BY <2>1
      <3>2. up[i - 1] = m /\ up[i] = m + 1 /\ lp[i] = x /\ lp[i - 1] = a
        BY <1>10, <1>11, <2>1, <3>1 DEF m, a
      <3>. QED
        BY <1>3, <1>6, <1>7, <1>8, <2>1, <3>1, <3>2 DEF Piece
    <2>2. CASE i # n + 1
      <3>1. i \in 1 .. n /\ i \in 0 .. n /\ i - 1 \in 0 .. n /\ (i > 1 => i - 1 \in 1 .. n)
        BY <2>2
      <3>2. /\ up[i] = hi[i] /\ up[i - 1] = hi[i - 1] /\ lp[i] = lo[i] /\ U[i] = T[i]
            /\ i > 1 => lp[i - 1] = lo[i - 1]
        BY <1>0, <1>10, <1>11, <3>1
      <3>3. Piece(s, T, lo, hi, i)
        BY <1>9, <3>1
      <3>. QED
        BY <3>2, <3>3 DEF Piece
    <2>. QED
      BY <2>1, <2>2
  <1>15. Cut(s, U, n + 1, lp, up)
    BY <1>10, <1>11, <1>12, <1>13, <1>14 DEF Cut
  <1>. QED
    BY <1>11, <1>15 DEF m

-----------------------------------------------------------------------------
(* The invariant of the loop.                                              *)

Count == IF pc = "loop" THEN Len(chunks) + 1 ELSE Len(chunks)

(* The texts of the chunks and, in the loop, of the one being filled.      *)
Texts == [i \in 1 .. Count |-> IF i <= Len(chunks) THEN chunks[i].text ELSE current]

(* The trace that was given and the events in their order.                 *)
OrderInv ==
    /\ IsTrace(input)
    /\ IsTrace(ordered)
    /\ pc \in {"called", "loop", "returned", "refused"}
    /\ \A i, j \in 1 .. Len(ordered) : i < j => Before(ordered[i], ordered[j])
    /\ \A i, j \in 1 .. Len(ordered) : ordered[i].id = ordered[j].id => i = j
    /\ pc \in {"called", "refused"} => ordered = <<>>
    /\ pc \in {"loop", "returned"} => ToSet(ordered) = ToSet(input)
    /\ pc = "loop" => ordered # <<>>

(* What was seen of it is cut into the texts, the last of which is still   *)
(* being filled.                                                           *)
LoopInv ==
    /\ seen \in 0 .. Len(ordered)
    /\ pc = "returned" => seen = Len(ordered)
    /\ seen = 0 => current = <<>> /\ chunks = <<>>
    /\ ToSet(current) \subseteq ToSet(ordered)
    /\ seen > 0 => \E lo, hi : Cut(ordered, Texts, Count, lo, hi) /\ hi[Count] = seen

(* The chunks are built of their texts, which are numbered from 0.         *)
ListInv ==
    /\ chunks \in Seq(ToSet(chunks))
    /\ \A i \in 1 .. Len(chunks) : chunks[i] = BuildChunk(i - 1, chunks[i].text)

ChunkInv == OrderInv /\ LoopInv /\ ListInv

(* No events are a trace.                                                  *)
LEMMA NoEvents == IsTrace(<<>>) /\ ToSet(<<>>) = {} /\ Len(<<>>) = 0
  BY DEF IsTrace, ToSet

LEMMA ChunkInitInv == ChunkInit => ChunkInv
  <1> SUFFICES ASSUME ChunkInit PROVE ChunkInv
    OBVIOUS
  <1> USE DEF ChunkInit
  <1>1. IsTrace(input)
    BY ChunkerAssumption
  <1>2. OrderInv
    BY <1>1, NoEvents DEF OrderInv
  <1>3. LoopInv
    BY NoEvents DEF LoopInv
  <1>4. ListInv
    BY NoEvents DEF ListInv
  <1>. QED
    BY <1>2, <1>3, <1>4 DEF ChunkInv

(* A sequence stays a sequence, of its own elements, when one is appended. *)
LEMMA AppendedSequence ==
    ASSUME NEW s, s \in Seq(ToSet(s)), NEW x
    PROVE  /\ Append(s, x) \in Seq(ToSet(Append(s, x)))
           /\ Len(s) \in Nat
           /\ Len(Append(s, x)) = Len(s) + 1
           /\ \A i \in 1 .. Len(s) : Append(s, x)[i] = s[i]
           /\ Append(s, x)[Len(s) + 1] = x
  <1> DEFINE t == Append(s, x)
             T == ToSet(s) \cup {x}
  <1>1. s \in Seq(T) /\ Len(s) \in Nat
    OBVIOUS
  <1>2. /\ t \in Seq(T) /\ Len(t) = Len(s) + 1 /\ DOMAIN t = 1 .. Len(t)
        /\ \A i \in 1 .. Len(s) : t[i] = s[i]
        /\ t[Len(s) + 1] = x
    BY <1>1
  <1>3. \A i \in 1 .. Len(t) : t[i] \in ToSet(t)
    BY <1>2 DEF ToSet
  <1>. QED
    BY <1>1, <1>2, <1>3

(* A closed chunk joins the others.                                        *)
LEMMA ListGrows ==
    ASSUME ListInv, chunks' = Append(chunks, BuildChunk(Len(chunks), current))
    PROVE  /\ ListInv'
           /\ Len(chunks) \in Nat
           /\ Len(chunks') = Len(chunks) + 1
           /\ \A i \in 1 .. Len(chunks) : chunks'[i] = chunks[i]
           /\ chunks'[Len(chunks) + 1].text = current
  <1> DEFINE n == Len(chunks)
             c == BuildChunk(n, current)
  <1>1. /\ chunks' \in Seq(ToSet(chunks')) /\ n \in Nat /\ Len(chunks') = n + 1
        /\ \A i \in 1 .. n : chunks'[i] = chunks[i]
        /\ chunks'[n + 1] = c
    BY AppendedSequence DEF ListInv
  <1>2. c.text = current
    BY DEF BuildChunk, Create
  <1>3. ASSUME NEW i \in 1 .. n + 1 PROVE chunks'[i] = BuildChunk(i - 1, chunks'[i].text)
    <2>1. CASE i = n + 1
      <3>1. i - 1 = n
        BY <1>1, <2>1
      <3>. QED
        BY <1>1, <1>2, <2>1, <3>1
    <2>2. CASE i # n + 1
      <3>1. i \in 1 .. n
        BY <1>1, <2>2
      <3>. QED
        BY <1>1, <3>1 DEF ListInv
    <2>. QED
      BY <2>1, <2>2
  <1> HIDE DEF n, c
  <1>4. ListInv'
    BY <1>1, <1>3 DEF ListInv
  <1>. QED
    BY <1>1, <1>2, <1>4 DEF n

(* The events that are not refused are distinct and ordered.               *)
LEMMA OrderStep == ASSUME ChunkInv, Order PROVE ChunkInv'
  <1>1. /\ pc = "called" /\ input # <<>> /\ Consistent(input)
        /\ ordered' = Sorted(input) /\ pc' = "loop" /\ UNCHANGED <<input, seen, current, chunks>>
    BY DEF Order
  <1>2. IsTrace(input) /\ ordered = <<>>
    BY <1>1 DEF ChunkInv, OrderInv
  <1>3. \A i, j \in DOMAIN input : input[i].id = input[j].id => i = j
    BY <1>1 DEF Consistent
  <1>4. /\ IsTrace(ordered')
        /\ Len(ordered') = Len(input)
        /\ ToSet(ordered') = ToSet(input)
        /\ \A i, j \in 1 .. Len(input) : i < j => Before(ordered'[i], ordered'[j])
    BY <1>1, <1>2, <1>3, SortedIsInOrder
  <1>5. Len(input) \in Nat \ {0} /\ ordered' # <<>>
    <2>1. Len(input) \in Nat \ {0}
      BY <1>1, <1>2 DEF IsTrace
    <2>. QED
      BY <1>4, <2>1, NoEvents
  <1> DEFINE s == ordered'
  <1>6. ASSUME NEW i \in 1 .. Len(s), NEW j \in 1 .. Len(s), s[i].id = s[j].id PROVE i = j
    <2>1. s[i] \in ToSet(s) /\ s[j] \in ToSet(s)
      BY <1>4 DEF IsTrace
    <2>2. PICK k \in DOMAIN input, l \in DOMAIN input : s[i] = input[k] /\ s[j] = input[l]
      BY <1>4, <2>1 DEF ToSet
    <2>3. s[i] = s[j] /\ IsEvent(s[i])
      BY <1>2, <1>3, <1>4, <1>6, <2>1, <2>2 DEF IsTrace
    <2>4. ~Before(s[i], s[j]) /\ ~Before(s[j], s[i])
      BY <2>3, BeforeIsAnOrder
    <2>5. Len(s) \in Nat /\ ~(i < j) /\ ~(j < i)
      BY <1>4, <1>5, <2>4
    <2>. QED
      BY <2>5
  <1>10. OrderInv'
    BY <1>1, <1>2, <1>4, <1>5, <1>6 DEF OrderInv
  <1>7. seen = 0 /\ current = <<>> /\ chunks = <<>>
    <2>1. seen \in 0 .. Len(<<>>)
      BY <1>2 DEF ChunkInv, LoopInv
    <2>2. seen = 0
      BY <2>1, NoEvents
    <2>. QED
      BY <2>2 DEF ChunkInv, LoopInv
  <1>8. LoopInv'
    BY <1>1, <1>4, <1>5, <1>7, NoEvents DEF LoopInv
  <1>9. ListInv'
    BY <1>1 DEF ChunkInv, ListInv
  <1>. QED
    BY <1>8, <1>9, <1>10 DEF ChunkInv

(* The loop's steps take the next event.                                   *)
LEMMA NextEvent ==
    ASSUME ChunkInv, pc = "loop", seen < Len(ordered)
    PROVE  /\ Len(ordered) \in Nat /\ seen \in Nat /\ seen + 1 \in 1 .. Len(ordered)
           /\ IsTrace(ordered)
           /\ IsEvent(ordered[seen + 1])
           /\ Len(chunks) \in Nat /\ Count = Len(chunks) + 1 /\ Texts[Count] = current
           /\ \A i \in 1 .. Len(chunks) : Texts[i] = chunks[i].text
           /\ seen > 0 => IsTrace(current) /\ current # <<>>
  <1>1. IsTrace(ordered) /\ Len(ordered) \in Nat /\ seen \in 0 .. Len(ordered)
    BY DEF ChunkInv, OrderInv, LoopInv, IsTrace
  <1>2. seen \in Nat /\ seen + 1 \in 1 .. Len(ordered)
    BY <1>1
  <1>3. IsEvent(ordered[seen + 1])
    <2>1. ordered[seen + 1] \in ToSet(ordered)
      BY <1>1, <1>2 DEF IsTrace
    <2>. QED
      BY <1>1, <2>1 DEF IsTrace
  <1>4. Len(chunks) \in Nat
    BY DEF ChunkInv, ListInv
  <1>5. Count = Len(chunks) + 1
    BY DEF Count
  <1>6. /\ Texts[Count] = current
        /\ \A i \in 1 .. Len(chunks) : Texts[i] = chunks[i].text
    BY <1>4, <1>5 DEF Texts
  <1>7. ASSUME seen > 0 PROVE IsTrace(current) /\ current # <<>>
    <2>1. PICK lo, hi : Cut(ordered, Texts, Count, lo, hi) /\ hi[Count] = seen
      BY <1>7 DEF ChunkInv, LoopInv
    <2>2. Count \in Nat /\ Count \in 1 .. Count
      BY <1>4, <1>5
    <2>3. IsWindow(ordered, Texts, lo, hi, Count)
      BY <1>1, <2>1, <2>2, PiecesAreTraces
    <2>. QED
      BY <1>6, <2>3 DEF IsWindow
  <1>. QED
    BY <1>1, <1>2, <1>3, <1>4, <1>5, <1>6, <1>7

(* The invariant after an event was taken, from the new cut.               *)
LEMMA EventTaken ==
    ASSUME ChunkInv, pc = "loop", seen < Len(ordered), ListInv',
           UNCHANGED <<input, pc, ordered>>, seen' = seen + 1,
           NEW lo, NEW hi, Cut(ordered, Texts', Count', lo, hi), hi[Count'] = seen + 1
    PROVE  ChunkInv'
  <1>1. /\ Len(ordered) \in Nat /\ seen \in Nat /\ seen + 1 \in 1 .. Len(ordered)
        /\ IsTrace(ordered)
    BY NextEvent
  <1>2. Len(chunks') \in Nat /\ Count' = Len(chunks') + 1
    BY DEF ListInv, Count
  <1>3. Texts'[Count'] = current'
    <2>1. Count' \in 1 .. Count' /\ ~(Count' <= Len(chunks'))
      BY <1>2
    <2>. QED
      BY <2>1 DEF Texts
  <1>4. ToSet(current') \subseteq ToSet(ordered)
    <2>1. Count' \in Nat /\ Count' \in 1 .. Count'
      BY <1>2
    <2>3. IsWindow(ordered, Texts', lo, hi, Count')
      BY <1>1, <2>1, PiecesAreTraces
    <2>2. current' \in Seq(ToSet(ordered))
      BY <1>3, <2>3 DEF IsWindow
    <2>. QED
      BY <2>2 DEF ToSet
  <1>5. seen' \in 0 .. Len(ordered') /\ seen' # 0 /\ pc' = "loop"
    BY <1>1
  <1>6. (\E l, h : Cut(ordered, Texts, Count, l, h) /\ h[Count] = seen)'
    OBVIOUS
  <1>7. LoopInv'
    BY <1>4, <1>5, <1>6 DEF LoopInv
  <1>8. OrderInv'
    BY DEF ChunkInv, OrderInv
  <1>. QED
    BY <1>7, <1>8 DEF ChunkInv

(* The event fits into the chunk being filled.                             *)
LEMMA FillStep == ASSUME ChunkInv, Fill PROVE ChunkInv'
  <1> DEFINE e == ordered[seen + 1]
             n == Count
  <1>1. /\ pc = "loop" /\ seen < Len(ordered) /\ ~Exceeds(e)
        /\ current' = Append(current, e) /\ seen' = seen + 1
        /\ UNCHANGED <<input, pc, ordered, chunks>>
    BY DEF Fill
  <1>2. /\ Len(ordered) \in Nat /\ seen \in Nat /\ seen + 1 \in 1 .. Len(ordered)
        /\ IsTrace(ordered) /\ IsEvent(e)
        /\ Len(chunks) \in Nat /\ n = Len(chunks) + 1 /\ Texts[n] = current
        /\ \A i \in 1 .. Len(chunks) : Texts[i] = chunks[i].text
        /\ seen > 0 => IsTrace(current) /\ current # <<>>
    BY <1>1, NextEvent
  <1>3. ListInv'
    BY <1>1 DEF ChunkInv, ListInv
  <1>4. Count' = n
    BY <1>1 DEF Count
  <1>5. /\ Texts'[n] = Append(current, e)
        /\ \A i \in 1 .. n - 1 : Texts'[i] = Texts[i]
    <2>1. n \in 1 .. Count' /\ ~(n <= Len(chunks'))
      BY <1>1, <1>2, <1>4
    <2>2. \A i \in 1 .. n - 1 : i \in 1 .. Count' /\ i <= Len(chunks') /\ i \in 1 .. Len(chunks)
      BY <1>1, <1>2, <1>4
    <2>3. Texts'[n] = current'
      BY <2>1 DEF Texts
    <2>4. \A i \in 1 .. n - 1 : Texts'[i] = chunks'[i].text
      BY <2>2 DEF Texts
    <2>. QED
      BY <1>1, <1>2, <2>2, <2>3, <2>4
  <1>6. \E lo, hi : Cut(ordered, Texts', n, lo, hi) /\ hi[n] = seen + 1
    <2>1. CASE seen = 0
      <3>1. current = <<>> /\ chunks = <<>>
        BY <2>1 DEF ChunkInv, LoopInv
      <3>2. n = 1 /\ seen + 1 = 1 /\ ordered # <<>>
        BY <1>2, <2>1, <3>1, NoEvents
      <3>3. Texts'[1] = <<ordered[1]>>
        BY <1>5, <3>1, <3>2
      <3>. QED
        BY <1>2, <3>2, <3>3, FirstPiece
    <2>2. CASE seen # 0
      <3>1. PICK lo, hi : Cut(ordered, Texts, n, lo, hi) /\ hi[n] = seen
        BY <1>2, <2>2 DEF ChunkInv, LoopInv
      <3>2. IsTrace(current) /\ current # <<>>
        BY <1>2, <2>2
      <3>3. TextSize(Append(current, e)) <= ChunkSize
        <4>1. TextSize(Append(current, e)) = TextSize(current) + 1 + LineSize(e)
          BY <1>2, <3>2, TextSizeOfMore
        <4>2. TextSize(current) \in Nat /\ LineSize(e) \in Nat /\ ChunkSize \in Nat
          BY <1>2, <3>2, TextSizeIsNat, LineSizeIsNat, ChunkerAssumption
        <4>3. ~(TextSize(current) + 1 + LineSize(e) > ChunkSize)
          BY <1>1, <3>2 DEF Exceeds
        <4>. QED
          BY <4>1, <4>2, <4>3
      <3>4. n \in Nat \ {0}
        BY <1>2
      <3> HIDE DEF n, e
      <3>5. \E up : Cut(ordered, Texts', n, lo, up) /\ up[n] = seen + 1
        <4>1. hi[n] < Len(ordered) /\ Texts'[n] = Append(Texts[n], ordered[hi[n] + 1])
          BY <1>1, <1>2, <1>5, <3>1 DEF e
        <4>2. TextSize(Texts'[n]) <= ChunkSize
          BY <1>5, <3>3
        <4>4. Grown(ordered, Texts, n, hi, Texts')
          BY <1>5, <4>1, <4>2 DEF Grown
        <4>3. \E up : Cut(ordered, Texts', n, lo, up) /\ up[n] = hi[n] + 1
          BY <1>2, <3>1, <3>4, <4>4, PieceGrows
        <4>. QED
          BY <3>1, <4>3
      <3>. QED
        BY <3>5
    <2>. QED
      BY <2>1, <2>2
  <1>7. PICK lo, hi : Cut(ordered, Texts', Count', lo, hi) /\ hi[Count'] = seen + 1
    BY <1>4, <1>6
  <1>. QED
    BY <1>1, <1>3, <1>7, EventTaken

(* The event does not fit: the chunk is closed.                            *)
LEMMA CloseStep == ASSUME ChunkInv, Close PROVE ChunkInv'
  <1> DEFINE e == ordered[seen + 1]
             n == Count
  <1>1. /\ pc = "loop" /\ seen < Len(ordered) /\ Exceeds(e)
        /\ chunks' = Append(chunks, BuildChunk(Len(chunks), current))
        /\ current' = Append(Overlap(current), e) /\ seen' = seen + 1
        /\ UNCHANGED <<input, pc, ordered>>
    BY DEF Close
  <1>2. /\ Len(ordered) \in Nat /\ seen \in Nat /\ seen + 1 \in 1 .. Len(ordered)
        /\ IsTrace(ordered)
        /\ Len(chunks) \in Nat /\ n = Len(chunks) + 1 /\ Texts[n] = current
        /\ \A i \in 1 .. Len(chunks) : Texts[i] = chunks[i].text
    BY <1>1, NextEvent
  <1>3. seen > 0
    <2>1. current # <<>>
      BY <1>1 DEF Exceeds
    <2>2. seen # 0
      BY <2>1 DEF ChunkInv, LoopInv
    <2>. QED
      BY <1>2, <2>2
  <1>4. /\ ListInv'
        /\ Len(chunks') = n
        /\ \A i \in 1 .. Len(chunks) : chunks'[i] = chunks[i]
        /\ chunks'[n].text = current
    BY <1>1, <1>2, ListGrows DEF ChunkInv
  <1>5. Count' = n + 1
    BY <1>1, <1>4 DEF Count
  <1>6. /\ Texts'[n + 1] = Append(Overlap(current), e)
        /\ \A i \in 1 .. n : Texts'[i] = Texts[i]
    <2>1. n + 1 \in 1 .. Count' /\ ~(n + 1 <= Len(chunks'))
      BY <1>2, <1>4, <1>5
    <2>2. \A i \in 1 .. n : i \in 1 .. Count' /\ i <= Len(chunks')
      BY <1>2, <1>4, <1>5
    <2>3. Texts'[n + 1] = current'
      BY <2>1 DEF Texts
    <2>4. \A i \in 1 .. n : Texts'[i] = chunks'[i].text
      BY <2>2 DEF Texts
    <2>5. \A i \in 1 .. n : i = n \/ i \in 1 .. Len(chunks)
      BY <1>2
    <2>. QED
      BY <1>1, <1>2, <1>4, <2>3, <2>4, <2>5
  <1>7. PICK lo, hi : Cut(ordered, Texts, n, lo, hi) /\ hi[n] = seen
    BY <1>3 DEF ChunkInv, LoopInv
  <1>8. n \in Nat \ {0}
    BY <1>2
  <1> HIDE DEF n, e
  <1>9. hi[n] < Len(ordered) /\ Texts'[n + 1] = Append(Overlap(Texts[n]), ordered[hi[n] + 1])
    BY <1>1, <1>2, <1>6, <1>7 DEF e
  <1>10. PICK lp, up : Cut(ordered, Texts', n + 1, lp, up) /\ up[n + 1] = seen + 1
    <2>1. \E lp, up : Cut(ordered, Texts', n + 1, lp, up) /\ up[n + 1] = hi[n] + 1
      <3>1. Continued(ordered, Texts, n, hi, Texts')
        BY <1>6, <1>9 DEF Continued
      <3>. QED
        BY <1>2, <1>7, <1>8, <3>1, NextPiece
    <2>. QED
      BY <1>7, <2>1
  <1>. QED
    BY <1>1, <1>4, <1>5, <1>10, EventTaken

(* All events were taken: the chunk being filled is the last one.          *)
LEMMA ReturnStep == ASSUME ChunkInv, Return PROVE ChunkInv'
  <1>1. /\ pc = "loop" /\ seen = Len(ordered)
        /\ chunks' = Append(chunks, BuildChunk(Len(chunks), current))
        /\ pc' = "returned" /\ UNCHANGED <<input, ordered, seen, current>>
    BY DEF Return
  <1>2. /\ ListInv'
        /\ Len(chunks) \in Nat
        /\ Len(chunks') = Len(chunks) + 1
        /\ \A i \in 1 .. Len(chunks) : chunks'[i] = chunks[i]
        /\ chunks'[Len(chunks) + 1].text = current
    BY <1>1, ListGrows DEF ChunkInv
  <1>3. Count' = Count /\ Count = Len(chunks) + 1
    BY <1>1, <1>2 DEF Count
  <1>4. Texts' = Texts
    <2>1. ASSUME NEW i \in 1 .. Count
          PROVE  (IF i <= Len(chunks') THEN chunks'[i].text ELSE current') =
                     (IF i <= Len(chunks) THEN chunks[i].text ELSE current)
      <3>1. CASE i <= Len(chunks)
        <4>1. i \in 1 .. Len(chunks) /\ i <= Len(chunks')
          BY <1>2, <1>3, <3>1
        <4>. QED
          BY <1>2, <3>1, <4>1
      <3>2. CASE ~(i <= Len(chunks))
        <4>1. i = Len(chunks) + 1 /\ i <= Len(chunks')
          BY <1>2, <1>3, <3>2
        <4>. QED
          BY <1>2, <3>2, <4>1
      <3>. QED
        BY <3>1, <3>2
    <2>. QED
      BY <1>3, <2>1 DEF Texts
  <1>5. OrderInv'
    BY <1>1 DEF ChunkInv, OrderInv
  <1>6. seen # 0
    <2>1. Len(ordered) # 0
      BY <1>1 DEF ChunkInv, OrderInv, IsTrace
    <2>. QED
      BY <1>1, <2>1
  <1>7. LoopInv'
    BY <1>1, <1>3, <1>4, <1>6 DEF ChunkInv, LoopInv
  <1>. QED
    BY <1>2, <1>5, <1>7 DEF ChunkInv

LEMMA ChunkStepInv == ChunkInv /\ [ChunkNext]_chunkVars => ChunkInv'
  <1> SUFFICES ASSUME ChunkInv, [ChunkNext]_chunkVars PROVE ChunkInv'
    OBVIOUS
  <1>1. CASE ReturnNothing
    <2>1. pc = "called" /\ input = <<>> /\ pc' = "returned"
          /\ UNCHANGED <<input, ordered, seen, current, chunks>>
      BY <1>1 DEF ReturnNothing
    <2>2. ordered = <<>> /\ seen = 0 /\ chunks = <<>>
      <3>1. ordered = <<>> /\ seen \in 0 .. Len(ordered)
        BY <2>1 DEF ChunkInv, OrderInv, LoopInv
      <3>2. seen = 0
        BY <3>1, NoEvents
      <3>. QED
        BY <3>1, <3>2 DEF ChunkInv, LoopInv
    <2>3. OrderInv'
      BY <2>1, <2>2, NoEvents DEF ChunkInv, OrderInv
    <2>4. LoopInv'
      BY <2>1, <2>2, NoEvents DEF ChunkInv, LoopInv
    <2>. QED
      BY <2>1, <2>3, <2>4 DEF ChunkInv, ListInv
  <1>2. CASE Refuse
    <2>1. pc = "called" /\ pc' = "refused" /\ UNCHANGED <<input, ordered, seen, current, chunks>>
      BY <1>2 DEF Refuse
    <2>2. ordered = <<>> /\ seen = 0
      <3>1. ordered = <<>> /\ seen \in 0 .. Len(ordered)
        BY <2>1 DEF ChunkInv, OrderInv, LoopInv
      <3>. QED
        BY <3>1, NoEvents
    <2>3. OrderInv'
      BY <2>1 DEF ChunkInv, OrderInv
    <2>4. LoopInv'
      BY <2>1, <2>2, NoEvents DEF ChunkInv, LoopInv
    <2>. QED
      BY <2>1, <2>3, <2>4 DEF ChunkInv, ListInv
  <1>3. CASE UNCHANGED chunkVars
    <2>1. UNCHANGED <<input, pc, ordered, seen, current, chunks>>
      BY <1>3 DEF chunkVars
    <2>2. Texts' = Texts /\ Count' = Count
      BY <2>1 DEF Texts, Count
    <2>. QED
      BY <2>1, <2>2 DEF ChunkInv, OrderInv, LoopInv, ListInv
  <1>. QED
    BY <1>1, <1>2, <1>3, OrderStep, FillStep, CloseStep, ReturnStep DEF ChunkNext

-----------------------------------------------------------------------------
(* What a cut says of the chunks.                                          *)

(* The beginning of a window.                                              *)
LEMMA WindowBegins ==
    ASSUME NEW s, IsTrace(s), NEW a \in 1 .. Len(s) + 1, NEW b \in 0 .. Len(s), a <= b + 1,
           NEW m \in a - 1 .. b
    PROVE  SubSeq(SubSeq(s, a, b), 1, m - a + 1) = SubSeq(s, a, m)
  <1> DEFINE w == SubSeq(s, a, b)
             v == SubSeq(w, 1, m - a + 1)
             u == SubSeq(s, a, m)
             S == ToSet(s)
  <1>1. Len(s) \in Nat /\ m \in 0 .. Len(s) /\ a <= m + 1 /\ m - a + 1 \in 0 .. b - a + 1
    BY DEF IsTrace
  <1>2. /\ w \in Seq(S) /\ Len(w) = b - a + 1
        /\ \A l \in 1 .. b - a + 1 : w[l] = s[a + l - 1]
    BY Window
  <1> HIDE DEF w, S
  <1>3. /\ v \in Seq(S) /\ Len(v) = m - a + 1
        /\ \A l \in 1 .. m - a + 1 : v[l] = w[l]
    <2>1. PICK n : n = m - a + 1
      OBVIOUS
    <2>2. w \in Seq(S) /\ Len(w) \in Nat /\ n \in 0 .. Len(w)
      BY <1>1, <1>2, <2>1
    <2>3. /\ SubSeq(w, 1, n) \in Seq(S) /\ Len(SubSeq(w, 1, n)) = n
          /\ \A l \in 1 .. n : SubSeq(w, 1, n)[l] = w[l]
      BY <2>2
    <2>. QED
      BY <2>1, <2>3
  <1>4. /\ u \in Seq(S) /\ Len(u) = m - a + 1
        /\ \A l \in 1 .. m - a + 1 : u[l] = s[a + l - 1]
    BY <1>1, Window DEF S
  <1> HIDE DEF v, u
  <1>5. \A l \in 1 .. m - a + 1 : l \in 1 .. b - a + 1
    BY <1>1
  <1>6. v = u
    <2>1. Len(v) = Len(u) /\ \A l \in 1 .. Len(v) : v[l] = u[l]
      BY <1>2, <1>3, <1>4, <1>5
    <2>. QED
      BY <1>3, <1>4, <2>1
  <1>. QED
    BY <1>6 DEF v, u, w

(* The elements of a window.                                               *)
LEMMA WindowElements ==
    ASSUME NEW s, IsTrace(s), NEW a \in 1 .. Len(s), NEW b \in 1 .. Len(s), a <= b
    PROVE  ToSet(SubSeq(s, a, b)) = {s[l] : l \in a .. b}
  <1> DEFINE w == SubSeq(s, a, b)
  <1>1. Len(s) \in Nat /\ a \in 1 .. Len(s) + 1 /\ b \in 0 .. Len(s) /\ a <= b + 1
    BY DEF IsTrace
  <1>2. DOMAIN w = 1 .. b - a + 1 /\ \A k \in 1 .. b - a + 1 : w[k] = s[a + k - 1]
    BY <1>1, Window
  <1> HIDE DEF w
  <1>3. ToSet(w) = {w[k] : k \in 1 .. b - a + 1}
    BY <1>2 DEF ToSet
  <1>4. \A k \in 1 .. b - a + 1 : a + k - 1 \in a .. b
    BY <1>1
  <1>5. \A l \in a .. b : l - a + 1 \in 1 .. b - a + 1 /\ a + (l - a + 1) - 1 = l
    BY <1>1
  <1>6. \A x : x \in ToSet(w) => x \in {s[l] : l \in a .. b}
    BY <1>2, <1>3, <1>4
  <1>7. \A x : x \in {s[l] : l \in a .. b} => x \in ToSet(w)
    <2> TAKE x
    <2> HAVE x \in {s[l] : l \in a .. b}
    <2>1. PICK l \in a .. b : x = s[l]
      OBVIOUS
    <2>2. w[l - a + 1] = s[l] /\ l - a + 1 \in 1 .. b - a + 1
      BY <1>2, <1>5
    <2>. QED
      BY <1>3, <2>1, <2>2
  <1>8. ToSet(w) = {s[l] : l \in a .. b}
    BY <1>6, <1>7
  <1>. QED
    BY <1>8 DEF w

\* Of the i-th text, the places whose events the text before it does not hold.
New(T, i) == {k \in DOMAIN T[i] : i > 1 => T[i][k] \notin ToSet(T[i - 1])}

(* They are the last ones, and stand for the events after hi[i - 1].       *)
LEMMA NewOnes ==
    ASSUME NEW s, IsTrace(s), \A k, l \in 1 .. Len(s) : s[k] = s[l] => k = l,
           NEW T, NEW n \in Nat, NEW lo, NEW hi, Cut(s, T, n, lo, hi), NEW i \in 1 .. n
    PROVE  /\ New(T, i) = hi[i - 1] - lo[i] + 2 .. hi[i] - lo[i] + 1
           /\ Cardinality(New(T, i)) = hi[i] - hi[i - 1]
  <1> DEFINE a == lo[i]
             b == hi[i]
             p == hi[i - 1]
             N == p - a + 2 .. b - a + 1
  <1>1. /\ a \in 1 .. Len(s) /\ b \in 1 .. Len(s) /\ a <= b /\ p \in 0 .. Len(s) /\ p < b
        /\ a <= p + 1 /\ Len(s) \in Nat
        /\ DOMAIN T[i] = 1 .. b - a + 1
        /\ \A k \in 1 .. b - a + 1 : T[i][k] = s[a + k - 1]
    <2>1. IsWindow(s, T, lo, hi, i)
      BY PiecesAreTraces
    <2>. QED
      BY <2>1 DEF IsWindow
  <1>2. ASSUME i = 1 PROVE New(T, i) = N
    <2>1. a = 1 /\ p = 0
      <3>1. 1 - 1 = 0
        OBVIOUS
      <3>. QED
        BY <1>2, <3>1 DEF Cut, Piece
    <2>2. New(T, i) = DOMAIN T[i]
      BY <1>2 DEF New
    <2>3. p - a + 2 = 1
      BY <2>1
    <2>. QED
      BY <1>1, <2>2, <2>3
  <1>3. ASSUME i # 1 PROVE New(T, i) = N
    <2> DEFINE z == lo[i - 1]
    <2>1. i > 1 /\ i - 1 \in 1 .. n
      BY <1>3
    <2>2. z \in 1 .. Len(s) /\ p \in 1 .. Len(s) /\ z <= p /\ T[i - 1] = SubSeq(s, z, p)
      <3>1. IsWindow(s, T, lo, hi, i - 1)
        BY <2>1, PiecesAreTraces
      <3>. QED
        BY <3>1 DEF IsWindow
    <2>3. z <= a
      BY <2>1 DEF Cut, Piece
    <2> HIDE DEF a, b, p, z
    <2>4. ToSet(T[i - 1]) = {s[l] : l \in z .. p}
      BY <2>2, WindowElements
    <2>5. \A k \in 1 .. b - a + 1 : s[a + k - 1] \in {s[l] : l \in z .. p} <=> a + k - 1 <= p
      <3> TAKE k \in 1 .. b - a + 1
      <3>1. a + k - 1 \in 1 .. Len(s) /\ z <= a + k - 1 /\ \A l \in z .. p : l \in 1 .. Len(s)
        <4>1. /\ a \in Int /\ b \in Int /\ p \in Int /\ z \in Int /\ Len(s) \in Nat
              /\ 1 <= z /\ z <= a /\ b <= Len(s) /\ p <= Len(s)
          BY <1>1, <2>2, <2>3
        <4>. QED
          BY <4>1
      <3>2. ASSUME s[a + k - 1] \in {s[l] : l \in z .. p} PROVE a + k - 1 <= p
        <4>1. PICK l \in z .. p : s[a + k - 1] = s[l]
          BY <3>2
        <4>2. a + k - 1 = l
          BY <3>1, <4>1
        <4>. QED
          BY <2>2, <4>2
      <3>3. ASSUME a + k - 1 <= p PROVE s[a + k - 1] \in {s[l] : l \in z .. p}
        <4>1. a + k - 1 \in z .. p
          BY <2>2, <3>1, <3>3
        <4>. QED
          BY <4>1
      <3>. QED
        BY <3>2, <3>3
    <2>6. New(T, i) = {k \in 1 .. b - a + 1 : ~(a + k - 1 <= p)}
      <3>1. DOMAIN T[i] = 1 .. b - a + 1
        BY <1>1
      <3>2. \A k \in 1 .. b - a + 1 : T[i][k] = s[a + k - 1]
        BY <1>1
      <3>3. \A k \in 1 .. b - a + 1 : T[i][k] \in ToSet(T[i - 1]) <=> a + k - 1 <= p
        BY <2>4, <2>5, <3>2
      <3>4. New(T, i) = {k \in DOMAIN T[i] : T[i][k] \notin ToSet(T[i - 1])}
        BY <1>3 DEF New
      <3>. QED
        BY <3>1, <3>3, <3>4
    <2>7. {k \in 1 .. b - a + 1 : ~(a + k - 1 <= p)} = N
      <3>1. a \in Int /\ b \in Int /\ p \in Int /\ a <= p + 1
        BY <1>1
      <3>2. ASSUME NEW k \in Int
            PROVE  (k \in 1 .. b - a + 1 /\ ~(a + k - 1 <= p)) <=> k \in N
        BY <3>1
      <3>3. N \subseteq Int /\ 1 .. b - a + 1 \subseteq Int
        BY <3>1
      <3> HIDE DEF N
      <3>. QED
        BY <3>2, <3>3
    <2>. QED
      BY <2>6, <2>7 DEF a, b, p
  <1>4. New(T, i) = N
    BY <1>2, <1>3
  <1> HIDE DEF a, b, p
  <1>5. Cardinality(N) = b - p
    <2>1. p - a + 2 \in Int /\ b - a + 1 \in Int /\ ~(p - a + 2 > b - a + 1)
      BY <1>1
    <2>2. Cardinality(N) = IF p - a + 2 > b - a + 1 THEN 0 ELSE (b - a + 1) - (p - a + 2) + 1
      BY <2>1, FS_Interval
    <2>. QED
      BY <1>1, <2>1, <2>2
  <1>. QED
    BY <1>4, <1>5 DEF a, b, p

(* The chunks that are closed are the texts of a cut of the ordered trace. *)
LEMMA ChunksAreACut ==
    ASSUME ChunkInv, chunks # <<>>
    PROVE  /\ \A k, l \in 1 .. Len(ordered) : ordered[k] = ordered[l] => k = l
           /\ Len(chunks) \in Nat /\ Count \in Nat /\ Len(chunks) <= Count
           /\ DOMAIN chunks = 1 .. Len(chunks)
           /\ seen > 0
           /\ \E lo, hi : Cut(ordered, Texts, Count, lo, hi) /\ hi[Count] = seen
           /\ \A i \in 1 .. Len(chunks) : chunks[i].text = Texts[i]
  <1>1. \A k, l \in 1 .. Len(ordered) : ordered[k] = ordered[l] => k = l
    BY DEF ChunkInv, OrderInv
  <1>2. Len(chunks) \in Nat /\ DOMAIN chunks = 1 .. Len(chunks)
    BY DEF ChunkInv, ListInv
  <1>3. Count \in Nat /\ Len(chunks) <= Count
    BY <1>2 DEF Count
  <1>4. seen > 0
    <2>1. IsTrace(ordered) /\ seen \in 0 .. Len(ordered) /\ seen # 0
      BY DEF ChunkInv, OrderInv, LoopInv
    <2>. QED
      BY <2>1
  <1>5. \E lo, hi : Cut(ordered, Texts, Count, lo, hi) /\ hi[Count] = seen
    BY <1>4 DEF ChunkInv, LoopInv
  <1>6. \A i \in 1 .. Len(chunks) : chunks[i].text = Texts[i]
    <2>1. \A i \in 1 .. Len(chunks) : i \in 1 .. Count /\ i <= Len(chunks)
      BY <1>2, <1>3
    <2>. QED
      BY <2>1 DEF Texts
  <1>. QED
    BY <1>1, <1>2, <1>3, <1>4, <1>5, <1>6

(* What a chunk adds to the one before it.                                 *)
LEMMA FreshOnes ==
    ASSUME ChunkInv, NEW i \in 1 .. Len(chunks),
           NEW lo, NEW hi, Cut(ordered, Texts, Count, lo, hi)
    PROVE  /\ i \in 1 .. Count
           /\ chunks[i].text = Texts[i]
           /\ i > 1 => i - 1 \in 1 .. Count /\ chunks[i - 1].text = Texts[i - 1]
           /\ Fresh(i) = hi[i - 1] - lo[i] + 2 .. hi[i] - lo[i] + 1
           /\ Cardinality(Fresh(i)) = hi[i] - hi[i - 1]
  <1>1. chunks # <<>>
    OBVIOUS
  <1>2. /\ \A k, l \in 1 .. Len(ordered) : ordered[k] = ordered[l] => k = l
        /\ Len(chunks) \in Nat /\ Count \in Nat /\ Len(chunks) <= Count
        /\ \A j \in 1 .. Len(chunks) : chunks[j].text = Texts[j]
    BY <1>1, ChunksAreACut
  <1>3. /\ i \in 1 .. Count /\ chunks[i].text = Texts[i]
        /\ i > 1 => /\ i - 1 \in 1 .. Count /\ i - 1 \in 1 .. Len(chunks)
                    /\ chunks[i - 1].text = Texts[i - 1]
    <2>1. i \in 1 .. Count /\ (i > 1 => i - 1 \in 1 .. Count /\ i - 1 \in 1 .. Len(chunks))
      BY <1>2
    <2>. QED
      BY <1>2, <2>1
  <1>4. Fresh(i) = New(Texts, i)
    BY <1>3 DEF Fresh, New
  <1>5. IsTrace(ordered)
    BY DEF ChunkInv, OrderInv
  <1>6. /\ New(Texts, i) = hi[i - 1] - lo[i] + 2 .. hi[i] - lo[i] + 1
        /\ Cardinality(New(Texts, i)) = hi[i] - hi[i - 1]
    BY <1>2, <1>3, <1>5, NewOnes
  <1>. QED
    BY <1>3, <1>4, <1>6

\* The chunk at position i adds the events hi[i - 1] + 1 .. hi[i] of the trace.
Adds(lo, hi, i) ==
    /\ lo[i] \in Int /\ hi[i] \in Int /\ hi[i - 1] \in Int
    /\ \A k \in Fresh(i) : /\ lo[i] + k - 1 \in hi[i - 1] + 1 .. hi[i]
                           /\ chunks[i].text[k] = ordered[lo[i] + k - 1]
    /\ \A l \in hi[i - 1] + 1 .. hi[i] : /\ l - lo[i] + 1 \in Fresh(i)
                                         /\ chunks[i].text[l - lo[i] + 1] = ordered[l]

(* The events that a chunk adds are those the cut gives it.                *)
LEMMA FreshEvents ==
    ASSUME ChunkInv, NEW i \in 1 .. Len(chunks),
           NEW lo, NEW hi, Cut(ordered, Texts, Count, lo, hi)
    PROVE  Adds(lo, hi, i)
  <1> DEFINE a == lo[i]
             b == hi[i]
             p == hi[i - 1]
  <1>1. /\ i \in 1 .. Count
        /\ chunks[i].text = Texts[i]
        /\ Fresh(i) = p - a + 2 .. b - a + 1
    BY FreshOnes
  <1>2. IsTrace(ordered) /\ Count \in Nat
    BY DEF ChunkInv, OrderInv, ListInv, Count
  <1>3. /\ a \in 1 .. Len(ordered) /\ b \in 1 .. Len(ordered) /\ p \in 0 .. Len(ordered)
        /\ a <= p + 1 /\ p < b /\ Len(ordered) \in Nat
        /\ \A k \in 1 .. b - a + 1 : Texts[i][k] = ordered[a + k - 1]
    <2>1. IsWindow(ordered, Texts, lo, hi, i)
      BY <1>1, <1>2, PiecesAreTraces
    <2>. QED
      BY <2>1 DEF IsWindow
  <1> HIDE DEF a, b, p
  <1>4. \A k \in Fresh(i) : k \in 1 .. b - a + 1 /\ a + k - 1 \in p + 1 .. b
    BY <1>1, <1>3
  <1>5. \A l \in p + 1 .. b : /\ l - a + 1 \in 1 .. b - a + 1 /\ l - a + 1 \in Fresh(i)
                              /\ a + (l - a + 1) - 1 = l
    BY <1>1, <1>3
  <1>6. \A k \in Fresh(i) : a + k - 1 \in p + 1 .. b /\ chunks[i].text[k] = ordered[a + k - 1]
    BY <1>1, <1>3, <1>4
  <1>7. \A l \in p + 1 .. b :
           l - a + 1 \in Fresh(i) /\ chunks[i].text[l - a + 1] = ordered[l]
    BY <1>1, <1>3, <1>5
  <1>8. a \in Int /\ b \in Int /\ p \in Int
    BY <1>3
  <1>. QED
    BY <1>6, <1>7, <1>8 DEF a, b, p, Adds

(* Events with ids of their own have as many ids as there are events.      *)
LEMMA AsManyIds ==
    ASSUME NEW es, IsTrace(es), \A i, j \in 1 .. Len(es) : es[i].id = es[j].id => i = j
    PROVE  Cardinality(Ids(es)) = Len(es)
  <1> DEFINE n == Len(es)
             f == [i \in 1 .. n |-> es[i].id]
  <1>1. n \in Nat /\ DOMAIN es = 1 .. n
    BY DEF IsTrace
  <1>2. Ids(es) = {f[i] : i \in 1 .. n}
    BY <1>1 DEF Ids, ToSet
  <1>3. f \in Injection(1 .. n, Ids(es)) /\ f \in Surjection(1 .. n, Ids(es))
    <2>1. \A i, j \in 1 .. n : f[i] = f[j] => i = j
      OBVIOUS
    <2>2. f \in [1 .. n -> Ids(es)] /\ \A x \in Ids(es) : \E i \in 1 .. n : f[i] = x
      BY <1>2
    <2> HIDE DEF f, n
    <2>. QED
      BY <2>1, <2>2 DEF Injection, Surjection, IsInjective
  <1> HIDE DEF f
  <1>4. IsFiniteSet(1 .. n) /\ Cardinality(1 .. n) = n
    BY <1>1, Segment
  <1>5. Cardinality(Ids(es)) = Cardinality(1 .. n)
    BY <1>3, <1>4, FS_Surjection
  <1>. QED
    BY <1>4, <1>5

(* The state of the loop is well formed.                                   *)
LEMMA ChunksAreTyped == ChunkInv => ChunkTypeOK
  <1> SUFFICES ASSUME ChunkInv PROVE ChunkTypeOK
    OBVIOUS
  <1>1. /\ pc \in {"called", "loop", "returned", "refused"}
        /\ seen \in 0 .. Len(ordered)
        /\ ToSet(current) \subseteq ToSet(ordered)
        /\ IsTrace(ordered) /\ Len(ordered) \in Nat
        /\ Len(chunks) \in Nat /\ DOMAIN chunks = 1 .. Len(chunks)
    BY DEF ChunkInv, OrderInv, LoopInv, ListInv, IsTrace
  <1>2. ASSUME pc = "loop", seen > 0 PROVE current # <<>>
    <2>1. PICK lo, hi : Cut(ordered, Texts, Count, lo, hi)
      BY <1>2 DEF ChunkInv, LoopInv
    <2>2. Count = Len(chunks) + 1 /\ Count \in 1 .. Count /\ Count \in Nat
          /\ ~(Count <= Len(chunks))
      BY <1>1, <1>2 DEF Count
    <2>3. Texts[Count] = current
      BY <2>2 DEF Texts
    <2>4. IsWindow(ordered, Texts, lo, hi, Count)
      BY <1>1, <2>1, <2>2, PiecesAreTraces
    <2>. QED
      BY <2>3, <2>4 DEF IsWindow
  <1>3. ASSUME NEW i \in DOMAIN chunks
        PROVE  /\ chunks[i].index = i - 1
               /\ chunks[i].event_ids = Ids(chunks[i].text)
               /\ chunks[i].event_count = Len(chunks[i].text)
    <2> DEFINE es == chunks[i].text
    <2>1. i \in 1 .. Len(chunks) /\ chunks # <<>>
      BY <1>1
    <2>2. chunks[i] = BuildChunk(i - 1, es)
      BY <2>1 DEF ChunkInv, ListInv
    <2>3. /\ chunks[i].index = i - 1
          /\ chunks[i].event_ids = Ids(es)
          /\ chunks[i].event_count = Cardinality(Ids(es))
      BY <2>2 DEF BuildChunk, Create
    <2>4. PICK lo, hi : Cut(ordered, Texts, Count, lo, hi)
      BY <2>1, ChunksAreACut
    <2>5. i \in 1 .. Count /\ es = Texts[i] /\ Count \in Nat
      <3>1. i \in 1 .. Count /\ es = Texts[i]
        BY <2>1, <2>4, FreshOnes
      <3>. QED
        BY <1>1, <3>1 DEF Count
    <2> HIDE DEF es
    <2>11. IsTrace(ordered) /\ Count \in Nat /\ i \in 1 .. Count
      BY <1>1, <2>5
    <2>10. /\ lo[i] \in 1 .. Len(ordered) /\ hi[i] \in 1 .. Len(ordered)
           /\ IsTrace(Texts[i])
           /\ Len(Texts[i]) = hi[i] - lo[i] + 1
           /\ \A k \in 1 .. hi[i] - lo[i] + 1 : Texts[i][k] = ordered[lo[i] + k - 1]
      <3>1. IsWindow(ordered, Texts, lo, hi, i)
        BY <2>4, <2>11, PiecesAreTraces
      <3>. QED
        BY <3>1 DEF IsWindow
    <2> DEFINE a == lo[i]
               b == hi[i]
    <2>6. /\ IsTrace(es) /\ a \in 1 .. Len(ordered) /\ b \in 1 .. Len(ordered)
          /\ Len(es) = b - a + 1
          /\ \A k \in 1 .. b - a + 1 : es[k] = ordered[a + k - 1]
      <3>1. /\ IsTrace(Texts[i]) /\ a \in 1 .. Len(ordered) /\ b \in 1 .. Len(ordered)
            /\ Len(Texts[i]) = b - a + 1
            /\ \A k \in 1 .. b - a + 1 : Texts[i][k] = ordered[a + k - 1]
        BY <2>10
      <3> HIDE DEF a, b
      <3>. QED
        BY <2>5, <3>1
    <2> HIDE DEF a, b
    <2>7. \A k \in 1 .. b - a + 1 : a + k - 1 \in 1 .. Len(ordered)
      BY <1>1, <2>6
    <2>8. \A k, l \in 1 .. Len(es) : es[k].id = es[l].id => k = l
      <3> SUFFICES ASSUME NEW k \in 1 .. b - a + 1, NEW l \in 1 .. b - a + 1, es[k].id = es[l].id
                   PROVE  k = l
        BY <2>6
      <3>1. \A p, q \in 1 .. Len(ordered) : ordered[p].id = ordered[q].id => p = q
        BY DEF ChunkInv, OrderInv
      <3>2. a + k - 1 \in 1 .. Len(ordered) /\ a + l - 1 \in 1 .. Len(ordered)
        BY <2>7
      <3>3. es[k] = ordered[a + k - 1] /\ es[l] = ordered[a + l - 1]
        BY <2>6
      <3>4. ordered[a + k - 1].id = ordered[a + l - 1].id
        BY <3>3
      <3>5. a + k - 1 = a + l - 1
        BY <3>1, <3>2, <3>4
      <3>6. a \in Int /\ k \in Int /\ l \in Int
        BY <1>1, <2>6
      <3>. QED
        BY <3>5, <3>6
    <2>9. Cardinality(Ids(es)) = Len(es)
      BY <2>6, <2>8, AsManyIds
    <2>. QED
      BY <2>3, <2>9 DEF es
  <1>. QED
    BY <1>1, <1>2, <1>3 DEF ChunkTypeOK

(* A chunk that is too large has one new event.                            *)
LEMMA OversizedChunks == ChunkInv => OversizedHasOneNewEvent
  <1> SUFFICES ASSUME ChunkInv, NEW i \in DOMAIN chunks, TextSize(chunks[i].text) > ChunkSize
               PROVE  Fresh(i) = {Len(chunks[i].text)}
    BY DEF OversizedHasOneNewEvent
  <1>1. chunks # <<>> /\ i \in 1 .. Len(chunks) /\ IsTrace(ordered) /\ Count \in Nat
    BY DEF ChunkInv, OrderInv, ListInv, Count
  <1>2. PICK lo, hi : Cut(ordered, Texts, Count, lo, hi)
    BY <1>1, ChunksAreACut
  <1>3. /\ i \in 1 .. Count /\ chunks[i].text = Texts[i]
        /\ Fresh(i) = hi[i - 1] - lo[i] + 2 .. hi[i] - lo[i] + 1
    BY <1>1, <1>2, FreshOnes
  <1>4. hi[i] = hi[i - 1] + 1
    BY <1>2, <1>3 DEF Cut, Piece
  <1>5. /\ lo[i] \in 1 .. Len(ordered) /\ hi[i - 1] \in 0 .. Len(ordered)
        /\ Len(ordered) \in Nat /\ Len(Texts[i]) = hi[i] - lo[i] + 1
    <2>1. IsWindow(ordered, Texts, lo, hi, i)
      BY <1>1, <1>2, <1>3, PiecesAreTraces
    <2>. QED
      BY <2>1 DEF IsWindow
  <1>6. hi[i - 1] - lo[i] + 2 = Len(Texts[i]) /\ Len(Texts[i]) \in Int
    BY <1>4, <1>5
  <1>7. Fresh(i) = Len(Texts[i]) .. Len(Texts[i])
    BY <1>3, <1>5, <1>6
  <1>. QED
    BY <1>3, <1>6, <1>7

(* A place of the trace belongs to the first chunk that reaches it.        *)
LEMMA PlaceInCut ==
    ASSUME NEW s, IsTrace(s), NEW T, NEW n \in Nat, NEW lo, NEW hi, Cut(s, T, n, lo, hi),
           hi[n] = Len(s), NEW l \in 1 .. Len(s)
    PROVE  \E i \in 1 .. n : l \in hi[i - 1] + 1 .. hi[i]
  <1> DEFINE S == {i \in 0 .. n : l <= hi[i]}
  <1>1. /\ hi \in [0 .. n -> 0 .. Len(s)] /\ hi[0] = 0 /\ Len(s) \in Nat
    BY DEF Cut, IsTrace
  <1>2. n \in S /\ S \in SUBSET Nat
    BY <1>1
  <1>3. PICK i \in S : \A j \in S : i <= j
    BY <1>2, SmallestNat
  <1>4. i \in 0 .. n /\ l <= hi[i] /\ hi[i] \in 0 .. Len(s)
    BY <1>1
  <1>5. i # 0
    BY <1>1, <1>4
  <1>6. i \in 1 .. n /\ i - 1 \in 0 .. n /\ ~(i <= i - 1)
    BY <1>4, <1>5
  <1>7. ~(l <= hi[i - 1]) /\ hi[i - 1] \in 0 .. Len(s)
    BY <1>1, <1>3, <1>6
  <1>8. l \in hi[i - 1] + 1 .. hi[i]
    BY <1>1, <1>4, <1>7
  <1>. QED
    BY <1>6, <1>8

(* Together the chunks hold every event once and in order.                 *)
LEMMA EventsOnceInOrder == ChunkInv => EveryEventOnceInOrder
  <1> SUFFICES ASSUME ChunkInv, pc = "returned" PROVE EveryEventOnceInOrder
    BY DEF EveryEventOnceInOrder
  <1> DEFINE added(i) == {chunks[i].text[k] : k \in Fresh(i)}
             all == UNION {added(i) : i \in DOMAIN chunks}
  <1>1. /\ IsTrace(ordered) /\ ToSet(ordered) = ToSet(input) /\ seen = Len(ordered)
        /\ Len(ordered) \in Nat /\ DOMAIN ordered = 1 .. Len(ordered)
        /\ \A k, l \in 1 .. Len(ordered) : k < l => Before(ordered[k], ordered[l])
        /\ Len(chunks) \in Nat /\ DOMAIN chunks = 1 .. Len(chunks)
        /\ Count = Len(chunks) /\ Count \in Nat
    BY DEF ChunkInv, OrderInv, LoopInv, ListInv, Count, IsTrace
  <1>2. ToSet(ordered) = {ordered[l] : l \in 1 .. Len(ordered)}
    BY <1>1 DEF ToSet
  <1>3. CASE chunks = <<>>
    <2>1. seen = 0
      <3>1. ASSUME seen > 0 PROVE FALSE
        <4>1. PICK lo, hi : Cut(ordered, Texts, Count, lo, hi) /\ hi[Count] = seen
          BY <3>1 DEF ChunkInv, LoopInv
        <4>2. Count = 0 /\ hi[0] = 0
          BY <1>1, <1>3, <4>1 DEF Cut
        <4>. QED
          BY <3>1, <4>1, <4>2
      <3>. QED
        BY <1>1, <3>1
    <2>2. ToSet(ordered) = {}
      BY <1>1, <1>2, <2>1
    <2>3. DOMAIN chunks = {}
      BY <1>1, <1>3
    <2>4. all = ToSet(input)
      BY <1>1, <2>2, <2>3
    <2>. QED
      BY <2>3, <2>4 DEF EveryEventOnceInOrder
  <1>4. CASE chunks # <<>>
    <2>1. PICK lo, hi : Cut(ordered, Texts, Count, lo, hi) /\ hi[Count] = seen
      BY <1>4, ChunksAreACut
    <2>2. ASSUME NEW i \in DOMAIN chunks PROVE Adds(lo, hi, i)
      <3>1. i \in 1 .. Len(chunks) /\ Cut(ordered, Texts, Count, lo, hi)
        BY <1>1, <2>1
      <3>. QED
        BY <3>1, FreshEvents
    <2>3. \A i \in DOMAIN chunks :
             hi[i - 1] \in 0 .. Len(ordered) /\ hi[i] \in 0 .. Len(ordered)
      <3> TAKE i \in DOMAIN chunks
      <3>1. i - 1 \in 0 .. Count /\ i \in 0 .. Count
        BY <1>1
      <3>. QED
        BY <2>1, <3>1 DEF Cut
    <2>4. ASSUME NEW x \in all PROVE x \in ToSet(input)
      <3>1. PICK i \in DOMAIN chunks : \E k \in Fresh(i) : x = chunks[i].text[k]
        OBVIOUS
      <3>2. PICK k \in Fresh(i) : x = chunks[i].text[k]
        BY <3>1
      <3> DEFINE l == lo[i] + k - 1
      <3>3. l \in hi[i - 1] + 1 .. hi[i] /\ x = ordered[l]
        BY <2>2, <3>2 DEF Adds
      <3>4. l \in 1 .. Len(ordered)
        BY <1>1, <2>3, <3>3
      <3> HIDE DEF l
      <3>. QED
        BY <1>1, <1>2, <3>3, <3>4
    <2>5. ASSUME NEW x \in ToSet(input) PROVE x \in all
      <3>1. PICK l \in 1 .. Len(ordered) : x = ordered[l]
        BY <1>1, <1>2
      <3>2. PICK i \in 1 .. Count : l \in hi[i - 1] + 1 .. hi[i]
        <4>1. PICK s, T, n : s = ordered /\ T = Texts /\ n = Count
          OBVIOUS
        <4>2. IsTrace(s) /\ n \in Nat /\ Cut(s, T, n, lo, hi) /\ hi[n] = Len(s) /\ l \in 1 .. Len(s)
          BY <1>1, <2>1, <4>1
        <4>3. \E i \in 1 .. n : l \in hi[i - 1] + 1 .. hi[i]
          BY <4>2, PlaceInCut
        <4>. QED
          BY <4>1, <4>3
      <3>3. i \in DOMAIN chunks
        BY <1>1
      <3> DEFINE k == l - lo[i] + 1
      <3>4. k \in Fresh(i) /\ chunks[i].text[k] = ordered[l]
        BY <2>2, <3>2, <3>3 DEF Adds
      <3> HIDE DEF k
      <3>. QED
        BY <3>1, <3>3, <3>4
    <2>6. all = ToSet(input)
      BY <2>4, <2>5
    <2>7. ASSUME NEW i \in DOMAIN chunks, NEW j \in DOMAIN chunks,
                 NEW k \in Fresh(i), NEW l \in Fresh(j), i < j \/ (i = j /\ k < l)
          PROVE  Before(chunks[i].text[k], chunks[j].text[l])
      <3> DEFINE x == lo[i] + k - 1
                 y == lo[j] + l - 1
      <3>1. /\ x \in hi[i - 1] + 1 .. hi[i] /\ chunks[i].text[k] = ordered[x]
            /\ y \in hi[j - 1] + 1 .. hi[j] /\ chunks[j].text[l] = ordered[y]
        <4>1. Adds(lo, hi, i) /\ Adds(lo, hi, j)
          BY <2>2
        <4>. QED
          BY <4>1 DEF Adds
      <3>5. /\ lo[i] \in Int /\ hi[i] \in Int /\ hi[i - 1] \in Int
            /\ lo[j] \in Int /\ hi[j] \in Int /\ hi[j - 1] \in Int
        BY <2>2 DEF Adds
      <3>2. x \in 1 .. Len(ordered) /\ y \in 1 .. Len(ordered)
        <4>1. /\ hi[i - 1] \in 0 .. Len(ordered) /\ hi[i] \in 0 .. Len(ordered)
              /\ hi[j - 1] \in 0 .. Len(ordered) /\ hi[j] \in 0 .. Len(ordered)
          BY <2>3
        <4>2. x \in hi[i - 1] + 1 .. hi[i] /\ y \in hi[j - 1] + 1 .. hi[j]
          BY <3>1
        <4>3. PICK N \in Nat : N = Len(ordered)
          BY <1>1
        <4> HIDE DEF x, y
        <4>4. x \in 1 .. N
          BY <4>1, <4>2, <4>3
        <4>5. y \in 1 .. N
          BY <4>1, <4>2, <4>3
        <4>. QED
          BY <4>3, <4>4, <4>5
      <3>3. x < y
        <4>1. CASE i < j
          <5>1. i \in 0 .. Count /\ j - 1 \in 0 .. Count /\ (i = j - 1 \/ i < j - 1)
            <6>1. i \in 1 .. Count /\ j \in 1 .. Count /\ Count \in Nat
              BY <1>1
            <6>. QED
              BY <4>1, <6>1
          <5>2. hi[i] = hi[j - 1] \/ hi[i] < hi[j - 1]
            <6>1. \A q, r \in 0 .. Count : q < r => hi[q] < hi[r]
              BY <2>1 DEF Cut
            <6>. QED
              BY <5>1, <6>1
          <5> HIDE DEF x, y
          <5>3. x \in Int /\ y \in Int /\ x <= hi[i] /\ hi[j - 1] < y
            BY <3>1, <3>5
          <5>. QED
            BY <3>5, <5>2, <5>3
        <4>2. CASE i = j /\ k < l
          <5>1. lo[i] \in Int
            BY <3>5
          <5>2. Fresh(i) = hi[i - 1] - lo[i] + 2 .. hi[i] - lo[i] + 1
            BY <1>1, <2>1, FreshOnes
          <5>3. k \in Int /\ l \in Int
            BY <3>5, <4>2, <5>2
          <5>. QED
            BY <4>2, <5>1, <5>3
        <4>. QED
          BY <2>7, <4>1, <4>2
      <3> HIDE DEF x, y
      <3>4. Before(ordered[x], ordered[y])
        BY <1>1, <3>2, <3>3
      <3>. QED
        BY <3>1, <3>4
    <2>. QED
      BY <2>6, <2>7 DEF EveryEventOnceInOrder
  <1>. QED
    BY <1>3, <1>4

\* Neighbours, as the windows z .. p and a .. b of the trace, share a .. p.
Shares(s, z, p, a, b) ==
    LET before == SubSeq(s, z, p)
        shared == Len(SubSeq(s, a, b)) - (b - p)
        tail(m) == SubSeq(before, Len(before) - m + 1, Len(before))
    IN  /\ SubSeq(SubSeq(s, a, b), 1, shared) = tail(shared)
        /\ tail(shared) = SubSeq(s, a, p)
        /\ a <= p => tail(shared - 1) = SubSeq(s, a + 1, p)
        /\ shared > 0 <=> a <= p
        /\ a = z => shared = Len(before)

(* What two neighbours share is the end of the first and the beginning of  *)
(* the second.                                                             *)
LEMMA SharedWindow ==
    ASSUME NEW s, IsTrace(s), NEW z \in 1 .. Len(s), NEW p \in 1 .. Len(s), z <= p,
           NEW a \in 1 .. Len(s), NEW b \in 1 .. Len(s), z <= a, a <= p + 1, p < b
    PROVE  Shares(s, z, p, a, b)
  <1> DEFINE before == SubSeq(s, z, p)
             n == p - z + 1
             m == p - a + 1
  <1>1. /\ Len(s) \in Nat /\ z \in 1 .. Len(s) + 1 /\ p \in 0 .. Len(s) /\ z <= p + 1
        /\ a \in 1 .. Len(s) + 1 /\ b \in 0 .. Len(s) /\ a <= b + 1 /\ p \in a - 1 .. b
    BY DEF IsTrace
  <1>2. Len(before) = n /\ Len(SubSeq(s, a, b)) = b - a + 1
    BY <1>1, Window
  <1>3. Len(SubSeq(s, a, b)) - (b - p) = m
    BY <1>1, <1>2
  <1>4. SubSeq(SubSeq(s, a, b), 1, m) = SubSeq(s, a, p)
    BY <1>1, WindowBegins
  <1>5. \A k \in 1 .. p - z + 2 : SubSeq(before, k, n) = SubSeq(s, z + k - 1, p)
    BY <1>1, WindowOfWindow
  <1>6. SubSeq(before, n - m + 1, n) = SubSeq(s, a, p)
    <2>1. n - m + 1 \in 1 .. p - z + 2 /\ z + (n - m + 1) - 1 = a
      BY <1>1
    <2> HIDE DEF n, m, before
    <2>. QED
      BY <1>5, <2>1
  <1>7. ASSUME a <= p PROVE SubSeq(before, n - (m - 1) + 1, n) = SubSeq(s, a + 1, p)
    <2>1. n - (m - 1) + 1 \in 1 .. p - z + 2 /\ z + (n - (m - 1) + 1) - 1 = a + 1
      BY <1>1, <1>7
    <2> HIDE DEF n, m, before
    <2>. QED
      BY <1>5, <2>1
  <1>8. (m > 0 <=> a <= p) /\ (a = z => m = n)
    BY <1>1
  <1> HIDE DEF n, m
  <1>. QED
    BY <1>2, <1>3, <1>4, <1>6, <1>7, <1>8 DEF Shares

(* Neighbours overlap by as much of the first as is needed.                *)
LEMMA ChunksOverlap == ChunkInv => NeighboursOverlap
  <1> SUFFICES ASSUME ChunkInv, NEW i \in 2 .. Len(chunks)
               PROVE  LET before == chunks[i - 1].text
                          shared == Len(chunks[i].text) - Cardinality(Fresh(i))
                          tail(n) == SubSeq(before, Len(before) - n + 1, Len(before))
                      IN  /\ SubSeq(chunks[i].text, 1, shared) = tail(shared)
                          /\ TextSize(tail(shared)) >= ChunkOverlap \/ shared = Len(before)
                          /\ shared > 0 => TextSize(tail(shared - 1)) < ChunkOverlap
    BY DEF NeighboursOverlap
  <1>1. /\ chunks # <<>> /\ i \in 1 .. Len(chunks) /\ i > 1 /\ Count \in Nat
        /\ IsTrace(ordered)
    BY DEF ChunkInv, OrderInv, ListInv, Count
  <1>2. PICK lo, hi : Cut(ordered, Texts, Count, lo, hi)
    BY <1>1, ChunksAreACut
  <1>3. /\ i \in 1 .. Count /\ i - 1 \in 1 .. Count
        /\ chunks[i].text = Texts[i] /\ chunks[i - 1].text = Texts[i - 1]
        /\ Cardinality(Fresh(i)) = hi[i] - hi[i - 1]
    BY <1>1, <1>2, FreshOnes
  <1>4. PICK s, T, n, j : s = ordered /\ T = Texts /\ n = Count /\ j = i
    OBVIOUS
  <1> DEFINE z == lo[j - 1]
             p == hi[j - 1]
             a == lo[j]
             b == hi[j]
  <1>5. /\ IsTrace(s) /\ n \in Nat /\ Cut(s, T, n, lo, hi) /\ j \in 1 .. n /\ j - 1 \in 1 .. n
        /\ j > 1
    BY <1>1, <1>2, <1>3, <1>4
  <1>6. /\ z \in 1 .. Len(s) /\ p \in 1 .. Len(s) /\ z <= p /\ T[j - 1] = SubSeq(s, z, p)
    <2>1. IsWindow(s, T, lo, hi, j - 1)
      BY <1>5, PiecesAreTraces
    <2>. QED
      BY <2>1 DEF IsWindow
  <1>7. /\ a \in 1 .. Len(s) /\ b \in 1 .. Len(s) /\ p < b /\ a <= p + 1 /\ T[j] = SubSeq(s, a, b)
    <2>1. IsWindow(s, T, lo, hi, j)
      BY <1>5, PiecesAreTraces
    <2>. QED
      BY <2>1 DEF IsWindow
  <1>8. /\ z <= a
        /\ TextSize(SubSeq(s, a, p)) >= ChunkOverlap \/ a = z
        /\ a <= p => TextSize(SubSeq(s, a + 1, p)) < ChunkOverlap
    BY <1>5 DEF Cut, Piece
  <1>9. /\ chunks[i].text = SubSeq(s, a, b) /\ chunks[i - 1].text = SubSeq(s, z, p)
        /\ Cardinality(Fresh(i)) = b - p
    BY <1>3, <1>4, <1>6, <1>7
  <1> HIDE DEF z, p, a, b
  <1> DEFINE before == SubSeq(s, z, p)
             shared == Len(SubSeq(s, a, b)) - (b - p)
             tail(m) == SubSeq(before, Len(before) - m + 1, Len(before))
  <1>10. /\ SubSeq(SubSeq(s, a, b), 1, shared) = tail(shared)
         /\ tail(shared) = SubSeq(s, a, p)
         /\ a <= p => tail(shared - 1) = SubSeq(s, a + 1, p)
         /\ shared > 0 <=> a <= p
         /\ a = z => shared = Len(before)
    <2>1. /\ IsTrace(s) /\ z \in 1 .. Len(s) /\ p \in 1 .. Len(s) /\ z <= p
          /\ a \in 1 .. Len(s) /\ b \in 1 .. Len(s) /\ z <= a /\ a <= p + 1 /\ p < b
      BY <1>5, <1>6, <1>7, <1>8
    <2>2. Shares(s, z, p, a, b)
      BY <2>1, SharedWindow
    <2>. QED
      BY <2>2 DEF Shares
  <1>11. /\ SubSeq(SubSeq(s, a, b), 1, shared) = tail(shared)
         /\ TextSize(tail(shared)) >= ChunkOverlap \/ shared = Len(before)
         /\ shared > 0 => TextSize(tail(shared - 1)) < ChunkOverlap
    <2> HIDE DEF before, shared, tail
    <2>. QED
      BY <1>8, <1>10
  <1>12. Len(chunks[i].text) - Cardinality(Fresh(i)) = shared
    BY <1>9
  <1>. QED
    BY <1>9, <1>11, <1>12, Zenon

-----------------------------------------------------------------------------
(* The theorems.                                                           *)

(* At every step of chunk(), what was seen of the ordered trace is cut     *)
(* into the texts of the chunks and of the one being filled.               *)
THEOREM ChunkerInvariant == ChunkSpec => []ChunkInv
  BY ChunkInitInv, ChunkStepInv, PTL DEF ChunkSpec

LEMMA CutsAreSound == ChunkInv => ChunksAreSound
  BY ChunksAreTyped, EventsOnceInOrder, OversizedChunks, ChunksOverlap DEF ChunksAreSound

(* Chunks are sound, whatever the trace, the chunk size and the overlap:   *)
(* no event is lost, doubled or moved by the cut, a chunk is too large     *)
(* only by one new event, and neighbours share what the overlap asks for.  *)
THEOREM ChunksAreAlwaysSound == ChunkSpec => []ChunksAreSound
  BY ChunkerInvariant, CutsAreSound, PTL
=============================================================================
