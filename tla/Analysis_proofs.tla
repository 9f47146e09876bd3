-------------------------- MODULE Analysis_proofs --------------------------
(***************************************************************************)
(* Proofs about Analysis, for every set of inputs: files of any length,    *)
(* any zones and any configuration that is accepted.                       *)
(*                                                                         *)
(* The invariant says that the worker holds, after each of its steps, what *)
(* these steps compute from the file alone (ParsedInMemory), and that the  *)
(* snapshot, what is rebuilt of it and the events are made of an artifact  *)
(* that was stored.  What is left is about the computation: it runs along  *)
(* lines, rows and assignments, and what it yields is shown by looking at  *)
(* the first place where it would be something else (UpTo).                *)
(***************************************************************************)
EXTENDS Analysis, WellFoundedInduction, SequenceTheorems, TLAPS

-----------------------------------------------------------------------------
(* Induction.  The recursive functions of the model run along a sequence;  *)
(* what they compute is shown by the least counterexample.                 *)

(* A set of numbers that is not empty has a smallest one.                  *)
LEMMA SmallestNumber ==
    ASSUME NEW S \in SUBSET Nat, S # {}
    PROVE  \E m \in S : \A n \in S : m <= n
  <1> DEFINE R == {ss \in Nat \X Nat : ss[1] < ss[2]}
  <1>1. IsWellFoundedOn(R, Nat)
    BY NatLessThanWellFounded DEF OpToRel
  <1> HIDE DEF R
  <1>2. PICK m \in S : \A n \in S : ~(<<n, m>> \in R)
    BY <1>1, WFMin
  <1>3. ASSUME NEW n \in S PROVE m <= n
    <2>1. m \in Nat /\ n \in Nat /\ <<n, m>> \in Nat \X Nat
      OBVIOUS
    <2>2. ~(n < m)
      BY <1>2, <2>1 DEF R
    <2>. QED
      BY <2>1, <2>2
  <1>. QED
    BY <1>3

(* What holds at the start and is kept by every step holds up to the end.  *)
LEMMA UpTo ==
    ASSUME NEW N \in Nat, NEW Good, 0 \in Good,
           \A n \in 1 .. N : n - 1 \in Good => n \in Good
    PROVE  \A n \in 0 .. N : n \in Good
  <1> DEFINE Bad == {n \in 0 .. N : n \notin Good}
  <1>1. SUFFICES ASSUME Bad # {} PROVE FALSE
    OBVIOUS
  <1>2. Bad \in SUBSET Nat
    OBVIOUS
  <1>3. PICK m \in Bad : \A n \in Bad : m <= n
    BY <1>1, <1>2, SmallestNumber
  <1>4. m \in 1 .. N /\ m - 1 \in 0 .. N /\ m - 1 \notin Bad
    BY <1>3
  <1>. QED
    BY <1>3, <1>4

(* A recursion along 1 .. N exists when every step stays in a set.         *)
IsStepper(step, D, N) == step \in [1 .. N -> [D -> D]]

Iterates(f, b, step, D, N) ==
    /\ f \in [0 .. N -> D]
    /\ f[0] = b
    /\ \A k \in 1 .. N : f[k] = step[k][f[k - 1]]

(* Steps that stay in a set can be repeated: the function that a         *)
(* recursive definition describes exists.                                *)
LEMMA IterationExists ==
    ASSUME NEW D, NEW b, b \in D, NEW N, N \in Nat, NEW step, IsStepper(step, D, N)
    PROVE  \E f : Iterates(f, b, step, D, N)
  <1> DEFINE Runs(f, n) == /\ f \in [0 .. n -> D]
                           /\ f[0] = b
                           /\ \A k \in 1 .. n : f[k] = step[k][f[k - 1]]
             Good == {n \in 0 .. N : \E f : Runs(f, n)}
  <1>1. 0 \in Good
    <2>1. Runs([k \in 0 .. 0 |-> b], 0)
      OBVIOUS
    <2> HIDE DEF Runs
    <2>. QED
      BY <2>1
  <1>2. ASSUME NEW n \in 1 .. N, n - 1 \in Good PROVE n \in Good
    <2>1. PICK f : Runs(f, n - 1)
      BY <1>2
    <2> DEFINE x == step[n][f[n - 1]]
               g == [k \in 0 .. n |-> IF k = n THEN x ELSE f[k]]
    <2>2. n \in 0 .. N /\ n - 1 \in 0 .. n - 1
      OBVIOUS
    <2>3. x \in D
      <3>1. f[n - 1] \in D
        BY <2>1, <2>2
      <3>2. step[n] \in [D -> D]
        BY DEF IsStepper
      <3>. QED
        BY <3>1, <3>2
    <2>4. ASSUME NEW k \in 0 .. n PROVE g[k] \in D
      <3>1. CASE k = n
        BY <2>3, <3>1
      <3>2. CASE k # n
        <4>1. k \in 0 .. n - 1
          BY <3>2
        <4>. QED
          BY <2>1, <3>2, <4>1
      <3>. QED
        BY <3>1, <3>2
    <2>5. g[0] = b
      BY <2>1
    <2>6. ASSUME NEW k \in 1 .. n PROVE g[k] = step[k][g[k - 1]]
      <3>1. k - 1 \in 0 .. n - 1 /\ g[k - 1] = f[k - 1]
        OBVIOUS
      <3>2. CASE k = n
        BY <3>1, <3>2
      <3>3. CASE k # n
        <4>1. k \in 1 .. n - 1 /\ g[k] = f[k]
          BY <3>3
        <4>. QED
          BY <2>1, <3>1, <4>1
      <3>. QED
        BY <3>2, <3>3
    <2>7. Runs(g, n)
      BY <2>4, <2>5, <2>6
    <2> HIDE DEF g, Runs
    <2>. QED
      BY <2>2, <2>7
  <1> HIDE DEF Good
  <1>3. N \in Good
    <2>1. \A n \in 1 .. N : n - 1 \in Good => n \in Good
      BY <1>2
    <2>2. \A n \in 0 .. N : n \in Good
      BY <1>1, <2>1, UpTo
    <2>. QED
      BY <2>2
  <1>. QED
    BY <1>3 DEF Good, Iterates

-----------------------------------------------------------------------------
(* Kept                                                                    *)

(* F computes Kept for every beginning of the sequence.                    *)
KeepsAlong(F, s, T) ==
    /\ F[0] = <<>>
    /\ \A n \in 1 .. Len(s) :
          F[n] = IF s[n] \in T THEN Append(F[n - 1], s[n]) ELSE F[n - 1]

(* The recursive function of the definition is there.                      *)
LEMMA KeptUnfolds ==
    ASSUME NEW s, s \in Seq(ToSet(s)), NEW T
    PROVE  \E F : KeepsAlong(F, s, T) /\ Kept(s, T) = F[Len(s)]
  <1> DEFINE N == Len(s)
             D == Seq(ToSet(s))
             Step(n, k) == IF s[n] \in T THEN Append(k, s[n]) ELSE k
             step == [n \in 1 .. N |-> [k \in D |-> Step(n, k)]]
             Is(F) == F = [n \in 0 .. N |->
                              IF n = 0 THEN <<>>
                              ELSE IF s[n] \in T THEN Append(F[n - 1], s[n]) ELSE F[n - 1]]
  <1>0. N \in Nat /\ <<>> \in D
    OBVIOUS
  <1>1. \A n \in 1 .. N : s[n] \in ToSet(s)
    BY DEF ToSet
  <1>2. ASSUME NEW n \in 1 .. N, NEW k \in D PROVE Step(n, k) \in D
    BY <1>1, AppendProperties
  <1>3. IsStepper(step, D, N)
    BY <1>2 DEF IsStepper
  <1>4. PICK f : Iterates(f, <<>>, step, D, N)
    <2> HIDE DEF D, step, N
    <2>. QED
      BY <1>0, <1>3, IterationExists
  <1>5. ASSUME NEW k \in 1 .. N PROVE f[k] = Step(k, f[k - 1])
    <2>1. k - 1 \in 0 .. N /\ f[k - 1] \in D
      BY <1>0, <1>4 DEF Iterates
    <2>. QED
      BY <1>4, <2>1 DEF Iterates
  <1>6. Is(f)
    <2>1. \A n \in 0 .. N : f[n] = IF n = 0 THEN <<>> ELSE Step(n, f[n - 1])
      <3>1. f[0] = <<>>
        BY <1>4 DEF Iterates
      <3>2. \A n \in 0 .. N : n # 0 => n \in 1 .. N
        BY <1>0
      <3>. QED
        BY <1>5, <3>1, <3>2
    <2>2. f = [n \in 0 .. N |-> f[n]]
      BY <1>4 DEF Iterates
    <2>. QED
      BY <2>1, <2>2
  <1> DEFINE F == CHOOSE F : Is(F)
  <1>7. Is(F)
    BY <1>6
  <1>8. Kept(s, T) = F[N]
    BY DEF Kept
  <1> HIDE DEF F
  <1>9. \A n \in 0 .. N : F[n] = IF n = 0 THEN <<>> ELSE Step(n, F[n - 1])
    BY <1>7
  <1>10. KeepsAlong(F, s, T)
    <2>1. F[0] = <<>>
      BY <1>0, <1>9
    <2>2. \A n \in 1 .. N : n \in 0 .. N /\ n # 0
      BY <1>0
    <2>. QED
      BY <1>9, <2>1, <2>2 DEF KeepsAlong
  <1>. QED
    BY <1>8, <1>10

(* k holds the elements of the first n that are in T: the one at i stands  *)
(* at f[i], and nothing between two of them is in T.                       *)
PicksAt(f, m, k, s, T, n) ==
    /\ m \in Nat
    /\ f \in [1 .. m -> 1 .. n]
    /\ k = [i \in 1 .. m |-> s[f[i]]]
    /\ \A i, j \in 1 .. m : i < j => f[i] < f[j]
    /\ \A j \in 1 .. n : s[j] \in T <=> \E i \in 1 .. m : f[i] = j

Picks(k, s, T, n) == \E f, m : PicksAt(f, m, k, s, T, n)

(* One more element is looked at, and kept or not.                       *)
LEMMA PicksStep ==
    ASSUME NEW s, NEW T, NEW k, NEW n \in Nat \ {0}, Picks(k, s, T, n - 1)
    PROVE  Picks(IF s[n] \in T THEN Append(k, s[n]) ELSE k, s, T, n)
  <1>1. PICK f, m : PicksAt(f, m, k, s, T, n - 1)
    BY DEF Picks
  <1>2. /\ m \in Nat
        /\ f \in [1 .. m -> 1 .. n - 1]
        /\ k = [i \in 1 .. m |-> s[f[i]]]
        /\ \A i, j \in 1 .. m : i < j => f[i] < f[j]
    BY <1>1 DEF PicksAt
  <1>3. \A j \in 1 .. n - 1 : s[j] \in T <=> \E i \in 1 .. m : f[i] = j
    BY <1>1 DEF PicksAt
  <1>4. CASE s[n] \notin T
    <2>1. f \in [1 .. m -> 1 .. n]
      BY <1>2
    <2>2. \A i \in 1 .. m : f[i] # n
      BY <1>2
    <2>3. ASSUME NEW j \in 1 .. n PROVE s[j] \in T <=> \E i \in 1 .. m : f[i] = j
      <3>1. CASE j = n
        BY <1>4, <2>2, <3>1
      <3>2. CASE j # n
        <4>1. j \in 1 .. n - 1
          BY <3>2
        <4>. QED
          BY <1>3, <4>1
      <3>. QED
        BY <3>1, <3>2
    <2>4. PicksAt(f, m, k, s, T, n)
      BY <1>2, <2>1, <2>3 DEF PicksAt
    <2>. QED
      BY <1>4, <2>4 DEF Picks
  <1>5. CASE s[n] \in T
    <2> DEFINE g == [i \in 1 .. m + 1 |-> IF i = m + 1 THEN n ELSE f[i]]
               l == [i \in 1 .. m + 1 |-> s[g[i]]]
    <2>1. m + 1 \in Nat /\ \A i \in 1 .. m + 1 : i # m + 1 => i \in 1 .. m
      BY <1>2
    <2>2. \A i \in 1 .. m : i \in 1 .. m + 1 /\ g[i] = f[i] /\ f[i] \in 1 .. n - 1
      BY <1>2
    <2>3. m + 1 \in 1 .. m + 1 /\ g[m + 1] = n
      BY <1>2
    <2>4. ASSUME NEW i \in 1 .. m + 1 PROVE g[i] \in 1 .. n
      <3>1. CASE i = m + 1
        BY <2>3, <3>1
      <3>2. CASE i # m + 1
        <4>1. g[i] = f[i] /\ f[i] \in 1 .. n - 1
          BY <2>1, <2>2, <3>2
        <4> HIDE DEF g
        <4>. QED
          BY <4>1
      <3>. QED
        BY <3>1, <3>2
    <2>5. g \in [1 .. m + 1 -> 1 .. n]
      BY <2>4
    <2>6. Append(k, s[n]) = l
      <3>1. Len(k) = m /\ k = [i \in 1 .. m |-> k[i]]
        BY <1>2
      <3>2. Append(k, s[n]) = [i \in 1 .. m + 1 |-> IF i = m + 1 THEN s[n] ELSE k[i]]
        BY <1>2, <3>1
      <3>3. ASSUME NEW i \in 1 .. m + 1
            PROVE  (IF i = m + 1 THEN s[n] ELSE k[i]) = s[g[i]]
        BY <1>2, <2>1
      <3>. QED
        BY <3>2, <3>3
    <2>7. ASSUME NEW i \in 1 .. m + 1, NEW j \in 1 .. m + 1, i < j PROVE g[i] < g[j]
      <3>1. i \in 1 .. m
        BY <2>1, <2>7
      <3>2. g[i] = f[i] /\ f[i] \in 1 .. n - 1
        BY <2>2, <3>1
      <3>3. CASE j = m + 1
        BY <2>3, <3>2, <3>3
      <3>4. CASE j # m + 1
        <4>1. j \in 1 .. m /\ g[j] = f[j]
          BY <2>1, <2>2, <3>4
        <4>. QED
          BY <1>2, <2>7, <3>1, <3>2, <4>1
      <3>. QED
        BY <3>3, <3>4
    <2>8. ASSUME NEW j \in 1 .. n PROVE s[j] \in T <=> \E i \in 1 .. m + 1 : g[i] = j
      <3>1. CASE j = n
        BY <1>5, <2>3, <3>1
      <3>2. CASE j # n
        <4>1. j \in 1 .. n - 1
          BY <3>2
        <4>2. (\E i \in 1 .. m + 1 : g[i] = j) <=> \E i \in 1 .. m : f[i] = j
          BY <2>1, <2>2, <2>3, <3>2
        <4>. QED
          BY <1>3, <4>1, <4>2
      <3>. QED
        BY <3>1, <3>2
    <2> HIDE DEF g
    <2>9. PicksAt(g, m + 1, l, s, T, n)
      BY <2>1, <2>5, <2>7, <2>8 DEF PicksAt
    <2>. QED
      BY <1>5, <2>6, <2>9 DEF Picks
  <1>. QED
    BY <1>4, <1>5

(* Kept picks the elements of the set, in their order.                     *)
LEMMA KeptPicks ==
    ASSUME NEW s, s \in Seq(ToSet(s)), NEW T
    PROVE  Picks(Kept(s, T), s, T, Len(s))
  <1>1. PICK F : KeepsAlong(F, s, T) /\ Kept(s, T) = F[Len(s)]
    BY KeptUnfolds
  <1> DEFINE N == Len(s)
             Good == {n \in 0 .. N : Picks(F[n], s, T, n)}
  <1>2. N \in Nat
    OBVIOUS
  <1>3. 0 \in Good
    <2>1. PicksAt(<<>>, 0, <<>>, s, T, 0)
      BY DEF PicksAt
    <2>. QED
      BY <1>1, <1>2, <2>1 DEF Picks, KeepsAlong
  <1>4. ASSUME NEW n \in 1 .. N, n - 1 \in Good PROVE n \in Good
    <2>1. n \in Nat \ {0} /\ n \in 0 .. N
      BY <1>2
    <2>2. Picks(F[n - 1], s, T, n - 1)
      BY <1>4
    <2>3. Picks(IF s[n] \in T THEN Append(F[n - 1], s[n]) ELSE F[n - 1], s, T, n)
      BY <2>1, <2>2, PicksStep
    <2>. QED
      BY <1>1, <2>1, <2>3 DEF KeepsAlong
  <1>5. \A n \in 1 .. N : n - 1 \in Good => n \in Good
    BY <1>4
  <1> HIDE DEF Good
  <1>6. \A n \in 0 .. N : n \in Good
    BY <1>2, <1>3, <1>5, UpTo
  <1>. QED
    BY <1>1, <1>2, <1>6 DEF Good

(* In words: a sequence with the elements of s that are in T.              *)
LEMMA KeptElements ==
    ASSUME NEW s, s \in Seq(ToSet(s)), NEW T
    PROVE  /\ Kept(s, T) \in Seq(ToSet(s))
           /\ ToSet(Kept(s, T)) = ToSet(s) \cap T
  <1>1. PICK f, m : PicksAt(f, m, Kept(s, T), s, T, Len(s))
    BY KeptPicks DEF Picks
  <1> DEFINE k == Kept(s, T)
  <1> HIDE DEF k
  <1>2. /\ m \in Nat
        /\ f \in [1 .. m -> 1 .. Len(s)]
        /\ k = [i \in 1 .. m |-> s[f[i]]]
    BY <1>1 DEF PicksAt, k
  <1>3. \A j \in 1 .. Len(s) : s[j] \in T <=> \E i \in 1 .. m : f[i] = j
    BY <1>1 DEF PicksAt
  <1>4. \A i \in 1 .. m : f[i] \in 1 .. Len(s) /\ s[f[i]] \in ToSet(s)
    BY <1>2 DEF ToSet
  <1>5. k \in Seq(ToSet(s))
    BY <1>2, <1>4
  <1>6. ASSUME NEW x \in ToSet(k) PROVE x \in ToSet(s) /\ x \in T
    <2>1. PICK i \in 1 .. m : x = s[f[i]]
      BY <1>2 DEF ToSet
    <2>. QED
      BY <1>3, <1>4, <2>1
  <1>7. ASSUME NEW x \in ToSet(s), x \in T PROVE x \in ToSet(k)
    <2>1. PICK j \in 1 .. Len(s) : x = s[j]
      BY DEF ToSet
    <2>2. PICK i \in 1 .. m : f[i] = j
      BY <1>3, <1>7, <2>1
    <2>3. x = k[i] /\ DOMAIN k = 1 .. m
      BY <1>2, <2>1, <2>2
    <2>. QED
      BY <2>3 DEF ToSet
  <1>. QED
    BY <1>5, <1>6, <1>7 DEF k

(* A sequence is empty when it has no element.                             *)
LEMMA EmptyHasNone ==
    ASSUME NEW s, s \in Seq(ToSet(s))
    PROVE  s = <<>> <=> ToSet(s) = {}
  <1>1. ASSUME s # <<>> PROVE s[1] \in ToSet(s)
    BY <1>1 DEF ToSet
  <1>2. ToSet(<<>>) = {}
    BY DEF ToSet
  <1>. QED
    BY <1>1, <1>2

-----------------------------------------------------------------------------
(* Distinct and FlattenSeq                                                 *)

DistinctAlong(F, s) ==
    /\ F[0] = <<>>
    /\ \A n \in 1 .. Len(s) :
          F[n] = IF s[n] \in ToSet(F[n - 1]) THEN F[n - 1] ELSE Append(F[n - 1], s[n])

(* Distinct runs along the messages.                                     *)
LEMMA DistinctUnfolds ==
    ASSUME NEW s, s \in Seq(ToSet(s))
    PROVE  \E F : DistinctAlong(F, s) /\ Distinct(s) = F[Len(s)]
  <1> DEFINE N == Len(s)
             D == Seq(ToSet(s))
             Step(n, k) == IF s[n] \in ToSet(k) THEN k ELSE Append(k, s[n])
             step == [n \in 1 .. N |-> [k \in D |-> Step(n, k)]]
             Is(F) == F = [n \in 0 .. N |->
                              IF n = 0 THEN <<>>
                              ELSE IF s[n] \in ToSet(F[n - 1]) THEN F[n - 1]
                                   ELSE Append(F[n - 1], s[n])]
  <1>0. N \in Nat /\ <<>> \in D
    OBVIOUS
  <1>1. \A n \in 1 .. N : s[n] \in ToSet(s)
    BY DEF ToSet
  <1>2. ASSUME NEW n \in 1 .. N, NEW k \in D PROVE Step(n, k) \in D
    BY <1>1, AppendProperties
  <1>3. IsStepper(step, D, N)
    BY <1>2 DEF IsStepper
  <1>4. PICK f : Iterates(f, <<>>, step, D, N)
    <2> HIDE DEF D, step, N
    <2>. QED
      BY <1>0, <1>3, IterationExists
  <1>5. ASSUME NEW k \in 1 .. N PROVE f[k] = Step(k, f[k - 1])
    <2>1. k - 1 \in 0 .. N /\ f[k - 1] \in D
      BY <1>0, <1>4 DEF Iterates
    <2>. QED
      BY <1>4, <2>1 DEF Iterates
  <1>6. Is(f)
    <2>1. \A n \in 0 .. N : f[n] = IF n = 0 THEN <<>> ELSE Step(n, f[n - 1])
      <3>1. f[0] = <<>>
        BY <1>4 DEF Iterates
      <3>2. \A n \in 0 .. N : n # 0 => n \in 1 .. N
        BY <1>0
      <3>. QED
        BY <1>5, <3>1, <3>2
    <2>2. f = [n \in 0 .. N |-> f[n]]
      BY <1>4 DEF Iterates
    <2>. QED
      BY <2>1, <2>2
  <1> DEFINE F == CHOOSE F : Is(F)
  <1>7. Is(F)
    BY <1>6
  <1>8. Distinct(s) = F[N]
    BY DEF Distinct
  <1> HIDE DEF F
  <1>9. \A n \in 0 .. N : F[n] = IF n = 0 THEN <<>> ELSE Step(n, F[n - 1])
    BY <1>7
  <1>10. DistinctAlong(F, s)
    <2>1. F[0] = <<>>
      BY <1>0, <1>9
    <2>2. \A n \in 1 .. N : n \in 0 .. N /\ n # 0
      BY <1>0
    <2>. QED
      BY <1>9, <2>1, <2>2 DEF DistinctAlong
  <1>. QED
    BY <1>8, <1>10

(* An element more.                                                      *)
LEMMA AppendElements ==
    ASSUME NEW S, NEW k, k \in Seq(S), NEW x
    PROVE  ToSet(Append(k, x)) = ToSet(k) \cup {x}
  <1> DEFINE m == Len(k)
             a == Append(k, x)
  <1>1. m \in Nat /\ k \in Seq(S \cup {x}) /\ x \in S \cup {x}
    OBVIOUS
  <1>2. DOMAIN a = 1 .. m + 1 /\ a[m + 1] = x
    <2>1. a \in Seq(S \cup {x}) /\ Len(a) = m + 1 /\ a[m + 1] = x
      BY <1>1, AppendProperties
    <2>. QED
      BY <2>1
  <1>3. DOMAIN k = 1 .. m /\ \A i \in 1 .. m : a[i] = k[i] /\ i \in 1 .. m + 1
    BY <1>1, AppendProperties
  <1>4. \A i \in 1 .. m + 1 : i = m + 1 \/ i \in 1 .. m
    BY <1>1
  <1>5. m + 1 \in 1 .. m + 1
    BY <1>1
  <1> HIDE DEF a, m
  <1>6. ToSet(a) = ToSet(k) \cup {x}
    BY <1>2, <1>3, <1>4, <1>5 DEF ToSet
  <1>. QED
    BY <1>6 DEF a

(* No message is lost when the repeated ones are left out.                 *)
LEMMA DistinctElements ==
    ASSUME NEW s, s \in Seq(ToSet(s))
    PROVE  /\ Distinct(s) \in Seq(ToSet(s))
           /\ ToSet(Distinct(s)) = ToSet(s)
  <1>1. PICK F : DistinctAlong(F, s) /\ Distinct(s) = F[Len(s)]
    BY DistinctUnfolds
  <1> DEFINE N == Len(s)
             Holds(k, n) == /\ k \in Seq(ToSet(s))
                            /\ \A i \in 1 .. n : s[i] \in ToSet(k)
                            /\ \A x \in ToSet(k) : x \in ToSet(s)
             Good == {n \in 0 .. N : Holds(F[n], n)}
  <1>2. N \in Nat /\ \A n \in 1 .. N : s[n] \in ToSet(s)
    BY DEF ToSet
  <1>3. 0 \in Good
    <2>1. F[0] = <<>>
      BY <1>1 DEF DistinctAlong
    <2>2. ToSet(F[0]) = {}
      BY <2>1 DEF ToSet
    <2>3. F[0] \in Seq(ToSet(s))
      BY <2>1, EmptySeq
    <2>4. Holds(F[0], 0)
      BY <2>2, <2>3
    <2> HIDE DEF Holds
    <2>. QED
      BY <1>2, <2>4
  <1>4. ASSUME NEW n \in 1 .. N, n - 1 \in Good PROVE n \in Good
    <2>1. n \in 0 .. N /\ \A i \in 1 .. n : i = n \/ i \in 1 .. n - 1
      BY <1>2
    <2>2. Holds(F[n - 1], n - 1)
      BY <1>4
    <2>3. F[n] = IF s[n] \in ToSet(F[n - 1]) THEN F[n - 1] ELSE Append(F[n - 1], s[n])
      BY <1>1 DEF DistinctAlong
    <2>4. CASE s[n] \in ToSet(F[n - 1])
      BY <2>1, <2>2, <2>3, <2>4
    <2>5. CASE s[n] \notin ToSet(F[n - 1])
      <3>1. F[n] = Append(F[n - 1], s[n])
        BY <2>3, <2>5
      <3>2. F[n - 1] \in Seq(ToSet(s)) /\ s[n] \in ToSet(s)
        BY <1>2, <2>2
      <3>3. F[n] \in Seq(ToSet(s))
        BY <3>1, <3>2, AppendProperties
      <3>4. ToSet(F[n]) = ToSet(F[n - 1]) \cup {s[n]}
        BY <3>1, <3>2, AppendElements
      <3>. QED
        BY <2>1, <2>2, <3>2, <3>3, <3>4
    <2>. QED
      BY <2>4, <2>5
  <1>5. \A n \in 1 .. N : n - 1 \in Good => n \in Good
    BY <1>4
  <1> HIDE DEF Good
  <1>6. \A n \in 0 .. N : n \in Good
    BY <1>2, <1>3, <1>5, UpTo
  <1>7. Holds(F[N], N)
    BY <1>2, <1>6 DEF Good
  <1>8. \A x \in ToSet(s) : \E i \in 1 .. N : x = s[i]
    BY DEF ToSet
  <1>. QED
    BY <1>1, <1>7, <1>8

(* A sequence is one of its own elements.                                  *)
LEMMA SeqOfElements ==
    ASSUME NEW S, NEW s, s \in Seq(S)
    PROVE  s \in Seq(ToSet(s))
  <1>1. Len(s) \in Nat /\ s = [i \in 1 .. Len(s) |-> s[i]]
    OBVIOUS
  <1>2. \A i \in 1 .. Len(s) : s[i] \in ToSet(s)
    BY DEF ToSet
  <1> DEFINE t == [i \in 1 .. Len(s) |-> s[i]]
  <1>3. t \in Seq(ToSet(s))
    BY <1>1, <1>2
  <1>. QED
    BY <1>1, <1>3

(* What is said in either part is said in both together.                   *)
LEMMA ConcatElements ==
    ASSUME NEW S, NEW k, k \in Seq(S), NEW T, NEW l, l \in Seq(T)
    PROVE  /\ k \o l \in Seq(ToSet(k) \cup ToSet(l))
           /\ ToSet(k \o l) = ToSet(k) \cup ToSet(l)
  <1> DEFINE m == Len(k)
             n == Len(l)
             c == k \o l
  <1>1. m \in Nat /\ n \in Nat /\ DOMAIN k = 1 .. m /\ DOMAIN l = 1 .. n
    OBVIOUS
  <1>2. /\ c \in Seq(S \cup T)
        /\ Len(c) = m + n
        /\ \A i \in 1 .. m + n : c[i] = IF i <= m THEN k[i] ELSE l[i - m]
    <2>1. k \in Seq(S \cup T) /\ l \in Seq(S \cup T)
      OBVIOUS
    <2>. QED
      BY <2>1, ConcatProperties
  <1>3. \A i \in 1 .. m : i \in 1 .. m + n /\ c[i] = k[i]
    BY <1>1, <1>2
  <1>4. ASSUME NEW i \in 1 .. n PROVE m + i \in 1 .. m + n /\ c[m + i] = l[i]
    <2>1. m + i \in 1 .. m + n /\ ~(m + i <= m) /\ (m + i) - m = i
      BY <1>1
    <2> HIDE DEF c
    <2>2. c[m + i] = IF m + i <= m THEN k[m + i] ELSE l[(m + i) - m]
      BY <1>2, <2>1
    <2>. QED
      BY <2>1, <2>2
  <1>5. \A i \in 1 .. m + n : i \in 1 .. m \/ (i - m \in 1 .. n /\ c[i] = l[i - m])
    BY <1>1, <1>2
  <1>6. DOMAIN c = 1 .. m + n
    BY <1>2
  <1> HIDE DEF c, m, n
  <1>7. ASSUME NEW x \in ToSet(c) PROVE x \in ToSet(k) \cup ToSet(l)
    <2>1. PICK i \in 1 .. m + n : x = c[i]
      BY <1>6 DEF ToSet
    <2>2. CASE i \in 1 .. m
      BY <1>1, <1>3, <2>1, <2>2 DEF ToSet
    <2>3. CASE i - m \in 1 .. n /\ c[i] = l[i - m]
      BY <1>1, <2>1, <2>3 DEF ToSet
    <2>. QED
      BY <1>5, <2>2, <2>3
  <1>8. ASSUME NEW x \in ToSet(k) PROVE x \in ToSet(c)
    BY <1>1, <1>3, <1>6 DEF ToSet
  <1>9. ASSUME NEW x \in ToSet(l) PROVE x \in ToSet(c)
    BY <1>1, <1>4, <1>6 DEF ToSet
  <1>10. ToSet(c) = ToSet(k) \cup ToSet(l)
    BY <1>7, <1>8, <1>9
  <1>11. c \in Seq(ToSet(c))
    BY <1>2, SeqOfElements
  <1>. QED
    BY <1>10, <1>11 DEF c

FlattensAlong(F, ss) ==
    F = [i \in 1 .. Len(ss) |-> IF i = 1 THEN ss[i] ELSE F[i - 1] \o ss[i]]

(* FlattenSeq, which folds over functions, runs along the parts.         *)
LEMMA FlattenUnfolds ==
    ASSUME NEW S, NEW ss, ss \in Seq(Seq(S)), ss # <<>>
    PROVE  \E F : FlattensAlong(F, ss) /\ FlattenSeq(ss) = F[Len(ss)]
  <1> DEFINE N == Len(ss)
             D == Seq(S)
             step == [n \in 1 .. N |-> [k \in D |-> k \o ss[n]]]
  <1>0. N \in Nat /\ N # 0 /\ <<>> \in D /\ \A n \in 1 .. N : ss[n] \in D
    OBVIOUS
  <1>1. ASSUME NEW n \in 1 .. N, NEW k \in D PROVE k \o ss[n] \in D
    BY <1>0, ConcatProperties
  <1>2. IsStepper(step, D, N)
    BY <1>1 DEF IsStepper
  <1>3. PICK f : Iterates(f, <<>>, step, D, N)
    <2> HIDE DEF D, step, N
    <2>. QED
      BY <1>0, <1>2, IterationExists
  <1>4. ASSUME NEW k \in 1 .. N PROVE k - 1 \in 0 .. N /\ f[k] = f[k - 1] \o ss[k]
    <2>1. k - 1 \in 0 .. N
      BY <1>0
    <2>2. f \in [0 .. N -> D] /\ f[k] = step[k][f[k - 1]]
      BY <1>3 DEF Iterates
    <2>3. f[k - 1] \in D
      <3> HIDE DEF D, N
      <3>. QED
        BY <2>1, <2>2
    <2>. QED
      BY <2>1, <2>2, <2>3
  <1> DEFINE g == [i \in 1 .. N |-> f[i]]
  <1>5. ASSUME NEW i \in 1 .. N
        PROVE  g[i] = IF i = 1 THEN ss[i] ELSE g[i - 1] \o ss[i]
    <2>1. CASE i = 1
      <3>1. f[1] = f[0] \o ss[1] /\ f[0] = <<>>
        <4>1. f[0] = <<>>
          BY <1>3 DEF Iterates
        <4>2. f[1] = f[1 - 1] \o ss[1]
          BY <1>4, <2>1
        <4>3. 1 - 1 = 0
          OBVIOUS
        <4> HIDE DEF g, N
        <4>. QED
          BY <4>1, <4>2, <4>3
      <3>2. <<>> \o ss[1] = ss[1]
        BY <1>0, <2>1, ConcatEmptySeq
      <3>. QED
        BY <2>1, <3>1, <3>2
    <2>2. CASE i # 1
      <3>1. i - 1 \in 1 .. N
        BY <1>0, <2>2
      <3>. QED
        BY <1>4, <2>2, <3>1
    <2>. QED
      BY <2>1, <2>2
  <1>6. FlattensAlong(g, ss)
    BY <1>5 DEF FlattensAlong
  <1> DEFINE F == CHOOSE F : FlattensAlong(F, ss)
  <1> HIDE DEF g
  <1>7. FlattensAlong(F, ss)
    BY <1>6
  <1>8. FlattenSeq(ss) = F[N]
    BY <1>0 DEF FlattenSeq, FlattensAlong
  <1>. QED
    BY <1>7, <1>8

(* The flattened sequence has the elements of its parts.                   *)
LEMMA FlattenElements ==
    ASSUME NEW S, NEW ss, ss \in Seq(Seq(S))
    PROVE  /\ FlattenSeq(ss) \in Seq(S)
           /\ \A x : x \in ToSet(FlattenSeq(ss)) <=>
                        \E i \in 1 .. Len(ss) : x \in ToSet(ss[i])
  <1>1. CASE ss = <<>>
    <2>1. FlattenSeq(ss) = <<>> /\ Len(ss) = 0
      BY <1>1 DEF FlattenSeq
    <2>2. ToSet(<<>>) = {}
      BY DEF ToSet
    <2>. QED
      BY <2>1, <2>2, EmptySeq
  <1>2. CASE ss # <<>>
    <2>1. PICK F : FlattensAlong(F, ss) /\ FlattenSeq(ss) = F[Len(ss)]
      BY <1>2, FlattenUnfolds
    <2> DEFINE N == Len(ss)
               Holds(k, n) == /\ k \in Seq(S)
                              /\ \A i \in 1 .. n : \A x \in ToSet(ss[i]) : x \in ToSet(k)
                              /\ \A x \in ToSet(k) : \E i \in 1 .. n : x \in ToSet(ss[i])
               Good == {n \in 0 .. N : n = 0 \/ Holds(F[n], n)}
    <2>2. N \in Nat /\ N # 0 /\ \A n \in 1 .. N : ss[n] \in Seq(S)
      BY <1>2
    <2>3. 0 \in Good
      BY <2>2
    <2>4. ASSUME NEW n \in 1 .. N, n - 1 \in Good PROVE n \in Good
      <3>1. n \in 0 .. N /\ n # 0
        BY <2>2
      <3>2. F[n] = IF n = 1 THEN ss[n] ELSE F[n - 1] \o ss[n]
        BY <2>1 DEF FlattensAlong
      <3>3. CASE n = 1
        <4>1. Holds(F[n], n)
          <5>1. F[n] = ss[1] /\ ss[1] \in Seq(S)
            BY <2>2, <3>2, <3>3
          <5>2. \A i \in 1 .. n : i = 1
            BY <3>3
          <5>3. 1 \in 1 .. n
            BY <3>3
          <5>. QED
            BY <5>1, <5>2, <5>3
        <4>. QED
          BY <3>1, <4>1
      <3>4. CASE n # 1
        <4>1. Holds(F[n - 1], n - 1)
          BY <2>4, <3>1, <3>4
        <4>2. F[n] = F[n - 1] \o ss[n] /\ ss[n] \in Seq(S)
          BY <2>2, <3>2, <3>4
        <4>3. ToSet(F[n]) = ToSet(F[n - 1]) \cup ToSet(ss[n])
          BY <4>1, <4>2, ConcatElements
        <4>4. F[n] \in Seq(S)
          BY <4>1, <4>2, ConcatProperties
        <4>5. \A i \in 1 .. n : i = n \/ i \in 1 .. n - 1
          BY <2>2
        <4>6. n \in 1 .. n /\ \A i \in 1 .. n - 1 : i \in 1 .. n
          BY <2>2
        <4> HIDE DEF N
        <4>7. Holds(F[n], n)
          BY <4>1, <4>3, <4>4, <4>5, <4>6
        <4> HIDE DEF Holds
        <4>. QED
          BY <3>1, <4>7
      <3>. QED
        BY <3>3, <3>4
    <2>5. \A n \in 1 .. N : n - 1 \in Good => n \in Good
      BY <2>4
    <2> HIDE DEF Good
    <2>6. \A n \in 0 .. N : n \in Good
      BY <2>2, <2>3, <2>5, UpTo
    <2>7. Holds(F[N], N)
      <3>1. N \in 0 .. N /\ N # 0
        BY <2>2
      <3> HIDE DEF Holds, N
      <3>. QED
        BY <2>6, <3>1 DEF Good
    <2>. QED
      BY <2>1, <2>7
  <1>. QED
    BY <1>1, <1>2

-----------------------------------------------------------------------------
(* Largest and smallest numbers                                            *)

(* Max and Min are what they are called.                                   *)
LEMMA MinIsSmallest ==
    ASSUME NEW S \in SUBSET Nat, S # {}
    PROVE  Min(S) \in S /\ \A n \in S : Min(S) <= n
  <1>1. \E m \in S : \A n \in S : m <= n
    BY SmallestNumber
  <1>. QED
    BY <1>1 DEF Min

-----------------------------------------------------------------------------
(* The rows of a trace                                                     *)

ZonesOK(zones) == zones.source \in Int /\ zones.target \in Int

\* The zone that a naive time is taken to be in.
Guessed(zones) == IF zones.strategy = "assume_utc" THEN 0 ELSE zones.source

NaiveTime(stamp) == [local |-> stamp.at, offset |-> Naive]

\* What becomes of a timestamp.
TimeOf(stamp, zones) ==
    IF stamp.form # "time" THEN NoTime
    ELSE IF zones.strategy = "reject" THEN NaiveTime(stamp)
    ELSE [local |-> (stamp.at - Guessed(zones)) + zones.target, offset |-> zones.target]

\* The row of the i-th line, before and after the times are moved.
RawRow(i, line) ==
    [line |-> i + 1, time |-> ParseTimestamp(line.stamp), stamp |-> line.stamp,
     call |-> line.call, event |-> line.event, info |-> line.info, sets |-> line.sets]

RowOf(i, line, zones) ==
    [line |-> i + 1, time |-> TimeOf(line.stamp, zones), stamp |-> line.stamp,
     call |-> line.call, event |-> line.event, info |-> line.info, sets |-> line.sets]

RowsOf(file, zones) ==
    [i \in 1 .. Len(DataLines(file)) |-> RowOf(i, DataLines(file)[i], zones)]

(* The lines of a file that hold data are lines of the file.               *)
LEMMA DataLinesAreLines ==
    ASSUME NEW file, IsFile(file)
    PROVE  /\ DataLines(file) \in Seq(ToSet(DataLines(file)))
           /\ Len(DataLines(file)) \in Nat
           /\ DOMAIN DataLines(file) = 1 .. Len(DataLines(file))
           /\ \A i \in 1 .. Len(DataLines(file)) : IsLine(DataLines(file)[i])
  <1> DEFINE T == {l \in ToSet(file.lines) : l.shape # "empty"}
             lines == DataLines(file)
  <1>1. file.lines \in Seq(ToSet(file.lines)) /\ \A l \in ToSet(file.lines) : IsLine(l)
    BY DEF IsFile
  <1>2. lines = Kept(file.lines, T)
    BY DEF DataLines
  <1> HIDE DEF T, lines
  <1>3. lines \in Seq(ToSet(file.lines)) /\ ToSet(lines) = ToSet(file.lines) \cap T
    BY <1>1, <1>2, KeptElements
  <1>4. lines \in Seq(ToSet(lines))
    BY <1>3, SeqOfElements
  <1>5. \A i \in 1 .. Len(lines) : lines[i] \in ToSet(file.lines)
    BY <1>3
  <1>6. Len(lines) \in Nat /\ DOMAIN lines = 1 .. Len(lines)
    BY <1>3
  <1>. QED
    BY <1>1, <1>4, <1>5, <1>6 DEF lines

(* A row of the parser for each line that holds data.                    *)
LEMMA RawRowsAre ==
    ASSUME NEW file, IsFile(file)
    PROVE  RawRows(file) = [i \in 1 .. Len(DataLines(file)) |-> RawRow(i, DataLines(file)[i])]
  BY DataLinesAreLines DEF RawRows, RawRow

(* What normalize makes of a time that the parser read.                    *)
LEMMA NormalizedStamp ==
    ASSUME NEW stamp, stamp.at \in Int, NEW zones, ZonesOK(zones)
    PROVE  LET result == Normalized(ParseTimestamp(stamp), zones)
           IN  /\ stamp.form # "time" <=> result.status = "missing"
               /\ stamp.form = "time" /\ zones.strategy = "reject"
                     <=> result.status = "invalid"
               /\ stamp.form = "time" /\ zones.strategy # "reject" <=> result.warned
               /\ result.warned => result.time = TimeOf(stamp, zones)
  <1>1. NaiveTime(stamp) # NoTime /\ NaiveTime(stamp) \in Times
    BY MarkersAreNoData DEF NaiveTime, Times
  <1>2. CASE stamp.form # "time"
    BY <1>2 DEF Normalized, ParseTimestamp
  <1>3. CASE stamp.form = "time"
    <2>1. ParseTimestamp(stamp) = NaiveTime(stamp) /\ NaiveTime(stamp).offset = Naive
      BY <1>3 DEF ParseTimestamp, NaiveTime
    <2>2. CASE zones.strategy = "reject"
      BY <1>1, <1>3, <2>1, <2>2 DEF Normalized
    <2>3. CASE zones.strategy # "reject"
      <3> DEFINE zoned == Zoned(NaiveTime(stamp), zones)
                 moved == InZone(zoned, zones.target)
                 status == IF zoned.offset = zones.target THEN "unchanged" ELSE "normalized"
      <3>1. Normalized(NaiveTime(stamp), zones)
              = [status |-> status, time |-> moved, warned |-> TRUE]
        BY <1>1, <2>1, <2>3 DEF Normalized
      <3>2. zoned.local = stamp.at /\ zoned.offset = Guessed(zones)
        BY <2>1 DEF Zoned, Guessed, NaiveTime
      <3>3. moved = [local |-> (stamp.at - Guessed(zones)) + zones.target,
                     offset |-> zones.target]
        BY <3>2 DEF InZone, Instant
      <3>4. status \notin {"missing", "invalid"}
        OBVIOUS
      <3> HIDE DEF zoned, moved, status
      <3>. QED
        BY <1>3, <2>1, <2>3, <3>1, <3>3, <3>4 DEF TimeOf
    <2>. QED
      BY <2>2, <2>3
  <1>. QED
    BY <1>2, <1>3

(* A time that the trace ends up with is one, and has its zone unless    *)
(* the strategy refuses it.                                              *)
LEMMA TimeOfIsTime ==
    ASSUME NEW stamp, stamp.at \in Int, NEW zones, ZonesOK(zones)
    PROVE  /\ TimeOf(stamp, zones) \in Times \cup {NoTime}
           /\ stamp.form = "time" => TimeOf(stamp, zones) \in Times
           /\ stamp.form = "time" =>
                (TimeOf(stamp, zones).offset = Naive <=> zones.strategy = "reject")
  <1>1. Guessed(zones) \in Int /\ zones.target \in Int /\ zones.target # Naive
    BY MarkersAreNoData DEF Guessed, ZonesOK
  <1>2. (stamp.at - Guessed(zones)) + zones.target \in Int
    BY <1>1
  <1>. QED
    BY <1>1, <1>2 DEF TimeOf, NaiveTime, Times

(* Moving the time of a row (NormalizedRow) yields the row with the time *)
(* that its line stands for.                                             *)
LEMMA NormalizedRowIs ==
    ASSUME NEW i, NEW line, IsLine(line), NEW zones, ZonesOK(zones)
    PROVE  NormalizedRow(RawRow(i, line), zones) = RowOf(i, line, zones)
  <1> DEFINE raw == RawRow(i, line)
             result == Normalized(ParseTimestamp(line.stamp), zones)
  <1>1. raw.time = ParseTimestamp(line.stamp)
    BY DEF RawRow
  <1>2. line.stamp.at \in Int
    BY DEF IsLine
  <1> HIDE DEF result
  <1>3. /\ line.stamp.form # "time" <=> result.status = "missing"
        /\ line.stamp.form = "time" /\ zones.strategy = "reject"
              <=> result.status = "invalid"
        /\ line.stamp.form = "time" /\ zones.strategy # "reject" <=> result.warned
        /\ result.warned => result.time = TimeOf(line.stamp, zones)
    BY <1>2, NormalizedStamp DEF result
  <1>4. CASE result.status \in {"missing", "invalid"}
    <2>1. NormalizedRow(raw, zones) = raw
      BY <1>1, <1>4 DEF NormalizedRow, result
    <2>2. ParseTimestamp(line.stamp) = TimeOf(line.stamp, zones)
      BY <1>3, <1>4 DEF ParseTimestamp, TimeOf, NaiveTime
    <2>. QED
      BY <2>1, <2>2 DEF RawRow, RowOf
  <1>5. CASE result.status \notin {"missing", "invalid"}
    <2>1. NormalizedRow(raw, zones) = [raw EXCEPT !.time = result.time]
      BY <1>1, <1>5 DEF NormalizedRow, result
    <2>2. result.time = TimeOf(line.stamp, zones)
      BY <1>3, <1>5
    <2>. QED
      BY <2>1, <2>2 DEF RawRow, RowOf
  <1>. QED
    BY <1>4, <1>5

(* The rows of the trace whose times are moved.                            *)
LEMMA NormalizedRowsAre ==
    ASSUME NEW file, IsFile(file), NEW zones, ZonesOK(zones)
    PROVE  NormalizedTrace(RawTrace(file), zones).trace.rows = RowsOf(file, zones)
  <1> DEFINE lines == DataLines(file)
             raw == RawRows(file)
  <1>1. raw = [i \in 1 .. Len(lines) |-> RawRow(i, lines[i])]
    BY RawRowsAre
  <1>2. \A i \in 1 .. Len(lines) : IsLine(lines[i])
    BY DataLinesAreLines
  <1>3. NormalizedTrace(RawTrace(file), zones).trace.rows
           = [i \in DOMAIN raw |-> NormalizedRow(raw[i], zones)]
    BY DEF NormalizedTrace, RawTrace
  <1> HIDE DEF raw
  <1>4. ASSUME NEW i \in 1 .. Len(lines)
        PROVE  NormalizedRow(raw[i], zones) = RowOf(i, lines[i], zones)
    <2>1. raw[i] = RawRow(i, lines[i]) /\ IsLine(lines[i])
      BY <1>1, <1>2
    <2>. QED
      BY <2>1, NormalizedRowIs
  <1>5. DOMAIN raw = 1 .. Len(lines)
    BY <1>1
  <1>. QED
    BY <1>3, <1>4, <1>5 DEF RowsOf

-----------------------------------------------------------------------------
(* The inductive invariant                                                 *)

Stored == {a \in Artifacts : outcome[a] = "stored"}

\* The parts of ParsedInMemory.
RawOf(a) == NormalizedTrace(RawTrace(input.files[a]), input.zones)

MessagesOf(a) == [warnings |-> RawOf(a).warnings, errors |-> RawOf(a).errors]

PartsOf(a) ==
    [evidences |-> Evidences(RawOf(a).trace.rows), signals |-> Signals(RawOf(a).trace.rows),
     extracted |-> ExtractValues(RawOf(a).trace.rows)]

ValuesOf(a) == MapValues(input.defs, RawOf(a).trace.rows, PartsOf(a).extracted)

MappingOf(a) == NormalizedMapping(ValuesOf(a), input.zones)

\* What the normalizer gets of an artifact.
Rebuilt(a) == FromDict(ToDict(ParsedInMemory(a)))

(* An artifact is decided once, in order.                                  *)
OutcomesInOrder ==
    /\ at \in Nat \ {0}
    /\ outcome \in [Artifacts -> {"waiting", "stored", "failed"}]
    /\ \A a \in Artifacts : outcome[a] # "waiting" => a < at
    /\ stage # "received" => at \in Artifacts

(* The parser worker holds what its steps so far compute from the file.    *)
ParserFollows ==
    /\ stage = "parsed" => trace = RawTrace(File)
    /\ stage \in {"timed", "extracted", "mapped", "assembled"} =>
          trace = RawOf(at).trace /\ times = MessagesOf(at)
    /\ stage \in {"extracted", "mapped", "assembled"} => found = PartsOf(at)
    /\ stage = "mapped" => mapped = ValuesOf(at)
    /\ stage = "assembled" => mapped = MappingOf(at)

(* What is in the database, and what the normalizer worker holds, is made  *)
(* of one artifact that was stored.                                        *)
StoreFollows ==
    /\ snapshot # NoValue \/ notices # <<>> \/ loaded # NoValue =>
          \E a \in Stored : snapshot = Snapshot(ParsedInMemory(a))
    /\ loaded # NoValue => \E a \in Stored : loaded = Rebuilt(a)
    /\ normalized # NoValue => loaded # NoValue /\ normalized = NormalizeTrace(loaded)
    /\ events \in Seq({NormalizeTrace(Rebuilt(a)) : a \in Stored})

AnalysisInv == input \in Inputs /\ OutcomesInOrder /\ ParserFollows /\ StoreFollows

(* The parts make up what the parser has in memory.                        *)
LEMMA InMemoryParts ==
    ASSUME NEW a
    PROVE  ParsedInMemory(a)
             = ParsedTrace(a, RawOf(a).trace, MessagesOf(a), PartsOf(a), MappingOf(a))
  BY DEF ParsedInMemory, RawOf, MessagesOf, PartsOf, ValuesOf, MappingOf

(* They depend on the input alone, which never changes.                    *)
LEMMA InputDecides ==
    ASSUME input' = input
    PROVE  /\ Artifacts' = Artifacts
           /\ \A a : /\ RawOf(a)' = RawOf(a)
                     /\ MessagesOf(a)' = MessagesOf(a)
                     /\ PartsOf(a)' = PartsOf(a)
                     /\ ValuesOf(a)' = ValuesOf(a)
                     /\ MappingOf(a)' = MappingOf(a)
                     /\ ParsedInMemory(a)' = ParsedInMemory(a)
                     /\ Rebuilt(a)' = Rebuilt(a)
  <1>1. Artifacts' = Artifacts
    BY DEF Artifacts
  <1>2. ASSUME NEW a
        PROVE  /\ RawOf(a)' = RawOf(a)
               /\ MessagesOf(a)' = MessagesOf(a)
               /\ PartsOf(a)' = PartsOf(a)
               /\ ValuesOf(a)' = ValuesOf(a)
               /\ MappingOf(a)' = MappingOf(a)
               /\ ParsedInMemory(a)' = ParsedInMemory(a)
               /\ Rebuilt(a)' = Rebuilt(a)
    <2>1. RawOf(a)' = RawOf(a)
      BY DEF RawOf
    <2>2. MessagesOf(a)' = MessagesOf(a)
      BY <2>1 DEF MessagesOf
    <2>3. PartsOf(a)' = PartsOf(a)
      BY <2>1 DEF PartsOf
    <2>4. ValuesOf(a)' = ValuesOf(a)
      BY <2>1, <2>3 DEF ValuesOf
    <2>5. MappingOf(a)' = MappingOf(a)
      BY <2>4 DEF MappingOf
    <2>6. ParsedInMemory(a)' = ParsedInMemory(a)
      BY DEF ParsedInMemory
    <2>7. Rebuilt(a)' = Rebuilt(a)
      BY <2>6 DEF Rebuilt
    <2>. QED
      BY <2>1, <2>2, <2>3, <2>4, <2>5, <2>6, <2>7
  <1>. QED
    BY <1>1, <1>2

(* What is given has its type.                                           *)
LEMMA GivenIsInput ==
    ASSUME input \in Inputs
    PROVE  IsInput(input) /\ Artifacts = 1 .. Len(input.files) /\ Len(input.files) \in Nat
  <1>1. IsInput(input)
    BY InputsAssumption
  <1>. QED
    BY <1>1 DEF IsInput, Artifacts

(* At first nothing is done.                                             *)
LEMMA AnalysisInitInv == Init => AnalysisInv
  <1> SUFFICES ASSUME Init PROVE AnalysisInv
    OBVIOUS
  <1>1. OutcomesInOrder
    BY DEF Init, OutcomesInOrder, Artifacts
  <1>2. ParserFollows
    BY DEF Init, ParserFollows
  <1>3. StoreFollows
    <2>1. events = <<>> /\ notices = <<>> /\ snapshot = NoValue
          /\ loaded = NoValue /\ normalized = NoValue
      BY DEF Init
    <2>2. <<>> \in Seq({NormalizeTrace(Rebuilt(a)) : a \in Stored})
      BY EmptySeq
    <2>. QED
      BY <2>1, <2>2 DEF StoreFollows
  <1>. QED
    BY <1>1, <1>2, <1>3 DEF Init, AnalysisInv

(* What was stored stays stored, so what was made of it stays explained.   *)
LEMMA StoreKeeps ==
    ASSUME AnalysisInv, input' = input, Stored \subseteq Stored',
           UNCHANGED <<snapshot, notices, normalizerVars>>
    PROVE  StoreFollows'
  <1>1. \A a : ParsedInMemory(a)' = ParsedInMemory(a) /\ Rebuilt(a)' = Rebuilt(a)
    BY InputDecides
  <1>2. UNCHANGED <<snapshot, notices, loaded, normalized, events>>
    BY DEF normalizerVars
  <1>3. StoreFollows
    BY DEF AnalysisInv
  <1>4. (snapshot # NoValue \/ notices # <<>> \/ loaded # NoValue =>
            \E a \in Stored : snapshot = Snapshot(ParsedInMemory(a)))'
    BY <1>1, <1>2, <1>3 DEF StoreFollows
  <1>5. (loaded # NoValue => \E a \in Stored : loaded = Rebuilt(a))'
    BY <1>1, <1>2, <1>3 DEF StoreFollows
  <1>6. (normalized # NoValue => loaded # NoValue /\ normalized = NormalizeTrace(loaded))'
    BY <1>2, <1>3 DEF StoreFollows
  <1>7. (events \in Seq({NormalizeTrace(Rebuilt(a)) : a \in Stored}))'
    <2> DEFINE before == {NormalizeTrace(Rebuilt(a)) : a \in Stored}
               after == {NormalizeTrace(Rebuilt(a)) : a \in Stored}'
    <2>1. before \subseteq after
      BY <1>1
    <2>2. events \in Seq(before)
      BY <1>3 DEF StoreFollows
    <2> HIDE DEF before
    <2>3. events \in Seq(after)
      <3> HIDE DEF after
      <3>. QED
        BY <2>1, <2>2, SeqMonotonic
    <2>. QED
      BY <1>2, <2>3
  <1>. QED
    BY <1>4, <1>5, <1>6, <1>7 DEF StoreFollows

(* A step inside an artifact: only the parser's own state moves on.        *)
LEMMA InsideKeeps ==
    ASSUME AnalysisInv, at \in Artifacts, ParserFollows',
           UNCHANGED <<input, at, outcome, snapshot, notices, normalizerVars>>
    PROVE  AnalysisInv'
  <1>1. input' = input /\ at' = at /\ outcome' = outcome
    OBVIOUS
  <1>2. Artifacts' = Artifacts /\ Stored' = Stored
    BY <1>1 DEF Artifacts, Stored
  <1>3. OutcomesInOrder'
    BY <1>1, <1>2 DEF AnalysisInv, OutcomesInOrder
  <1>4. StoreFollows'
    BY <1>1, <1>2, StoreKeeps
  <1>. QED
    BY <1>1, <1>3, <1>4 DEF AnalysisInv

(* Load checks the file and keeps nothing of it.                         *)
LEMMA LoadKeeps == ASSUME AnalysisInv, Load PROVE AnalysisInv'
  <1>1. ParserFollows'
    BY DEF Load, ParserFollows
  <1>. QED
    BY <1>1, InsideKeeps DEF Load

(* Parse has the rows of the file.                                       *)
LEMMA ParseKeeps == ASSUME AnalysisInv, Parse PROVE AnalysisInv'
  <1>1. File' = File
    BY DEF Parse, File
  <1>2. stage' = "parsed" /\ trace' = RawTrace(File)
    BY DEF Parse
  <1>3. ParserFollows'
    BY <1>1, <1>2 DEF ParserFollows
  <1>. QED
    BY <1>3, InsideKeeps DEF Parse

(* NormalizeTimes has the rows with their times moved.                   *)
LEMMA NormalizeTimesKeeps == ASSUME AnalysisInv, NormalizeTimes PROVE AnalysisInv'
  <1>1. /\ input' = input /\ at' = at
        /\ stage = "parsed" /\ stage' = "timed"
        /\ trace' = NormalizedTrace(trace, input.zones).trace
        /\ times' = [warnings |-> NormalizedTrace(trace, input.zones).warnings,
                     errors |-> NormalizedTrace(trace, input.zones).errors]
    BY DEF NormalizeTimes
  <1>2. trace = RawTrace(File) /\ at \in Artifacts
    BY <1>1 DEF AnalysisInv, OutcomesInOrder, ParserFollows
  <1>3. trace' = RawOf(at).trace /\ times' = MessagesOf(at)
    BY <1>1, <1>2 DEF RawOf, MessagesOf, File
  <1>4. RawOf(at)' = RawOf(at) /\ MessagesOf(at)' = MessagesOf(at)
    BY <1>1 DEF RawOf, MessagesOf
  <1>5. ParserFollows'
    BY <1>1, <1>3, <1>4 DEF ParserFollows
  <1>. QED
    BY <1>2, <1>5, InsideKeeps DEF NormalizeTimes

(* Extract has the parts that the rows yield.                            *)
LEMMA ExtractKeeps == ASSUME AnalysisInv, Extract PROVE AnalysisInv'
  <1>1. /\ input' = input /\ at' = at /\ trace' = trace /\ times' = times
        /\ stage = "timed" /\ stage' = "extracted"
        /\ found' = [evidences |-> Evidences(trace.rows), signals |-> Signals(trace.rows),
                     extracted |-> ExtractValues(trace.rows)]
    BY DEF Extract
  <1>2. trace = RawOf(at).trace /\ times = MessagesOf(at) /\ at \in Artifacts
    BY <1>1 DEF AnalysisInv, OutcomesInOrder, ParserFollows
  <1>3. found' = PartsOf(at)
    BY <1>1, <1>2 DEF PartsOf
  <1>4. /\ RawOf(at)' = RawOf(at) /\ MessagesOf(at)' = MessagesOf(at)
        /\ PartsOf(at)' = PartsOf(at)
    BY <1>1 DEF RawOf, MessagesOf, PartsOf
  <1>5. ParserFollows'
    BY <1>1, <1>2, <1>3, <1>4 DEF ParserFollows
  <1>. QED
    BY <1>2, <1>5, InsideKeeps DEF Extract

(* Map has the targets that rows and extracted values yield.             *)
LEMMA MapKeeps == ASSUME AnalysisInv, Map PROVE AnalysisInv'
  <1>1. /\ input' = input /\ at' = at /\ trace' = trace /\ times' = times
        /\ found' = found
        /\ stage = "extracted" /\ stage' = "mapped"
        /\ mapped' = MapValues(input.defs, trace.rows, found.extracted)
    BY DEF Map
  <1>2. /\ trace = RawOf(at).trace /\ times = MessagesOf(at) /\ found = PartsOf(at)
        /\ at \in Artifacts
    BY <1>1 DEF AnalysisInv, OutcomesInOrder, ParserFollows
  <1>3. mapped' = ValuesOf(at)
    BY <1>1, <1>2 DEF ValuesOf
  <1>4. \A a : /\ RawOf(a)' = RawOf(a) /\ MessagesOf(a)' = MessagesOf(a)
               /\ PartsOf(a)' = PartsOf(a) /\ ValuesOf(a)' = ValuesOf(a)
    BY <1>1, InputDecides
  <1>5. ParserFollows'
    BY <1>1, <1>2, <1>3, <1>4 DEF ParserFollows
  <1>. QED
    BY <1>2, <1>5, InsideKeeps DEF Map

(* NormalizeMapped has the targets with their datetimes moved.           *)
LEMMA NormalizeMappedKeeps == ASSUME AnalysisInv, NormalizeMapped PROVE AnalysisInv'
  <1>1. /\ input' = input /\ at' = at /\ trace' = trace /\ times' = times
        /\ found' = found
        /\ stage = "mapped" /\ stage' = "assembled"
        /\ mapped' = NormalizedMapping(mapped, input.zones)
    BY DEF NormalizeMapped
  <1>2. /\ trace = RawOf(at).trace /\ times = MessagesOf(at) /\ found = PartsOf(at)
        /\ mapped = ValuesOf(at) /\ at \in Artifacts
    BY <1>1 DEF AnalysisInv, OutcomesInOrder, ParserFollows
  <1>3. mapped' = MappingOf(at)
    BY <1>1, <1>2 DEF MappingOf
  <1>4. \A a : /\ RawOf(a)' = RawOf(a) /\ MessagesOf(a)' = MessagesOf(a)
               /\ PartsOf(a)' = PartsOf(a) /\ MappingOf(a)' = MappingOf(a)
    BY <1>1, InputDecides
  <1>5. ParserFollows'
    BY <1>1, <1>2, <1>3, <1>4 DEF ParserFollows
  <1>. QED
    BY <1>2, <1>5, InsideKeeps DEF NormalizeMapped

(* The next artifact begins: the one before is decided, once.              *)
LEMMA NextArtifactKeeps ==
    ASSUME AnalysisInv, at \in Artifacts, input' = input,
           NEW result \in {"stored", "failed"}, NextArtifact(result)
    PROVE  /\ OutcomesInOrder' /\ ParserFollows'
           /\ Stored \subseteq Stored'
           /\ result = "stored" => at \in Stored'
  <1>1. /\ outcome' = [outcome EXCEPT ![at] = result]
        /\ at' = at + 1
        /\ stage' = "received"
    BY DEF NextArtifact
  <1>2. /\ at \in Nat \ {0}
        /\ outcome \in [Artifacts -> {"waiting", "stored", "failed"}]
        /\ \A a \in Artifacts : outcome[a] # "waiting" => a < at
    BY DEF AnalysisInv, OutcomesInOrder
  <1>3. Artifacts' = Artifacts
    BY DEF Artifacts
  <1>4. Artifacts \subseteq Nat
    BY GivenIsInput DEF AnalysisInv
  <1>5. ASSUME NEW a \in Artifacts, outcome'[a] # "waiting" PROVE a < at + 1
    <2>1. CASE a = at
      BY <1>2, <2>1
    <2>2. CASE a # at
      <3>1. outcome[a] # "waiting"
        BY <1>1, <1>2, <1>5, <2>2
      <3>2. a \in Nat /\ a < at
        BY <1>2, <1>4, <3>1
      <3>. QED
        BY <1>2, <3>2
    <2>. QED
      BY <2>1, <2>2
  <1>6. outcome' \in [Artifacts -> {"waiting", "stored", "failed"}]
    BY <1>1, <1>2
  <1>7. at + 1 \in Nat \ {0}
    BY <1>2
  <1>8. OutcomesInOrder'
    BY <1>1, <1>3, <1>5, <1>6, <1>7 DEF OutcomesInOrder
  <1>9. ParserFollows'
    BY <1>1 DEF ParserFollows
  <1>10. ASSUME NEW a \in Stored PROVE a \in Stored'
    <2>1. a \in Artifacts /\ outcome[a] = "stored"
      BY DEF Stored
    <2>2. a < at /\ a \in Nat
      BY <1>2, <1>4, <2>1
    <2>3. outcome'[a] = "stored"
      BY <1>1, <1>2, <2>1, <2>2
    <2>. QED
      BY <1>3, <2>1, <2>3 DEF Stored
  <1>11. result = "stored" => at \in Stored'
    BY <1>1, <1>2, <1>3 DEF Stored
  <1>. QED
    BY <1>8, <1>9, <1>10, <1>11

(* A failure stores nothing.                                             *)
LEMMA FailsKeeps == ASSUME AnalysisInv, Fails PROVE AnalysisInv'
  <1>1. /\ at \in Artifacts /\ NextArtifact("failed")
        /\ UNCHANGED <<input, snapshot, notices, normalizerVars>>
    BY DEF Fails
  <1>2. OutcomesInOrder' /\ ParserFollows' /\ Stored \subseteq Stored'
    BY <1>1, NextArtifactKeeps
  <1>3. StoreFollows'
    BY <1>1, <1>2, StoreKeeps
  <1>. QED
    BY <1>1, <1>2, <1>3 DEF AnalysisInv

(* Save stores the artifact that the parser worker is at.                *)
LEMMA SaveKeeps == ASSUME AnalysisInv, Save PROVE AnalysisInv'
  <1>1. /\ stage = "assembled" /\ NextArtifact("stored")
        /\ snapshot' = Snapshot(ParsedTrace(at, trace, times, found, mapped))
        /\ UNCHANGED <<input, loaded, normalized, events>>
    BY DEF Save, normalizerVars
  <1>2. /\ at \in Artifacts
        /\ trace = RawOf(at).trace /\ times = MessagesOf(at) /\ found = PartsOf(at)
        /\ mapped = MappingOf(at)
    BY <1>1 DEF AnalysisInv, OutcomesInOrder, ParserFollows
  <1>3. OutcomesInOrder' /\ ParserFollows' /\ Stored \subseteq Stored' /\ at \in Stored'
    BY <1>1, <1>2, NextArtifactKeeps
  <1>4. \A a : ParsedInMemory(a)' = ParsedInMemory(a) /\ Rebuilt(a)' = Rebuilt(a)
    BY <1>1, InputDecides
  <1>5. snapshot' = Snapshot(ParsedInMemory(at))
    BY <1>1, <1>2, InMemoryParts
  <1>6. (\E a \in Stored : snapshot = Snapshot(ParsedInMemory(a)))'
    BY <1>3, <1>4, <1>5
  <1>7. StoreFollows
    BY DEF AnalysisInv
  <1>8. (loaded # NoValue => \E a \in Stored : loaded = Rebuilt(a))'
    BY <1>1, <1>3, <1>4, <1>7 DEF StoreFollows
  <1>9. (normalized # NoValue => loaded # NoValue /\ normalized = NormalizeTrace(loaded))'
    BY <1>1, <1>7 DEF StoreFollows
  <1>10. (events \in Seq({NormalizeTrace(Rebuilt(a)) : a \in Stored}))'
    <2> DEFINE before == {NormalizeTrace(Rebuilt(a)) : a \in Stored}
               after == {NormalizeTrace(Rebuilt(a)) : a \in Stored}'
    <2>1. before \subseteq after
      BY <1>3, <1>4
    <2>2. events \in Seq(before)
      BY <1>7 DEF StoreFollows
    <2> HIDE DEF before
    <2>3. events \in Seq(after)
      <3> HIDE DEF after
      <3>. QED
        BY <2>1, <2>2, SeqMonotonic
    <2>. QED
      BY <1>1, <2>3
  <1>11. StoreFollows'
    BY <1>6, <1>8, <1>9, <1>10 DEF StoreFollows
  <1>. QED
    BY <1>1, <1>3, <1>11 DEF AnalysisInv

(* The normalizer worker: what it takes over was stored.                   *)
LEMMA NormalizerKeeps == ASSUME AnalysisInv, NormalizerNext PROVE AnalysisInv'
  <1>1. UNCHANGED <<input, at, stage, trace, times, found, mapped, outcome, snapshot>>
    BY DEF NormalizerNext, Reload, Normalize, SaveEvents, parserVars
  <1>2. Artifacts' = Artifacts /\ Stored' = Stored /\ File' = File
    BY <1>1 DEF Artifacts, Stored, File
  <1>3. \A a : /\ RawOf(a)' = RawOf(a) /\ MessagesOf(a)' = MessagesOf(a)
               /\ PartsOf(a)' = PartsOf(a) /\ ValuesOf(a)' = ValuesOf(a)
               /\ MappingOf(a)' = MappingOf(a)
               /\ ParsedInMemory(a)' = ParsedInMemory(a) /\ Rebuilt(a)' = Rebuilt(a)
    BY <1>1, InputDecides
  <1>4. OutcomesInOrder'
    BY <1>1, <1>2 DEF AnalysisInv, OutcomesInOrder
  <1>5. ParserFollows'
    BY <1>1, <1>2, <1>3 DEF AnalysisInv, ParserFollows
  <1>6. StoreFollows
    BY DEF AnalysisInv
  <1> DEFINE Kind == {NormalizeTrace(Rebuilt(a)) : a \in Stored}
  <1>7. Kind' = Kind
    BY <1>2, <1>3
  <1>8. (snapshot # NoValue \/ notices # <<>> \/ loaded # NoValue =>
            \E a \in Stored : snapshot = Snapshot(ParsedInMemory(a)))'
    <2>1. notices # <<>> \/ loaded # NoValue
      BY <1>6 DEF NormalizerNext, Reload, Normalize, SaveEvents, StoreFollows
    <2>2. \E a \in Stored : snapshot = Snapshot(ParsedInMemory(a))
      BY <1>6, <2>1 DEF StoreFollows
    <2>. QED
      BY <1>1, <1>2, <1>3, <2>2
  <1>9. CASE Reload
    <2>1. /\ notices # <<>> /\ loaded' = FromDict(snapshot.document)
          /\ loaded = NoValue
          /\ UNCHANGED <<normalized, events>>
      BY <1>9 DEF Reload
    <2>2. PICK a \in Stored : snapshot = Snapshot(ParsedInMemory(a))
      BY <1>6, <2>1 DEF StoreFollows
    <2>3. snapshot.document = ToDict(ParsedInMemory(a))
      BY <2>2 DEF Snapshot
    <2>4. loaded' = Rebuilt(a)
      BY <2>1, <2>3 DEF Rebuilt
    <2>5. normalized' = NoValue
      BY <1>6, <2>1 DEF StoreFollows
    <2>6. StoreFollows'
      BY <1>2, <1>3, <1>6, <1>7, <1>8, <2>1, <2>4, <2>5 DEF StoreFollows
    <2>. QED
      BY <1>1, <1>4, <1>5, <2>6 DEF AnalysisInv
  <1>10. CASE Normalize
    <2>1. /\ loaded # NoValue /\ normalized' = NormalizeTrace(loaded)
          /\ UNCHANGED <<loaded, events>>
      BY <1>10 DEF Normalize
    <2>2. StoreFollows'
      BY <1>2, <1>3, <1>6, <1>7, <1>8, <2>1 DEF StoreFollows
    <2>. QED
      BY <1>1, <1>4, <1>5, <2>2 DEF AnalysisInv
  <1>11. CASE SaveEvents
    <2>1. /\ normalized # NoValue /\ events' = Append(events, normalized)
          /\ loaded' = NoValue /\ normalized' = NoValue
      BY <1>11 DEF SaveEvents
    <2>2. loaded # NoValue /\ normalized = NormalizeTrace(loaded)
      BY <1>6, <2>1 DEF StoreFollows
    <2>3. PICK a \in Stored : loaded = Rebuilt(a)
      BY <1>6, <2>2 DEF StoreFollows
    <2>4. normalized \in Kind /\ events \in Seq(Kind)
      BY <1>6, <2>2, <2>3 DEF StoreFollows
    <2> HIDE DEF Kind
    <2>5. events' \in Seq(Kind')
      BY <1>7, <2>1, <2>4, AppendProperties
    <2>6. StoreFollows'
      BY <1>8, <2>1, <2>5 DEF StoreFollows, Kind
    <2>. QED
      BY <1>1, <1>4, <1>5, <2>6 DEF AnalysisInv
  <1>. QED
    BY <1>9, <1>10, <1>11 DEF NormalizerNext

(* Every step keeps the invariant.                                       *)
LEMMA AnalysisStep == ASSUME AnalysisInv, [Next]_vars PROVE AnalysisInv'
  <1>1. CASE ParserNext
    BY <1>1, LoadKeeps, ParseKeeps, NormalizeTimesKeeps, ExtractKeeps, MapKeeps,
       NormalizeMappedKeeps, SaveKeeps, FailsKeeps DEF ParserNext
  <1>2. CASE NormalizerNext
    BY <1>2, NormalizerKeeps
  <1>3. CASE UNCHANGED vars
    <2>1. UNCHANGED <<input, at, stage, trace, times, found, mapped, outcome, snapshot,
                      notices, normalizerVars>>
      BY <1>3 DEF vars, parserVars
    <2>2. Artifacts' = Artifacts /\ Stored' = Stored /\ File' = File
      BY <2>1 DEF Artifacts, Stored, File
    <2>3. \A a : /\ RawOf(a)' = RawOf(a) /\ MessagesOf(a)' = MessagesOf(a)
                 /\ PartsOf(a)' = PartsOf(a) /\ ValuesOf(a)' = ValuesOf(a)
                 /\ MappingOf(a)' = MappingOf(a)
      BY <2>1, InputDecides
    <2>4. OutcomesInOrder'
      BY <2>1, <2>2 DEF AnalysisInv, OutcomesInOrder
    <2>5. ParserFollows'
      BY <2>1, <2>2, <2>3 DEF AnalysisInv, ParserFollows
    <2>6. StoreFollows'
      BY <2>1, <2>2, StoreKeeps
    <2>. QED
      BY <2>1, <2>4, <2>5, <2>6 DEF AnalysisInv
  <1>. QED
    BY <1>1, <1>2, <1>3 DEF Next, Done

(* The inductive invariant: every step computes its part from the file.    *)
THEOREM AnalysisInvariant == Spec => []AnalysisInv
  <1>1. AnalysisInv /\ [Next]_vars => AnalysisInv'
    BY AnalysisStep
  <1>. QED
    BY <1>1, AnalysisInitInv, PTL DEF Spec

-----------------------------------------------------------------------------
(* The document of a parsed trace                                          *)

\* The parts of a parsed trace are records with these fields.
IsTrace(t) == t = [rows |-> t.rows, parser_warnings |-> t.parser_warnings]

IsExtraction(e) == e = [values |-> e.values, warnings |-> e.warnings]

IsMapping(m) == m = [values |-> m.values, warnings |-> m.warnings, errors |-> m.errors]

IsParsed(p) ==
    /\ p = [artifact |-> p.artifact, raw_trace |-> p.raw_trace, evidences |-> p.evidences,
            signals |-> p.signals, extracted |-> p.extracted, mapped |-> p.mapped,
            warnings |-> p.warnings, errors |-> p.errors]
    /\ IsTrace(p.raw_trace)
    /\ IsExtraction(p.extracted)
    /\ IsMapping(p.mapped)

(* What the document says.                                                 *)
DictFacts(d, p) ==
    /\ d.artifact = p.artifact
    /\ d.raw_trace.rows = Timed(p.raw_trace.rows, JsonTime)
    /\ d.raw_trace.parser_warnings = p.raw_trace.parser_warnings
    /\ d.evidences = Timed(p.evidences, JsonTime)
    /\ d.signals = Timed(p.signals, JsonTime)
    /\ d.extracted.values = JsonEntries(p.extracted.values)
    /\ d.mapped.values = Each(p.mapped.values, MappedToDict)
    /\ d.warnings = p.warnings
    /\ d.errors = p.errors

(* What ToDict writes of a parsed trace.                                 *)
LEMMA DictSays ==
    ASSUME NEW p, IsParsed(p)
    PROVE  IsParsed(ToDict(p)) /\ DictFacts(ToDict(p), p)
  <1> DEFINE rows == Timed(p.raw_trace.rows, JsonTime)
             evidences == Timed(p.evidences, JsonTime)
             signals == Timed(p.signals, JsonTime)
             values == JsonEntries(p.extracted.values)
             targets == Each(p.mapped.values, MappedToDict)
             d == [p EXCEPT !.raw_trace.rows = rows, !.evidences = evidences,
                            !.signals = signals, !.extracted.values = values,
                            !.mapped.values = targets]
  <1>1. ToDict(p) = d
    BY DEF ToDict
  <1> HIDE DEF rows, evidences, signals, values, targets
  <1>2. /\ d.artifact = p.artifact
        /\ d.raw_trace = [p.raw_trace EXCEPT !.rows = rows]
        /\ d.evidences = evidences
        /\ d.signals = signals
        /\ d.extracted = [p.extracted EXCEPT !.values = values]
        /\ d.mapped = [p.mapped EXCEPT !.values = targets]
        /\ d.warnings = p.warnings
        /\ d.errors = p.errors
    BY DEF IsParsed
  <1>3. d = [artifact |-> d.artifact, raw_trace |-> d.raw_trace, evidences |-> d.evidences,
            signals |-> d.signals, extracted |-> d.extracted, mapped |-> d.mapped,
            warnings |-> d.warnings, errors |-> d.errors]
    <2>1. DOMAIN p = {"artifact", "raw_trace", "evidences", "signals", "extracted", "mapped",
                      "warnings", "errors"}
      BY DEF IsParsed
    <2>2. DOMAIN d = DOMAIN p /\ d = [x \in DOMAIN p |-> d[x]]
      OBVIOUS
    <2> HIDE DEF d
    <2>. QED
      BY <2>1, <2>2
  <1> HIDE DEF d
  <1>4. /\ IsTrace(d.raw_trace) /\ d.raw_trace.rows = rows
        /\ d.raw_trace.parser_warnings = p.raw_trace.parser_warnings
    BY <1>2 DEF IsParsed, IsTrace
  <1>5. IsExtraction(d.extracted) /\ d.extracted.values = values
    BY <1>2 DEF IsParsed, IsExtraction
  <1>6. IsMapping(d.mapped) /\ d.mapped.values = targets
    BY <1>2 DEF IsParsed, IsMapping
  <1>7. IsParsed(d)
    BY <1>3, <1>4, <1>5, <1>6 DEF IsParsed
  <1>8. DictFacts(d, p)
    BY <1>2, <1>4, <1>5, <1>6 DEF DictFacts, rows, evidences, signals, values, targets
  <1>. QED
    BY <1>1, <1>7, <1>8

-----------------------------------------------------------------------------
(* Extracted values                                                        *)

\* Rows whose assignments can be counted.
IsRows(rows) ==
    /\ rows \in Seq(ToSet(rows))
    /\ \A n \in 1 .. Len(rows) : rows[n].sets \in Seq(ToSet(rows[n].sets))

Assignments(rows) == UNION {ToSet(rows[n].sets) : n \in 1 .. Len(rows)}

Names(rows) == {a.name : a \in Assignments(rows)}

Entries(rows) == {Extracted(rows[n], a) : n \in 1 .. Len(rows), a \in Assignments(rows)}

\* What the extractor may hold.
Findings(rows) ==
    [values : UNION {[N -> Entries(rows)] : N \in SUBSET Names(rows)},
     warnings : Seq({OfTarget("duplicate", name) : name \in Names(rows)})]

\* A map from some of the names of M to entries of E.
IsMap(values, M, E) == values \in UNION {[N -> E] : N \in SUBSET M}

\* p is values with one entry put in.
HasPut(p, values, name, entry) ==
    /\ DOMAIN p = DOMAIN values \cup {name}
    /\ p[name] = entry
    /\ \A m \in DOMAIN values : m # name => p[m] = values[m]

(* Put changes one name.                                                 *)
LEMMA PutType ==
    ASSUME NEW E, NEW M, NEW values, IsMap(values, M, E), NEW name \in M, NEW entry \in E
    PROVE  /\ IsMap(Put(values, name, entry), M, E)
           /\ HasPut(Put(values, name, entry), values, name, entry)
  <1> DEFINE p == Put(values, name, entry)
             D == DOMAIN values \cup {name}
  <1>1. PICK N \in SUBSET M : values \in [N -> E]
    BY DEF IsMap
  <1>2. p = [n \in D |-> IF n = name THEN entry ELSE values[n]]
    BY DEF Put
  <1>3. D \in SUBSET M
    BY <1>1
  <1>4. p \in [D -> E]
    BY <1>1, <1>2
  <1> HIDE DEF p
  <1>. QED
    BY <1>2, <1>3, <1>4 DEF p, IsMap, HasPut

(* Storing an assignment of the rows leaves findings of the rows.        *)
LEMMA StoreValueType ==
    ASSUME NEW rows, NEW findings, findings \in Findings(rows), NEW n \in 1 .. Len(rows),
           NEW a \in Assignments(rows)
    PROVE  StoreValue(findings, rows[n], a) \in Findings(rows)
  <1> DEFINE M == Names(rows)
             E == Entries(rows)
             V == UNION {[N -> E] : N \in SUBSET M}
             W == {OfTarget("duplicate", name) : name \in M}
             p == Put(findings.values, a.name, Extracted(rows[n], a))
  <1>1. a.name \in M /\ Extracted(rows[n], a) \in E
    BY DEF Names, Entries
  <1>2. Findings(rows) = [values : V, warnings : Seq(W)]
    BY DEF Findings
  <1>3. findings.values \in V /\ findings.warnings \in Seq(W)
        /\ findings = [values |-> findings.values, warnings |-> findings.warnings]
    BY <1>2
  <1> HIDE DEF M, E
  <1>4. p \in V
    BY <1>1, <1>3, PutType DEF IsMap
  <1>5. Append(findings.warnings, OfTarget("duplicate", a.name)) \in Seq(W)
    BY <1>1, <1>3, AppendProperties
  <1> HIDE DEF V, W, p
  <1>6. [findings EXCEPT !.values = p] = [values |-> p, warnings |-> findings.warnings]
    BY <1>3
  <1>7. StoreValue(findings, rows[n], a) \in
           {[values |-> p, warnings |-> findings.warnings], findings,
            [values |-> p, warnings |-> Append(findings.warnings, OfTarget("duplicate", a.name))]}
    <2>1. StoreValue(findings, rows[n], a) \in
           {[findings EXCEPT !.values = p], findings,
            [values |-> p, warnings |-> Append(findings.warnings, OfTarget("duplicate", a.name))]}
      BY DEF StoreValue, p
    <2>. QED
      BY <1>6, <2>1
  <1>. QED
    BY <1>2, <1>3, <1>4, <1>5, <1>7

(* The two recursions: along the assignments of a row, along the rows.     *)
StoresAlong(F, findings, row) ==
    /\ F[0] = findings
    /\ \A k \in 1 .. Len(row.sets) : F[k] = StoreValue(F[k - 1], row, row.sets[k])
    /\ ExtractRow(findings, row) = F[Len(row.sets)]

(* ExtractRow runs along the assignments of a row.                       *)
LEMMA ExtractRowUnfolds ==
    ASSUME NEW rows, IsRows(rows), NEW findings, findings \in Findings(rows),
           NEW n \in 1 .. Len(rows)
    PROVE  /\ \E F : /\ StoresAlong(F, findings, rows[n])
                     /\ \A k \in 0 .. Len(rows[n].sets) : F[k] \in Findings(rows)
           /\ ExtractRow(findings, rows[n]) \in Findings(rows)
  <1> DEFINE row == rows[n]
             N == Len(row.sets)
             D == Findings(rows)
             Step(k, d) == StoreValue(d, row, row.sets[k])
             step == [k \in 1 .. N |-> [d \in D |-> Step(k, d)]]
             Is(F) == F = [k \in 0 .. N |->
                              IF k = 0 THEN findings ELSE StoreValue(F[k - 1], row, row.sets[k])]
  <1>0. N \in Nat /\ findings \in D
    <2>1. row.sets \in Seq(ToSet(row.sets))
      BY DEF IsRows
    <2>2. N \in Nat
      BY <2>1
    <2>. QED
      BY <2>2
  <1>1. \A k \in 1 .. N : row.sets[k] \in Assignments(rows)
    BY DEF IsRows, Assignments, ToSet
  <1>2. ASSUME NEW k \in 1 .. N, NEW d \in D PROVE Step(k, d) \in D
    BY <1>1, StoreValueType
  <1>3. IsStepper(step, D, N)
    BY <1>2 DEF IsStepper
  <1>4. PICK f : Iterates(f, findings, step, D, N)
    <2> HIDE DEF D, step, N
    <2>. QED
      BY <1>0, <1>3, IterationExists
  <1>5. ASSUME NEW k \in 1 .. N PROVE f[k] = Step(k, f[k - 1])
    <2>1. k - 1 \in 0 .. N
      BY <1>0
    <2>2. f \in [0 .. N -> D] /\ f[k] = step[k][f[k - 1]]
      BY <1>4 DEF Iterates
    <2>3. f[k - 1] \in D
      <3> HIDE DEF D, N
      <3>. QED
        BY <2>1, <2>2
    <2> HIDE DEF Step
    <2>. QED
      BY <2>1, <2>2, <2>3
  <1>6. Is(f)
    <2>1. \A k \in 0 .. N : f[k] = IF k = 0 THEN findings ELSE Step(k, f[k - 1])
      <3>1. f[0] = findings
        BY <1>4 DEF Iterates
      <3>2. \A k \in 0 .. N : k # 0 => k \in 1 .. N
        BY <1>0
      <3> HIDE DEF Step, N
      <3>. QED
        BY <1>5, <3>1, <3>2
    <2>2. f = [k \in 0 .. N |-> f[k]]
      BY <1>4 DEF Iterates
    <2>. QED
      BY <2>1, <2>2
  <1> DEFINE F == CHOOSE F : Is(F)
  <1>7. Is(F)
    BY <1>6
  <1>8. ExtractRow(findings, row) = F[N]
    BY DEF ExtractRow
  <1> HIDE DEF F
  <1>9. \A k \in 0 .. N : F[k] = IF k = 0 THEN findings ELSE Step(k, F[k - 1])
    BY <1>7
  <1>10. StoresAlong(F, findings, row)
    <2>1. F[0] = findings
      BY <1>0, <1>9
    <2>2. \A k \in 1 .. N : k \in 0 .. N /\ k # 0
      BY <1>0
    <2>. QED
      BY <1>8, <1>9, <2>1, <2>2 DEF StoresAlong
  <1>11. \A k \in 0 .. N : F[k] \in D
    <2> DEFINE Good == {k \in 0 .. N : F[k] \in D}
    <2>1. 0 \in Good
      BY <1>0, <1>9
    <2>2. \A k \in 1 .. N : k - 1 \in Good => k \in Good
      <3> SUFFICES ASSUME NEW k \in 1 .. N, k - 1 \in Good PROVE k \in Good
        OBVIOUS
      <3>1. k \in 0 .. N /\ k # 0 /\ F[k - 1] \in D
        BY <1>0
      <3>2. F[k] = Step(k, F[k - 1])
        BY <1>9, <3>1
      <3>. QED
        BY <1>2, <3>1, <3>2
    <2> HIDE DEF Good
    <2>3. \A k \in 0 .. N : k \in Good
      BY <1>0, <2>1, <2>2, UpTo
    <2>. QED
      BY <2>3 DEF Good
  <1>12. F[N] \in D
    BY <1>0, <1>11
  <1>. QED
    BY <1>8, <1>10, <1>11, <1>12

ExtractsAlong(G, rows) ==
    /\ G[0] = NoValues
    /\ \A n \in 1 .. Len(rows) : G[n] = ExtractRow(G[n - 1], rows[n])
    /\ \A n \in 0 .. Len(rows) : G[n] \in Findings(rows)
    /\ ExtractValues(rows) = G[Len(rows)]

(* ExtractValues runs along the rows.                                    *)
LEMMA ExtractUnfolds ==
    ASSUME NEW rows, IsRows(rows)
    PROVE  \E G : ExtractsAlong(G, rows)
  <1> DEFINE N == Len(rows)
             D == Findings(rows)
             Step(n, d) == ExtractRow(d, rows[n])
             step == [n \in 1 .. N |-> [d \in D |-> Step(n, d)]]
             Is(F) == F = [n \in 0 .. N |->
                              IF n = 0 THEN NoValues ELSE ExtractRow(F[n - 1], rows[n])]
  <1>0. N \in Nat
    BY DEF IsRows
  <1>1. NoValues \in D
    <2>1. <<>> \in [{} -> Entries(rows)] /\ {} \in SUBSET Names(rows)
      OBVIOUS
    <2>2. <<>> \in UNION {[M -> Entries(rows)] : M \in SUBSET Names(rows)}
      BY <2>1
    <2>. QED
      BY <2>2, EmptySeq DEF NoValues, Findings
  <1>2. ASSUME NEW n \in 1 .. N, NEW d \in D PROVE Step(n, d) \in D
    BY ExtractRowUnfolds
  <1>3. IsStepper(step, D, N)
    BY <1>2 DEF IsStepper
  <1>4. PICK f : Iterates(f, NoValues, step, D, N)
    <2> HIDE DEF D, step, N
    <2>. QED
      BY <1>0, <1>1, <1>3, IterationExists
  <1>5. ASSUME NEW k \in 1 .. N PROVE f[k] = Step(k, f[k - 1])
    <2>1. k - 1 \in 0 .. N
      BY <1>0
    <2>2. f \in [0 .. N -> D] /\ f[k] = step[k][f[k - 1]]
      BY <1>4 DEF Iterates
    <2>3. f[k - 1] \in D
      <3> HIDE DEF D, N
      <3>. QED
        BY <2>1, <2>2
    <2> HIDE DEF Step
    <2>. QED
      BY <2>1, <2>2, <2>3
  <1>6. Is(f)
    <2>1. \A k \in 0 .. N : f[k] = IF k = 0 THEN NoValues ELSE Step(k, f[k - 1])
      <3>1. f[0] = NoValues
        BY <1>4 DEF Iterates
      <3>2. \A k \in 0 .. N : k # 0 => k \in 1 .. N
        BY <1>0
      <3> HIDE DEF Step, N
      <3>. QED
        BY <1>5, <3>1, <3>2
    <2>2. f = [k \in 0 .. N |-> f[k]]
      BY <1>4 DEF Iterates
    <2>. QED
      BY <2>1, <2>2
  <1> DEFINE F == CHOOSE F : Is(F)
  <1>7. Is(F)
    BY <1>6
  <1>8. ExtractValues(rows) = F[N]
    BY DEF ExtractValues
  <1> HIDE DEF F
  <1>9. \A k \in 0 .. N : F[k] = IF k = 0 THEN NoValues ELSE Step(k, F[k - 1])
    BY <1>7
  <1>10. \A k \in 0 .. N : F[k] \in D
    <2> DEFINE Good == {k \in 0 .. N : F[k] \in D}
    <2>1. 0 \in Good
      BY <1>0, <1>1, <1>9
    <2>2. \A k \in 1 .. N : k - 1 \in Good => k \in Good
      <3> SUFFICES ASSUME NEW k \in 1 .. N, k - 1 \in Good PROVE k \in Good
        OBVIOUS
      <3>1. k \in 0 .. N /\ k # 0 /\ F[k - 1] \in D
        BY <1>0
      <3>2. F[k] = Step(k, F[k - 1])
        BY <1>9, <3>1
      <3>. QED
        BY <1>2, <3>1, <3>2
    <2> HIDE DEF Good
    <2>3. \A k \in 0 .. N : k \in Good
      BY <1>0, <2>1, <2>2, UpTo
    <2>. QED
      BY <2>3 DEF Good
  <1>11. F[0] = NoValues /\ \A k \in 1 .. N : k \in 0 .. N /\ k # 0
    BY <1>0, <1>9
  <1>. QED
    BY <1>8, <1>9, <1>10, <1>11 DEF ExtractsAlong

\* The j-th assignment of row i is among those of the first n - 1 rows and the
\* first k of row n.
ToldAt(rows, n, k, i, j) ==
    /\ i \in 1 .. n
    /\ j \in Nat \ {0}
    /\ \/ i < n /\ j <= Len(rows[i].sets)
       \/ i = n /\ j <= k

Sooner(i, j, i2, j2) == i < i2 \/ (i = i2 /\ j < j2)

Named(rows, i, j) == rows[i].sets[j].name

Says(rows, i, j) == Coerce(rows[i].sets[j].form, rows[i].sets[j].v)

\* Two assignments say something different, and how they may be told apart.
Contradicts(rows, i, j, i2, j2) == ~SameValue(Says(rows, i, j), Says(rows, i2, j2))

\* Assignment j of row i is told of this name.
Tells(rows, n, k, name, i, j) == ToldAt(rows, n, k, i, j) /\ Named(rows, i, j) = name

(* Nobody told something else after assignment j of row i, and before it   *)
(* the last one that told did.                                             *)
Leads(rows, n, k, name, i, j) ==
    \A i2, j2 : Tells(rows, n, k, name, i2, j2) =>
        IF Sooner(i2, j2, i, j)
        THEN \E i3, j3 : /\ Tells(rows, n, k, name, i3, j3)
                         /\ ~Sooner(i3, j3, i2, j2)
                         /\ Sooner(i3, j3, i, j)
                         /\ Contradicts(rows, i3, j3, i, j)
        ELSE ~Contradicts(rows, i2, j2, i, j)

(* The entry of a name comes from assignment j of row i, which leads.      *)
HomeAt(values, rows, n, k, name, i, j) ==
    /\ Tells(rows, n, k, name, i, j)
    /\ values[name].line = rows[i].line
    /\ values[name].value = Says(rows, i, j)
    /\ Leads(rows, n, k, name, i, j)

\* Two of the assignments that were told contradict each other.
Disputed(rows, n, k, name) ==
    \E i, j, i2, j2 : /\ Tells(rows, n, k, name, i, j)
                      /\ Tells(rows, n, k, name, i2, j2)
                      /\ Contradicts(rows, i, j, i2, j2)

\* The warning for a name.
Duplicate(name) == OfTarget("duplicate", name)

(* Every name that was read has its entry, the entry has its home, and the *)
(* names with a warning are those that are disputed.                       *)
Follows(findings, rows, n, k) ==
    /\ \A i, j : ToldAt(rows, n, k, i, j) => Named(rows, i, j) \in DOMAIN findings.values
    /\ \A name \in DOMAIN findings.values :
          \E i, j : HomeAt(findings.values, rows, n, k, name, i, j)
    /\ \A name : Duplicate(name) \in ToSet(findings.warnings) <=> Disputed(rows, n, k, name)

(* The next assignment of a row is told.                                 *)
LEMMA ToldNext ==
    ASSUME NEW rows, NEW n \in Nat \ {0}, NEW k \in Nat
    PROVE  /\ ToldAt(rows, n, k + 1, n, k + 1)
           /\ \A i, j : ToldAt(rows, n, k + 1, i, j)
                           <=> ToldAt(rows, n, k, i, j) \/ (i = n /\ j = k + 1)
           /\ \A i, j : ToldAt(rows, n, k, i, j) =>
                 /\ Sooner(i, j, n, k + 1)
                 /\ ~Sooner(n, k + 1, i, j)
                 /\ ~Sooner(i, j, i, j)
           /\ ~Sooner(n, k + 1, n, k + 1)
  <1>1. ASSUME NEW i, NEW j
        PROVE  ToldAt(rows, n, k + 1, i, j) <=> ToldAt(rows, n, k, i, j) \/ (i = n /\ j = k + 1)
    <2>1. CASE i \in 1 .. n /\ j \in Nat \ {0}
      <3>1. (j <= k + 1) <=> (j <= k \/ j = k + 1)
        BY <2>1
      <3>2. CASE i = n
        <4>1. ~(i < n)
          BY <3>2
        <4>. QED
          BY <2>1, <3>1, <3>2, <4>1 DEF ToldAt
      <3>3. CASE i # n
        BY <2>1, <3>3 DEF ToldAt
      <3>. QED
        BY <3>2, <3>3
    <2>2. CASE ~(i \in 1 .. n /\ j \in Nat \ {0})
      <3>1. n \in 1 .. n /\ k + 1 \in Nat \ {0}
        OBVIOUS
      <3>. QED
        BY <2>2, <3>1 DEF ToldAt
    <2>. QED
      BY <2>1, <2>2
  <1>2. ASSUME NEW i, NEW j, ToldAt(rows, n, k, i, j)
        PROVE  /\ Sooner(i, j, n, k + 1)
               /\ ~Sooner(n, k + 1, i, j)
               /\ ~Sooner(i, j, i, j)
    <2>1. i \in 1 .. n /\ j \in Nat /\ (i < n \/ (i = n /\ j <= k))
      BY <1>2 DEF ToldAt
    <2>2. i < n \/ (i = n /\ j < k + 1)
      BY <2>1
    <2>3. ~(n < i) /\ ~(n = i /\ k + 1 < j)
      BY <2>1
    <2>4. ~(i < i) /\ ~(j < j)
      BY <2>1
    <2>. QED
      BY <2>2, <2>3, <2>4 DEF Sooner
  <1>3. ~Sooner(n, k + 1, n, k + 1)
    BY DEF Sooner
  <1>4. ToldAt(rows, n, k + 1, n, k + 1)
    BY DEF ToldAt
  <1>. QED
    BY <1>1, <1>2, <1>3, <1>4

(* Saying the same is an equivalence.                                      *)
LEMMA SameIsSame ==
    ASSUME NEW rows, NEW i, NEW j
    PROVE  /\ ~Contradicts(rows, i, j, i, j)
           /\ \A i2, j2 : Contradicts(rows, i, j, i2, j2) <=> Contradicts(rows, i2, j2, i, j)
           /\ \A i2, j2, i3, j3 :
                 ~Contradicts(rows, i, j, i2, j2) /\ ~Contradicts(rows, i2, j2, i3, j3)
                    => ~Contradicts(rows, i, j, i3, j3)
  BY DEF Contradicts, SameValue

(* What one more assignment changes for a name: nothing, when it is of     *)
(* another one.                                                            *)
LEMMA OtherNameStays ==
    ASSUME NEW rows, NEW n \in Nat \ {0}, NEW k \in Nat, NEW name,
           name # Named(rows, n, k + 1)
    PROVE  /\ \A i, j : Tells(rows, n, k + 1, name, i, j) <=> Tells(rows, n, k, name, i, j)
           /\ \A i, j : Leads(rows, n, k, name, i, j) => Leads(rows, n, k + 1, name, i, j)
           /\ Disputed(rows, n, k + 1, name) <=> Disputed(rows, n, k, name)
  <1>1. ASSUME NEW i, NEW j
        PROVE  Tells(rows, n, k + 1, name, i, j) <=> Tells(rows, n, k, name, i, j)
    BY ToldNext DEF Tells
  <1>2. ASSUME NEW i, NEW j, Leads(rows, n, k, name, i, j)
        PROVE  Leads(rows, n, k + 1, name, i, j)
    BY <1>1, <1>2 DEF Leads
  <1>3. Disputed(rows, n, k + 1, name) <=> Disputed(rows, n, k, name)
    BY <1>1 DEF Disputed
  <1>. QED
    BY <1>1, <1>2, <1>3

(* The first assignment of a name leads, and disputes nothing.             *)
LEMMA FirstLeads ==
    ASSUME NEW rows, NEW n \in Nat \ {0}, NEW k \in Nat, NEW name,
           name = Named(rows, n, k + 1),
           \A i, j : ~Tells(rows, n, k, name, i, j)
    PROVE  /\ Tells(rows, n, k + 1, name, n, k + 1)
           /\ Leads(rows, n, k + 1, name, n, k + 1)
           /\ ~Disputed(rows, n, k + 1, name)
           /\ ~Disputed(rows, n, k, name)
  <1>1. \A i, j : Tells(rows, n, k + 1, name, i, j) <=> i = n /\ j = k + 1
    BY ToldNext DEF Tells
  <1>2. ~Sooner(n, k + 1, n, k + 1)
    BY ToldNext
  <1>3. ~Contradicts(rows, n, k + 1, n, k + 1)
    BY SameIsSame
  <1>4. Leads(rows, n, k + 1, name, n, k + 1)
    BY <1>1, <1>2, <1>3 DEF Leads
  <1>5. ~Disputed(rows, n, k + 1, name)
    BY <1>1, <1>3 DEF Disputed
  <1>6. ~Disputed(rows, n, k, name)
    BY DEF Disputed
  <1>. QED
    BY <1>1, <1>4, <1>5, <1>6

(* An assignment that agrees with the home of its name leaves it there.    *)
LEMMA AgreeingStays ==
    ASSUME NEW rows, NEW n \in Nat \ {0}, NEW k \in Nat, NEW name,
           name = Named(rows, n, k + 1),
           NEW i, NEW j, Tells(rows, n, k, name, i, j), Leads(rows, n, k, name, i, j),
           ~Contradicts(rows, i, j, n, k + 1)
    PROVE  /\ Tells(rows, n, k + 1, name, i, j)
           /\ Leads(rows, n, k + 1, name, i, j)
           /\ Disputed(rows, n, k + 1, name) <=> Disputed(rows, n, k, name)
  <1>1. \A i2, j2 : Tells(rows, n, k + 1, name, i2, j2)
                      <=> Tells(rows, n, k, name, i2, j2) \/ (i2 = n /\ j2 = k + 1)
    BY ToldNext DEF Tells
  <1>2. ~Sooner(n, k + 1, i, j)
    BY ToldNext DEF Tells
  <1>3. ~Contradicts(rows, n, k + 1, i, j)
    BY SameIsSame
  <1>4. ASSUME NEW i2, NEW j2, Tells(rows, n, k + 1, name, i2, j2)
        PROVE  IF Sooner(i2, j2, i, j)
               THEN \E i3, j3 : /\ Tells(rows, n, k + 1, name, i3, j3)
                                /\ ~Sooner(i3, j3, i2, j2)
                                /\ Sooner(i3, j3, i, j)
                                /\ Contradicts(rows, i3, j3, i, j)
               ELSE ~Contradicts(rows, i2, j2, i, j)
    <2>1. CASE Tells(rows, n, k, name, i2, j2)
      BY <1>1, <2>1 DEF Leads
    <2>2. CASE i2 = n /\ j2 = k + 1
      BY <1>2, <1>3, <2>2
    <2>. QED
      BY <1>1, <1>4, <2>1, <2>2
  <1>5. Leads(rows, n, k + 1, name, i, j)
    BY <1>4 DEF Leads
  <1>6. ASSUME NEW i2, NEW j2, Tells(rows, n, k, name, i2, j2),
               Contradicts(rows, i2, j2, n, k + 1)
        PROVE  Disputed(rows, n, k, name)
    <2>1. Contradicts(rows, i2, j2, i, j)
      BY <1>6, SameIsSame
    <2>. QED
      BY <1>6, <2>1 DEF Disputed
  <1>7. ASSUME Disputed(rows, n, k + 1, name) PROVE Disputed(rows, n, k, name)
    <2>1. PICK i2, j2, i3, j3 : /\ Tells(rows, n, k + 1, name, i2, j2)
                                /\ Tells(rows, n, k + 1, name, i3, j3)
                                /\ Contradicts(rows, i2, j2, i3, j3)
      BY <1>7 DEF Disputed
    <2>2. CASE Tells(rows, n, k, name, i2, j2) /\ Tells(rows, n, k, name, i3, j3)
      BY <2>1, <2>2 DEF Disputed
    <2>3. CASE Tells(rows, n, k, name, i2, j2) /\ i3 = n /\ j3 = k + 1
      BY <1>6, <2>1, <2>3
    <2>4. CASE i2 = n /\ j2 = k + 1 /\ Tells(rows, n, k, name, i3, j3)
      <3>1. Contradicts(rows, i3, j3, n, k + 1)
        BY <2>1, <2>4, SameIsSame
      <3>. QED
        BY <1>6, <2>4, <3>1
    <2>5. CASE i2 = n /\ j2 = k + 1 /\ i3 = n /\ j3 = k + 1
      BY <2>1, <2>5, SameIsSame
    <2>. QED
      BY <1>1, <2>1, <2>2, <2>3, <2>4, <2>5
  <1>8. Disputed(rows, n, k, name) => Disputed(rows, n, k + 1, name)
    BY <1>1 DEF Disputed
  <1>. QED
    BY <1>1, <1>5, <1>7, <1>8

(* An assignment that contradicts it is the new home, and a dispute.       *)
LEMMA ContradictionLeads ==
    ASSUME NEW rows, NEW n \in Nat \ {0}, NEW k \in Nat, NEW name,
           name = Named(rows, n, k + 1),
           NEW i, NEW j, Tells(rows, n, k, name, i, j), Leads(rows, n, k, name, i, j),
           Contradicts(rows, i, j, n, k + 1)
    PROVE  /\ Tells(rows, n, k + 1, name, n, k + 1)
           /\ Leads(rows, n, k + 1, name, n, k + 1)
           /\ Disputed(rows, n, k + 1, name)
  <1>1. \A i2, j2 : Tells(rows, n, k + 1, name, i2, j2)
                      <=> Tells(rows, n, k, name, i2, j2) \/ (i2 = n /\ j2 = k + 1)
    BY ToldNext DEF Tells
  <1>2. ~Sooner(n, k + 1, n, k + 1)
    BY ToldNext
  <1>3. \A i2, j2 : Tells(rows, n, k, name, i2, j2) =>
           Sooner(i2, j2, n, k + 1) /\ ~Sooner(i2, j2, i2, j2)
    BY ToldNext DEF Tells
  <1>4. ASSUME NEW i2, NEW j2, Tells(rows, n, k, name, i2, j2)
        PROVE  \E i3, j3 : /\ Tells(rows, n, k, name, i3, j3)
                           /\ ~Sooner(i3, j3, i2, j2)
                           /\ Contradicts(rows, i3, j3, n, k + 1)
    <2>1. CASE ~Sooner(i, j, i2, j2)
      BY <2>1
    <2>2. CASE Sooner(i, j, i2, j2)
      <3>1. ~Sooner(i2, j2, i, j)
        <4>1. i \in Int /\ j \in Int /\ i2 \in Int /\ j2 \in Int
          BY <1>4 DEF Tells, ToldAt
        <4>. QED
          BY <2>2, <4>1 DEF Sooner
      <3>2. ~Contradicts(rows, i2, j2, i, j)
        BY <1>4, <3>1 DEF Leads
      <3>3. Contradicts(rows, i2, j2, n, k + 1)
        <4>1. ~Contradicts(rows, i, j, i2, j2)
          BY <3>2, SameIsSame
        <4>. QED
          BY <4>1, SameIsSame
      <3>. QED
        BY <1>3, <1>4, <3>3
    <2>. QED
      BY <2>1, <2>2
  <1>5. ASSUME NEW i2, NEW j2, Tells(rows, n, k + 1, name, i2, j2)
        PROVE  IF Sooner(i2, j2, n, k + 1)
               THEN \E i3, j3 : /\ Tells(rows, n, k + 1, name, i3, j3)
                                /\ ~Sooner(i3, j3, i2, j2)
                                /\ Sooner(i3, j3, n, k + 1)
                                /\ Contradicts(rows, i3, j3, n, k + 1)
               ELSE ~Contradicts(rows, i2, j2, n, k + 1)
    <2>1. CASE Tells(rows, n, k, name, i2, j2)
      BY <1>1, <1>3, <1>4, <2>1
    <2>2. CASE i2 = n /\ j2 = k + 1
      BY <1>2, <2>2, SameIsSame
    <2>. QED
      BY <1>1, <1>5, <2>1, <2>2
  <1>6. Leads(rows, n, k + 1, name, n, k + 1)
    BY <1>5 DEF Leads
  <1>7. Tells(rows, n, k + 1, name, n, k + 1) /\ Tells(rows, n, k + 1, name, i, j)
    BY <1>1
  <1>8. Disputed(rows, n, k + 1, name)
    BY <1>7 DEF Disputed
  <1>. QED
    BY <1>6, <1>7, <1>8

(* One more assignment is read.                                            *)
LEMMA StoreValueFollows ==
    ASSUME NEW rows, IsRows(rows), NEW n \in 1 .. Len(rows), NEW k \in Nat,
           k + 1 \in 1 .. Len(rows[n].sets),
           NEW findings, findings \in Findings(rows), Follows(findings, rows, n, k)
    PROVE  Follows(StoreValue(findings, rows[n], rows[n].sets[k + 1]), rows, n, k + 1)
  <1> DEFINE a == rows[n].sets[k + 1]
             name == a.name
             entry == Extracted(rows[n], a)
             values == findings.values
             warnings == findings.warnings
             next == StoreValue(findings, rows[n], a)
  <1>1. n \in Nat \ {0} /\ name = Named(rows, n, k + 1)
        /\ Coerce(a.form, a.v) = Says(rows, n, k + 1)
    BY DEF Named, Says, IsRows
  <1>2. entry.value = Says(rows, n, k + 1) /\ entry.line = rows[n].line
    BY <1>1 DEF Extracted
  <1>3. a \in Assignments(rows)
    <2>1. rows[n].sets \in Seq(ToSet(rows[n].sets))
      BY DEF IsRows
    <2>2. a \in ToSet(rows[n].sets)
      BY <2>1
    <2>. QED
      BY <2>2 DEF Assignments
  <1>4. name \in Names(rows) /\ entry \in Entries(rows)
    BY <1>3 DEF Names, Entries
  <1>5. /\ values \in UNION {[N -> Entries(rows)] : N \in SUBSET Names(rows)}
        /\ warnings \in Seq({OfTarget("duplicate", x) : x \in Names(rows)})
        /\ findings = [values |-> values, warnings |-> warnings]
    BY DEF Findings
  <1> DEFINE p == Put(values, name, entry)
             w == Append(warnings, Duplicate(name))
  <1>6. /\ DOMAIN p = DOMAIN values \cup {name}
        /\ p[name] = entry
        /\ \A m \in DOMAIN values : m # name => p[m] = values[m]
    <2> DEFINE E == Entries(rows)
               M == Names(rows)
    <2> HIDE DEF E, M, entry, values, a
    <2>1. IsMap(values, M, E) /\ name \in M /\ entry \in E
      BY <1>4, <1>5 DEF E, M, IsMap
    <2>2. HasPut(p, values, name, entry)
      BY <2>1, PutType DEF p
    <2>. QED
      BY <2>2 DEF HasPut
  <1>7. ToSet(w) = ToSet(warnings) \cup {Duplicate(name)}
    BY <1>5, AppendElements
  <1>8. \A x, y : Duplicate(x) = Duplicate(y) => x = y
    BY DEF Duplicate, OfTarget
  <1> DEFINE known == name \in DOMAIN values
             same == SameValue(values[name].value, Coerce(a.form, a.v))
  <1>9. /\ ~known => next.values = p /\ next.warnings = warnings
        /\ known /\ same => next.values = values /\ next.warnings = warnings
        /\ known /\ ~same => next.values = p /\ next.warnings = w
    BY <1>5 DEF StoreValue, Duplicate
  <1> HIDE DEF a, entry, values, warnings, next, p, w, name, same
  <1>10. \A i, j : ToldAt(rows, n, k, i, j) => Named(rows, i, j) \in DOMAIN values
    BY DEF Follows, values
  <1>11. \A m \in DOMAIN values : \E i, j : HomeAt(values, rows, n, k, m, i, j)
    BY DEF Follows, values
  <1>12. \A m : Duplicate(m) \in ToSet(warnings) <=> Disputed(rows, n, k, m)
    BY DEF Follows, warnings
  <1>13. ASSUME NEW i, NEW j, ToldAt(rows, n, k + 1, i, j)
         PROVE  Named(rows, i, j) \in DOMAIN next.values
    <2>1. ToldAt(rows, n, k, i, j) \/ (i = n /\ j = k + 1)
      BY <1>1, <1>13, ToldNext
    <2>. QED
      BY <1>1, <1>6, <1>9, <1>10, <2>1
  <1>14. ASSUME NEW m, m # name
         PROVE  /\ m \in DOMAIN next.values =>
                      \E i, j : HomeAt(next.values, rows, n, k + 1, m, i, j)
                /\ Duplicate(m) \in ToSet(next.warnings) <=> Disputed(rows, n, k + 1, m)
    <2>1. /\ \A i, j : Tells(rows, n, k + 1, m, i, j) <=> Tells(rows, n, k, m, i, j)
          /\ \A i, j : Leads(rows, n, k, m, i, j) => Leads(rows, n, k + 1, m, i, j)
          /\ Disputed(rows, n, k + 1, m) <=> Disputed(rows, n, k, m)
      BY <1>1, <1>14, OtherNameStays
    <2>2. ASSUME m \in DOMAIN next.values
          PROVE  \E i, j : HomeAt(next.values, rows, n, k + 1, m, i, j)
      <3>1. m \in DOMAIN values /\ next.values[m] = values[m]
        BY <1>6, <1>9, <1>14, <2>2
      <3>2. PICK i, j : HomeAt(values, rows, n, k, m, i, j)
        BY <1>11, <3>1
      <3>3. HomeAt(next.values, rows, n, k + 1, m, i, j)
        BY <2>1, <3>1, <3>2 DEF HomeAt
      <3>. QED
        BY <3>3
    <2>3. Duplicate(m) \in ToSet(next.warnings) <=> Duplicate(m) \in ToSet(warnings)
      BY <1>7, <1>8, <1>9, <1>14
    <2>. QED
      BY <1>12, <2>1, <2>2, <2>3
  <1>15. /\ \E i, j : HomeAt(next.values, rows, n, k + 1, name, i, j)
         /\ Duplicate(name) \in ToSet(next.warnings) <=> Disputed(rows, n, k + 1, name)
    <2>1. CASE ~known
      <3>1. \A i, j : ~Tells(rows, n, k, name, i, j)
        BY <1>10, <2>1 DEF Tells
      <3>2. /\ Tells(rows, n, k + 1, name, n, k + 1)
            /\ Leads(rows, n, k + 1, name, n, k + 1)
            /\ ~Disputed(rows, n, k + 1, name)
            /\ ~Disputed(rows, n, k, name)
        BY <1>1, <3>1, FirstLeads
      <3>3. HomeAt(next.values, rows, n, k + 1, name, n, k + 1)
        BY <1>2, <1>6, <1>9, <2>1, <3>2 DEF HomeAt
      <3>. QED
        BY <1>9, <1>12, <2>1, <3>2, <3>3
    <2>2. CASE known
      <3>1. PICK i, j : HomeAt(values, rows, n, k, name, i, j)
        BY <1>11, <2>2
      <3>2. /\ Tells(rows, n, k, name, i, j) /\ Leads(rows, n, k, name, i, j)
            /\ values[name].line = rows[i].line
            /\ values[name].value = Says(rows, i, j)
        BY <3>1 DEF HomeAt
      <3>3. same <=> ~Contradicts(rows, i, j, n, k + 1)
        BY <1>1, <3>2 DEF same, Contradicts
      <3>4. CASE same
        <4>1. /\ Tells(rows, n, k + 1, name, i, j)
              /\ Leads(rows, n, k + 1, name, i, j)
              /\ Disputed(rows, n, k + 1, name) <=> Disputed(rows, n, k, name)
          BY <1>1, <3>2, <3>3, <3>4, AgreeingStays
        <4>2. HomeAt(next.values, rows, n, k + 1, name, i, j)
          BY <1>9, <2>2, <3>2, <3>4, <4>1 DEF HomeAt
        <4>. QED
          BY <1>9, <1>12, <2>2, <3>4, <4>1, <4>2
      <3>5. CASE ~same
        <4>1. /\ Tells(rows, n, k + 1, name, n, k + 1)
              /\ Leads(rows, n, k + 1, name, n, k + 1)
              /\ Disputed(rows, n, k + 1, name)
          BY <1>1, <3>2, <3>3, <3>5, ContradictionLeads
        <4>2. HomeAt(next.values, rows, n, k + 1, name, n, k + 1)
          BY <1>2, <1>6, <1>9, <2>2, <3>5, <4>1 DEF HomeAt
        <4>. QED
          BY <1>7, <1>9, <2>2, <3>5, <4>1, <4>2
      <3>. QED
        BY <3>4, <3>5
    <2>. QED
      BY <2>1, <2>2
  <1>16. \A m \in DOMAIN next.values : \E i, j : HomeAt(next.values, rows, n, k + 1, m, i, j)
    BY <1>14, <1>15
  <1>17. \A m : Duplicate(m) \in ToSet(next.warnings) <=> Disputed(rows, n, k + 1, m)
    BY <1>14, <1>15
  <1>18. Follows(next, rows, n, k + 1)
    BY <1>13, <1>16, <1>17 DEF Follows
  <1>. QED
    BY <1>18 DEF next, a

(* A row is read.                                                          *)
LEMMA ExtractRowFollows ==
    ASSUME NEW rows, IsRows(rows), NEW n \in 1 .. Len(rows),
           NEW findings, findings \in Findings(rows), Follows(findings, rows, n, 0)
    PROVE  Follows(ExtractRow(findings, rows[n]), rows, n, Len(rows[n].sets))
  <1> DEFINE N == Len(rows[n].sets)
  <1>1. PICK F : /\ StoresAlong(F, findings, rows[n])
                 /\ \A k \in 0 .. N : F[k] \in Findings(rows)
    BY ExtractRowUnfolds
  <1>2. N \in Nat
    BY DEF IsRows
  <1> DEFINE Good == {k \in 0 .. N : Follows(F[k], rows, n, k)}
  <1>3. 0 \in Good
    BY <1>1, <1>2 DEF StoresAlong
  <1>4. ASSUME NEW k \in 1 .. N, k - 1 \in Good PROVE k \in Good
    <2>1. k - 1 \in Nat /\ k - 1 \in 0 .. N /\ (k - 1) + 1 = k
      BY <1>2
    <2>2. F[k - 1] \in Findings(rows) /\ Follows(F[k - 1], rows, n, k - 1)
      BY <1>1, <1>4, <2>1
    <2>3. (k - 1) + 1 \in 1 .. Len(rows[n].sets)
      BY <2>1
    <2>4. Follows(StoreValue(F[k - 1], rows[n], rows[n].sets[(k - 1) + 1]),
                  rows, n, (k - 1) + 1)
      BY <2>1, <2>2, <2>3, StoreValueFollows
    <2>5. F[k] = StoreValue(F[k - 1], rows[n], rows[n].sets[k])
      BY <1>1 DEF StoresAlong
    <2>. QED
      BY <2>1, <2>4, <2>5
  <1>5. \A k \in 1 .. N : k - 1 \in Good => k \in Good
    BY <1>4
  <1> HIDE DEF Good
  <1>6. \A k \in 0 .. N : k \in Good
    BY <1>2, <1>3, <1>5, UpTo
  <1>7. N \in 0 .. N
    BY <1>2
  <1>8. Follows(F[N], rows, n, N)
    BY <1>6, <1>7 DEF Good
  <1>. QED
    BY <1>1, <1>8 DEF StoresAlong

(* Being through with a row is being at the start of the next one.         *)
LEMMA RowEnds ==
    ASSUME NEW rows, IsRows(rows), NEW n \in 1 .. Len(rows), NEW findings,
           Follows(findings, rows, n, Len(rows[n].sets))
    PROVE  Follows(findings, rows, n + 1, 0)
  <1>1. n \in Nat \ {0} /\ Len(rows[n].sets) \in Nat
    BY DEF IsRows
  <1>2. ASSUME NEW i, NEW j
        PROVE  ToldAt(rows, n + 1, 0, i, j) <=> ToldAt(rows, n, Len(rows[n].sets), i, j)
    <2>1. CASE i \in 1 .. n + 1 /\ j \in Nat \ {0}
      <3>1. CASE i = n + 1
        BY <1>1, <2>1, <3>1 DEF ToldAt
      <3>2. CASE i = n
        BY <1>1, <2>1, <3>2 DEF ToldAt
      <3>3. CASE i \notin {n, n + 1}
        BY <1>1, <2>1, <3>3 DEF ToldAt
      <3>. QED
        BY <3>1, <3>2, <3>3
    <2>2. CASE ~(i \in 1 .. n + 1 /\ j \in Nat \ {0})
      <3>1. \A x \in 1 .. n : x \in 1 .. n + 1
        BY <1>1
      <3>. QED
        BY <2>2, <3>1 DEF ToldAt
    <2>. QED
      BY <2>1, <2>2
  <1> DEFINE k == Len(rows[n].sets)
  <1> HIDE DEF k
  <1>3. \A name, i, j : Tells(rows, n + 1, 0, name, i, j) <=> Tells(rows, n, k, name, i, j)
    BY <1>2 DEF Tells, k
  <1>4. \A i, j : ToldAt(rows, n + 1, 0, i, j) => Named(rows, i, j) \in DOMAIN findings.values
    BY <1>2 DEF Follows
  <1>5. ASSUME NEW name \in DOMAIN findings.values
        PROVE  \E i, j : HomeAt(findings.values, rows, n + 1, 0, name, i, j)
    <2>1. PICK i, j : HomeAt(findings.values, rows, n, k, name, i, j)
      BY DEF Follows, k
    <2>2. Leads(rows, n + 1, 0, name, i, j)
      BY <1>3, <2>1 DEF HomeAt, Leads
    <2>3. HomeAt(findings.values, rows, n + 1, 0, name, i, j)
      BY <1>3, <2>1, <2>2 DEF HomeAt
    <2>. QED
      BY <2>3
  <1>6. ASSUME NEW name
        PROVE  Duplicate(name) \in ToSet(findings.warnings) <=> Disputed(rows, n + 1, 0, name)
    <2>1. Disputed(rows, n + 1, 0, name) <=> Disputed(rows, n, k, name)
      BY <1>3 DEF Disputed
    <2>. QED
      BY <2>1 DEF Follows, k
  <1>. QED
    BY <1>4, <1>5, <1>6 DEF Follows

(* What is extracted from the rows: every name has its last value, and a   *)
(* warning when there was another one.                                     *)
LEMMA ExtractedValuesFollow ==
    ASSUME NEW rows, IsRows(rows)
    PROVE  /\ ExtractValues(rows) \in Findings(rows)
           /\ Follows(ExtractValues(rows), rows, Len(rows) + 1, 0)
  <1> DEFINE N == Len(rows)
  <1>1. PICK G : ExtractsAlong(G, rows)
    BY ExtractUnfolds
  <1>2. N \in Nat
    BY DEF IsRows
  <1> DEFINE Good == {n \in 0 .. N : Follows(G[n], rows, n + 1, 0)}
  <1>3. 0 \in Good
    <2>1. G[0].values = <<>> /\ DOMAIN <<>> = {} /\ G[0].warnings = <<>> /\ ToSet(<<>>) = {}
      BY <1>1 DEF ExtractsAlong, NoValues, ToSet
    <2>2. ASSUME NEW i, NEW j PROVE ~ToldAt(rows, 0 + 1, 0, i, j)
      BY DEF ToldAt
    <2>3. Follows(G[0], rows, 0 + 1, 0)
      BY <2>1, <2>2 DEF Follows, Disputed, Tells
    <2>. QED
      BY <1>2, <2>3
  <1>4. ASSUME NEW n \in 1 .. N, n - 1 \in Good PROVE n \in Good
    <2>1. n - 1 \in 0 .. N /\ (n - 1) + 1 = n /\ n \in 0 .. N
      BY <1>2
    <2>2. G[n - 1] \in Findings(rows) /\ G[n] = ExtractRow(G[n - 1], rows[n])
      BY <1>1, <2>1 DEF ExtractsAlong
    <2>3. Follows(G[n - 1], rows, n, 0)
      BY <1>4, <2>1
    <2>4. Follows(G[n], rows, n, Len(rows[n].sets))
      BY <2>2, <2>3, ExtractRowFollows
    <2>5. Follows(G[n], rows, n + 1, 0)
      BY <2>4, RowEnds
    <2>. QED
      BY <2>1, <2>5
  <1>5. \A n \in 1 .. N : n - 1 \in Good => n \in Good
    BY <1>4
  <1> HIDE DEF Good
  <1>6. \A n \in 0 .. N : n \in Good
    BY <1>2, <1>3, <1>5, UpTo
  <1>7. N \in 0 .. N
    BY <1>2
  <1>8. Follows(G[N], rows, N + 1, 0)
    BY <1>6, <1>7 DEF Good
  <1>. QED
    BY <1>1, <1>7, <1>8 DEF ExtractsAlong

-----------------------------------------------------------------------------
(* What the parser has in memory                                           *)

LinesOf(a) == DataLines(input.files[a])

RowsIn(a) == RowsOf(input.files[a], input.zones)

\* What the input gives of an artifact.
IsGiven(a) == /\ a \in Artifacts
              /\ IsFile(input.files[a])
              /\ ZonesOK(input.zones)

(* The input and what is stored of it have their types.                    *)
LEMMA StoredIsGiven ==
    ASSUME AnalysisInv
    PROVE  \A a \in Artifacts : IsGiven(a)
  <1>1. IsInput(input) /\ Artifacts = 1 .. Len(input.files)
    BY GivenIsInput DEF AnalysisInv
  <1>2. \A a \in Artifacts : input.files[a] \in ToSet(input.files)
    BY DEF ToSet, Artifacts
  <1>. QED
    BY <1>1, <1>2 DEF IsInput, IsGiven, ZonesOK

(* A row of the trace is a line of the file.                               *)
LEMMA RowsAreLines ==
    ASSUME NEW a, IsGiven(a)
    PROVE  /\ RawOf(a).trace.rows = RowsIn(a)
           /\ Len(LinesOf(a)) \in Nat
           /\ DOMAIN LinesOf(a) = 1 .. Len(LinesOf(a))
           /\ DOMAIN RowsIn(a) = 1 .. Len(LinesOf(a))
           /\ Len(RowsIn(a)) = Len(LinesOf(a))
           /\ \A i \in 1 .. Len(LinesOf(a)) :
                 /\ IsLine(LinesOf(a)[i])
                 /\ RowsIn(a)[i] = RowOf(i, LinesOf(a)[i], input.zones)
           /\ IsRows(RowsIn(a))
  <1> DEFINE lines == LinesOf(a)
             rows == RowsIn(a)
  <1>1. RawOf(a).trace.rows = rows
    BY NormalizedRowsAre DEF RawOf, RowsIn, IsGiven
  <1>2. /\ Len(lines) \in Nat
        /\ DOMAIN lines = 1 .. Len(lines)
        /\ \A i \in 1 .. Len(lines) : IsLine(lines[i])
    BY DataLinesAreLines DEF IsGiven, LinesOf
  <1>3. rows = [i \in 1 .. Len(lines) |-> RowOf(i, lines[i], input.zones)]
    BY DEF RowsIn, RowsOf, LinesOf
  <1> HIDE DEF rows, lines
  <1>4. rows \in Seq(ToSet(rows)) /\ Len(rows) = Len(lines)
    <2>1. DOMAIN rows = 1 .. Len(lines)
      BY <1>3
    <2>2. \A i \in 1 .. Len(lines) : rows[i] \in ToSet(rows)
      BY <2>1 DEF ToSet
    <2>3. rows = [i \in 1 .. Len(lines) |-> rows[i]]
      BY <1>3, <2>1
    <2>4. rows \in [1 .. Len(lines) -> ToSet(rows)]
      BY <2>2, <2>3
    <2>. QED
      BY <1>2, <2>1, <2>4
  <1>5. \A i \in 1 .. Len(lines) : rows[i].sets \in Seq(ToSet(rows[i].sets))
    BY <1>2, <1>3 DEF RowOf, IsLine
  <1>6. IsRows(rows)
    BY <1>4, <1>5 DEF IsRows
  <1>7. DOMAIN rows = 1 .. Len(lines)
    BY <1>3
  <1>8. \A i \in 1 .. Len(lines) : rows[i] = RowOf(i, lines[i], input.zones)
    BY <1>3
  <1>. QED
    BY <1>1, <1>2, <1>4, <1>6, <1>7, <1>8 DEF rows, lines

(* What a row of the trace says.                                           *)
LEMMA RowSays ==
    ASSUME NEW a, IsGiven(a), NEW i \in 1 .. Len(LinesOf(a))
    PROVE  /\ RowsIn(a)[i].line = i + 1
           /\ RowsIn(a)[i].time = TimeOf(LinesOf(a)[i].stamp, input.zones)
           /\ RowsIn(a)[i].stamp = LinesOf(a)[i].stamp
           /\ RowsIn(a)[i].call = LinesOf(a)[i].call
           /\ RowsIn(a)[i].event = LinesOf(a)[i].event
           /\ RowsIn(a)[i].info = LinesOf(a)[i].info
           /\ RowsIn(a)[i].sets = LinesOf(a)[i].sets
           /\ RowsIn(a)[i] = [line |-> RowsIn(a)[i].line, time |-> RowsIn(a)[i].time,
                              stamp |-> RowsIn(a)[i].stamp, call |-> RowsIn(a)[i].call,
                              event |-> RowsIn(a)[i].event, info |-> RowsIn(a)[i].info,
                              sets |-> RowsIn(a)[i].sets]
  <1>1. RowsIn(a)[i] = RowOf(i, LinesOf(a)[i], input.zones)
    BY RowsAreLines
  <1>. QED
    BY <1>1 DEF RowOf

(* The parts of the parsed trace, and those of its document.               *)
LEMMA InMemoryIsParsed ==
    ASSUME NEW a, IsGiven(a)
    PROVE  /\ IsParsed(ParsedInMemory(a))
           /\ ParsedInMemory(a).artifact = a
           /\ ParsedInMemory(a).raw_trace = RawOf(a).trace
           /\ ParsedInMemory(a).raw_trace.rows = RowsIn(a)
           /\ ParsedInMemory(a).evidences = Evidences(RowsIn(a))
           /\ ParsedInMemory(a).signals = Signals(RowsIn(a))
           /\ ParsedInMemory(a).extracted = ExtractValues(RowsIn(a))
           /\ ParsedInMemory(a).mapped = MappingOf(a)
           /\ ParsedInMemory(a).warnings =
                Distinct(RawOf(a).warnings \o RawOf(a).trace.parser_warnings
                           \o ExtractValues(RowsIn(a)).warnings \o MappingOf(a).warnings)
           /\ ParsedInMemory(a).errors = Distinct(RawOf(a).errors \o MappingOf(a).errors)
  <1> DEFINE p == ParsedInMemory(a)
             t == RawOf(a).trace
             m == MappingOf(a)
             e == ExtractValues(RowsIn(a))
  <1>1. t.rows = RowsIn(a) /\ IsRows(RowsIn(a))
    BY RowsAreLines
  <1>2. p = ParsedTrace(a, t, MessagesOf(a), PartsOf(a), m)
    BY InMemoryParts
  <1>3. /\ PartsOf(a).evidences = Evidences(RowsIn(a))
        /\ PartsOf(a).signals = Signals(RowsIn(a))
        /\ PartsOf(a).extracted = e
    BY <1>1 DEF PartsOf
  <1>4. MessagesOf(a).warnings = RawOf(a).warnings /\ MessagesOf(a).errors = RawOf(a).errors
    BY DEF MessagesOf
  <1>5. IsTrace(t)
    BY DEF RawOf, NormalizedTrace, IsTrace
  <1>6. IsMapping(m)
    BY DEF MappingOf, NormalizedMapping, IsMapping
  <1>7. e \in Findings(RowsIn(a))
    BY <1>1, ExtractedValuesFollow
  <1>8. IsExtraction(e)
    BY <1>7 DEF Findings, IsExtraction
  <1> HIDE DEF p, t, m, e
  <1>9. /\ p.artifact = a /\ p.raw_trace = t /\ p.mapped = m
        /\ p.evidences = Evidences(RowsIn(a))
        /\ p.signals = Signals(RowsIn(a))
        /\ p.extracted = e
        /\ p.warnings = Distinct(RawOf(a).warnings \o t.parser_warnings
                                   \o e.warnings \o m.warnings)
        /\ p.errors = Distinct(RawOf(a).errors \o m.errors)
        /\ p = [artifact |-> p.artifact, raw_trace |-> p.raw_trace, evidences |-> p.evidences,
                signals |-> p.signals, extracted |-> p.extracted, mapped |-> p.mapped,
                warnings |-> p.warnings, errors |-> p.errors]
    BY <1>2, <1>3, <1>4 DEF ParsedTrace
  <1>10. IsParsed(p)
    BY <1>5, <1>6, <1>8, <1>9 DEF IsParsed
  <1>. QED
    BY <1>1, <1>9, <1>10 DEF p, t, m, e

(* A stored document tells of one artifact.                                *)
LEMMA DocumentTells ==
    ASSUME AnalysisInv, snapshot # NoValue
    PROVE  \E a \in Stored : /\ IsGiven(a)
                             /\ IsParsed(Document)
                             /\ DictFacts(Document, ParsedInMemory(a))
                             /\ Document.artifact = a
                             /\ snapshot.is_valid <=> ParsedInMemory(a).errors = <<>>
  <1>1. PICK a \in Stored : snapshot = Snapshot(ParsedInMemory(a))
    BY DEF AnalysisInv, StoreFollows
  <1>2. IsGiven(a)
    BY StoredIsGiven DEF Stored
  <1>3. Document = ToDict(ParsedInMemory(a))
        /\ snapshot.is_valid = IsValid(ParsedInMemory(a))
    BY <1>1 DEF Snapshot, Document
  <1>4. IsParsed(ParsedInMemory(a)) /\ ParsedInMemory(a).artifact = a
    BY <1>2, InMemoryIsParsed
  <1>5. IsParsed(Document) /\ DictFacts(Document, ParsedInMemory(a))
    BY <1>3, <1>4, DictSays
  <1>6. Document.artifact = a
    BY <1>4, <1>5 DEF DictFacts
  <1>. QED
    BY <1>2, <1>3, <1>5, <1>6 DEF IsValid

-----------------------------------------------------------------------------
(* Messages                                                                *)

\* m has an element for each element of k.
Renders(m, k) == m = [i \in DOMAIN k |-> m[i]]

(* What is written of the kept elements.                                   *)
LEMMA KeptAreRendered ==
    ASSUME NEW s, s \in Seq(ToSet(s)), NEW T, NEW m, Renders(m, Kept(s, T))
    PROVE  /\ m \in Seq(ToSet(m))
           /\ DOMAIN m = 1 .. Len(Kept(s, T))
           /\ Len(Kept(s, T)) \in Nat
           /\ \A i \in 1 .. Len(Kept(s, T)) :
                 m[i] \in ToSet(m) /\ Kept(s, T)[i] \in ToSet(s) \cap T
           /\ \A x \in ToSet(s) \cap T : \E i \in 1 .. Len(Kept(s, T)) : Kept(s, T)[i] = x
           /\ m = <<>> <=> ToSet(s) \cap T = {}
  <1> DEFINE k == Kept(s, T)
             R == ToSet(s) \cap T
  <1>1. k \in Seq(ToSet(s)) /\ ToSet(k) = R
    BY KeptElements
  <1> HIDE DEF k, R
  <1>2. Len(k) \in Nat /\ DOMAIN k = 1 .. Len(k)
    BY <1>1
  <1>3. DOMAIN m = 1 .. Len(k) /\ m = [i \in 1 .. Len(k) |-> m[i]]
    BY <1>2 DEF Renders, k
  <1>4. \A i \in 1 .. Len(k) : m[i] \in ToSet(m)
    BY <1>3 DEF ToSet
  <1>5. m \in Seq(ToSet(m)) /\ Len(m) = Len(k)
    <2>1. m \in [1 .. Len(k) -> ToSet(m)]
      BY <1>3, <1>4
    <2>. QED
      BY <1>2, <1>3, <2>1
  <1>6. \A i \in 1 .. Len(k) : k[i] \in R
    BY <1>1, <1>2 DEF ToSet
  <1>7. \A x \in R : \E i \in 1 .. Len(k) : k[i] = x
    BY <1>1, <1>2 DEF ToSet
  <1>8. m = <<>> <=> R = {}
    <2>1. m = <<>> <=> Len(k) = 0
      BY <1>5
    <2>2. R = {} <=> Len(k) = 0
      <3>1. CASE Len(k) = 0
        BY <1>7, <3>1
      <3>2. CASE Len(k) # 0
        <4>1. 1 \in 1 .. Len(k)
          BY <1>2, <3>2
        <4>. QED
          BY <1>6, <3>2, <4>1
      <3>. QED
        BY <3>1, <3>2
    <2>. QED
      BY <2>1, <2>2
  <1>. QED
    BY <1>2, <1>3, <1>4, <1>5, <1>6, <1>7, <1>8 DEF k, R

\* The messages that name the lines or the targets of the elements of T.
LineMessages(what, s, T) ==
    [i \in DOMAIN Kept(s, T) |-> AtLine(what, Kept(s, T)[i].line)]

TargetMessages(what, s, T) ==
    [i \in DOMAIN Kept(s, T) |-> OfTarget(what, Kept(s, T)[i].target)]

IsMessages(m) == m \in Seq(ToSet(m))

\* No message is about a value that was dropped.
NoDuplicates(m) == \A x \in ToSet(m) : x.what # "duplicate"

\* There are messages when R has elements, and they name them.
TellLines(m, R) == /\ m = <<>> <=> R = {}
                   /\ \A r \in R : \E x \in ToSet(m) : x.line = r.line

TellTargets(m, R) == /\ m = <<>> <=> R = {}
                     /\ \A r \in R : \E x \in ToSet(m) : x.target = r.target

(* A row that a message is about is named by its line.                     *)
LEMMA LinesAreTold ==
    ASSUME NEW what, NEW s, s \in Seq(ToSet(s)), NEW T
    PROVE  /\ IsMessages(LineMessages(what, s, T))
           /\ TellLines(LineMessages(what, s, T), ToSet(s) \cap T)
           /\ what # "duplicate" => NoDuplicates(LineMessages(what, s, T))
  <1> DEFINE m == LineMessages(what, s, T)
             k == Kept(s, T)
  <1>1. Renders(m, k) /\ \A i \in DOMAIN k : m[i].line = k[i].line /\ m[i].what = what
    BY DEF LineMessages, AtLine, Renders
  <1> HIDE DEF m
  <1>2. /\ m \in Seq(ToSet(m))
        /\ DOMAIN m = 1 .. Len(k)
        /\ \A i \in 1 .. Len(k) : m[i] \in ToSet(m)
        /\ \A x \in ToSet(s) \cap T : \E i \in 1 .. Len(k) : k[i] = x
        /\ m = <<>> <=> ToSet(s) \cap T = {}
    BY <1>1, KeptAreRendered
  <1>3. DOMAIN k = DOMAIN m
    BY <1>1 DEF Renders
  <1> HIDE DEF k
  <1>4. \A r \in ToSet(s) \cap T : \E x \in ToSet(m) : x.line = r.line
    BY <1>1, <1>2, <1>3
  <1>5. \A x \in ToSet(m) : x.what = what
    BY <1>1, <1>3 DEF ToSet
  <1>. QED
    BY <1>2, <1>4, <1>5 DEF m, IsMessages, TellLines, NoDuplicates

(* A target that a message is about is named.                              *)
LEMMA TargetsAreTold ==
    ASSUME NEW what, NEW s, s \in Seq(ToSet(s)), NEW T
    PROVE  /\ IsMessages(TargetMessages(what, s, T))
           /\ TellTargets(TargetMessages(what, s, T), ToSet(s) \cap T)
           /\ what # "duplicate" => NoDuplicates(TargetMessages(what, s, T))
  <1> DEFINE m == TargetMessages(what, s, T)
             k == Kept(s, T)
  <1>1. Renders(m, k) /\ \A i \in DOMAIN k : m[i].target = k[i].target /\ m[i].what = what
    BY DEF TargetMessages, OfTarget, Renders
  <1> HIDE DEF m
  <1>2. /\ m \in Seq(ToSet(m))
        /\ DOMAIN m = 1 .. Len(k)
        /\ \A i \in 1 .. Len(k) : m[i] \in ToSet(m)
        /\ \A x \in ToSet(s) \cap T : \E i \in 1 .. Len(k) : k[i] = x
        /\ m = <<>> <=> ToSet(s) \cap T = {}
    BY <1>1, KeptAreRendered
  <1>3. DOMAIN k = DOMAIN m
    BY <1>1 DEF Renders
  <1> HIDE DEF k
  <1>4. \A r \in ToSet(s) \cap T : \E x \in ToSet(m) : x.target = r.target
    BY <1>1, <1>2, <1>3
  <1>5. \A x \in ToSet(m) : x.what = what
    BY <1>1, <1>3 DEF ToSet
  <1>. QED
    BY <1>2, <1>4, <1>5 DEF m, IsMessages, TellTargets, NoDuplicates

(* Two lists of messages in one.                                           *)
LEMMA MessagesJoin ==
    ASSUME NEW k, IsMessages(k), NEW l, IsMessages(l)
    PROVE  /\ IsMessages(k \o l)
           /\ ToSet(k \o l) = ToSet(k) \cup ToSet(l)
           /\ k \o l = <<>> <=> k = <<>> /\ l = <<>>
  <1>1. k \in Seq(ToSet(k)) /\ l \in Seq(ToSet(l))
    BY DEF IsMessages
  <1>2. k \o l \in Seq(ToSet(k) \cup ToSet(l)) /\ ToSet(k \o l) = ToSet(k) \cup ToSet(l)
    BY <1>1, ConcatElements
  <1>3. IsMessages(k \o l)
    BY <1>2 DEF IsMessages
  <1>4. k = <<>> <=> ToSet(k) = {}
    BY <1>1, EmptyHasNone
  <1>5. l = <<>> <=> ToSet(l) = {}
    BY <1>1, EmptyHasNone
  <1>6. k \o l = <<>> <=> ToSet(k \o l) = {}
    BY <1>3, EmptyHasNone DEF IsMessages
  <1>. QED
    BY <1>2, <1>3, <1>4, <1>5, <1>6

(* Taking the repeated ones out leaves the messages.                       *)
LEMMA MessagesStay ==
    ASSUME NEW k, IsMessages(k)
    PROVE  /\ IsMessages(Distinct(k))
           /\ ToSet(Distinct(k)) = ToSet(k)
           /\ Distinct(k) = <<>> <=> k = <<>>
  <1>1. k \in Seq(ToSet(k))
    BY DEF IsMessages
  <1>2. Distinct(k) \in Seq(ToSet(k)) /\ ToSet(Distinct(k)) = ToSet(k)
    BY <1>1, DistinctElements
  <1>3. k = <<>> <=> ToSet(k) = {}
    BY <1>1, EmptyHasNone
  <1>4. IsMessages(Distinct(k))
    BY <1>2 DEF IsMessages
  <1>5. Distinct(k) = <<>> <=> ToSet(Distinct(k)) = {}
    BY <1>4, EmptyHasNone DEF IsMessages
  <1>. QED
    BY <1>2, <1>3, <1>4, <1>5

\* A time that is refused.
Refused(stamp, zones) == stamp.form = "time" /\ zones.strategy = "reject"

\* A time that is moved, its zone being guessed.
Moved(stamp, zones) == stamp.form = "time" /\ zones.strategy # "reject"

(* The rows as the parser left them.                                       *)
LEMMA RawRowsAreLines ==
    ASSUME NEW a, IsGiven(a)
    PROVE  /\ RawRows(input.files[a]) \in Seq(ToSet(RawRows(input.files[a])))
           /\ \A i \in 1 .. Len(LinesOf(a)) :
                 /\ RawRows(input.files[a])[i] = RawRow(i, LinesOf(a)[i])
                 /\ RawRows(input.files[a])[i] \in ToSet(RawRows(input.files[a]))
           /\ \A r \in ToSet(RawRows(input.files[a])) :
                 \E i \in 1 .. Len(LinesOf(a)) : r = RawRow(i, LinesOf(a)[i])
  <1> DEFINE rows == RawRows(input.files[a])
             lines == LinesOf(a)
  <1>1. rows = [i \in 1 .. Len(lines) |-> RawRow(i, lines[i])]
    BY RawRowsAre DEF IsGiven, LinesOf
  <1>2. Len(lines) \in Nat
    BY RowsAreLines
  <1> HIDE DEF rows, lines
  <1>3. /\ DOMAIN rows = 1 .. Len(lines)
        /\ \A i \in 1 .. Len(lines) : rows[i] = RawRow(i, lines[i])
    BY <1>1
  <1>4. \A i \in 1 .. Len(lines) : rows[i] \in ToSet(rows)
    BY <1>3 DEF ToSet
  <1>5. rows \in Seq(ToSet(rows))
    <2>1. rows = [i \in 1 .. Len(lines) |-> rows[i]]
      BY <1>1, <1>3
    <2>. QED
      BY <1>2, <1>4, <2>1
  <1>6. \A r \in ToSet(rows) : \E i \in 1 .. Len(lines) : r = RawRow(i, lines[i])
    BY <1>3 DEF ToSet
  <1>. QED
    BY <1>3, <1>4, <1>5, <1>6 DEF rows, lines

(* A time that was not understood, guessed or refused is told.             *)
LEMMA StampsAreTold ==
    ASSUME NEW a, IsGiven(a)
    PROVE  /\ IsMessages(RawOf(a).trace.parser_warnings)
           /\ IsMessages(RawOf(a).warnings)
           /\ IsMessages(RawOf(a).errors)
           /\ NoDuplicates(RawOf(a).trace.parser_warnings)
           /\ NoDuplicates(RawOf(a).warnings)
           /\ \A i \in 1 .. Len(LinesOf(a)) :
                 LET stamp == LinesOf(a)[i].stamp
                 IN  /\ StampIsReported(stamp) =>
                          \E x \in ToSet(RawOf(a).trace.parser_warnings) : x.line = i + 1
                     /\ Moved(stamp, input.zones) =>
                          \E x \in ToSet(RawOf(a).warnings) : x.line = i + 1
                     /\ Refused(stamp, input.zones) =>
                          \E x \in ToSet(RawOf(a).errors) : x.line = i + 1
           /\ RawOf(a).errors = <<>>
                 <=> \A i \in 1 .. Len(LinesOf(a)) : ~Refused(LinesOf(a)[i].stamp, input.zones)
  <1> DEFINE rows == RawRows(input.files[a])
             lines == LinesOf(a)
             status(r) == Normalized(r.time, input.zones)
             Reported == {r \in ToSet(rows) : StampIsReported(r.stamp)}
             Guesses == {r \in ToSet(rows) : status(r).warned}
             Refusals == {r \in ToSet(rows) : status(r).status = "invalid"}
             reported == LineMessages("unrecognized timestamp", rows, Reported)
             empty == IF rows = <<>> THEN <<AtLine("no rows", 0)>> ELSE <<>>
             warnings == LineMessages("naive datetime", rows, Guesses)
             errors == LineMessages("naive datetime refused", rows, Refusals)
  <1>1. /\ RawOf(a).warnings = warnings
        /\ RawOf(a).errors = errors
        /\ RawOf(a).trace.parser_warnings = ((reported \o empty) \o warnings) \o errors
    <2>1. RawTrace(input.files[a]) = [rows |-> rows, parser_warnings |-> reported \o empty]
      BY DEF RawTrace, ParserWarnings, LineMessages
    <2> DEFINE t == RawTrace(input.files[a])
    <2>2. t.rows = rows /\ t.parser_warnings = reported \o empty
      <3> HIDE DEF rows, reported, empty
      <3>. QED
        BY <2>1
    <2> HIDE DEF t, rows, reported, empty
    <2>3. RawOf(a) = NormalizedTrace(t, input.zones)
      BY DEF RawOf, t
    <2>4. /\ NormalizedTrace(t, input.zones).warnings = warnings
          /\ NormalizedTrace(t, input.zones).errors = errors
      BY <2>2 DEF NormalizedTrace, LineMessages
    <2>5. NormalizedTrace(t, input.zones).trace.parser_warnings
             = t.parser_warnings \o warnings \o errors
      BY <2>2 DEF NormalizedTrace, LineMessages
    <2>. QED
      BY <2>2, <2>3, <2>4, <2>5
  <1>2. /\ rows \in Seq(ToSet(rows))
        /\ \A i \in 1 .. Len(lines) : rows[i] = RawRow(i, lines[i]) /\ rows[i] \in ToSet(rows)
        /\ \A r \in ToSet(rows) : \E i \in 1 .. Len(lines) : r = RawRow(i, lines[i])
    BY RawRowsAreLines
  <1>3. \A i \in 1 .. Len(lines) : IsLine(lines[i])
    BY RowsAreLines
  <1> HIDE DEF rows, lines
  <1>4. ASSUME NEW i \in 1 .. Len(lines)
        PROVE  /\ rows[i].line = i + 1
               /\ StampIsReported(lines[i].stamp) => rows[i] \in Reported
               /\ Moved(lines[i].stamp, input.zones) => rows[i] \in Guesses
               /\ Refused(lines[i].stamp, input.zones) => rows[i] \in Refusals
    <2>1. /\ rows[i] \in ToSet(rows) /\ rows[i].line = i + 1
          /\ rows[i].stamp = lines[i].stamp
          /\ rows[i].time = ParseTimestamp(lines[i].stamp)
      <3>1. rows[i] = RawRow(i, lines[i]) /\ rows[i] \in ToSet(rows)
        BY <1>2
      <3>. QED
        BY <3>1 DEF RawRow
    <2>2. lines[i].stamp.at \in Int /\ ZonesOK(input.zones)
      BY <1>3 DEF IsLine, IsGiven
    <2>3. /\ Moved(lines[i].stamp, input.zones) =>
                Normalized(ParseTimestamp(lines[i].stamp), input.zones).warned
          /\ Refused(lines[i].stamp, input.zones) =>
                Normalized(ParseTimestamp(lines[i].stamp), input.zones).status = "invalid"
      BY <2>2, NormalizedStamp DEF Moved, Refused
    <2>. QED
      BY <2>1, <2>3
  <1>5. ASSUME NEW r \in Refusals
        PROVE  \E i \in 1 .. Len(lines) : Refused(lines[i].stamp, input.zones)
    <2>1. PICK i \in 1 .. Len(lines) : r = RawRow(i, lines[i])
      BY <1>2
    <2>2. r.time = ParseTimestamp(lines[i].stamp) /\ status(r).status = "invalid"
      BY <2>1 DEF RawRow
    <2>3. lines[i].stamp.at \in Int /\ ZonesOK(input.zones)
      BY <1>3 DEF IsLine, IsGiven
    <2>4. Refused(lines[i].stamp, input.zones)
      BY <2>2, <2>3, NormalizedStamp DEF Refused
    <2>. QED
      BY <2>4
  <1>6. /\ Reported = ToSet(rows) \cap Reported
        /\ Guesses = ToSet(rows) \cap Guesses
        /\ Refusals = ToSet(rows) \cap Refusals
    OBVIOUS
  <1> HIDE DEF Reported, Guesses, Refusals
  <1>n. NoDuplicates(reported) /\ NoDuplicates(warnings) /\ NoDuplicates(errors)
    BY <1>2, LinesAreTold
  <1>e. NoDuplicates(empty)
    <2>1. CASE rows = <<>>
      <3> DEFINE said == AtLine("no rows", 0)
      <3>1. said.what # "duplicate"
        BY DEF AtLine
      <3> HIDE DEF said
      <3>2. ToSet(<<said>>) = {said}
        BY DEF ToSet
      <3>. QED
        BY <2>1, <3>1, <3>2 DEF NoDuplicates, said
    <2>2. CASE rows # <<>>
      BY <2>2 DEF NoDuplicates, ToSet
    <2>. QED
      BY <2>1, <2>2
  <1>7. /\ IsMessages(reported) /\ TellLines(reported, Reported)
        /\ IsMessages(warnings) /\ TellLines(warnings, Guesses)
        /\ IsMessages(errors) /\ TellLines(errors, Refusals)
    <2>1. IsMessages(reported) /\ TellLines(reported, Reported)
      <3>1. IsMessages(reported) /\ TellLines(reported, ToSet(rows) \cap Reported)
        BY <1>2, LinesAreTold
      <3> HIDE DEF reported
      <3>. QED
        BY <1>6, <3>1
    <2>2. IsMessages(warnings) /\ TellLines(warnings, Guesses)
      <3>1. IsMessages(warnings) /\ TellLines(warnings, ToSet(rows) \cap Guesses)
        BY <1>2, LinesAreTold
      <3> HIDE DEF warnings
      <3>. QED
        BY <1>6, <3>1
    <2>3. IsMessages(errors) /\ TellLines(errors, Refusals)
      <3>1. IsMessages(errors) /\ TellLines(errors, ToSet(rows) \cap Refusals)
        BY <1>2, LinesAreTold
      <3> HIDE DEF errors
      <3>. QED
        BY <1>6, <3>1
    <2>. QED
      BY <2>1, <2>2, <2>3
  <1>8. IsMessages(empty)
    <2>1. CASE rows = <<>>
      <3>1. empty \in Seq({AtLine("no rows", 0)})
        BY <2>1
      <3> HIDE DEF empty
      <3>. QED
        BY <3>1, SeqOfElements DEF IsMessages
    <2>2. CASE rows # <<>>
      BY <2>2, EmptySeq DEF IsMessages
    <2>. QED
      BY <2>1, <2>2
  <1> HIDE DEF reported, warnings, errors, empty
  <1>9. /\ IsMessages(((reported \o empty) \o warnings) \o errors)
        /\ ToSet(reported) \subseteq ToSet(((reported \o empty) \o warnings) \o errors)
        /\ NoDuplicates(((reported \o empty) \o warnings) \o errors)
    <2>1. IsMessages(reported \o empty)
          /\ ToSet(reported \o empty) = ToSet(reported) \cup ToSet(empty)
      BY <1>7, <1>8, MessagesJoin
    <2>2. /\ IsMessages((reported \o empty) \o warnings)
          /\ ToSet((reported \o empty) \o warnings)
                = ToSet(reported \o empty) \cup ToSet(warnings)
      BY <1>7, <2>1, MessagesJoin
    <2>3. /\ IsMessages(((reported \o empty) \o warnings) \o errors)
          /\ ToSet(((reported \o empty) \o warnings) \o errors)
                = ToSet((reported \o empty) \o warnings) \cup ToSet(errors)
      BY <1>7, <2>2, MessagesJoin
    <2>4. NoDuplicates(((reported \o empty) \o warnings) \o errors)
      BY <1>n, <1>e, <2>1, <2>2, <2>3 DEF NoDuplicates
    <2>. QED
      BY <2>1, <2>2, <2>3, <2>4
  <1>10. ASSUME NEW i \in 1 .. Len(lines)
         PROVE  /\ StampIsReported(lines[i].stamp) =>
                      \E x \in ToSet(reported) : x.line = i + 1
                /\ Moved(lines[i].stamp, input.zones) =>
                      \E x \in ToSet(warnings) : x.line = i + 1
                /\ Refused(lines[i].stamp, input.zones) =>
                      \E x \in ToSet(errors) : x.line = i + 1
    <2>1. \A r \in Reported : \E x \in ToSet(reported) : x.line = r.line
      BY <1>7 DEF TellLines
    <2>2. \A r \in Guesses : \E x \in ToSet(warnings) : x.line = r.line
      BY <1>7 DEF TellLines
    <2>3. \A r \in Refusals : \E x \in ToSet(errors) : x.line = r.line
      BY <1>7 DEF TellLines
    <2>. QED
      BY <1>4, <2>1, <2>2, <2>3
  <1>11. errors = <<>> <=> \A i \in 1 .. Len(lines) : ~Refused(lines[i].stamp, input.zones)
    <2>1. errors = <<>> <=> Refusals = {}
      BY <1>7 DEF TellLines
    <2>2. ASSUME NEW i \in 1 .. Len(lines), Refused(lines[i].stamp, input.zones)
          PROVE  Refusals # {}
      BY <1>4, <2>2
    <2>. QED
      BY <1>5, <2>1, <2>2
  <1>12. /\ IsMessages(RawOf(a).trace.parser_warnings)
         /\ ToSet(reported) \subseteq ToSet(RawOf(a).trace.parser_warnings)
         /\ NoDuplicates(RawOf(a).trace.parser_warnings)
    BY <1>1, <1>9
  <1>13. \A i \in 1 .. Len(lines) :
            StampIsReported(lines[i].stamp) =>
               \E x \in ToSet(RawOf(a).trace.parser_warnings) : x.line = i + 1
    BY <1>10, <1>12
  <1>. QED
    BY <1>1, <1>n, <1>7, <1>10, <1>11, <1>12, <1>13 DEF lines

-----------------------------------------------------------------------------
(* Targets                                                                 *)

\* The configuration that is given.
IsConfigured ==
    /\ input.defs \in Seq(ToSet(input.defs))
    /\ \A i \in 1 .. Len(input.defs) : IsDefinition(input.defs[i])
    /\ ConfigurationOK(input.defs)

(* The configuration is what was given.                                    *)
LEMMA InputIsConfigured == ASSUME AnalysisInv PROVE IsConfigured
  <1>1. IsInput(input)
    BY GivenIsInput DEF AnalysisInv
  <1>2. /\ input.defs \in Seq(ToSet(input.defs))
        /\ \A d \in ToSet(input.defs) : IsDefinition(d)
        /\ ConfigurationOK(input.defs)
    BY <1>1 DEF IsInput
  <1>3. \A i \in 1 .. Len(input.defs) : input.defs[i] \in ToSet(input.defs)
    BY <1>2
  <1>. QED
    BY <1>2, <1>3 DEF IsConfigured

\* A MappedValue is a record with these fields.
IsTarget(m) ==
    m = [target |-> m.target, status |-> m.status, value |-> m.value,
         value_type |-> m.value_type, source_value |-> m.source_value, line |-> m.line,
         warned |-> m.warned]

\* The i-th target, before and after the datetimes are moved.
ValueAt(a, i) == ApplyDefinition(input.defs[i], RowsIn(a), ExtractValues(RowsIn(a)))

MappedAt(a, i) == NormalizedMappedValue(ValueAt(a, i), input.zones)

(* A definition yields a target of its name and type.                      *)
LEMMA AppliedIsTarget ==
    ASSUME NEW d, NEW rows, NEW extracted
    PROVE  LET m == ApplyDefinition(d, rows, extracted)
           IN  IsTarget(m) /\ m.target = d.target /\ m.value_type = d.type
  <1>1. \E status, value, source, line, warned :
           ApplyDefinition(d, rows, extracted)
              = MappedValue(d, status, value, source, line, warned)
    BY DEF ApplyDefinition
  <1>. QED
    BY <1>1 DEF MappedValue, IsTarget

(* Moving its datetime leaves a target what it is: an error stays, and a   *)
(* target that has its default or nothing afterwards had it before.        *)
LEMMA MovedIsTarget ==
    ASSUME NEW m, IsTarget(m), NEW zones
    PROVE  LET n == NormalizedMappedValue(m, zones)
           IN  /\ IsTarget(n)
               /\ n.target = m.target
               /\ n.value_type = m.value_type
               /\ n.source_value = m.source_value
               /\ IsError(m) => IsError(n)
               /\ n.status = m.status \/ n.status = "conversion_error"
  <1> DEFINE n == NormalizedMappedValue(m, zones)
             result == Normalized(DatetimeOf(m.value), zones)
  <1>1. CASE ~ShouldNormalize(m)
    <2>1. n = m
      BY <1>1 DEF NormalizedMappedValue
    <2>. QED
      BY <2>1
  <1>2. CASE ShouldNormalize(m)
    <2>1. ~IsError(m)
      BY <1>2 DEF ShouldNormalize, IsSuccessful, IsError
    <2> DEFINE w == m.warned \/ result.warned
               x == Value("datetime", "stamp", result.time)
    <2>2. \/ n = [m EXCEPT !.value = x, !.warned = w]
          \/ n = [m EXCEPT !.status = "conversion_error", !.value = NoValue, !.warned = FALSE]
      BY <1>2 DEF NormalizedMappedValue
    <2> HIDE DEF n, w, x
    <2>3. CASE n = [m EXCEPT !.value = x, !.warned = w]
      BY <2>1, <2>3 DEF IsTarget, n
    <2>4. CASE n = [m EXCEPT !.status = "conversion_error", !.value = NoValue,
                             !.warned = FALSE]
      BY <2>1, <2>4 DEF IsTarget, n
    <2>. QED
      BY <2>2, <2>3, <2>4
  <1>. QED
    BY <1>1, <1>2

(* The targets of an artifact, and the errors that name the failed ones.   *)
LEMMA TargetsAre ==
    ASSUME NEW a, IsGiven(a), IsConfigured
    PROVE  /\ MappingOf(a).values = [i \in 1 .. Len(input.defs) |-> MappedAt(a, i)]
           /\ IsMessages(MappingOf(a).warnings)
           /\ NoDuplicates(MappingOf(a).warnings)
           /\ IsMessages(MappingOf(a).errors)
           /\ MappingOf(a).errors = <<>>
                 <=> \A i \in 1 .. Len(input.defs) : ~IsError(MappedAt(a, i))
           /\ \A i \in 1 .. Len(input.defs) :
                 /\ IsTarget(MappedAt(a, i))
                 /\ MappedAt(a, i).target = input.defs[i].target
                 /\ IsError(MappedAt(a, i)) =>
                      \E x \in ToSet(MappingOf(a).errors) : x.target = MappedAt(a, i).target
  <1> DEFINE N == Len(input.defs)
             zones == input.zones
             values == [i \in 1 .. N |-> ValueAt(a, i)]
             after(m) == NormalizedMappedValue(m, zones)
             Warned == {m \in ToSet(values) : m.warned}
             Failed == {m \in ToSet(values) : IsError(m)}
             Guesses == {m \in ToSet(values) :
                 ShouldNormalize(m) /\ Normalized(DatetimeOf(m.value), zones).warned}
             Refusals == {m \in ToSet(values) : IsError(after(m)) /\ ~IsError(m)}
             warned == TargetMessages("mapping", values, Warned)
             failed == TargetMessages("mapping", values, Failed)
             guessed == TargetMessages("naive datetime", values, Guesses)
             refused == TargetMessages("datetime", values, Refusals)
  <1>1. N \in Nat /\ DOMAIN input.defs = 1 .. N
    BY DEF IsConfigured
  <1>2. RawOf(a).trace.rows = RowsIn(a) /\ PartsOf(a).extracted = ExtractValues(RowsIn(a))
    BY RowsAreLines DEF PartsOf
  <1>3. [i \in DOMAIN input.defs |-> ApplyDefinition(input.defs[i], RowsIn(a),
                                                      ExtractValues(RowsIn(a)))] = values
    BY <1>1 DEF ValueAt
  <1> HIDE DEF N, values
  <1>4. /\ ValuesOf(a).values = values
        /\ ValuesOf(a).warnings = warned
        /\ ValuesOf(a).errors = failed
    BY <1>2, <1>3 DEF ValuesOf, MapValues, TargetMessages
  <1>5. /\ MappingOf(a).values = [i \in DOMAIN values |-> after(values[i])]
        /\ MappingOf(a).warnings = warned \o guessed
        /\ MappingOf(a).errors = failed \o refused
    <2> DEFINE t == ValuesOf(a)
    <2>1. t.values = values /\ t.warnings = warned /\ t.errors = failed
      BY <1>4
    <2> HIDE DEF t, warned, failed
    <2>2. MappingOf(a) = NormalizedMapping(t, zones)
      BY DEF MappingOf, t
    <2>3. NormalizedMapping(t, zones).values = [i \in DOMAIN values |-> after(values[i])]
      BY <2>1 DEF NormalizedMapping
    <2>4. NormalizedMapping(t, zones).warnings = warned \o guessed
      BY <2>1 DEF NormalizedMapping, TargetMessages
    <2>5. NormalizedMapping(t, zones).errors = failed \o refused
      BY <2>1 DEF NormalizedMapping, TargetMessages
    <2>. QED
      BY <2>2, <2>3, <2>4, <2>5
  <1>6. /\ values \in Seq(ToSet(values))
        /\ DOMAIN values = 1 .. N
        /\ \A i \in 1 .. N : values[i] = ValueAt(a, i) /\ values[i] \in ToSet(values)
        /\ \A m \in ToSet(values) : \E i \in 1 .. N : m = values[i]
    <2>1. DOMAIN values = 1 .. N /\ \A i \in 1 .. N : values[i] = ValueAt(a, i)
      BY DEF values
    <2>2. \A i \in 1 .. N : values[i] \in ToSet(values)
      BY <2>1 DEF ToSet
    <2>3. \A m \in ToSet(values) : \E i \in 1 .. N : m = values[i]
      BY <2>1 DEF ToSet
    <2>4. values = [i \in 1 .. N |-> values[i]]
      BY <2>1 DEF values
    <2>. QED
      BY <1>1, <2>1, <2>2, <2>3, <2>4
  <1>7. MappingOf(a).values = [i \in 1 .. N |-> MappedAt(a, i)]
    BY <1>5, <1>6 DEF MappedAt
  <1>8. ASSUME NEW i \in 1 .. N
        PROVE  /\ IsTarget(ValueAt(a, i))
               /\ IsTarget(MappedAt(a, i))
               /\ MappedAt(a, i).target = ValueAt(a, i).target
               /\ ValueAt(a, i).target = input.defs[i].target
               /\ IsError(ValueAt(a, i)) => IsError(MappedAt(a, i))
    <2>1. IsTarget(ValueAt(a, i)) /\ ValueAt(a, i).target = input.defs[i].target
      BY AppliedIsTarget DEF ValueAt
    <2>. QED
      BY <2>1, MovedIsTarget DEF MappedAt
  <1>9. /\ Warned = ToSet(values) \cap Warned
        /\ Failed = ToSet(values) \cap Failed
        /\ Guesses = ToSet(values) \cap Guesses
        /\ Refusals = ToSet(values) \cap Refusals
    OBVIOUS
  <1>10. ASSUME NEW i \in 1 .. N, IsError(MappedAt(a, i))
         PROVE  values[i] \in Failed \cup Refusals
    BY <1>6, <1>10 DEF MappedAt
  <1>11. ASSUME NEW m \in Failed \cup Refusals
         PROVE  \E i \in 1 .. N : m = values[i] /\ IsError(MappedAt(a, i))
    <2>1. PICK i \in 1 .. N : m = values[i]
      BY <1>6
    <2>2. CASE m \in Failed
      BY <1>6, <1>8, <2>1, <2>2
    <2>3. CASE m \in Refusals
      BY <1>6, <2>1, <2>3 DEF MappedAt
    <2>. QED
      BY <2>2, <2>3
  <1> HIDE DEF Warned, Failed, Guesses, Refusals
  <1>12. IsMessages(warned) /\ NoDuplicates(warned)
    BY <1>6, TargetsAreTold
  <1>13. IsMessages(guessed) /\ NoDuplicates(guessed)
    BY <1>6, TargetsAreTold
  <1>14. IsMessages(failed) /\ TellTargets(failed, Failed)
    <2>1. IsMessages(failed) /\ TellTargets(failed, ToSet(values) \cap Failed)
      BY <1>6, TargetsAreTold
    <2> HIDE DEF failed
    <2>. QED
      BY <1>9, <2>1
  <1>15. IsMessages(refused) /\ TellTargets(refused, Refusals)
    <2>1. IsMessages(refused) /\ TellTargets(refused, ToSet(values) \cap Refusals)
      BY <1>6, TargetsAreTold
    <2> HIDE DEF refused
    <2>. QED
      BY <1>9, <2>1
  <1> HIDE DEF warned, guessed, failed, refused
  <1>16. IsMessages(MappingOf(a).warnings) /\ NoDuplicates(MappingOf(a).warnings)
    <2>1. /\ IsMessages(warned \o guessed)
          /\ ToSet(warned \o guessed) = ToSet(warned) \cup ToSet(guessed)
      BY <1>12, <1>13, MessagesJoin
    <2>. QED
      BY <1>5, <1>12, <1>13, <2>1 DEF NoDuplicates
  <1>17. /\ IsMessages(failed \o refused)
         /\ ToSet(failed \o refused) = ToSet(failed) \cup ToSet(refused)
         /\ failed \o refused = <<>> <=> failed = <<>> /\ refused = <<>>
    BY <1>14, <1>15, MessagesJoin
  <1>18. failed \o refused = <<>> <=> Failed \cup Refusals = {}
    BY <1>14, <1>15, <1>17 DEF TellTargets
  <1>19. \A m \in Failed \cup Refusals : \E x \in ToSet(failed \o refused) : x.target = m.target
    BY <1>14, <1>15, <1>17 DEF TellTargets
  <1>20. MappingOf(a).errors = <<>> <=> \A i \in 1 .. N : ~IsError(MappedAt(a, i))
    BY <1>5, <1>10, <1>11, <1>18
  <1>21. ASSUME NEW i \in 1 .. N, IsError(MappedAt(a, i))
         PROVE  \E x \in ToSet(MappingOf(a).errors) : x.target = MappedAt(a, i).target
    <2>1. values[i] \in Failed \cup Refusals
      BY <1>10, <1>21
    <2>2. values[i].target = MappedAt(a, i).target
      BY <1>6, <1>8
    <2>. QED
      BY <1>5, <1>19, <2>1, <2>2
  <1>. QED
    BY <1>5, <1>7, <1>8, <1>16, <1>17, <1>20, <1>21 DEF N

-----------------------------------------------------------------------------
(* Nothing is silent                                                       *)

(* The messages of a parsed trace are those of its parts.                  *)
LEMMA ParsedMessages ==
    ASSUME NEW a, IsGiven(a), IsConfigured
    PROVE  LET p == ParsedInMemory(a)
           IN  /\ ToSet(RawOf(a).warnings) \subseteq ToSet(p.warnings)
               /\ ToSet(RawOf(a).trace.parser_warnings) \subseteq ToSet(p.warnings)
               /\ \A name : Duplicate(name) \in ToSet(p.warnings)
                               <=> Duplicate(name) \in ToSet(ExtractValues(RowsIn(a)).warnings)
               /\ ToSet(p.errors) = ToSet(RawOf(a).errors) \cup ToSet(MappingOf(a).errors)
               /\ p.errors = <<>> <=> RawOf(a).errors = <<>> /\ MappingOf(a).errors = <<>>
  <1> DEFINE w1 == RawOf(a).warnings
             w2 == RawOf(a).trace.parser_warnings
             w3 == ExtractValues(RowsIn(a)).warnings
             w4 == MappingOf(a).warnings
             e1 == RawOf(a).errors
             e2 == MappingOf(a).errors
  <1>1. /\ ParsedInMemory(a).warnings = Distinct(((w1 \o w2) \o w3) \o w4)
        /\ ParsedInMemory(a).errors = Distinct(e1 \o e2)
    BY InMemoryIsParsed
  <1>2. IsMessages(w1) /\ IsMessages(w2) /\ IsMessages(e1)
        /\ NoDuplicates(w1) /\ NoDuplicates(w2)
    BY StampsAreTold
  <1>3. IsMessages(w4) /\ IsMessages(e2) /\ NoDuplicates(w4)
    BY TargetsAre
  <1>4. IsMessages(w3)
    <2>1. ExtractValues(RowsIn(a)) \in Findings(RowsIn(a))
      BY RowsAreLines, ExtractedValuesFollow
    <2>2. w3 \in Seq({OfTarget("duplicate", name) : name \in Names(RowsIn(a))})
      BY <2>1 DEF Findings
    <2>. QED
      BY <2>2, SeqOfElements DEF IsMessages
  <1> HIDE DEF w1, w2, w3, w4, e1, e2
  <1>5. IsMessages(w1 \o w2) /\ ToSet(w1 \o w2) = ToSet(w1) \cup ToSet(w2)
    BY <1>2, MessagesJoin
  <1>6. IsMessages((w1 \o w2) \o w3) /\ ToSet((w1 \o w2) \o w3) = ToSet(w1 \o w2) \cup ToSet(w3)
    BY <1>4, <1>5, MessagesJoin
  <1>7. /\ IsMessages(((w1 \o w2) \o w3) \o w4)
        /\ ToSet(((w1 \o w2) \o w3) \o w4) = ToSet((w1 \o w2) \o w3) \cup ToSet(w4)
    BY <1>3, <1>6, MessagesJoin
  <1>8. ToSet(ParsedInMemory(a).warnings) = ToSet(((w1 \o w2) \o w3) \o w4)
    BY <1>1, <1>7, MessagesStay
  <1>9. /\ IsMessages(e1 \o e2)
        /\ ToSet(e1 \o e2) = ToSet(e1) \cup ToSet(e2)
        /\ e1 \o e2 = <<>> <=> e1 = <<>> /\ e2 = <<>>
    BY <1>2, <1>3, MessagesJoin
  <1>10. /\ ToSet(ParsedInMemory(a).errors) = ToSet(e1 \o e2)
         /\ ParsedInMemory(a).errors = <<>> <=> e1 \o e2 = <<>>
    BY <1>1, <1>9, MessagesStay
  <1>11. \A name : Duplicate(name).what = "duplicate"
    BY DEF Duplicate, OfTarget
  <1>12. \A name : Duplicate(name) \in ToSet(ParsedInMemory(a).warnings)
                      <=> Duplicate(name) \in ToSet(w3)
    BY <1>2, <1>3, <1>5, <1>6, <1>7, <1>8, <1>11 DEF NoDuplicates
  <1>. QED
    BY <1>5, <1>6, <1>7, <1>8, <1>9, <1>10, <1>12 DEF w1, w2, w3, e1, e2

(* A time is read again as it was written.                                 *)
LEMMA TimeSurvives ==
    ASSUME NEW time \in Times \cup {NoTime}
    PROVE  /\ ParseJsonTime(JsonTime(time)) = time
           /\ JsonTime(time) = NoText <=> time = NoTime
  <1>1. CASE time = NoTime
    BY <1>1 DEF ParseJsonTime, JsonTime
  <1>2. CASE time # NoTime
    <2>1. JsonTime(time) = [iso |-> time] /\ [iso |-> time] \in [iso : Times]
      BY <1>2 DEF JsonTime
    <2>2. [iso |-> time] # NoText
      BY <2>1, MarkersAreNoData
    <2>. QED
      BY <1>2, <2>1, <2>2 DEF ParseJsonTime
  <1>. QED
    BY <1>1, <1>2

\* The row of the document for the i-th line.
WrittenRow(a, i) == [RowsIn(a)[i] EXCEPT !.time = JsonTime(@)]

(* The rows of the document are the lines of the file.                     *)
LEMMA WrittenRows ==
    ASSUME NEW a, IsGiven(a), NEW document, DictFacts(document, ParsedInMemory(a))
    PROVE  /\ ToSet(document.raw_trace.rows)
                = {WrittenRow(a, i) : i \in 1 .. Len(LinesOf(a))}
           /\ \A i \in 1 .. Len(LinesOf(a)) :
                 /\ WrittenRow(a, i).line = i + 1
                 /\ ParseJsonTime(WrittenRow(a, i).time)
                       = TimeOf(LinesOf(a)[i].stamp, input.zones)
                 /\ WrittenRow(a, i).time = NoText
                       <=> TimeOf(LinesOf(a)[i].stamp, input.zones) = NoTime
  <1> DEFINE rows == RowsIn(a)
             written == document.raw_trace.rows
             N == Len(LinesOf(a))
  <1>1. ParsedInMemory(a).raw_trace.rows = rows
    BY InMemoryIsParsed
  <1>2. /\ DOMAIN rows = 1 .. N
        /\ \A i \in 1 .. N : rows[i] = RowOf(i, LinesOf(a)[i], input.zones)
                             /\ IsLine(LinesOf(a)[i])
    BY RowsAreLines
  <1>3. written = [i \in DOMAIN rows |-> WrittenRow(a, i)]
    BY <1>1 DEF DictFacts, Timed, WrittenRow
  <1> HIDE DEF rows, written
  <1>4. DOMAIN written = 1 .. N /\ \A i \in 1 .. N : written[i] = WrittenRow(a, i)
    BY <1>2, <1>3
  <1>5. ToSet(written) = {WrittenRow(a, i) : i \in 1 .. N}
    BY <1>4 DEF ToSet
  <1>6. ASSUME NEW i \in 1 .. N
        PROVE  /\ WrittenRow(a, i).line = i + 1
               /\ ParseJsonTime(WrittenRow(a, i).time)
                     = TimeOf(LinesOf(a)[i].stamp, input.zones)
               /\ WrittenRow(a, i).time = NoText
                     <=> TimeOf(LinesOf(a)[i].stamp, input.zones) = NoTime
    <2> DEFINE time == TimeOf(LinesOf(a)[i].stamp, input.zones)
    <2>1. rows[i].line = i + 1 /\ rows[i].time = time
      BY <1>2 DEF RowOf
    <2>2. WrittenRow(a, i).line = i + 1 /\ WrittenRow(a, i).time = JsonTime(time)
      <3>1. WrittenRow(a, i) = [rows[i] EXCEPT !.time = JsonTime(@)]
        BY DEF WrittenRow, rows
      <3>2. rows[i] = [line |-> i + 1, time |-> time, stamp |-> LinesOf(a)[i].stamp,
                       call |-> LinesOf(a)[i].call, event |-> LinesOf(a)[i].event,
                       info |-> LinesOf(a)[i].info, sets |-> LinesOf(a)[i].sets]
        BY <1>2 DEF RowOf
      <3> HIDE DEF time
      <3>. QED
        BY <3>1, <3>2
    <2>3. time \in Times \cup {NoTime}
      BY <1>2, TimeOfIsTime DEF IsLine, IsGiven
    <2> HIDE DEF time
    <2>4. ParseJsonTime(JsonTime(time)) = time /\ (JsonTime(time) = NoText <=> time = NoTime)
      BY <2>3, TimeSurvives
    <2>. QED
      BY <2>2, <2>4 DEF time
  <1>. QED
    BY <1>5, <1>6 DEF written

(* What became of the time of a line is told.                              *)
LEMMA TimesAreTold ==
    ASSUME NEW a, IsGiven(a), IsConfigured, NEW i \in 1 .. Len(LinesOf(a))
    PROVE  LET stamp == LinesOf(a)[i].stamp
               time == TimeOf(stamp, input.zones)
               Told(messages) == \E m \in ToSet(messages) : m.line = i + 1
           IN  IF stamp.form # "time"
               THEN /\ time = NoTime
                    /\ stamp.form \in {"missing", "<null>"}
                          \/ Told(ParsedInMemory(a).warnings)
               ELSE \/ /\ time.offset = Naive
                       /\ Told(ParsedInMemory(a).errors)
                       /\ ParsedInMemory(a).errors # <<>>
                    \/ /\ time.offset = input.zones.target
                       /\ Instant(time) \in {stamp.at, stamp.at - input.zones.source}
                       /\ Told(ParsedInMemory(a).warnings)
  <1> DEFINE stamp == LinesOf(a)[i].stamp
             zones == input.zones
             p == ParsedInMemory(a)
  <1>1. stamp.at \in Int /\ zones.source \in Int /\ zones.target \in Int
    BY RowsAreLines DEF IsLine, IsGiven, ZonesOK
  <1>2. /\ StampIsReported(stamp) =>
             \E x \in ToSet(RawOf(a).trace.parser_warnings) : x.line = i + 1
        /\ Moved(stamp, zones) => \E x \in ToSet(RawOf(a).warnings) : x.line = i + 1
        /\ Refused(stamp, zones) => \E x \in ToSet(RawOf(a).errors) : x.line = i + 1
        /\ Refused(stamp, zones) => RawOf(a).errors # <<>>
    BY StampsAreTold
  <1>3. /\ ToSet(RawOf(a).warnings) \subseteq ToSet(p.warnings)
        /\ ToSet(RawOf(a).trace.parser_warnings) \subseteq ToSet(p.warnings)
        /\ ToSet(RawOf(a).errors) \subseteq ToSet(p.errors)
        /\ RawOf(a).errors # <<>> => p.errors # <<>>
    BY ParsedMessages
  <1> HIDE DEF stamp, p
  <1>4. CASE stamp.form # "time"
    <2>1. TimeOf(stamp, zones) = NoTime
      BY <1>4 DEF TimeOf
    <2>2. stamp.form \notin {"missing", "<null>"} => StampIsReported(stamp)
      BY <1>4 DEF StampIsReported, ParseTimestamp
    <2>3. stamp.form \in {"missing", "<null>"} \/ \E m \in ToSet(p.warnings) : m.line = i + 1
      BY <1>2, <1>3, <2>2
    <2>. QED
      BY <1>4, <2>1, <2>3 DEF stamp, p
  <1>5. CASE Refused(stamp, zones)
    <2>1. TimeOf(stamp, zones).offset = Naive
      BY <1>5 DEF Refused, TimeOf, NaiveTime
    <2>2. (\E m \in ToSet(p.errors) : m.line = i + 1) /\ p.errors # <<>>
      BY <1>2, <1>3, <1>5
    <2>3. stamp.form = "time"
      BY <1>5 DEF Refused
    <2>. QED
      BY <2>1, <2>2, <2>3 DEF stamp, p
  <1>6. CASE Moved(stamp, zones)
    <2> DEFINE time == TimeOf(stamp, zones)
    <2>1. /\ time.local = (stamp.at - Guessed(zones)) + zones.target
          /\ time.offset = zones.target
      BY <1>6 DEF Moved, TimeOf
    <2>2. Guessed(zones) \in {0, zones.source}
      BY DEF Guessed
    <2> HIDE DEF time
    <2>3. Instant(time) \in {stamp.at, stamp.at - zones.source}
      BY <1>1, <2>1, <2>2 DEF Instant
    <2>4. \E m \in ToSet(p.warnings) : m.line = i + 1
      BY <1>2, <1>3, <1>6
    <2>5. stamp.form = "time"
      BY <1>6 DEF Moved
    <2>. QED
      BY <2>1, <2>3, <2>4, <2>5 DEF stamp, p, time
  <1>. QED
    BY <1>4, <1>5, <1>6 DEF Refused, Moved

(* No time is lost or guessed silently.                                    *)
LEMMA TimesAreNotLost == ASSUME AnalysisInv PROVE NoTimeLostSilently
  <1> SUFFICES ASSUME snapshot # NoValue, NEW row \in ToSet(Document.raw_trace.rows)
               PROVE  LET time == ParseJsonTime(row.time)
                          stamp == LineOf(Document, row.line).stamp
                          Told(messages) == \E m \in ToSet(messages) : m.line = row.line
                      IN  IF stamp.form # "time"
                          THEN /\ time = NoTime
                               /\ stamp.form \in {"missing", "<null>"}
                                     \/ Told(Document.warnings)
                          ELSE \/ /\ time.offset = Naive
                                  /\ Told(Document.errors)
                                  /\ ~snapshot.is_valid
                               \/ /\ time.offset = input.zones.target
                                  /\ Instant(time) \in {stamp.at, stamp.at - input.zones.source}
                                  /\ Told(Document.warnings)
    BY DEF NoTimeLostSilently
  <1>1. PICK a \in Stored : /\ IsGiven(a)
                            /\ DictFacts(Document, ParsedInMemory(a))
                            /\ Document.artifact = a
                            /\ snapshot.is_valid <=> ParsedInMemory(a).errors = <<>>
    BY DocumentTells
  <1>2. IsConfigured
    BY InputIsConfigured
  <1>3. PICK i \in 1 .. Len(LinesOf(a)) : row = WrittenRow(a, i)
    BY <1>1, WrittenRows
  <1> DEFINE stamp == LinesOf(a)[i].stamp
  <1>4. row.line = i + 1 /\ ParseJsonTime(row.time) = TimeOf(stamp, input.zones)
    BY <1>1, <1>3, WrittenRows
  <1>5. (i + 1) - 1 = i
    BY <1>1, RowsAreLines
  <1>6. LineOf(Document, row.line).stamp = stamp
    BY <1>1, <1>4, <1>5 DEF LineOf, LinesOf
  <1>7. Document.warnings = ParsedInMemory(a).warnings
        /\ Document.errors = ParsedInMemory(a).errors
    BY <1>1 DEF DictFacts
  <1>. QED
    BY <1>1, <1>2, <1>4, <1>6, <1>7, TimesAreTold

(* The summary tells what the targets hold.                                *)
LEMMA ValidityIsTold == ASSUME AnalysisInv PROVE ValidMeansNoError
  <1> DEFINE failed == {m.target : m \in {n \in ToSet(Document.mapped.values) : IsError(n)}}
             refused == {r \in ToSet(Document.raw_trace.rows) :
                           r.time # NoText /\ ParseJsonTime(r.time).offset = Naive}
  <1> SUFFICES ASSUME snapshot # NoValue
               PROVE  /\ snapshot.is_valid <=> failed = {} /\ refused = {}
                      /\ \A t \in failed : \E e \in ToSet(Document.errors) : e.target = t
    BY DEF ValidMeansNoError
  <1>1. PICK a \in Stored : /\ IsGiven(a)
                            /\ DictFacts(Document, ParsedInMemory(a))
                            /\ snapshot.is_valid <=> ParsedInMemory(a).errors = <<>>
    BY DocumentTells
  <1>2. IsConfigured
    BY InputIsConfigured
  <1> DEFINE N == Len(input.defs)
             L == Len(LinesOf(a))
             written == Document.mapped.values
             Failing == {i \in 1 .. N : IsError(MappedAt(a, i))}
             Refusals == {i \in 1 .. L : Refused(LinesOf(a)[i].stamp, input.zones)}
  <1>3. /\ MappingOf(a).values = [i \in 1 .. N |-> MappedAt(a, i)]
        /\ MappingOf(a).errors = <<>> <=> Failing = {}
        /\ \A i \in 1 .. N :
              /\ IsTarget(MappedAt(a, i))
              /\ IsError(MappedAt(a, i)) =>
                   \E x \in ToSet(MappingOf(a).errors) : x.target = MappedAt(a, i).target
    BY <1>1, <1>2, TargetsAre
  <1>4. written = [i \in 1 .. N |-> MappedToDict(MappedAt(a, i))]
    <2>1. ParsedInMemory(a).mapped = MappingOf(a)
      BY <1>1, InMemoryIsParsed
    <2>. QED
      BY <1>1, <1>3, <2>1 DEF DictFacts, Each
  <1>5. ASSUME NEW i \in 1 .. N
        PROVE  /\ MappedToDict(MappedAt(a, i)).target = MappedAt(a, i).target
               /\ IsError(MappedToDict(MappedAt(a, i))) <=> IsError(MappedAt(a, i))
    <2> DEFINE m == MappedAt(a, i)
    <2>1. IsTarget(m)
      BY <1>3
    <2> HIDE DEF m
    <2>2. MappedToDict(m).target = m.target /\ MappedToDict(m).status = m.status
      BY <2>1 DEF MappedToDict, IsTarget
    <2>. QED
      BY <2>2 DEF IsError, m
  <1> HIDE DEF written
  <1>6. ToSet(written) = {MappedToDict(MappedAt(a, i)) : i \in 1 .. N}
    BY <1>4 DEF ToSet
  <1>7. failed = {MappedAt(a, i).target : i \in Failing}
    BY <1>5, <1>6 DEF written
  <1>8. refused = {} <=> Refusals = {}
    <2>1. ToSet(Document.raw_trace.rows) = {WrittenRow(a, i) : i \in 1 .. L}
      BY <1>1, WrittenRows
    <2>2. ASSUME NEW i \in 1 .. L
          PROVE  /\ WrittenRow(a, i).time # NoText
                    /\ ParseJsonTime(WrittenRow(a, i).time).offset = Naive
                 <=> i \in Refusals
      <3> DEFINE stamp == LinesOf(a)[i].stamp
                 time == TimeOf(stamp, input.zones)
      <3>1. /\ ParseJsonTime(WrittenRow(a, i).time) = time
            /\ WrittenRow(a, i).time = NoText <=> time = NoTime
        BY <1>1, WrittenRows
      <3>2. stamp.at \in Int /\ ZonesOK(input.zones)
        BY <1>1, RowsAreLines DEF IsLine, IsGiven
      <3> HIDE DEF stamp
      <3>3. /\ stamp.form = "time" => time \in Times
            /\ stamp.form = "time" => (time.offset = Naive <=> input.zones.strategy = "reject")
        BY <3>2, TimeOfIsTime
      <3>4. stamp.form # "time" => time = NoTime
        BY DEF TimeOf
      <3>5. NoTime \notin Times
        BY MarkersAreNoData
      <3> HIDE DEF time
      <3>6. time # NoTime /\ time.offset = Naive <=> Refused(stamp, input.zones)
        BY <3>3, <3>4, <3>5 DEF Refused
      <3>. QED
        BY <3>1, <3>6 DEF stamp
    <2> HIDE DEF Refusals
    <2>3. refused = {WrittenRow(a, i) : i \in {j \in 1 .. L : j \in Refusals}}
      BY <2>1, <2>2
    <2>4. Refusals = {j \in 1 .. L : j \in Refusals}
      BY DEF Refusals
    <2> HIDE DEF refused
    <2>. QED
      BY <2>3, <2>4
  <1>9. /\ ToSet(Document.errors) = ToSet(RawOf(a).errors) \cup ToSet(MappingOf(a).errors)
        /\ ParsedInMemory(a).errors = <<>>
             <=> RawOf(a).errors = <<>> /\ MappingOf(a).errors = <<>>
    BY <1>1, <1>2, ParsedMessages DEF DictFacts
  <1>10. RawOf(a).errors = <<>> <=> Refusals = {}
    BY <1>1, StampsAreTold
  <1>11. failed = {} <=> Failing = {}
    BY <1>7
  <1>12. ASSUME NEW t \in failed PROVE \E e \in ToSet(Document.errors) : e.target = t
    <2>1. PICK i \in 1 .. N : IsError(MappedAt(a, i)) /\ t = MappedAt(a, i).target
      <3> HIDE DEF failed
      <3>. QED
        BY <1>7
    <2>2. \E e \in ToSet(MappingOf(a).errors) : e.target = MappedAt(a, i).target
      BY <1>3, <2>1
    <2>. QED
      BY <1>9, <2>1, <2>2
  <1> HIDE DEF failed, refused, Failing, Refusals
  <1>. QED
    BY <1>1, <1>3, <1>8, <1>9, <1>10, <1>11, <1>12

(* Nothing that could not be used is silent.                               *)
THEOREM NothingIsLostSilently == Spec => []NothingIsSilent
  <1>1. AnalysisInv => NothingIsSilent
    BY TimesAreNotLost, ValidityIsTold DEF NothingIsSilent
  <1>. QED
    BY <1>1, AnalysisInvariant, PTL

-----------------------------------------------------------------------------
(* The values of a trace                                                   *)

\* Assignment j of line i.
Assigned(a, i, j) == i \in 1 .. Len(LinesOf(a)) /\ j \in 1 .. Len(LinesOf(a)[i].sets)

(* When all rows are read, every assignment is told.                       *)
LEMMA AllIsTold ==
    ASSUME NEW a, IsGiven(a)
    PROVE  \A i, j : ToldAt(RowsIn(a), Len(RowsIn(a)) + 1, 0, i, j) <=> Assigned(a, i, j)
  <1> SUFFICES ASSUME NEW i, NEW j
               PROVE  ToldAt(RowsIn(a), Len(RowsIn(a)) + 1, 0, i, j) <=> Assigned(a, i, j)
    OBVIOUS
  <1> DEFINE N == Len(LinesOf(a))
  <1>1. /\ N \in Nat /\ Len(RowsIn(a)) = N
        /\ \A n \in 1 .. N : /\ RowsIn(a)[n].sets = LinesOf(a)[n].sets
                             /\ Len(LinesOf(a)[n].sets) \in Nat
    <2>1. N \in Nat /\ Len(RowsIn(a)) = N
      BY RowsAreLines
    <2>2. ASSUME NEW n \in 1 .. N
          PROVE  RowsIn(a)[n].sets = LinesOf(a)[n].sets /\ Len(LinesOf(a)[n].sets) \in Nat
      <3>1. RowsIn(a)[n].sets = LinesOf(a)[n].sets
        BY RowSays
      <3>2. IsLine(LinesOf(a)[n])
        BY RowsAreLines
      <3>. QED
        BY <3>1, <3>2 DEF IsLine
    <2>. QED
      BY <2>1, <2>2
  <1>2. CASE i \in 1 .. N
    <2>1. i \in 1 .. N + 1 /\ i < N + 1 /\ i # N + 1
      BY <1>1, <1>2
    <2>2. RowsIn(a)[i].sets = LinesOf(a)[i].sets /\ Len(LinesOf(a)[i].sets) \in Nat
      BY <1>1, <1>2
    <2>3. j \in Nat \ {0} /\ j <= Len(LinesOf(a)[i].sets) <=> j \in 1 .. Len(LinesOf(a)[i].sets)
      BY <2>2
    <2>. QED
      BY <1>1, <1>2, <2>1, <2>2, <2>3 DEF ToldAt, Assigned
  <1>3. CASE i = N + 1
    <2>1. ~(i < N + 1) /\ i \notin 1 .. N
      BY <1>1, <1>3
    <2>2. j \in Nat \ {0} => ~(j <= 0)
      OBVIOUS
    <2>. QED
      BY <1>1, <1>3, <2>1, <2>2 DEF ToldAt, Assigned
  <1>4. CASE i \notin 1 .. N /\ i # N + 1
    <2>1. i \notin 1 .. N + 1
      BY <1>1, <1>4
    <2>. QED
      BY <1>1, <1>4, <2>1 DEF ToldAt, Assigned
  <1>. QED
    BY <1>2, <1>3, <1>4

\* What assignment j of line i says, and of what.
NameAt(a, i, j) == LinesOf(a)[i].sets[j].name

SaysAt(a, i, j) == Coerce(LinesOf(a)[i].sets[j].form, LinesOf(a)[i].sets[j].v)

AssignsAt(a, name, i, j) == Assigned(a, i, j) /\ NameAt(a, i, j) = name

(* The places of a name are those of its assignments.                      *)
LEMMA PlacesAre ==
    ASSUME NEW a, IsGiven(a), NEW name
    PROVE  /\ \A i, j : <<i, j>> \in Places(LinesOf(a), name) <=> AssignsAt(a, name, i, j)
           /\ \A p \in Places(LinesOf(a), name) : \E i, j : p = <<i, j>>
           /\ \A i, j : SaidAt(LinesOf(a), <<i, j>>) = SaysAt(a, i, j)
           /\ \A i, j, i2, j2 : Precedes(<<i, j>>, <<i2, j2>>) <=> Sooner(i, j, i2, j2)
  <1> DEFINE lines == LinesOf(a)
             N == Len(lines)
             In(n) == {j \in DOMAIN lines[n].sets : lines[n].sets[j].name = name}
             Pairs(n) == {<<n, j>> : j \in In(n)}
  <1>1. /\ DOMAIN lines = 1 .. N
        /\ \A n \in 1 .. N : DOMAIN lines[n].sets = 1 .. Len(lines[n].sets)
    BY RowsAreLines DEF IsLine
  <1>2. Places(lines, name) = UNION {Pairs(n) : n \in 1 .. N}
    BY <1>1 DEF Places
  <1>3. ASSUME NEW n \in 1 .. N, NEW j
        PROVE  j \in In(n) <=> AssignsAt(a, name, n, j)
    BY <1>1, <1>3 DEF AssignsAt, Assigned, NameAt
  <1> HIDE DEF In, N
  <1>4. ASSUME NEW i, NEW j
        PROVE  <<i, j>> \in Places(lines, name) <=> AssignsAt(a, name, i, j)
    <2>1. ASSUME <<i, j>> \in Places(lines, name) PROVE AssignsAt(a, name, i, j)
      <3>1. PICK n \in 1 .. N : <<i, j>> \in Pairs(n)
        BY <1>2, <2>1
      <3>2. PICK k \in In(n) : <<i, j>> = <<n, k>>
        BY <3>1
      <3>3. i = n /\ j = k
        BY <3>2
      <3>. QED
        BY <1>3, <3>2, <3>3
    <2>2. ASSUME AssignsAt(a, name, i, j) PROVE <<i, j>> \in Places(lines, name)
      <3>1. i \in 1 .. N
        BY <2>2 DEF AssignsAt, Assigned, N
      <3>2. j \in In(i)
        BY <1>3, <2>2, <3>1
      <3>3. <<i, j>> \in Pairs(i)
        BY <3>2
      <3>. QED
        BY <1>2, <3>1, <3>3
    <2>. QED
      BY <2>1, <2>2
  <1>5. ASSUME NEW p \in Places(lines, name) PROVE \E i, j : p = <<i, j>>
    <2>1. PICK n \in 1 .. N : p \in Pairs(n)
      BY <1>2
    <2>. QED
      BY <2>1
  <1>6. \A i, j : SaidAt(lines, <<i, j>>) = SaysAt(a, i, j)
    BY DEF SaidAt, SaysAt
  <1>7. \A i, j, i2, j2 : Precedes(<<i, j>>, <<i2, j2>>) <=> Sooner(i, j, i2, j2)
    BY DEF Precedes, Sooner
  <1>. QED
    BY <1>4, <1>5, <1>6, <1>7

\* A name is said at home, and what was said last is said there first.
IsHome(lines, name, home) ==
    \A p \in Places(lines, name) :
        IF Precedes(p, home)
        THEN \E q \in Places(lines, name) :
                /\ ~Precedes(q, p) /\ Precedes(q, home)
                /\ ~SameValue(SaidAt(lines, q), SaidAt(lines, home))
        ELSE SameValue(SaidAt(lines, p), SaidAt(lines, home))

\* Two of its places contradict each other.
IsDisputed(lines, name) ==
    \E p, q \in Places(lines, name) : ~SameValue(SaidAt(lines, p), SaidAt(lines, q))

(* What was extracted, seen from the file: the names are those of its      *)
(* assignments, a value is that of the last one, and the names with a      *)
(* warning are those with two values.                                      *)
LEMMA ExtractedFromLines ==
    ASSUME NEW a, IsGiven(a)
    PROVE  LET values == ExtractValues(RowsIn(a)).values
               warnings == ExtractValues(RowsIn(a)).warnings
               lines == LinesOf(a)
           IN  /\ \A i, j : Assigned(a, i, j) => NameAt(a, i, j) \in DOMAIN values
               /\ \A name \in DOMAIN values :
                     /\ values[name]
                          = [value |-> values[name].value, line |-> values[name].line]
                     /\ \E i, j : /\ AssignsAt(a, name, i, j)
                                  /\ values[name].line = i + 1
                                  /\ values[name].value = SaysAt(a, i, j)
                                  /\ IsHome(lines, name, <<i, j>>)
               /\ \A name : Duplicate(name) \in ToSet(warnings) <=> IsDisputed(lines, name)
  <1> DEFINE rows == RowsIn(a)
             values == ExtractValues(rows).values
             warnings == ExtractValues(rows).warnings
             lines == LinesOf(a)
             N == Len(lines)
             M == Len(rows) + 1
  <1>1. /\ ExtractValues(rows) \in Findings(rows)
        /\ Follows(ExtractValues(rows), rows, M, 0)
    BY RowsAreLines, ExtractedValuesFollow
  <1>2. \A n \in 1 .. N : rows[n].sets = lines[n].sets /\ rows[n].line = n + 1
    BY RowSays
  <1>3. \A i, j : ToldAt(rows, M, 0, i, j) <=> Assigned(a, i, j)
    BY AllIsTold
  <1>4. values \in UNION {[K -> Entries(rows)] : K \in SUBSET Names(rows)}
    BY <1>1 DEF Findings
  <1>f. /\ \A i, j : ToldAt(rows, M, 0, i, j) => Named(rows, i, j) \in DOMAIN values
        /\ \A name \in DOMAIN values : \E i, j : HomeAt(values, rows, M, 0, name, i, j)
        /\ \A name : Duplicate(name) \in ToSet(warnings) <=> Disputed(rows, M, 0, name)
    BY <1>1 DEF Follows
  <1> HIDE DEF rows, values, warnings, M, N
  <1>5. ASSUME NEW i, NEW j, Assigned(a, i, j)
        PROVE  Named(rows, i, j) = NameAt(a, i, j) /\ Says(rows, i, j) = SaysAt(a, i, j)
    <2>1. i \in 1 .. N
      BY <1>5 DEF Assigned, N
    <2>. QED
      BY <1>2, <2>1 DEF Named, NameAt, Says, SaysAt
  <1>6. \A i, j : Assigned(a, i, j) => NameAt(a, i, j) \in DOMAIN values
    BY <1>f, <1>3, <1>5
  <1>7. ASSUME NEW name \in DOMAIN values
        PROVE  values[name] = [value |-> values[name].value, line |-> values[name].line]
    <2>1. values[name] \in Entries(rows)
      BY <1>4
    <2>2. PICK row, assignment : values[name] = Extracted(row, assignment)
      BY <2>1 DEF Entries
    <2>. QED
      BY <2>2 DEF Extracted
  <1>8. ASSUME NEW name
        PROVE  /\ \A i, j : /\ Tells(rows, M, 0, name, i, j) <=> AssignsAt(a, name, i, j)
                            /\ <<i, j>> \in Places(lines, name) <=> AssignsAt(a, name, i, j)
               /\ \A p \in Places(lines, name) : \E i, j : p = <<i, j>>
               /\ \A i, j : SaidAt(lines, <<i, j>>) = SaysAt(a, i, j)
               /\ \A i, j, i2, j2 : Precedes(<<i, j>>, <<i2, j2>>) <=> Sooner(i, j, i2, j2)
    <2>1. \A i, j : Tells(rows, M, 0, name, i, j) <=> AssignsAt(a, name, i, j)
      BY <1>3, <1>5 DEF Tells, AssignsAt
    <2>. QED
      BY <2>1, PlacesAre
  <1>9. ASSUME NEW name, NEW i, NEW j, AssignsAt(a, name, i, j),
               NEW i2, NEW j2, AssignsAt(a, name, i2, j2)
        PROVE  Contradicts(rows, i, j, i2, j2)
                  <=> ~SameValue(SaidAt(lines, <<i, j>>), SaidAt(lines, <<i2, j2>>))
    <2>1. Says(rows, i, j) = SaysAt(a, i, j) /\ Says(rows, i2, j2) = SaysAt(a, i2, j2)
      BY <1>5, <1>9 DEF AssignsAt
    <2>. QED
      BY <1>8, <2>1 DEF Contradicts
  <1> HIDE DEF lines
  <1>10. ASSUME NEW name \in DOMAIN values
         PROVE  \E i, j : /\ AssignsAt(a, name, i, j)
                          /\ values[name].line = i + 1
                          /\ values[name].value = SaysAt(a, i, j)
                          /\ IsHome(lines, name, <<i, j>>)
    <2>1. PICK i, j : HomeAt(values, rows, M, 0, name, i, j)
      BY <1>f
    <2>2. /\ AssignsAt(a, name, i, j)
          /\ values[name].line = rows[i].line
          /\ values[name].value = Says(rows, i, j)
          /\ Leads(rows, M, 0, name, i, j)
      BY <1>8, <2>1 DEF HomeAt
    <2>3. rows[i].line = i + 1
      BY <1>2, <2>2 DEF AssignsAt, Assigned, N, lines
    <2>4. values[name].line = i + 1 /\ values[name].value = SaysAt(a, i, j)
      BY <1>5, <2>2, <2>3 DEF AssignsAt
    <2>5. ASSUME NEW p \in Places(lines, name)
          PROVE  IF Precedes(p, <<i, j>>)
                 THEN \E q \in Places(lines, name) :
                         /\ ~Precedes(q, p) /\ Precedes(q, <<i, j>>)
                         /\ ~SameValue(SaidAt(lines, q), SaidAt(lines, <<i, j>>))
                 ELSE SameValue(SaidAt(lines, p), SaidAt(lines, <<i, j>>))
      <3>1. PICK i2, j2 : p = <<i2, j2>>
        BY <1>8
      <3>2. AssignsAt(a, name, i2, j2) /\ Tells(rows, M, 0, name, i2, j2)
        BY <1>8, <3>1
      <3>3. Precedes(p, <<i, j>>) <=> Sooner(i2, j2, i, j)
        BY <1>8, <3>1
      <3>4. CASE Sooner(i2, j2, i, j)
        <4>1. PICK i3, j3 : /\ Tells(rows, M, 0, name, i3, j3)
                            /\ ~Sooner(i3, j3, i2, j2)
                            /\ Sooner(i3, j3, i, j)
                            /\ Contradicts(rows, i3, j3, i, j)
          BY <2>2, <3>2, <3>4 DEF Leads
        <4> DEFINE q == <<i3, j3>>
        <4>2. q \in Places(lines, name) /\ AssignsAt(a, name, i3, j3)
          BY <1>8, <4>1
        <4>3. ~Precedes(q, p) /\ Precedes(q, <<i, j>>)
          BY <1>8, <3>1, <4>1
        <4>4. ~SameValue(SaidAt(lines, q), SaidAt(lines, <<i, j>>))
          BY <1>9, <2>2, <4>1, <4>2
        <4> HIDE DEF q
        <4>. QED
          BY <3>3, <3>4, <4>2, <4>3, <4>4
      <3>5. CASE ~Sooner(i2, j2, i, j)
        <4>1. ~Contradicts(rows, i2, j2, i, j)
          BY <2>2, <3>2, <3>5 DEF Leads
        <4>2. SameValue(SaidAt(lines, p), SaidAt(lines, <<i, j>>))
          BY <1>9, <2>2, <3>1, <3>2, <4>1
        <4>. QED
          BY <3>3, <3>5, <4>2
      <3>. QED
        BY <3>4, <3>5
    <2>6. IsHome(lines, name, <<i, j>>)
      BY <2>5 DEF IsHome
    <2>. QED
      BY <2>2, <2>4, <2>6
  <1>11. ASSUME NEW name
         PROVE  Disputed(rows, M, 0, name) <=> IsDisputed(lines, name)
    <2>1. ASSUME Disputed(rows, M, 0, name) PROVE IsDisputed(lines, name)
      <3>1. PICK i, j, i2, j2 : /\ Tells(rows, M, 0, name, i, j)
                                /\ Tells(rows, M, 0, name, i2, j2)
                                /\ Contradicts(rows, i, j, i2, j2)
        BY <2>1 DEF Disputed
      <3>2. /\ AssignsAt(a, name, i, j) /\ <<i, j>> \in Places(lines, name)
            /\ AssignsAt(a, name, i2, j2) /\ <<i2, j2>> \in Places(lines, name)
        BY <1>8, <3>1
      <3>3. ~SameValue(SaidAt(lines, <<i, j>>), SaidAt(lines, <<i2, j2>>))
        BY <1>9, <3>1, <3>2
      <3>. QED
        BY <3>2, <3>3 DEF IsDisputed
    <2>2. ASSUME IsDisputed(lines, name) PROVE Disputed(rows, M, 0, name)
      <3>1. PICK p \in Places(lines, name), q \in Places(lines, name) :
               ~SameValue(SaidAt(lines, p), SaidAt(lines, q))
        BY <2>2 DEF IsDisputed
      <3>2. PICK i, j : p = <<i, j>>
        BY <1>8
      <3>3. PICK i2, j2 : q = <<i2, j2>>
        BY <1>8
      <3>4. AssignsAt(a, name, i, j) /\ AssignsAt(a, name, i2, j2)
        BY <1>8, <3>2, <3>3
      <3>5. Contradicts(rows, i, j, i2, j2)
        BY <1>9, <3>1, <3>2, <3>3, <3>4
      <3>6. Tells(rows, M, 0, name, i, j) /\ Tells(rows, M, 0, name, i2, j2)
        BY <1>8, <3>4
      <3>. QED
        BY <3>5, <3>6 DEF Disputed
    <2>. QED
      BY <2>1, <2>2
  <1>12. \A name : Duplicate(name) \in ToSet(warnings) <=> IsDisputed(lines, name)
    BY <1>f, <1>11
  <1>. QED
    BY <1>6, <1>7, <1>10, <1>12 DEF values, rows, warnings, lines

(* The last value of a trace wins, and the ones before it are told.        *)
LEMMA ValuesAreLast == ASSUME AnalysisInv PROVE LastValueWins /\ DroppedValuesAreTold
  <1> SUFFICES ASSUME snapshot # NoValue PROVE LastValueWins /\ DroppedValuesAreTold
    BY DEF LastValueWins, DroppedValuesAreTold
  <1> DEFINE a == Document.artifact
  <1>1. IsGiven(a) /\ DictFacts(Document, ParsedInMemory(a))
    BY DocumentTells
  <1>c. IsConfigured
    BY InputIsConfigured
  <1> HIDE DEF a
  <1> DEFINE lines == LinesOf(a)
             before == ExtractValues(RowsIn(a)).values
             values == Document.extracted.values
             N == Len(lines)
  <1>2. /\ N \in Nat /\ DOMAIN lines = 1 .. N
        /\ \A n \in 1 .. N : /\ Len(lines[n].sets) \in Nat
                             /\ DOMAIN lines[n].sets = 1 .. Len(lines[n].sets)
    BY <1>1, RowsAreLines DEF IsLine
  <1>3. \A i, j : Assigned(a, i, j) => NameAt(a, i, j) \in DOMAIN before
    BY <1>1, ExtractedFromLines
  <1>4. ASSUME NEW name \in DOMAIN before
        PROVE  /\ before[name] = [value |-> before[name].value, line |-> before[name].line]
               /\ \E i, j : /\ AssignsAt(a, name, i, j)
                            /\ before[name].line = i + 1
                            /\ before[name].value = SaysAt(a, i, j)
                            /\ IsHome(lines, name, <<i, j>>)
    BY <1>1, ExtractedFromLines
  <1>5. values = JsonEntries(before)
    <2>1. ParsedInMemory(a).extracted = ExtractValues(RowsIn(a))
      BY <1>1, InMemoryIsParsed
    <2>. QED
      BY <1>1, <2>1 DEF DictFacts
  <1>w. \A name : Duplicate(name) \in ToSet(Document.warnings) <=> IsDisputed(lines, name)
    <2>1. \A name : Duplicate(name) \in ToSet(ExtractValues(RowsIn(a)).warnings)
                       <=> IsDisputed(lines, name)
      BY <1>1, ExtractedFromLines
    <2>2. \A name : Duplicate(name) \in ToSet(ParsedInMemory(a).warnings)
                       <=> Duplicate(name) \in ToSet(ExtractValues(RowsIn(a)).warnings)
      BY <1>1, <1>c, ParsedMessages
    <2>3. Document.warnings = ParsedInMemory(a).warnings
      BY <1>1 DEF DictFacts
    <2>. QED
      BY <2>1, <2>2, <2>3
  <1> HIDE DEF lines, before, values
  <1>6. DOMAIN values = DOMAIN before
    BY <1>5 DEF JsonEntries
  <1>7. ASSUME NEW name \in DOMAIN before
        PROVE  /\ values[name].line = before[name].line
               /\ values[name].value = JsonValue(before[name].value)
    <2>1. values[name] = [before[name] EXCEPT !.value = JsonValue(before[name].value)]
      BY <1>5 DEF JsonEntries
    <2>. QED
      BY <1>4, <2>1
  <1>8. DOMAIN values = {x.name : x \in UNION {ToSet(l.sets) : l \in ToSet(lines)}}
    <2> DEFINE sets == UNION {ToSet(l.sets) : l \in ToSet(lines)}
    <2>1. ASSUME NEW name \in DOMAIN before PROVE \E x \in sets : x.name = name
      <3>1. PICK i, j : Assigned(a, i, j) /\ NameAt(a, i, j) = name
        BY <1>4 DEF AssignsAt
      <3>2. lines[i] \in ToSet(lines) /\ lines[i].sets[j] \in ToSet(lines[i].sets)
        BY <1>2, <3>1 DEF ToSet, Assigned, lines
      <3>3. lines[i].sets[j] \in sets
        BY <3>2
      <3>. QED
        BY <3>1, <3>3 DEF NameAt, lines
    <2>2. ASSUME NEW x \in sets PROVE x.name \in DOMAIN before
      <3>1. PICK i \in 1 .. N : x \in ToSet(lines[i].sets)
        BY <1>2 DEF ToSet
      <3>2. PICK j \in 1 .. Len(lines[i].sets) : x = lines[i].sets[j]
        BY <1>2, <3>1 DEF ToSet
      <3>3. Assigned(a, i, j) /\ x.name = NameAt(a, i, j)
        BY <3>1, <3>2 DEF Assigned, NameAt, lines
      <3>. QED
        BY <1>3, <3>3
    <2> HIDE DEF sets
    <2>3. DOMAIN before = {x.name : x \in sets}
      BY <2>1, <2>2
    <2>. QED
      BY <1>6, <2>3 DEF sets
  <1>9. ASSUME NEW name \in DOMAIN values
        PROVE  \E home \in Places(lines, name) :
                  /\ values[name].line = home[1] + 1
                  /\ values[name].value = JsonValue(SaidAt(lines, home))
                  /\ \A p \in Places(lines, name) :
                        IF Precedes(p, home)
                        THEN \E q \in Places(lines, name) :
                                /\ ~Precedes(q, p) /\ Precedes(q, home)
                                /\ ~SameValue(SaidAt(lines, q), SaidAt(lines, home))
                        ELSE SameValue(SaidAt(lines, p), SaidAt(lines, home))
    <2>1. PICK i, j : /\ AssignsAt(a, name, i, j)
                      /\ before[name].line = i + 1
                      /\ before[name].value = SaysAt(a, i, j)
                      /\ IsHome(lines, name, <<i, j>>)
      BY <1>4, <1>6
    <2> DEFINE home == <<i, j>>
    <2>2. home \in Places(lines, name) /\ SaidAt(lines, home) = SaysAt(a, i, j)
      BY <1>1, <2>1, PlacesAre DEF lines
    <2>3. home[1] = i
      OBVIOUS
    <2> HIDE DEF home
    <2>4. /\ values[name].line = home[1] + 1
          /\ values[name].value = JsonValue(SaidAt(lines, home))
      BY <1>6, <1>7, <2>1, <2>2, <2>3
    <2>5. IsHome(lines, name, home)
      BY <2>1 DEF home
    <2>. QED
      BY <2>2, <2>4, <2>5 DEF IsHome
  <1>10. LastValueWins
    BY <1>8, <1>9 DEF LastValueWins, LinesOf, lines, values, a
  <1>11. DroppedValuesAreTold
    BY <1>w DEF DroppedValuesAreTold, IsDisputed, Duplicate, LinesOf, lines, a
  <1>. QED
    BY <1>10, <1>11

(* Candidates from a column of the rows: there are some when a row has it. *)
LEMMA EventsAreFound ==
    ASSUME NEW rows, rows \in Seq(ToSet(rows)), NEW r \in ToSet(rows), r.event # NoText
    PROVE  FromRows(rows, "words", LAMBDA x : x.event) # <<>>
  <1> DEFINE T == {x \in ToSet(rows) : x.event # NoText}
             findings == FromRows(rows, "words", LAMBDA x : x.event)
  <1>1. DOMAIN findings = DOMAIN Kept(rows, T)
    BY DEF FromRows
  <1>2. r \in ToSet(rows) \cap T
    OBVIOUS
  <1> HIDE DEF T, findings
  <1>3. Kept(rows, T) \in Seq(ToSet(rows)) /\ ToSet(Kept(rows, T)) = ToSet(rows) \cap T
    BY KeptElements
  <1>4. DOMAIN Kept(rows, T) # {}
    BY <1>2, <1>3 DEF ToSet
  <1>5. DOMAIN <<>> = {}
    OBVIOUS
  <1>. QED
    BY <1>1, <1>4, <1>5 DEF findings

(* The same of the call identifiers.                                     *)
LEMMA CallsAreFound ==
    ASSUME NEW rows, rows \in Seq(ToSet(rows)), NEW r \in ToSet(rows), r.call # NoText
    PROVE  FromRows(rows, "word", LAMBDA x : x.call) # <<>>
  <1> DEFINE T == {x \in ToSet(rows) : x.call # NoText}
             findings == FromRows(rows, "word", LAMBDA x : x.call)
  <1>1. DOMAIN findings = DOMAIN Kept(rows, T)
    BY DEF FromRows
  <1>2. r \in ToSet(rows) \cap T
    OBVIOUS
  <1> HIDE DEF T, findings
  <1>3. Kept(rows, T) \in Seq(ToSet(rows)) /\ ToSet(Kept(rows, T)) = ToSet(rows) \cap T
    BY KeptElements
  <1>4. DOMAIN Kept(rows, T) # {}
    BY <1>2, <1>3 DEF ToSet
  <1>5. DOMAIN <<>> = {}
    OBVIOUS
  <1>. QED
    BY <1>1, <1>4, <1>5 DEF findings

(* A target has its default, or nothing, only without candidates.          *)
LEMMA GapsHaveNoCandidates ==
    ASSUME NEW d, NEW rows, NEW extracted,
           ApplyDefinition(d, rows, extracted).status \in {"defaulted", "missing"}
    PROVE  /\ Candidates(d, rows, extracted) = <<>>
           /\ d.operation # "constant"
           /\ d.operation = "copy" => SourceCandidates(d, rows, extracted) = <<>>
  <1> DEFINE candidates == Candidates(d, rows, extracted)
             chosen == Selected(d, candidates)
             m == ApplyDefinition(d, rows, extracted)
  <1>1. candidates = <<>>
    <2>1. SUFFICES ASSUME candidates # <<>>
                   PROVE  m.status \notin {"defaulted", "missing"}
      OBVIOUS
    <2> HIDE DEF candidates, chosen
    <2>2. \/ m = MappedValue(d, "mapping_error", NoValue, NoValue, 0, FALSE)
          \/ m = MappedValue(d, "conversion_error", NoValue, chosen.value, chosen.line, FALSE)
          \/ m = MappedValue(d, "mapped", Convert(chosen.value, d.type), chosen.value,
                             chosen.line, Len(candidates) > 1)
      BY <2>1 DEF ApplyDefinition, candidates, chosen
    <2>. QED
      BY <2>2 DEF MappedValue
  <1>2. d.operation # "constant"
    <2>1. d.operation = "constant" => candidates = <<Candidate(d.constant, 0)>>
      BY DEF Candidates
    <2>2. <<Candidate(d.constant, 0)>> # <<>>
      OBVIOUS
    <2>. QED
      BY <1>1, <2>1, <2>2
  <1>3. d.operation = "copy" => SourceCandidates(d, rows, extracted) = <<>>
    BY <1>1 DEF Candidates
  <1>. QED
    BY <1>1, <1>2, <1>3

(* A default or a gap hides nothing that the trace holds.                  *)
LEMMA GapsAreReal == ASSUME AnalysisInv PROVE GapsHideNothing
  <1> SUFFICES ASSUME snapshot # NoValue PROVE GapsHideNothing
    BY DEF GapsHideNothing
  <1> DEFINE a == Document.artifact
  <1>1. IsGiven(a) /\ DictFacts(Document, ParsedInMemory(a))
    BY DocumentTells
  <1>2. IsConfigured
    BY InputIsConfigured
  <1> HIDE DEF a
  <1> DEFINE N == Len(input.defs)
             written == Document.mapped.values
             lines == LinesOf(a)
             rows == RowsIn(a)
             extracted == ExtractValues(rows)
  <1>3. /\ MappingOf(a).values = [i \in 1 .. N |-> MappedAt(a, i)]
        /\ \A i \in 1 .. N : /\ IsTarget(MappedAt(a, i))
                             /\ MappedAt(a, i).target = input.defs[i].target
    BY <1>1, <1>2, TargetsAre
  <1>4. written = [i \in 1 .. N |-> MappedToDict(MappedAt(a, i))]
    <2>1. ParsedInMemory(a).mapped = MappingOf(a)
      BY <1>1, InMemoryIsParsed
    <2>. QED
      BY <1>1, <1>3, <2>1 DEF DictFacts, Each
  <1> HIDE DEF written
  <1>5. ASSUME NEW i \in 1 .. N
        PROVE  /\ written[i].target = input.defs[i].target
               /\ written[i].status = MappedAt(a, i).status
    <2> DEFINE m == MappedAt(a, i)
    <2>1. IsTarget(m) /\ m.target = input.defs[i].target /\ written[i] = MappedToDict(m)
      BY <1>3, <1>4
    <2> HIDE DEF m
    <2>2. MappedToDict(m).target = m.target /\ MappedToDict(m).status = m.status
      BY <2>1 DEF MappedToDict, IsTarget
    <2>. QED
      BY <2>1, <2>2 DEF m
  <1>6. DOMAIN written = DOMAIN input.defs /\ DOMAIN input.defs = 1 .. N
    BY <1>2, <1>4 DEF IsConfigured
  <1>7. [i \in DOMAIN written |-> written[i].target]
           = [i \in DOMAIN input.defs |-> input.defs[i].target]
    BY <1>5, <1>6
  <1>8. /\ rows \in Seq(ToSet(rows))
        /\ DOMAIN rows = 1 .. Len(lines) /\ DOMAIN lines = 1 .. Len(lines)
        /\ \A n \in 1 .. Len(lines) : IsLine(lines[n])
    BY <1>1, RowsAreLines DEF IsRows
  <1>9. \A n \in 1 .. Len(lines) :
           rows[n].event = lines[n].event /\ rows[n].call = lines[n].call
    BY <1>1, RowSays
  <1>10. \A i, j : Assigned(a, i, j) => NameAt(a, i, j) \in DOMAIN extracted.values
    BY <1>1, ExtractedFromLines
  <1> HIDE DEF lines, rows, extracted
  <1>11. ASSUME NEW i \in DOMAIN input.defs,
                written[i].status \in {"defaulted", "missing"}
         PROVE  /\ input.defs[i].operation # "constant"
                /\ input.defs[i].operation = "copy" =>
                     /\ input.defs[i].source = "extracted_value" =>
                          \A l \in ToSet(lines) : \A x \in ToSet(l.sets) :
                             x.name # input.defs[i].name
                     /\ input.defs[i].source = "event" =>
                          \A l \in ToSet(lines) : l.event = NoText
                     /\ input.defs[i].source = "raw_field" =>
                          \A l \in ToSet(lines) : l.call = NoText
    <2> DEFINE d == input.defs[i]
    <2>1. i \in 1 .. N /\ MappedAt(a, i).status \in {"defaulted", "missing"}
      BY <1>5, <1>6, <1>11
    <2>2. ApplyDefinition(d, rows, extracted).status \in {"defaulted", "missing"}
      <3>1. ValueAt(a, i) = ApplyDefinition(d, rows, extracted)
        BY DEF ValueAt, rows, extracted
      <3>2. IsTarget(ValueAt(a, i))
        BY AppliedIsTarget DEF ValueAt
      <3>3. \/ MappedAt(a, i).status = ValueAt(a, i).status
            \/ MappedAt(a, i).status = "conversion_error"
        BY <3>2, MovedIsTarget DEF MappedAt
      <3>. QED
        BY <2>1, <3>1, <3>3
    <2> HIDE DEF d
    <2>3. /\ d.operation # "constant"
          /\ d.operation = "copy" => SourceCandidates(d, rows, extracted) = <<>>
      BY <2>2, GapsHaveNoCandidates
    <2>4. ASSUME d.operation = "copy", d.source = "extracted_value",
                 NEW l \in ToSet(lines), NEW x \in ToSet(l.sets)
          PROVE  x.name # d.name
      <3>1. PICK n \in 1 .. Len(lines) : l = lines[n]
        BY <1>8 DEF ToSet
      <3>2. DOMAIN l.sets = 1 .. Len(l.sets)
        BY <1>8, <3>1 DEF IsLine
      <3>3. PICK j \in 1 .. Len(l.sets) : x = l.sets[j]
        BY <3>2 DEF ToSet
      <3>4. Assigned(a, n, j) /\ NameAt(a, n, j) = x.name
        BY <3>1, <3>3 DEF Assigned, NameAt, lines
      <3>5. x.name \in DOMAIN extracted.values
        BY <1>10, <3>4
      <3>6. SUFFICES ASSUME x.name = d.name PROVE FALSE
        OBVIOUS
      <3> DEFINE c == Candidate(extracted.values[d.name].value,
                                extracted.values[d.name].line)
      <3>7. SourceCandidates(d, rows, extracted) = <<c>>
        BY <2>4, <3>5, <3>6 DEF SourceCandidates
      <3> HIDE DEF c
      <3>8. <<c>> # <<>>
        OBVIOUS
      <3>. QED
        BY <2>3, <2>4, <3>7, <3>8
    <2>5. ASSUME d.operation = "copy", d.source = "event", NEW l \in ToSet(lines)
          PROVE  l.event = NoText
      <3>1. PICK n \in 1 .. Len(lines) : l = lines[n]
        BY <1>8 DEF ToSet
      <3>2. rows[n] \in ToSet(rows) /\ rows[n].event = l.event
        BY <1>8, <1>9, <3>1 DEF ToSet
      <3>3. SourceCandidates(d, rows, extracted) = FromRows(rows, "words", LAMBDA r : r.event)
        BY <2>5 DEF SourceCandidates
      <3>4. FromRows(rows, "words", LAMBDA r : r.event) = <<>>
        BY <2>3, <2>5, <3>3
      <3>. QED
        BY <1>8, <3>2, <3>4, EventsAreFound
    <2>6. ASSUME d.operation = "copy", d.source = "raw_field", NEW l \in ToSet(lines)
          PROVE  l.call = NoText
      <3>1. PICK n \in 1 .. Len(lines) : l = lines[n]
        BY <1>8 DEF ToSet
      <3>2. rows[n] \in ToSet(rows) /\ rows[n].call = l.call
        BY <1>8, <1>9, <3>1 DEF ToSet
      <3>3. SourceCandidates(d, rows, extracted) = FromRows(rows, "word", LAMBDA r : r.call)
        BY <2>6 DEF SourceCandidates
      <3>4. FromRows(rows, "word", LAMBDA r : r.call) = <<>>
        BY <2>3, <2>6, <3>3
      <3>. QED
        BY <1>8, <3>2, <3>4, CallsAreFound
    <2>. QED
      BY <2>3, <2>4, <2>5, <2>6 DEF d
  <1>12. ASSUME NEW i \in DOMAIN input.defs,
                written[i].status \in {"defaulted", "missing"}
         PROVE  /\ input.defs[i].operation # "constant"
                /\ input.defs[i].operation = "copy" =>
                     CASE input.defs[i].source = "extracted_value" ->
                             \A l \in ToSet(lines) : \A x \in ToSet(l.sets) :
                                 x.name # input.defs[i].name
                       [] input.defs[i].source = "event" ->
                             \A l \in ToSet(lines) : l.event = NoText
                       [] input.defs[i].source = "raw_field" ->
                             \A l \in ToSet(lines) : l.call = NoText
                       [] OTHER -> TRUE
    BY <1>11, <1>12
  <1>. QED
    BY <1>7, <1>12 DEF GapsHideNothing, LinesOf, lines, written, a

(* The stored values are the trace's own.                                  *)
THEOREM ValuesAreTheTrace == Spec => []ValuesTellTheTrace
  <1>1. AnalysisInv => ValuesTellTheTrace
    BY ValuesAreLast, GapsAreReal DEF ValuesTellTheTrace
  <1>. QED
    BY <1>1, AnalysisInvariant, PTL

-----------------------------------------------------------------------------
(* Evidences                                                               *)

(* The rules, one by one.                                                  *)
LEMMA EvidenceRulesAre ==
    /\ Len(EvidenceRules) = 13
    /\ DOMAIN EvidenceRules = 1 .. 13
    /\ \A i \in 1 .. 11 : EvidenceRules[i] = SpecificRules[i]
    /\ EvidenceRules[12] = GenericRules[1]
    /\ EvidenceRules[13] = GenericRules[2]
    /\ DOMAIN SpecificRules = 1 .. 11
    /\ DOMAIN GenericRules = 1 .. 2
  <1>1. SpecificRules = [i \in 1 .. 11 |-> SpecificRules[i]]
        /\ DOMAIN SpecificRules = 1 .. 11
    BY DEF SpecificRules
  <1>2. GenericRules = [i \in 1 .. 2 |-> GenericRules[i]] /\ DOMAIN GenericRules = 1 .. 2
    BY DEF GenericRules
  <1>3. SpecificRules \in Seq(ToSet(SpecificRules)) /\ Len(SpecificRules) = 11
    <2>1. \A i \in 1 .. 11 : SpecificRules[i] \in ToSet(SpecificRules)
      BY <1>1 DEF ToSet
    <2>2. SpecificRules \in [1 .. 11 -> ToSet(SpecificRules)]
      BY <1>1, <2>1
    <2>. QED
      BY <1>1, <2>2
  <1>4. GenericRules \in Seq(ToSet(GenericRules)) /\ Len(GenericRules) = 2
    <2>1. \A i \in 1 .. 2 : GenericRules[i] \in ToSet(GenericRules)
      BY <1>2 DEF ToSet
    <2>2. GenericRules \in [1 .. 2 -> ToSet(GenericRules)]
      BY <1>2, <2>1
    <2>. QED
      BY <1>2, <2>2
  <1> DEFINE S == ToSet(SpecificRules) \cup ToSet(GenericRules)
  <1>5. SpecificRules \in Seq(S) /\ GenericRules \in Seq(S)
    BY <1>3, <1>4, SeqMonotonic
  <1> HIDE DEF S
  <1>6. /\ EvidenceRules \in Seq(S)
        /\ Len(EvidenceRules) = Len(SpecificRules) + Len(GenericRules)
        /\ \A i \in 1 .. Len(SpecificRules) + Len(GenericRules) :
              EvidenceRules[i] = IF i <= Len(SpecificRules) THEN SpecificRules[i]
                                 ELSE GenericRules[i - Len(SpecificRules)]
    BY <1>5, ConcatProperties DEF EvidenceRules
  <1>7. /\ Len(EvidenceRules) = 13
        /\ \A i \in 1 .. 13 : EvidenceRules[i] = IF i <= 11 THEN SpecificRules[i]
                                                 ELSE GenericRules[i - 11]
    BY <1>3, <1>4, <1>6
  <1>8. DOMAIN EvidenceRules = 1 .. 13
    <2>1. EvidenceRules \in Seq(S) /\ Len(EvidenceRules) = 13
      BY <1>6, <1>7
    <2>. QED
      BY <2>1
  <1>. QED
    BY <1>1, <1>2, <1>7, <1>8

\* What the evidence of a row tells.
TellsOf(e, row) ==
    /\ e = [category |-> e.category, type |-> e.type, severity |-> e.severity,
            layer |-> e.layer, line |-> e.line, text |-> e.text, time |-> e.time,
            words |-> e.words]
    /\ e.line = row.line
    /\ e.time = row.time
    /\ e.category = EvidenceRules[Min(Matching(row))].category
    /\ e.type = ProfileOf(e.category).type

(* The evidences are those of the rows that hold a keyword, in their order.*)
EvidencesFollow(findings, rows, f, m) ==
    /\ m \in Nat
    /\ f \in [1 .. m -> 1 .. Len(rows)]
    /\ \A i, j \in 1 .. m : i < j => f[i] < f[j]
    /\ \A j \in 1 .. Len(rows) : Matching(rows[j]) # {} <=> \E i \in 1 .. m : f[i] = j
    /\ findings = [i \in 1 .. m |-> EvidenceOfRow(rows[f[i]])]

(* The evidences are those of the rows that a rule matches, in their     *)
(* order.                                                                *)
LEMMA EvidencesAre ==
    ASSUME NEW rows, rows \in Seq(ToSet(rows))
    PROVE  \E f, m : EvidencesFollow(Evidences(rows), rows, f, m)
  <1> DEFINE T == {r \in ToSet(rows) : Matching(r) # {}}
             telling == Kept(rows, T)
             N == Len(rows)
  <1>1. PICK f, m : PicksAt(f, m, telling, rows, T, N)
    <2> HIDE DEF T, N
    <2>1. Picks(telling, rows, T, N)
      BY KeptPicks DEF N
    <2>. QED
      BY <2>1 DEF Picks
  <1>2. /\ m \in Nat
        /\ f \in [1 .. m -> 1 .. N]
        /\ telling = [i \in 1 .. m |-> rows[f[i]]]
        /\ \A i, j \in 1 .. m : i < j => f[i] < f[j]
        /\ \A j \in 1 .. N : rows[j] \in T <=> \E i \in 1 .. m : f[i] = j
    <2> HIDE DEF T, N, telling
    <2>. QED
      BY <1>1 DEF PicksAt
  <1>3. \A j \in 1 .. N : rows[j] \in T <=> Matching(rows[j]) # {}
    BY DEF ToSet
  <1>4. Evidences(rows) = [i \in DOMAIN telling |-> EvidenceOfRow(telling[i])]
    BY DEF Evidences
  <1> HIDE DEF telling, T, N
  <1>5. Evidences(rows) = [i \in 1 .. m |-> EvidenceOfRow(rows[f[i]])]
    BY <1>2, <1>4
  <1>6. \A j \in 1 .. N : Matching(rows[j]) # {} <=> \E i \in 1 .. m : f[i] = j
    BY <1>2, <1>3
  <1>. QED
    BY <1>2, <1>5, <1>6 DEF EvidencesFollow, N

(* The rule of a row is the first one that matches.                        *)
LEMMA FirstRule ==
    ASSUME NEW row, Matching(row) # {}
    PROVE  /\ Min(Matching(row)) \in 1 .. 13
           /\ Matches(EvidenceRules[Min(Matching(row))], row.info)
           /\ \A i \in 1 .. 13 : Matches(EvidenceRules[i], row.info) => Min(Matching(row)) <= i
  <1>1. Matching(row) = {i \in 1 .. 13 : Matches(EvidenceRules[i], row.info)}
    BY EvidenceRulesAre DEF Matching
  <1>2. Matching(row) \in SUBSET Nat
    BY <1>1
  <1>3. Min(Matching(row)) \in Matching(row)
        /\ \A n \in Matching(row) : Min(Matching(row)) <= n
    BY <1>2, MinIsSmallest
  <1> DEFINE first == Min(Matching(row))
  <1> HIDE DEF first
  <1>4. first \in Matching(row) /\ \A n \in Matching(row) : first <= n
    BY <1>3 DEF first
  <1>5. first \in 1 .. 13 /\ Matches(EvidenceRules[first], row.info)
    BY <1>1, <1>4
  <1>6. \A i \in 1 .. 13 : Matches(EvidenceRules[i], row.info) => first <= i
    BY <1>1, <1>4
  <1>. QED
    BY <1>5, <1>6 DEF first

(* An evidence has the line and the time of its row and the profile of   *)
(* its rule.                                                             *)
LEMMA EvidenceTells ==
    ASSUME NEW row
    PROVE  TellsOf(EvidenceOfRow(row), row)
  BY DEF EvidenceOfRow, Evidence, TellsOf

(* The meaning of a fact that is no failure of a procedure or a state.     *)
LEMMA ProblemRules ==
    ASSUME NEW i \in 1 .. 13,
           ProfileOf(EvidenceRules[i].category).type
              \in {"failure", "rejection", "timing", "retry"}
    PROVE  i \in {10, 11, 12, 13}
  <1>1. SUFFICES ASSUME i \in 1 .. 9 PROVE FALSE
    OBVIOUS
  <1>2. EvidenceRules[i] = SpecificRules[i]
    BY <1>1, EvidenceRulesAre
  <1>3. SpecificRules[i].category \in {"plmn_not_allowed", "location_update_failed",
                       "location_update_reject", "location_update_request",
                       "registration_denied", "nas_registered", "nas_not_registered",
                       "ps_attached", "ps_detached"}
    <2>1. /\ SpecificRules[1].category = "plmn_not_allowed"
          /\ SpecificRules[2].category = "location_update_failed"
          /\ SpecificRules[3].category = "location_update_reject"
          /\ SpecificRules[4].category = "location_update_request"
          /\ SpecificRules[5].category = "registration_denied"
          /\ SpecificRules[6].category = "nas_not_registered"
          /\ SpecificRules[7].category = "nas_registered"
          /\ SpecificRules[8].category = "ps_detached"
          /\ SpecificRules[9].category = "ps_attached"
      BY DEF SpecificRules, Rule
    <2>2. i \in {1, 2, 3, 4, 5, 6, 7, 8, 9}
      BY <1>1
    <2>. QED
      BY <2>1, <2>2
  <1>4. ProfileOf(SpecificRules[i].category).type \in {"mobility_management", "network_state"}
    BY <1>3 DEF ProfileOf, MobilityProfile, StateProfile, Profile
  <1>. QED
    BY <1>2, <1>4

-----------------------------------------------------------------------------
(* Signals                                                                 *)

(* The signal rules that name a problem which is a fact as well.           *)
LEMMA SignalRulesAre ==
    /\ SignalRules \in Seq(ToSet(SignalRules))
    /\ DOMAIN SignalRules = 1 .. 15
    /\ SignalRules[1] = SignalRule("failure", <<"failed", "failure", "fail">>)
    /\ SignalRules[2] = SignalRule("error", <<"exception", "error">>)
    /\ SignalRules[3] = SignalRule("timeout", <<"timed out", "timeout">>)
    /\ SignalRules[4] =
          SignalRule("retry", <<"retransmission", "retransmit", "retried", "retry">>)
    /\ SignalRules[10] = SignalRule("reject", <<"rejected", "reject", "denied">>)
  <1>1. SignalRules = [i \in 1 .. 15 |-> SignalRules[i]] /\ DOMAIN SignalRules = 1 .. 15
    BY DEF SignalRules
  <1>2. \A i \in 1 .. 15 : SignalRules[i] \in ToSet(SignalRules)
    BY <1>1 DEF ToSet
  <1>3. SignalRules \in [1 .. 15 -> ToSet(SignalRules)]
    BY <1>1, <1>2
  <1>4. SignalRules \in Seq(ToSet(SignalRules))
    BY <1>3, SeqDef
  <1>5. /\ SignalRules[1] = SignalRule("failure", <<"failed", "failure", "fail">>)
        /\ SignalRules[2] = SignalRule("error", <<"exception", "error">>)
        /\ SignalRules[3] = SignalRule("timeout", <<"timed out", "timeout">>)
    BY DEF SignalRules
  <1>6. /\ SignalRules[4] =
              SignalRule("retry", <<"retransmission", "retransmit", "retried", "retry">>)
        /\ SignalRules[10] = SignalRule("reject", <<"rejected", "reject", "denied">>)
    BY DEF SignalRules
  <1>. QED
    BY <1>1, <1>4, <1>5, <1>6

\* s is the signal of a rule in a row.
IsSignal(s, type, line) ==
    /\ s = [type |-> s.type, keyword |-> s.keyword, line |-> s.line, text |-> s.text,
            time |-> s.time]
    /\ s.type = type
    /\ s.line = line

(* A row signals every rule of which it holds a keyword.                   *)
LEMMA RowSignals ==
    ASSUME NEW row
    PROVE  /\ SignalsOfRow(row) \in Seq(ToSet(SignalsOfRow(row)))
           /\ \A k \in 1 .. 15 :
                 FoundKeywords(SignalRules[k], Words(row.info) \cup Words(row.event)) # <<>> =>
                    \E s \in ToSet(SignalsOfRow(row)) :
                       IsSignal(s, SignalRules[k].type, row.line)
  <1> DEFINE words == Words(row.info) \cup Words(row.event)
             T == {r \in ToSet(SignalRules) : FoundKeywords(r, words) # <<>>}
             kept == Kept(SignalRules, T)
             m == SignalsOfRow(row)
  <1>1. m = [i \in DOMAIN kept |-> Signal(row, kept[i].type, FoundKeywords(kept[i], words)[1])]
    BY DEF SignalsOfRow
  <1> HIDE DEF words, kept, m
  <1>2. Renders(m, kept)
        /\ \A i \in DOMAIN kept :
              m[i] = Signal(row, kept[i].type, FoundKeywords(kept[i], words)[1])
    BY <1>1 DEF Renders
  <1>3. /\ SignalRules \in Seq(ToSet(SignalRules))
        /\ \A k \in 1 .. 15 : SignalRules[k] \in ToSet(SignalRules)
    BY SignalRulesAre DEF ToSet
  <1>4. ASSUME NEW k \in 1 .. 15, FoundKeywords(SignalRules[k], words) # <<>>
        PROVE  SignalRules[k] \in ToSet(SignalRules) \cap T
    BY <1>3, <1>4
  <1> HIDE DEF T
  <1>5. /\ m \in Seq(ToSet(m))
        /\ DOMAIN m = 1 .. Len(kept)
        /\ \A i \in 1 .. Len(kept) : m[i] \in ToSet(m)
        /\ \A x \in ToSet(SignalRules) \cap T : \E i \in 1 .. Len(kept) : kept[i] = x
    BY <1>2, <1>3, KeptAreRendered DEF kept
  <1>6. DOMAIN kept = DOMAIN m
    BY <1>2 DEF Renders
  <1>7. ASSUME NEW k \in 1 .. 15, FoundKeywords(SignalRules[k], words) # <<>>
        PROVE  \E s \in ToSet(m) : IsSignal(s, SignalRules[k].type, row.line)
    <2>1. PICK i \in 1 .. Len(kept) : kept[i] = SignalRules[k]
      BY <1>4, <1>5, <1>7
    <2>2. m[i] = Signal(row, kept[i].type, FoundKeywords(kept[i], words)[1])
      BY <1>2, <1>5, <1>6
    <2>3. IsSignal(m[i], SignalRules[k].type, row.line)
      BY <2>1, <2>2 DEF IsSignal, Signal
    <2>. QED
      BY <1>5, <2>3
  <1>. QED
    BY <1>5, <1>7 DEF words, m

(* A keyword of a row is found.                                            *)
LEMMA KeywordIsFound ==
    ASSUME NEW type, NEW keywords, keywords \in Seq(ToSet(keywords)), NEW words,
           NEW w \in ToSet(keywords) \cap words
    PROVE  FoundKeywords(SignalRule(type, keywords), words) # <<>>
  <1>1. SignalRule(type, keywords).keywords = keywords
    BY DEF SignalRule
  <1>2. ToSet(Kept(keywords, words)) = ToSet(keywords) \cap words
    BY KeptElements
  <1>3. ToSet(<<>>) = {}
    BY DEF ToSet
  <1>. QED
    BY <1>1, <1>2, <1>3 DEF FoundKeywords

(* The signals of a trace are those of its rows.                           *)
LEMMA SignalsAre ==
    ASSUME NEW rows, rows \in Seq(ToSet(rows))
    PROVE  /\ DOMAIN Signals(rows) = 1 .. Len(Signals(rows))
           /\ \A n \in 1 .. Len(rows) :
                 ToSet(SignalsOfRow(rows[n])) \subseteq ToSet(Signals(rows))
  <1> DEFINE N == Len(rows)
             S == UNION {ToSet(SignalsOfRow(rows[n])) : n \in 1 .. N}
             parts == [n \in 1 .. N |-> SignalsOfRow(rows[n])]
  <1>1. N \in Nat /\ DOMAIN rows = 1 .. N
    OBVIOUS
  <1>2. Signals(rows) = FlattenSeq(parts)
    BY <1>1 DEF Signals
  <1>3. ASSUME NEW n \in 1 .. N PROVE SignalsOfRow(rows[n]) \in Seq(S)
    <2>1. SignalsOfRow(rows[n]) \in Seq(ToSet(SignalsOfRow(rows[n])))
      BY RowSignals
    <2>2. ToSet(SignalsOfRow(rows[n])) \subseteq S
      OBVIOUS
    <2> HIDE DEF S
    <2>. QED
      BY <2>1, <2>2, SeqMonotonic
  <1> HIDE DEF S, N
  <1>4. parts \in Seq(Seq(S)) /\ Len(parts) = N
    BY <1>1, <1>3
  <1>5. \A n \in 1 .. N : parts[n] = SignalsOfRow(rows[n])
    OBVIOUS
  <1> HIDE DEF parts
  <1>6. /\ Signals(rows) \in Seq(S)
        /\ \A x : x \in ToSet(Signals(rows)) <=>
                     \E i \in 1 .. Len(parts) : x \in ToSet(parts[i])
    BY <1>2, <1>4, FlattenElements
  <1>7. DOMAIN Signals(rows) = 1 .. Len(Signals(rows))
    BY <1>6
  <1>. QED
    BY <1>4, <1>5, <1>6, <1>7 DEF N

(* The elements of short sequences.                                        *)
LEMMA Elements2 ==
    ASSUME NEW x, NEW y
    PROVE  ToSet(<<x, y>>) = {x, y} /\ <<x, y>> \in Seq({x, y})
  <1> DEFINE s == <<x, y>>
  <1>1. DOMAIN s = 1 .. 2 /\ 1 .. 2 = {1, 2} /\ s[1] = x /\ s[2] = y
        /\ s = [i \in 1 .. 2 |-> s[i]]
    OBVIOUS
  <1> HIDE DEF s
  <1>2. ToSet(s) = {x, y}
    BY <1>1 DEF ToSet
  <1>3. s \in Seq({x, y})
    <2>1. s \in [1 .. 2 -> {x, y}]
      BY <1>1
    <2>. QED
      BY <2>1, SeqDef
  <1>. QED
    BY <1>2, <1>3 DEF s

(* The elements of three.                                                *)
LEMMA Elements3 ==
    ASSUME NEW x, NEW y, NEW z
    PROVE  ToSet(<<x, y, z>>) = {x, y, z} /\ <<x, y, z>> \in Seq({x, y, z})
  <1> DEFINE s == <<x, y, z>>
  <1>1. /\ DOMAIN s = 1 .. 3 /\ 1 .. 3 = {1, 2, 3}
        /\ s[1] = x /\ s[2] = y /\ s[3] = z
        /\ s = [i \in 1 .. 3 |-> s[i]]
    OBVIOUS
  <1> HIDE DEF s
  <1>2. ToSet(s) = {x, y, z}
    BY <1>1 DEF ToSet
  <1>3. s \in Seq({x, y, z})
    <2>1. s \in [1 .. 3 -> {x, y, z}]
      BY <1>1
    <2>. QED
      BY <2>1, SeqDef
  <1>. QED
    BY <1>2, <1>3 DEF s

(* The elements of four.                                                 *)
LEMMA Elements4 ==
    ASSUME NEW w, NEW x, NEW y, NEW z
    PROVE  ToSet(<<w, x, y, z>>) = {w, x, y, z} /\ <<w, x, y, z>> \in Seq({w, x, y, z})
  <1> DEFINE s == <<w, x, y, z>>
  <1>1. /\ DOMAIN s = 1 .. 4 /\ 1 .. 4 = {1, 2, 3, 4}
        /\ s[1] = w /\ s[2] = x /\ s[3] = y /\ s[4] = z
        /\ s = [i \in 1 .. 4 |-> s[i]]
    OBVIOUS
  <1> HIDE DEF s
  <1>2. ToSet(s) = {w, x, y, z}
    BY <1>1 DEF ToSet
  <1>3. s \in Seq({w, x, y, z})
    <2>1. s \in [1 .. 4 -> {w, x, y, z}]
      BY <1>1
    <2>. QED
      BY <2>1, SeqDef
  <1>. QED
    BY <1>2, <1>3 DEF s

(* The keywords of those rules.                                            *)
LEMMA SignalKeywords ==
    /\ \A k \in {1, 2, 3, 4, 10} :
          /\ SignalRules[k] = SignalRule(SignalRules[k].type, SignalRules[k].keywords)
          /\ SignalRules[k].keywords \in Seq(ToSet(SignalRules[k].keywords))
          /\ SignalRules[k].type \in {"failure", "error", "timeout", "retry", "reject"}
    /\ ToSet(SignalRules[1].keywords) = {"failed", "failure", "fail"}
    /\ ToSet(SignalRules[2].keywords) = {"exception", "error"}
    /\ ToSet(SignalRules[3].keywords) = {"timed out", "timeout"}
    /\ ToSet(SignalRules[4].keywords)
          = {"retransmission", "retransmit", "retried", "retry"}
    /\ ToSet(SignalRules[10].keywords) = {"rejected", "reject", "denied"}
  <1>2. SignalRules[1].type = "failure"
        /\ SignalRules[1].keywords = <<"failed", "failure", "fail">>
    BY DEF SignalRules, SignalRule
  <1>3. SignalRules[2].type = "error" /\ SignalRules[2].keywords = <<"exception", "error">>
    BY DEF SignalRules, SignalRule
  <1>4. SignalRules[3].type = "timeout"
        /\ SignalRules[3].keywords = <<"timed out", "timeout">>
    BY DEF SignalRules, SignalRule
  <1>5. SignalRules[4].type = "retry"
        /\ SignalRules[4].keywords = <<"retransmission", "retransmit", "retried", "retry">>
    BY DEF SignalRules, SignalRule
  <1>6. SignalRules[10].type = "reject"
        /\ SignalRules[10].keywords = <<"rejected", "reject", "denied">>
    BY DEF SignalRules, SignalRule
  <1>7. /\ ToSet(<<"failed", "failure", "fail">>) = {"failed", "failure", "fail"}
        /\ <<"failed", "failure", "fail">> \in Seq({"failed", "failure", "fail"})
    BY Elements3
  <1>8. /\ ToSet(<<"exception", "error">>) = {"exception", "error"}
        /\ <<"exception", "error">> \in Seq({"exception", "error"})
    BY Elements2
  <1>9. /\ ToSet(<<"timed out", "timeout">>) = {"timed out", "timeout"}
        /\ <<"timed out", "timeout">> \in Seq({"timed out", "timeout"})
    BY Elements2
  <1>10. /\ ToSet(<<"retransmission", "retransmit", "retried", "retry">>)
               = {"retransmission", "retransmit", "retried", "retry"}
         /\ <<"retransmission", "retransmit", "retried", "retry">>
               \in Seq({"retransmission", "retransmit", "retried", "retry"})
    BY Elements4
  <1>11. /\ ToSet(<<"rejected", "reject", "denied">>) = {"rejected", "reject", "denied"}
         /\ <<"rejected", "reject", "denied">> \in Seq({"rejected", "reject", "denied"})
    BY Elements3
  <1>12. ASSUME NEW k \in {1, 2, 3, 4, 10}
         PROVE  /\ SignalRules[k].keywords \in Seq(ToSet(SignalRules[k].keywords))
                /\ SignalRules[k].type \in {"failure", "error", "timeout", "retry", "reject"}
    <2>1. CASE k = 1
      BY <1>2, <1>7, <2>1
    <2>2. CASE k = 2
      BY <1>3, <1>8, <2>2
    <2>3. CASE k = 3
      BY <1>4, <1>9, <2>3
    <2>4. CASE k = 4
      BY <1>5, <1>10, <2>4
    <2>5. CASE k = 10
      BY <1>6, <1>11, <2>5
    <2>. QED
      BY <2>1, <2>2, <2>3, <2>4, <2>5
  <1>13. ASSUME NEW k \in {1, 2, 3, 4, 10}
         PROVE  SignalRules[k] = SignalRule(SignalRules[k].type, SignalRules[k].keywords)
    BY <1>2, <1>3, <1>4, <1>5, <1>6, SignalRulesAre
  <1>. QED
    BY <1>2, <1>3, <1>4, <1>5, <1>6, <1>7, <1>8, <1>9, <1>10, <1>11, <1>12, <1>13

(* The keywords of a problem are keywords of a signal.                     *)
LEMMA ProblemKeywords ==
    ASSUME NEW i \in {10, 11, 12, 13}, NEW text, NEW words, Words(text) \subseteq words,
           Matches(EvidenceRules[i], text)
    PROVE  \E k \in 1 .. 15 :
              /\ FoundKeywords(SignalRules[k], words) # <<>>
              /\ SignalRules[k].type \in {"failure", "error", "timeout", "retry", "reject"}
  <1>1. PICK w : w \in EvidenceRules[i].any /\ w \in words
    BY DEF Matches
  <1>2. \E k \in {1, 2, 3, 4, 10} : w \in ToSet(SignalRules[k].keywords)
    <2>1. CASE i = 10
      <3>1. EvidenceRules[i] = SpecificRules[10]
        BY <2>1, EvidenceRulesAre
      <3>2. SpecificRules[10].any = {"timeout", "timed out"}
        BY DEF SpecificRules, Rule
      <3>3. w \in ToSet(SignalRules[3].keywords)
        BY <1>1, <3>1, <3>2, SignalKeywords
      <3>. QED
        BY <3>3
    <2>2. CASE i = 11
      <3>1. EvidenceRules[i] = SpecificRules[11]
        BY <2>2, EvidenceRulesAre
      <3>2. SpecificRules[11].any = {"retry", "retried", "retransmission", "retransmit"}
        BY DEF SpecificRules, Rule
      <3>3. w \in ToSet(SignalRules[4].keywords)
        BY <1>1, <3>1, <3>2, SignalKeywords
      <3>. QED
        BY <3>3
    <2>3. CASE i = 12
      <3>1. EvidenceRules[i] = GenericRules[1]
        BY <2>3, EvidenceRulesAre
      <3>2. GenericRules[1].any = {"fail", "failed", "failure", "error", "exception"}
        BY DEF GenericRules, Rule
      <3>3. w \in {"fail", "failed", "failure"} => w \in ToSet(SignalRules[1].keywords)
        BY SignalKeywords
      <3>4. w \in {"error", "exception"} => w \in ToSet(SignalRules[2].keywords)
        BY SignalKeywords
      <3>. QED
        BY <1>1, <3>1, <3>2, <3>3, <3>4
    <2>4. CASE i = 13
      <3>1. EvidenceRules[i] = GenericRules[2]
        BY <2>4, EvidenceRulesAre
      <3>2. GenericRules[2].any = {"reject", "rejected", "denied"}
        BY DEF GenericRules, Rule
      <3>3. w \in ToSet(SignalRules[10].keywords)
        BY <1>1, <3>1, <3>2, SignalKeywords
      <3>. QED
        BY <3>3
    <2>. QED
      BY <2>1, <2>2, <2>3, <2>4
  <1>3. ASSUME NEW k \in {1, 2, 3, 4, 10}
        PROVE  /\ SignalRules[k] = SignalRule(SignalRules[k].type, SignalRules[k].keywords)
               /\ SignalRules[k].keywords \in Seq(ToSet(SignalRules[k].keywords))
               /\ SignalRules[k].type \in {"failure", "error", "timeout", "retry", "reject"}
    BY SignalKeywords
  <1>4. PICK k \in {1, 2, 3, 4, 10} : w \in ToSet(SignalRules[k].keywords)
    BY <1>2
  <1>5. FoundKeywords(SignalRules[k], words) # <<>>
    <2> DEFINE type == SignalRules[k].type
               keywords == SignalRules[k].keywords
    <2>1. SignalRules[k] = SignalRule(type, keywords) /\ keywords \in Seq(ToSet(keywords))
      BY <1>3
    <2>2. w \in ToSet(keywords) \cap words
      BY <1>1, <1>4
    <2> HIDE DEF type, keywords
    <2>3. FoundKeywords(SignalRule(type, keywords), words) # <<>>
      BY <2>1, <2>2, KeywordIsFound
    <2>. QED
      BY <2>1, <2>3
  <1>6. SignalRules[k].type \in {"failure", "error", "timeout", "retry", "reject"}
    BY <1>3
  <1>. QED
    BY <1>5, <1>6

(* A problem that is a fact of a row is a signal of the same row.          *)
LEMMA ProblemIsSignalled ==
    ASSUME NEW rows, rows \in Seq(ToSet(rows)), NEW n \in 1 .. Len(rows),
           Matching(rows[n]) # {},
           EvidenceOfRow(rows[n]).type \in {"failure", "rejection", "timing", "retry"}
    PROVE  \E s \in ToSet(Signals(rows)) :
              \E type \in {"failure", "error", "timeout", "retry", "reject"} :
                 IsSignal(s, type, rows[n].line)
  <1> DEFINE row == rows[n]
             first == Min(Matching(row))
             words == Words(row.info) \cup Words(row.event)
  <1>1. first \in 1 .. 13 /\ Matches(EvidenceRules[first], row.info)
    BY FirstRule
  <1>2. ProfileOf(EvidenceRules[first].category).type
           \in {"failure", "rejection", "timing", "retry"}
    BY EvidenceTells DEF TellsOf
  <1> HIDE DEF first, row
  <1>3. first \in {10, 11, 12, 13}
    BY <1>1, <1>2, ProblemRules
  <1>4. Words(row.info) \subseteq words
    OBVIOUS
  <1> HIDE DEF words
  <1>5. PICK k \in 1 .. 15 :
           /\ FoundKeywords(SignalRules[k], words) # <<>>
           /\ SignalRules[k].type \in {"failure", "error", "timeout", "retry", "reject"}
    BY <1>1, <1>3, <1>4, ProblemKeywords
  <1>6. PICK s \in ToSet(SignalsOfRow(row)) : IsSignal(s, SignalRules[k].type, row.line)
    BY <1>5, RowSignals DEF words
  <1>7. s \in ToSet(Signals(rows))
    BY SignalsAre DEF row
  <1>. QED
    BY <1>5, <1>6, <1>7 DEF row

(* The two vocabularies agree.                                             *)
LEMMA VocabulariesAgree == ASSUME AnalysisInv PROVE ProblemsAreSignalled
  <1> SUFFICES ASSUME snapshot # NoValue, NEW e \in ToSet(Document.evidences),
                      e.type \in {"failure", "rejection", "timing", "retry"}
               PROVE  \E s \in ToSet(Document.signals) : s.line = e.line /\ IsProblemSignal(s)
    BY DEF ProblemsAreSignalled
  <1> DEFINE a == Document.artifact
             rows == RowsIn(a)
  <1>1. IsGiven(a) /\ DictFacts(Document, ParsedInMemory(a))
    BY DocumentTells
  <1> HIDE DEF a
  <1>2. rows \in Seq(ToSet(rows))
    BY <1>1, RowsAreLines DEF IsRows
  <1>3. /\ Document.evidences = Timed(Evidences(rows), JsonTime)
        /\ Document.signals = Timed(Signals(rows), JsonTime)
    BY <1>1, InMemoryIsParsed DEF DictFacts
  <1> HIDE DEF rows
  <1>4. PICK f, m : EvidencesFollow(Evidences(rows), rows, f, m)
    BY <1>2, EvidencesAre
  <1> DEFINE evidences == Document.evidences
             signals == Document.signals
             made == Evidences(rows)
             heard == Signals(rows)
  <1>5. /\ m \in Nat
        /\ f \in [1 .. m -> 1 .. Len(rows)]
        /\ \A j \in 1 .. Len(rows) : Matching(rows[j]) # {} <=> \E i \in 1 .. m : f[i] = j
        /\ made = [i \in 1 .. m |-> EvidenceOfRow(rows[f[i]])]
    BY <1>4 DEF EvidencesFollow
  <1>6. evidences = [i \in DOMAIN made |-> [made[i] EXCEPT !.time = JsonTime(@)]]
    BY <1>3 DEF Timed
  <1>7. signals = [i \in DOMAIN heard |-> [heard[i] EXCEPT !.time = JsonTime(@)]]
    BY <1>3 DEF Timed
  <1> HIDE DEF evidences, signals, made, heard
  <1>8. PICK i \in 1 .. m : e = [made[i] EXCEPT !.time = JsonTime(made[i].time)]
    BY <1>5, <1>6 DEF ToSet, evidences
  <1> DEFINE n == f[i]
  <1>9. n \in 1 .. Len(rows) /\ Matching(rows[n]) # {} /\ made[i] = EvidenceOfRow(rows[n])
    BY <1>5
  <1> HIDE DEF n
  <1>10. TellsOf(made[i], rows[n])
    BY <1>9, EvidenceTells
  <1>11. e.type = made[i].type /\ e.line = rows[n].line
    BY <1>8, <1>10 DEF TellsOf
  <1>12. PICK s \in ToSet(heard) :
            \E type \in {"failure", "error", "timeout", "retry", "reject"} :
               IsSignal(s, type, rows[n].line)
    BY <1>2, <1>9, <1>11, ProblemIsSignalled DEF heard
  <1>13. PICK k \in DOMAIN heard : s = heard[k]
    BY DEF ToSet
  <1>14. signals[k] = [s EXCEPT !.time = JsonTime(s.time)] /\ signals[k] \in ToSet(signals)
    BY <1>7, <1>13 DEF ToSet
  <1>15. signals[k].line = rows[n].line
         /\ signals[k].type \in {"failure", "error", "timeout", "retry", "reject"}
    BY <1>12, <1>14 DEF IsSignal
  <1>16. IsProblemSignal(signals[k])
    BY <1>15 DEF IsProblemSignal
  <1>. QED
    BY <1>11, <1>14, <1>15, <1>16 DEF signals

(* A problem that is a fact is a signal as well.                           *)
THEOREM FactsAreSignalled == Spec => []ProblemsAreSignalled
  <1>1. AnalysisInv => ProblemsAreSignalled
    BY VocabulariesAgree
  <1>. QED
    BY <1>1, AnalysisInvariant, PTL

-----------------------------------------------------------------------------
(* What is rebuilt                                                         *)

(* What is read from a document.                                           *)
LoadFacts(r, d) ==
    /\ r.artifact = d.artifact
    /\ r.raw_trace.rows = Timed(d.raw_trace.rows, ParseJsonTime)
    /\ r.raw_trace.parser_warnings = d.raw_trace.parser_warnings
    /\ r.evidences = Timed(d.evidences, ParseJsonTime)
    /\ r.extracted = d.extracted
    /\ r.mapped.values = Each(d.mapped.values, MappedFromDict)
    /\ r.warnings = d.warnings
    /\ r.errors = d.errors

(* What FromDict reads of a document.                                    *)
LEMMA LoadSays ==
    ASSUME NEW d, IsParsed(d)
    PROVE  IsTrace(FromDict(d).raw_trace) /\ LoadFacts(FromDict(d), d)
  <1> DEFINE rows == Timed(d.raw_trace.rows, ParseJsonTime)
             evidences == Timed(d.evidences, ParseJsonTime)
             signals == Timed(d.signals, ParseJsonTime)
             targets == Each(d.mapped.values, MappedFromDict)
             r == [d EXCEPT !.raw_trace.rows = rows, !.evidences = evidences,
                            !.signals = signals, !.mapped.values = targets]
  <1>1. FromDict(d) = r
    BY DEF FromDict
  <1> HIDE DEF rows, evidences, signals, targets
  <1>2. /\ r.artifact = d.artifact
        /\ r.raw_trace = [d.raw_trace EXCEPT !.rows = rows]
        /\ r.evidences = evidences
        /\ r.extracted = d.extracted
        /\ r.mapped = [d.mapped EXCEPT !.values = targets]
        /\ r.warnings = d.warnings
        /\ r.errors = d.errors
    BY DEF IsParsed
  <1> HIDE DEF r
  <1>3. /\ IsTrace(r.raw_trace) /\ r.raw_trace.rows = rows
        /\ r.raw_trace.parser_warnings = d.raw_trace.parser_warnings
    BY <1>2 DEF IsParsed, IsTrace
  <1>4. r.mapped.values = targets
    BY <1>2 DEF IsParsed, IsMapping
  <1>5. LoadFacts(r, d)
    BY <1>2, <1>3, <1>4 DEF LoadFacts, rows, evidences, targets
  <1>. QED
    BY <1>1, <1>3, <1>5

\* Records with a time, in a sequence.
HaveTimes(items) ==
    /\ items = [i \in DOMAIN items |-> items[i]]
    /\ \A i \in DOMAIN items : /\ items[i] = [x \in DOMAIN items[i] |-> items[i][x]]
                               /\ "time" \in DOMAIN items[i]
                               /\ items[i].time \in Times \cup {NoTime}

(* Times come back from a document.                                        *)
LEMMA TimesComeBack ==
    ASSUME NEW items, HaveTimes(items)
    PROVE  Timed(Timed(items, JsonTime), ParseJsonTime) = items
  <1> DEFINE written == Timed(items, JsonTime)
             read == Timed(written, ParseJsonTime)
  <1>1. written = [i \in DOMAIN items |-> [items[i] EXCEPT !.time = JsonTime(items[i].time)]]
    BY DEF Timed
  <1> HIDE DEF written
  <1>2. read = [i \in DOMAIN written |->
                  [written[i] EXCEPT !.time = ParseJsonTime(written[i].time)]]
    BY DEF Timed
  <1> HIDE DEF read
  <1>3. ASSUME NEW i \in DOMAIN items PROVE read[i] = items[i]
    <2> DEFINE x == items[i]
               y == written[i]
    <2>1. /\ x = [n \in DOMAIN x |-> x[n]] /\ "time" \in DOMAIN x
          /\ x.time \in Times \cup {NoTime}
      BY DEF HaveTimes
    <2>2. y = [x EXCEPT !.time = JsonTime(x.time)]
      BY <1>1
    <2>3. read[i] = [y EXCEPT !.time = ParseJsonTime(y.time)]
      BY <1>1, <1>2
    <2> HIDE DEF x, y
    <2>4. ParseJsonTime(JsonTime(x.time)) = x.time
      BY <2>1, TimeSurvives
    <2>5. y.time = JsonTime(x.time) /\ DOMAIN y = DOMAIN x
          /\ \A n \in DOMAIN x : n # "time" => y[n] = x[n]
      BY <2>1, <2>2
    <2>6. read[i] = [y EXCEPT !.time = x.time]
      BY <2>3, <2>4, <2>5
    <2>7. [y EXCEPT !.time = x.time] = [n \in DOMAIN x |-> IF n = "time" THEN x.time ELSE y[n]]
      BY <2>5
    <2>8. [n \in DOMAIN x |-> IF n = "time" THEN x.time ELSE y[n]] = [n \in DOMAIN x |-> x[n]]
      BY <2>5
    <2>. QED
      BY <2>1, <2>6, <2>7, <2>8 DEF x
  <1>4. read = [i \in DOMAIN items |-> read[i]]
    BY <1>1, <1>2
  <1>5. items = [i \in DOMAIN items |-> items[i]]
    BY DEF HaveTimes
  <1>6. read = items
    BY <1>3, <1>4, <1>5
  <1>. QED
    BY <1>6 DEF read, written

(* The rows and the evidences have times.                                  *)
LEMMA PartsHaveTimes ==
    ASSUME NEW a, IsGiven(a)
    PROVE  HaveTimes(RowsIn(a)) /\ HaveTimes(Evidences(RowsIn(a)))
  <1> DEFINE rows == RowsIn(a)
             N == Len(LinesOf(a))
             made == Evidences(rows)
  <1>1. /\ N \in Nat /\ DOMAIN rows = 1 .. N /\ rows \in Seq(ToSet(rows)) /\ Len(rows) = N
    BY RowsAreLines DEF IsRows
  <1>2. ASSUME NEW i \in 1 .. N
        PROVE  /\ rows[i] = [x \in DOMAIN rows[i] |-> rows[i][x]]
               /\ "time" \in DOMAIN rows[i]
               /\ rows[i].time \in Times \cup {NoTime}
    <2>1. rows[i] = RowOf(i, LinesOf(a)[i], input.zones) /\ IsLine(LinesOf(a)[i])
      BY RowsAreLines
    <2>2. TimeOf(LinesOf(a)[i].stamp, input.zones) \in Times \cup {NoTime}
      BY <2>1, TimeOfIsTime DEF IsLine, IsGiven
    <2>3. rows[i].time = TimeOf(LinesOf(a)[i].stamp, input.zones)
      BY RowSays
    <2>. QED
      BY <2>1, <2>2, <2>3 DEF RowOf
  <1> HIDE DEF rows, N, made
  <1>3. HaveTimes(rows)
    <2>1. rows = [i \in 1 .. N |-> rows[i]]
      BY <1>1
    <2>. QED
      BY <1>1, <1>2, <2>1 DEF HaveTimes
  <1>4. PICK f, m : EvidencesFollow(Evidences(rows), rows, f, m)
    BY <1>1, EvidencesAre
  <1>5. /\ f \in [1 .. m -> 1 .. N]
        /\ made = [i \in 1 .. m |-> EvidenceOfRow(rows[f[i]])]
    BY <1>1, <1>4 DEF EvidencesFollow, made
  <1>6. DOMAIN made = 1 .. m
    BY <1>5
  <1>7. ASSUME NEW i \in 1 .. m
        PROVE  /\ made[i] = [x \in DOMAIN made[i] |-> made[i][x]]
               /\ "time" \in DOMAIN made[i]
               /\ made[i].time \in Times \cup {NoTime}
    <2>1. made[i] = EvidenceOfRow(rows[f[i]]) /\ f[i] \in 1 .. N
      BY <1>5
    <2>2. TellsOf(made[i], rows[f[i]])
      BY <2>1, EvidenceTells
    <2>3. made[i].time = rows[f[i]].time
      BY <2>2 DEF TellsOf
    <2>. QED
      BY <1>2, <2>1, <2>2, <2>3 DEF TellsOf
  <1>8. HaveTimes(made)
    BY <1>5, <1>6, <1>7 DEF HaveTimes
  <1>. QED
    BY <1>3, <1>8 DEF rows, made

(* The trace that is rebuilt has what the parser had, but for the values   *)
(* that are no text.                                                       *)
LEMMA RebuiltIs ==
    ASSUME NEW a, IsGiven(a)
    PROVE  /\ Rebuilt(a).artifact = a
           /\ Rebuilt(a).raw_trace = ParsedInMemory(a).raw_trace
           /\ Rebuilt(a).evidences = Evidences(RowsIn(a))
           /\ Rebuilt(a).extracted.values = JsonEntries(ExtractValues(RowsIn(a)).values)
           /\ Rebuilt(a).mapped.values
                = Each(Each(MappingOf(a).values, MappedToDict), MappedFromDict)
           /\ Rebuilt(a).errors = ParsedInMemory(a).errors
  <1> DEFINE p == ParsedInMemory(a)
             d == ToDict(p)
             r == Rebuilt(a)
  <1>1. /\ IsParsed(p) /\ p.artifact = a
        /\ p.raw_trace.rows = RowsIn(a)
        /\ p.evidences = Evidences(RowsIn(a))
        /\ p.extracted = ExtractValues(RowsIn(a))
        /\ p.mapped = MappingOf(a)
    BY InMemoryIsParsed
  <1> HIDE DEF p
  <1>2. IsParsed(d) /\ DictFacts(d, p)
    BY <1>1, DictSays
  <1>3. r = FromDict(d)
    BY DEF Rebuilt, p
  <1> HIDE DEF d, r
  <1>4. IsTrace(r.raw_trace) /\ LoadFacts(r, d)
    BY <1>2, <1>3, LoadSays
  <1>5. HaveTimes(RowsIn(a)) /\ HaveTimes(Evidences(RowsIn(a)))
    BY PartsHaveTimes
  <1>6. r.raw_trace.rows = RowsIn(a)
    <2>1. r.raw_trace.rows = Timed(Timed(RowsIn(a), JsonTime), ParseJsonTime)
      BY <1>1, <1>2, <1>4 DEF DictFacts, LoadFacts
    <2>. QED
      BY <1>5, <2>1, TimesComeBack
  <1>7. r.evidences = Evidences(RowsIn(a))
    <2>1. r.evidences = Timed(Timed(Evidences(RowsIn(a)), JsonTime), ParseJsonTime)
      BY <1>1, <1>2, <1>4 DEF DictFacts, LoadFacts
    <2>. QED
      BY <1>5, <2>1, TimesComeBack
  <1>8. r.raw_trace = p.raw_trace
    <2>1. r.raw_trace.parser_warnings = p.raw_trace.parser_warnings
      BY <1>2, <1>4 DEF DictFacts, LoadFacts
    <2>2. IsTrace(p.raw_trace)
      BY <1>1 DEF IsParsed
    <2>. QED
      BY <1>1, <1>4, <1>6, <2>1, <2>2 DEF IsTrace
  <1>9. /\ r.artifact = a
        /\ r.errors = p.errors
        /\ r.extracted.values = JsonEntries(p.extracted.values)
    BY <1>1, <1>2, <1>4 DEF DictFacts, LoadFacts
  <1>10. r.mapped.values = Each(Each(p.mapped.values, MappedToDict), MappedFromDict)
    BY <1>2, <1>4 DEF DictFacts, LoadFacts
  <1>. QED
    BY <1>1, <1>7, <1>8, <1>9, <1>10 DEF p, r

-----------------------------------------------------------------------------
(* Events                                                                  *)

(* The categories of the rules.                                            *)
LEMMA RuleCategories ==
    /\ EvidenceRules[1].category = "plmn_not_allowed"
    /\ EvidenceRules[2].category = "location_update_failed"
    /\ EvidenceRules[3].category = "location_update_reject"
    /\ EvidenceRules[4].category = "location_update_request"
    /\ EvidenceRules[5].category = "registration_denied"
    /\ EvidenceRules[6].category = "nas_not_registered"
    /\ EvidenceRules[7].category = "nas_registered"
    /\ EvidenceRules[8].category = "ps_detached"
    /\ EvidenceRules[9].category = "ps_attached"
    /\ EvidenceRules[10].category = "timeout"
    /\ EvidenceRules[11].category = "retry_detected"
    /\ EvidenceRules[12].category = "failure_signal"
    /\ EvidenceRules[13].category = "reject_signal"
  <1>1. /\ SpecificRules[1].category = "plmn_not_allowed"
        /\ SpecificRules[2].category = "location_update_failed"
        /\ SpecificRules[3].category = "location_update_reject"
        /\ SpecificRules[4].category = "location_update_request"
        /\ SpecificRules[5].category = "registration_denied"
        /\ SpecificRules[6].category = "nas_not_registered"
        /\ SpecificRules[7].category = "nas_registered"
        /\ SpecificRules[8].category = "ps_detached"
        /\ SpecificRules[9].category = "ps_attached"
        /\ SpecificRules[10].category = "timeout"
        /\ SpecificRules[11].category = "retry_detected"
    BY DEF SpecificRules, Rule
  <1>2. /\ GenericRules[1].category = "failure_signal"
        /\ GenericRules[2].category = "reject_signal"
    BY DEF GenericRules, Rule
  <1>3. /\ \A i \in {1, 2, 3, 4, 5, 6, 7, 8, 9, 10, 11} : EvidenceRules[i] = SpecificRules[i]
        /\ EvidenceRules[12] = GenericRules[1] /\ EvidenceRules[13] = GenericRules[2]
    <2>1. \A i \in {1, 2, 3, 4, 5, 6, 7, 8, 9, 10, 11} : i \in 1 .. 11
      OBVIOUS
    <2>. QED
      BY <2>1, EvidenceRulesAre
  <1>. QED
    BY <1>1, <1>2, <1>3

(* What the rules exclude.                                                 *)
LEMMA RulesSay ==
    /\ \A i \in (1 .. 13) \ {7, 9} : EvidenceRules[i].excluded = {}
    /\ EvidenceRules[6].excluded = {} /\ EvidenceRules[8].excluded = {}
    /\ EvidenceRules[7].excluded = {"nasnotregistered", "nas not registered"}
    /\ {"nasnotregistered", "nas not registered"} \subseteq EvidenceRules[6].any
    /\ EvidenceRules[9].excluded = Detached
    /\ EvidenceRules[8].any = Detached
  <1>1. /\ SpecificRules[1].excluded = {} /\ SpecificRules[2].excluded = {}
        /\ SpecificRules[3].excluded = {} /\ SpecificRules[4].excluded = {}
        /\ SpecificRules[5].excluded = {} /\ SpecificRules[6].excluded = {}
        /\ SpecificRules[8].excluded = {} /\ SpecificRules[10].excluded = {}
        /\ SpecificRules[11].excluded = {}
    BY DEF SpecificRules, Rule
  <1>2. GenericRules[1].excluded = {} /\ GenericRules[2].excluded = {}
    BY DEF GenericRules, Rule
  <1>3. SpecificRules[7].excluded = {"nasnotregistered", "nas not registered"}
    BY DEF SpecificRules, Rule
  <1>4. SpecificRules[6].any
           = {"nasnotregistered", "registrationstate nasnotregistered", "nas not registered"}
    BY DEF SpecificRules, Rule
  <1>5. SpecificRules[9].excluded = Detached /\ SpecificRules[8].any = Detached
    BY DEF SpecificRules, Rule
  <1>6. /\ \A i \in {1, 2, 3, 4, 5, 6, 7, 8, 9, 10, 11} : EvidenceRules[i] = SpecificRules[i]
        /\ EvidenceRules[12] = GenericRules[1] /\ EvidenceRules[13] = GenericRules[2]
    <2>1. \A i \in {1, 2, 3, 4, 5, 6, 7, 8, 9, 10, 11} : i \in 1 .. 11
      OBVIOUS
    <2>. QED
      BY <2>1, EvidenceRulesAre
  <1>7. \A i \in (1 .. 13) \ {7, 9} : i \in {1, 2, 3, 4, 5, 6, 8, 10, 11, 12, 13}
    OBVIOUS
  <1>8. \A i \in {1, 2, 3, 4, 5, 6, 8, 10, 11, 12, 13} : EvidenceRules[i].excluded = {}
    BY <1>1, <1>2, <1>6
  <1>9. EvidenceRules[6].excluded = {} /\ EvidenceRules[8].excluded = {}
    BY <1>1, <1>6
  <1>10. \A i \in (1 .. 13) \ {7, 9} : EvidenceRules[i].excluded = {}
    BY <1>7, <1>8
  <1>11. {"nasnotregistered", "nas not registered"} \subseteq EvidenceRules[6].any
    BY <1>4, <1>6
  <1>. QED
    BY <1>3, <1>5, <1>6, <1>9, <1>10, <1>11

(* A keyword of a rule makes a rule of the same kind match.                *)
LEMMA KeywordsMatch ==
    ASSUME NEW text, NEW i \in 1 .. 13, EvidenceRules[i].any \cap Words(text) # {}
    PROVE  \E j \in 1 .. 13 : Matches(EvidenceRules[j], text) /\ (i <= 11 => j <= 11)
  <1>1. CASE EvidenceRules[i].excluded \cap Words(text) = {}
    BY <1>1 DEF Matches
  <1>2. CASE EvidenceRules[i].excluded \cap Words(text) # {}
    <2>1. i \in {7, 9}
      BY <1>2, RulesSay
    <2>2. CASE i = 7
      <3>1. EvidenceRules[6].any \cap Words(text) # {} /\ EvidenceRules[6].excluded = {}
        <4>1. /\ EvidenceRules[7].excluded \subseteq EvidenceRules[6].any
              /\ EvidenceRules[6].excluded = {}
          BY RulesSay
        <4>. QED
          BY <1>2, <2>2, <4>1
      <3>. QED
        BY <3>1 DEF Matches
    <2>3. CASE i = 9
      <3>1. EvidenceRules[8].any \cap Words(text) # {} /\ EvidenceRules[8].excluded = {}
        <4>1. /\ EvidenceRules[9].excluded = EvidenceRules[8].any
              /\ EvidenceRules[8].excluded = {}
          BY RulesSay
        <4>. QED
          BY <1>2, <2>3, <4>1
      <3>. QED
        BY <3>1 DEF Matches
    <2>. QED
      BY <2>1, <2>2, <2>3
  <1>. QED
    BY <1>1, <1>2

\* The keywords of some rules.
Keywords(rules) == UNION {r.any : r \in ToSet(rules)}

(* A row is told of when it holds a keyword, generically when it holds no  *)
(* specific one.                                                           *)
LEMMA KeywordsTell ==
    ASSUME NEW row
    PROVE  /\ Matching(row) # {} <=> Words(row.info) \cap Keywords(EvidenceRules) # {}
           /\ Matching(row) # {} /\ Min(Matching(row)) \in {12, 13} =>
                 Words(row.info) \cap Keywords(SpecificRules) = {}
  <1>1. Matching(row) = {i \in 1 .. 13 : Matches(EvidenceRules[i], row.info)}
    BY EvidenceRulesAre DEF Matching
  <1>2. Keywords(EvidenceRules) = UNION {EvidenceRules[i].any : i \in 1 .. 13}
    BY EvidenceRulesAre DEF Keywords, ToSet
  <1>3. Keywords(SpecificRules) = UNION {EvidenceRules[i].any : i \in 1 .. 11}
    BY EvidenceRulesAre DEF Keywords, ToSet
  <1>4. ASSUME Matching(row) # {}
        PROVE  Words(row.info) \cap Keywords(EvidenceRules) # {}
    <2>1. PICK i \in 1 .. 13 : Matches(EvidenceRules[i], row.info)
      BY <1>1, <1>4
    <2>2. EvidenceRules[i].any \cap Words(row.info) # {}
      BY <2>1 DEF Matches
    <2>. QED
      BY <1>2, <2>2
  <1>5. ASSUME Words(row.info) \cap Keywords(EvidenceRules) # {}
        PROVE  Matching(row) # {}
    <2>1. PICK i \in 1 .. 13 : EvidenceRules[i].any \cap Words(row.info) # {}
      BY <1>2, <1>5
    <2>2. \E j \in 1 .. 13 : Matches(EvidenceRules[j], row.info)
      BY <2>1, KeywordsMatch
    <2>. QED
      BY <1>1, <2>2
  <1>6. ASSUME Matching(row) # {}, Min(Matching(row)) \in {12, 13},
               Words(row.info) \cap Keywords(SpecificRules) # {}
        PROVE  FALSE
    <2>1. PICK i \in 1 .. 11 : EvidenceRules[i].any \cap Words(row.info) # {}
      BY <1>3, <1>6
    <2>2. i \in 1 .. 13 /\ i <= 11
      OBVIOUS
    <2>3. PICK j \in 1 .. 13 : Matches(EvidenceRules[j], row.info) /\ j <= 11
      BY <2>1, <2>2, KeywordsMatch
    <2>4. Min(Matching(row)) <= j
      BY <1>6, <2>3, FirstRule
    <2>. QED
      BY <1>6, <2>3, <2>4
  <1>. QED
    BY <1>4, <1>5, <1>6

(* What the event of a row says of it.                                     *)
LEMMA EventTells ==
    ASSUME NEW row, Matching(row) # {}, NEW e, TellsOf(e, row)
    PROVE  /\ EventName(e) \in {"failure_signal", "reject_signal"} =>
                 Words(row.info) \cap Keywords(SpecificRules) = {}
           /\ EventResult(e) = "success" =>
                 Words(row.info) \cap
                    ({"nasnotregistered", "nas not registered"}
                       \cup (IF EventName(e) = "nas_registered" THEN {} ELSE Detached)) = {}
  <1> DEFINE first == Min(Matching(row))
             words == Words(row.info)
  <1>1. /\ first \in 1 .. 13
        /\ Matches(EvidenceRules[first], row.info)
        /\ \A i \in 1 .. 13 : Matches(EvidenceRules[i], row.info) => first <= i
    BY FirstRule
  <1>2. e.category = EvidenceRules[first].category
    BY DEF TellsOf
  <1>3. first \in {12, 13} => words \cap Keywords(SpecificRules) = {}
    BY KeywordsTell
  <1> HIDE DEF first, words
  <1>4. first \in {1, 2, 3, 4, 5, 6, 7, 8, 9, 10, 11, 12, 13}
    BY <1>1
  <1>5. /\ e.category = "failure_signal" => first = 12
        /\ e.category = "reject_signal" => first = 13
        /\ e.category = "nas_registered" => first = 7
        /\ e.category = "ps_attached" => first = 9
    BY <1>2, <1>4, RuleCategories
  <1>6. ASSUME EventName(e) \in {"failure_signal", "reject_signal"}
        PROVE  words \cap Keywords(SpecificRules) = {}
    <2>1. e.category \in {"failure_signal", "reject_signal"}
      BY <1>6 DEF EventName
    <2>. QED
      BY <1>3, <1>5, <2>1
  <1>7. ASSUME EventResult(e) = "success"
        PROVE  words \cap
                  ({"nasnotregistered", "nas not registered"}
                     \cup (IF EventName(e) = "nas_registered" THEN {} ELSE Detached)) = {}
    <2>1. e.category \in {"nas_registered", "ps_attached"}
      <3>1. SUFFICES ASSUME e.category \notin {"nas_registered", "ps_attached"} PROVE FALSE
        OBVIOUS
      <3>2. EventResult(e) \in {"timeout", "rejected", "failed", "observed"}
        BY <3>1 DEF EventResult
      <3>. QED
        BY <1>7, <3>2
    <2>2. CASE e.category = "nas_registered"
      <3>1. EventName(e) = "nas_registered"
        BY <2>2 DEF EventName
      <3>2. {"nasnotregistered", "nas not registered"} \cap words = {}
        BY <1>1, <1>5, <2>2, RulesSay DEF Matches, words
      <3>. QED
        BY <3>1, <3>2
    <2>3. CASE e.category = "ps_attached"
      <3>1. Detached \cap words = {}
        BY <1>1, <1>5, <2>3, RulesSay DEF Matches, words
      <3>2. ~Matches(EvidenceRules[6], row.info)
        BY <1>1, <1>5, <2>3
      <3>3. EvidenceRules[6].any \cap words = {}
        <4>1. EvidenceRules[6].excluded = {}
          BY RulesSay
        <4>. QED
          BY <3>2, <4>1 DEF Matches, words
      <3>4. {"nasnotregistered", "nas not registered"} \cap words = {}
        BY <3>3, RulesSay
      <3>. QED
        BY <3>1, <3>4
    <2>. QED
      BY <2>1, <2>2, <2>3
  <1>. QED
    BY <1>6, <1>7 DEF words

\* What the property says of a batch b of the artifact a.
BatchTells(b, a) ==
    LET lines == DataLines(input.files[a])
        Telling(rules) == UNION {r.any : r \in ToSet(rules)}
        generic == {"failure_signal", "reject_signal"}
        Denying(name) == {"nasnotregistered", "nas not registered"}
            \cup (IF name = "nas_registered" THEN {} ELSE Detached)
    IN  /\ \A i \in DOMAIN b.events :
              LET e == b.events[i]
                  words == Words(lines[e.line - 1].info)
              IN  /\ e.seq = i
                  /\ i > 1 => b.events[i - 1].line < e.line
                  /\ e.name \in generic => words \cap Telling(SpecificRules) = {}
                  /\ e.result = "success" => words \cap Denying(e.name) = {}
        /\ {ev.line : ev \in ToSet(b.events)} =
              {n \in 2 .. Len(lines) + 1 :
                  Words(lines[n - 1].info) \cap Telling(SpecificRules \o GenericRules) # {}}

(* The events of an artifact tell its rows.                                *)
LEMMA ArtifactTells ==
    ASSUME NEW a, IsGiven(a)
    PROVE  /\ NormalizeTrace(Rebuilt(a)).artifact = a
           /\ BatchTells(NormalizeTrace(Rebuilt(a)), a)
  <1> DEFINE r == Rebuilt(a)
             b == NormalizeTrace(r)
             rows == RowsIn(a)
             lines == LinesOf(a)
             N == Len(lines)
             made == Evidences(rows)
             evs == b.events
  <1>1. r.artifact = a /\ r.evidences = made
    BY RebuiltIs
  <1> HIDE DEF r
  <1>2. b.artifact = a /\ evs = Events(r)
    BY <1>1 DEF NormalizeTrace
  <1>3. /\ N \in Nat /\ Len(rows) = N /\ rows \in Seq(ToSet(rows))
    BY RowsAreLines DEF IsRows
  <1>4. \A n \in 1 .. N : rows[n].line = n + 1 /\ rows[n].info = lines[n].info
    BY RowSays
  <1> HIDE DEF rows, lines
  <1>5. PICK f, m : EvidencesFollow(made, rows, f, m)
    BY <1>3, EvidencesAre
  <1>6. /\ m \in Nat
        /\ f \in [1 .. m -> 1 .. N]
        /\ \A i, j \in 1 .. m : i < j => f[i] < f[j]
        /\ \A j \in 1 .. N : Matching(rows[j]) # {} <=> \E i \in 1 .. m : f[i] = j
        /\ made = [i \in 1 .. m |-> EvidenceOfRow(rows[f[i]])]
    BY <1>3, <1>5 DEF EvidencesFollow
  <1> DEFINE operator == TraceValue(r, "operator")
             country == TraceValue(r, "country")
             values == JsonEntries(r.extracted.values)
  <1>7. evs = [i \in DOMAIN made |-> Event(a, i, made[i], operator, country, values)]
    BY <1>1, <1>2 DEF Events
  <1> HIDE DEF b, made, evs, operator, country, values, N
  <1>8. DOMAIN evs = 1 .. m
    BY <1>6, <1>7
  <1>9. ASSUME NEW i \in 1 .. m
        PROVE  /\ evs[i].seq = i
               /\ evs[i].line = f[i] + 1
               /\ evs[i].name = EventName(made[i])
               /\ evs[i].result = EventResult(made[i])
               /\ TellsOf(made[i], rows[f[i]])
               /\ f[i] \in 1 .. N
               /\ Matching(rows[f[i]]) # {}
    <2>1. f[i] \in 1 .. N /\ made[i] = EvidenceOfRow(rows[f[i]]) /\ Matching(rows[f[i]]) # {}
      BY <1>6
    <2>2. TellsOf(made[i], rows[f[i]])
      BY <2>1, EvidenceTells
    <2>3. evs[i] = Event(a, i, made[i], operator, country, values)
      BY <1>6, <1>7
    <2>4. /\ evs[i].seq = i /\ evs[i].line = made[i].line
          /\ evs[i].name = EventName(made[i]) /\ evs[i].result = EventResult(made[i])
      BY <2>3 DEF Event
    <2>5. made[i].line = f[i] + 1
      BY <1>4, <2>1, <2>2 DEF TellsOf
    <2>. QED
      BY <2>1, <2>2, <2>4, <2>5
  <1>10. ASSUME NEW i \in DOMAIN evs
         PROVE  LET e == evs[i]
                    words == Words(lines[e.line - 1].info)
                IN  /\ e.seq = i
                    /\ i > 1 => evs[i - 1].line < e.line
                    /\ e.name \in {"failure_signal", "reject_signal"} =>
                          words \cap Keywords(SpecificRules) = {}
                    /\ e.result = "success" =>
                          words \cap ({"nasnotregistered", "nas not registered"}
                             \cup (IF e.name = "nas_registered" THEN {} ELSE Detached)) = {}
    <2>1. i \in 1 .. m
      BY <1>8
    <2> DEFINE row == rows[f[i]]
    <2>2. /\ evs[i].seq = i
          /\ evs[i].line = f[i] + 1
          /\ evs[i].name = EventName(made[i])
          /\ evs[i].result = EventResult(made[i])
          /\ TellsOf(made[i], row)
          /\ f[i] \in 1 .. N
          /\ Matching(row) # {}
      BY <1>9, <2>1
    <2>3. evs[i].line - 1 = f[i] /\ lines[f[i]].info = row.info
      BY <1>3, <1>4, <2>2
    <2> HIDE DEF row
    <2>4. /\ EventName(made[i]) \in {"failure_signal", "reject_signal"} =>
                Words(row.info) \cap Keywords(SpecificRules) = {}
          /\ EventResult(made[i]) = "success" =>
                Words(row.info) \cap
                   ({"nasnotregistered", "nas not registered"}
                      \cup (IF EventName(made[i]) = "nas_registered" THEN {}
                            ELSE Detached)) = {}
      BY <2>2, EventTells
    <2>5. i > 1 => evs[i - 1].line < evs[i].line
      <3>1. SUFFICES ASSUME i > 1 PROVE evs[i - 1].line < evs[i].line
        OBVIOUS
      <3>2. i - 1 \in 1 .. m /\ i - 1 < i
        BY <1>6, <2>1, <3>1
      <3>3. evs[i - 1].line = f[i - 1] + 1 /\ f[i - 1] \in 1 .. N
        BY <1>9, <3>2
      <3>4. f[i - 1] < f[i]
        BY <1>6, <2>1, <3>2
      <3>. QED
        BY <1>3, <2>2, <3>3, <3>4
    <2>. QED
      BY <2>2, <2>3, <2>4, <2>5
  <1>11. {ev.line : ev \in ToSet(evs)} =
            {n \in 2 .. N + 1 : Words(lines[n - 1].info) \cap Keywords(EvidenceRules) # {}}
    <2>1. {ev.line : ev \in ToSet(evs)} = {evs[i].line : i \in 1 .. m}
      BY <1>8 DEF ToSet
    <2>2. ASSUME NEW i \in 1 .. m
          PROVE  /\ evs[i].line \in 2 .. N + 1
                 /\ Words(lines[evs[i].line - 1].info) \cap Keywords(EvidenceRules) # {}
      <3>1. evs[i].line = f[i] + 1 /\ f[i] \in 1 .. N /\ Matching(rows[f[i]]) # {}
        BY <1>9
      <3>2. evs[i].line - 1 = f[i]
        BY <1>3, <3>1
      <3>3. lines[f[i]].info = rows[f[i]].info
        BY <1>4, <3>1
      <3>4. Words(rows[f[i]].info) \cap Keywords(EvidenceRules) # {}
        BY <3>1, KeywordsTell
      <3>5. f[i] + 1 \in 2 .. N + 1
        BY <1>3, <3>1
      <3>. QED
        BY <3>1, <3>2, <3>3, <3>4, <3>5
    <2>3. ASSUME NEW n \in 2 .. N + 1,
                 Words(lines[n - 1].info) \cap Keywords(EvidenceRules) # {}
          PROVE  \E i \in 1 .. m : evs[i].line = n
      <3>1. n - 1 \in 1 .. N /\ (n - 1) + 1 = n
        BY <1>3
      <3>2. lines[n - 1].info = rows[n - 1].info
        BY <1>4, <3>1
      <3>3. Matching(rows[n - 1]) # {}
        BY <2>3, <3>2, KeywordsTell
      <3>4. PICK i \in 1 .. m : f[i] = n - 1
        BY <1>6, <3>1, <3>3
      <3>5. evs[i].line = f[i] + 1
        BY <1>9
      <3>. QED
        BY <3>1, <3>4, <3>5
    <2> HIDE DEF N
    <2>. QED
      BY <2>1, <2>2, <2>3
  <1>12. BatchTells(b, a)
    BY <1>10, <1>11 DEF BatchTells, Keywords, EvidenceRules, LinesOf, lines, evs, N
  <1>. QED
    BY <1>2, <1>12 DEF b, r

(* Every event is the meaning of one row.                                  *)
LEMMA EventsAreRows == ASSUME AnalysisInv PROVE EventsTellTheRows
  <1>1. ASSUME NEW b \in ToSet(events) PROVE BatchTells(b, b.artifact)
    <2>1. events \in Seq({NormalizeTrace(Rebuilt(a)) : a \in Stored})
      BY DEF AnalysisInv, StoreFollows
    <2>2. PICK a \in Stored : b = NormalizeTrace(Rebuilt(a))
      BY <2>1 DEF ToSet
    <2>3. IsGiven(a)
      BY StoredIsGiven DEF Stored
    <2>. QED
      BY <2>2, <2>3, ArtifactTells
  <1>. QED
    BY <1>1 DEF EventsTellTheRows, BatchTells

(* The events tell the rows.                                               *)
THEOREM EventsAreTrue == Spec => []EventsTellTheRows
  <1>1. AnalysisInv => EventsTellTheRows
    BY EventsAreRows
  <1>. QED
    BY <1>1, AnalysisInvariant, PTL

-----------------------------------------------------------------------------
(* Values in a document                                                    *)

\* A value or none.
IsContent(x) == x = NoValue \/ IsValue(x)

\* The text of a value, as the events take it, in the form of ISO.
TextOf(x) == IsoText(IF x = NoValue THEN NoText ELSE Convert(x, "string"))

(* A value is in a document what it is when it is written again, and says  *)
(* the same.                                                               *)
LEMMA WrittenTwice ==
    ASSUME NEW x, IsContent(x)
    PROVE  /\ JsonValue(JsonValue(x)) = JsonValue(x)
           /\ JsonValue(x) = NoValue <=> x = NoValue
           /\ TextOf(JsonValue(x)) = TextOf(x)
  <1>1. CASE x = NoValue
    BY <1>1 DEF JsonValue
  <1>2. CASE x # NoValue /\ x.type # "datetime"
    BY <1>2 DEF JsonValue
  <1>3. CASE x # NoValue /\ x.type = "datetime"
    <2> DEFINE y == [type |-> "str", form |-> "stamp", v |-> x.v]
               z == [type |-> "str", form |-> "printed", v |-> x.v]
               T == [type : {"str", "datetime"}, form : TimeForms, v : Times]
    <2>1. x = [type |-> "datetime", form |-> "stamp", v |-> x.v] /\ x.v \in Times
      BY <1>3 DEF IsContent, IsValue, Value, TimeForms
    <2>2. y \in T /\ z \in T
      BY <2>1 DEF TimeForms
    <2>3. y \notin {NoText, NoValue} /\ z \notin {NoText, NoValue}
      BY <2>2, MarkersAreNoData
    <2>4. [x EXCEPT !.type = "str"] = y
      BY <2>1
    <2>5. Convert(x, "string") = z
      <3>1. x.type = "datetime" /\ PythonType["string"] = "str"
        BY <1>3 DEF PythonType
      <3>. QED
        BY <3>1 DEF Convert, Value
    <2>6. Convert(y, "string") = y
      <3>1. PythonType["string"] = "str" /\ y.type = "str" /\ y.form = "stamp" /\ y.v = x.v
        BY DEF PythonType
      <3>. QED
        BY <3>1 DEF Convert, Value
    <2>7. [z EXCEPT !.form = "stamp"] = y /\ [y EXCEPT !.form = y.form] = y
          /\ y.type = "str" /\ y.form = "stamp" /\ z.form = "printed"
      OBVIOUS
    <2> HIDE DEF y, z, T
    <2>8. JsonValue(x) = y
      BY <1>3, <2>4 DEF JsonValue
    <2>9. JsonValue(y) = y
      BY <2>7 DEF JsonValue
    <2>10. TextOf(y) = y
      <3>1. TextOf(y) = IsoText(y)
        BY <2>3, <2>6 DEF TextOf
      <3>. QED
        BY <2>3, <2>7, <3>1 DEF IsoText
    <2>11. TextOf(x) = y
      <3>1. TextOf(x) = IsoText(z)
        BY <1>3, <2>5 DEF TextOf
      <3>. QED
        BY <2>3, <2>7, <3>1 DEF IsoText
    <2>. QED
      BY <1>3, <2>3, <2>8, <2>9, <2>10, <2>11
  <1>. QED
    BY <1>1, <1>2, <1>3

(* What is extracted are values.                                           *)
LEMMA CoercedIsValue ==
    ASSUME NEW form, NEW v, form \in TimeForms => v \in Times
    PROVE  IsValue(Coerce(form, v))
  <1> DEFINE type == CASE form = "truth" -> "bool"
                       [] form \in {"bit", "number"} -> "int"
                       [] form \in {"decimal", "whole"} -> "float"
                       [] form = "stamp" -> "datetime"
                       [] OTHER -> "str"
  <1>1. Coerce(form, v) = Value(type, form, v)
    BY DEF Coerce
  <1>2. type = "datetime" => form = "stamp"
    OBVIOUS
  <1> HIDE DEF type
  <1>. QED
    BY <1>1, <1>2 DEF IsValue, Value

(* So are the extracted values of a file.                                  *)
LEMMA ExtractedAreValues ==
    ASSUME NEW a, IsGiven(a)
    PROVE  \A name \in DOMAIN ExtractValues(RowsIn(a)).values :
              IsValue(ExtractValues(RowsIn(a)).values[name].value)
  <1> DEFINE values == ExtractValues(RowsIn(a)).values
  <1>1. ASSUME NEW name \in DOMAIN values
        PROVE  \E i, j : Assigned(a, i, j) /\ values[name].value = SaysAt(a, i, j)
    <2>1. \E i, j : /\ AssignsAt(a, name, i, j)
                    /\ values[name].line = i + 1
                    /\ values[name].value = SaysAt(a, i, j)
                    /\ IsHome(LinesOf(a), name, <<i, j>>)
      BY ExtractedFromLines
    <2>. QED
      BY <2>1 DEF AssignsAt
  <1> HIDE DEF values
  <1>2. ASSUME NEW i, NEW j, Assigned(a, i, j)
        PROVE  IsValue(SaysAt(a, i, j))
    <2> DEFINE sets == LinesOf(a)[i].sets
    <2>1. IsLine(LinesOf(a)[i]) /\ j \in 1 .. Len(sets)
      BY <1>2, RowsAreLines DEF Assigned
    <2>2. /\ sets \in Seq(ToSet(sets))
          /\ \A x \in ToSet(sets) : x.form \in TimeForms => x.v \in Times
      BY <2>1 DEF IsLine
    <2>3. sets[j] \in ToSet(sets)
      BY <2>1, <2>2
    <2>4. sets[j].form \in TimeForms => sets[j].v \in Times
      BY <2>2, <2>3
    <2>. QED
      BY <2>4, CoercedIsValue DEF SaysAt
  <1>. QED
    BY <1>1, <1>2 DEF values

-----------------------------------------------------------------------------
(* Candidates                                                              *)

\* A sequence of candidates with a value each.
AreCandidates(c) ==
    /\ c \in Seq(ToSet(c))
    /\ \A i \in 1 .. Len(c) : IsValue(c[i].value)

\* Rows and extracted values, as the mapping gets them.
IsSource(rows, extracted) ==
    /\ rows \in Seq(ToSet(rows))
    /\ \A name \in DOMAIN extracted.values : IsValue(extracted.values[name].value)

(* A sequence is one of its elements.                                      *)
LEMMA CandidatesFrom ==
    ASSUME NEW n \in Nat, NEW c, c = [i \in 1 .. n |-> c[i]],
           \A i \in 1 .. n : IsValue(c[i].value)
    PROVE  AreCandidates(c)
  <1>1. \A i \in 1 .. n : c[i] \in ToSet(c)
    BY DEF ToSet
  <1>2. c \in [1 .. n -> ToSet(c)]
    BY <1>1
  <1>3. c \in Seq(ToSet(c)) /\ Len(c) = n
    BY <1>2
  <1>. QED
    BY <1>3 DEF AreCandidates

(* So is none at all.                                                      *)
LEMMA NoneAreCandidates == AreCandidates(<<>>)
  BY DEF AreCandidates

(* Text is a value, whatever it holds.                                     *)
LEMMA WordsAreValues ==
    ASSUME NEW form \in {"words", "word", "line"}, NEW v
    PROVE  IsValue(Value("str", form, v))
  <1> DEFINE y == [type |-> "str", form |-> form, v |-> v]
  <1>1. y.type = "str" /\ y.form = form /\ y.v = v /\ form \notin TimeForms
    BY DEF TimeForms
  <1>2. Value("str", form, v) = y
    BY DEF Value
  <1>3. y = Value(y.type, y.form, y.v)
    BY <1>1 DEF Value
  <1> HIDE DEF y
  <1>. QED
    BY <1>1, <1>2, <1>3 DEF IsValue

(* Candidates from a column of the rows are text.                          *)
LEMMA ColumnCandidates ==
    ASSUME NEW rows, rows \in Seq(ToSet(rows)), NEW T,
           NEW c, c = [i \in DOMAIN Kept(rows, T) |-> c[i]],
           NEW form \in {"words", "word", "line"},
           \A i \in DOMAIN c : \E v : c[i].value = Value("str", form, v)
    PROVE  AreCandidates(c)
  <1> DEFINE filled == Kept(rows, T)
  <1>1. filled \in Seq(ToSet(rows))
    BY KeptElements
  <1> HIDE DEF filled
  <1>2. Len(filled) \in Nat /\ DOMAIN filled = 1 .. Len(filled)
    BY <1>1
  <1>3. c = [i \in 1 .. Len(filled) |-> c[i]] /\ DOMAIN c = 1 .. Len(filled)
    BY <1>2 DEF filled
  <1>4. ASSUME NEW i \in 1 .. Len(filled) PROVE IsValue(c[i].value)
    <2>1. PICK v : c[i].value = Value("str", form, v)
      BY <1>3
    <2>. QED
      BY <2>1, WordsAreValues
  <1>. QED
    BY <1>2, <1>3, <1>4, CandidatesFrom

(* The candidates that a source holds.                                     *)
LEMMA SourcesAreCandidates ==
    ASSUME NEW d, IsDefinition(d), NEW rows, NEW extracted, IsSource(rows, extracted)
    PROVE  AreCandidates(SourceCandidates(d, rows, extracted))
  <1> DEFINE c == SourceCandidates(d, rows, extracted)
  <1>1. rows \in Seq(ToSet(rows))
    BY DEF IsSource
  <1>2. CASE d.source = "extracted_value"
    <2>1. CASE d.name \in DOMAIN extracted.values
      <3>1. c = <<Candidate(extracted.values[d.name].value, extracted.values[d.name].line)>>
        BY <1>2, <2>1 DEF SourceCandidates
      <3>2. Candidate(extracted.values[d.name].value, extracted.values[d.name].line).value
               = extracted.values[d.name].value
        BY DEF Candidate
      <3>3. IsValue(extracted.values[d.name].value)
        BY <2>1 DEF IsSource
      <3> HIDE DEF c
      <3>4. c = [i \in 1 .. 1 |-> c[i]] /\ c[1].value = extracted.values[d.name].value
        BY <3>1, <3>2
      <3>5. \A i \in 1 .. 1 : IsValue(c[i].value)
        BY <3>3, <3>4
      <3>. QED
        BY <3>4, <3>5, CandidatesFrom DEF c
    <2>2. CASE d.name \notin DOMAIN extracted.values
      <3>1. c = <<>>
        BY <1>2, <2>2 DEF SourceCandidates
      <3>. QED
        BY <3>1, NoneAreCandidates
    <2>. QED
      BY <2>1, <2>2
  <1>3. CASE d.source = "information"
    <2> DEFINE T == {r \in ToSet(rows) : r.info # NoText}
               k == Kept(rows, T)
    <2>1. c = [i \in DOMAIN k |->
                 Candidate(Value("str", "words", k[i].info), k[i].line)]
      BY <1>3 DEF SourceCandidates, FromRows
    <2> HIDE DEF T, c, k
    <2>2. c = [i \in DOMAIN k |-> c[i]] /\ \A i \in DOMAIN c :
             c[i].value = Value("str", "words", k[i].info)
      BY <2>1 DEF Candidate
    <2>. QED
      BY <1>1, <2>2, ColumnCandidates DEF c, k
  <1>4. CASE d.source = "event"
    <2> DEFINE T == {r \in ToSet(rows) : r.event # NoText}
               k == Kept(rows, T)
    <2>1. c = [i \in DOMAIN k |->
                 Candidate(Value("str", "words", k[i].event), k[i].line)]
      BY <1>4 DEF SourceCandidates, FromRows
    <2> HIDE DEF T, c, k
    <2>2. c = [i \in DOMAIN k |-> c[i]] /\ \A i \in DOMAIN c :
             c[i].value = Value("str", "words", k[i].event)
      BY <2>1 DEF Candidate
    <2>. QED
      BY <1>1, <2>2, ColumnCandidates DEF c, k
  <1>5. CASE d.source = "raw_field"
    <2> DEFINE T == {r \in ToSet(rows) : r.call # NoText}
               k == Kept(rows, T)
    <2>1. c = [i \in DOMAIN k |->
                 Candidate(Value("str", "word", k[i].call), k[i].line)]
      BY <1>5 DEF SourceCandidates, FromRows
    <2> HIDE DEF T, c, k
    <2>2. c = [i \in DOMAIN k |-> c[i]] /\ \A i \in DOMAIN c :
             c[i].value = Value("str", "word", k[i].call)
      BY <2>1 DEF Candidate
    <2>. QED
      BY <1>1, <2>2, ColumnCandidates DEF c, k
  <1>6. CASE d.source = "trace_text"
    <2> DEFINE T == {r \in ToSet(rows) : SourceLine(r) # NoText}
               k == Kept(rows, T)
    <2>1. c = [i \in DOMAIN k |->
                 Candidate(Value("str", "line", SourceLine(k[i])), k[i].line)]
      BY <1>6 DEF SourceCandidates, FromRows
    <2> HIDE DEF T, c, k
    <2>2. c = [i \in DOMAIN k |-> c[i]] /\ \A i \in DOMAIN c :
             c[i].value = Value("str", "line", SourceLine(k[i]))
      BY <2>1 DEF Candidate
    <2>. QED
      BY <1>1, <2>2, ColumnCandidates DEF c, k
  <1>7. CASE d.source = "none"
    <2>1. c = <<>>
      BY <1>7 DEF SourceCandidates
    <2>. QED
      BY <2>1, NoneAreCandidates
  <1>. QED
    BY <1>2, <1>3, <1>4, <1>5, <1>6, <1>7 DEF IsDefinition

(* What a pattern finds in a value is text.                                *)
LEMMA MatchesAreValues ==
    ASSUME NEW d, IsDefinition(d), NEW value
    PROVE  LET findings == RegexMatches(d, value)
           IN  /\ findings \in Seq(ToSet(findings))
               /\ \A j \in DOMAIN findings : IsValue(findings[j])
  <1>1. PICK T : RegexMatches(d, value)
                   = [i \in DOMAIN Kept(d.pattern, T) |->
                        Value("str", "word", Kept(d.pattern, T)[i])]
    BY DEF RegexMatches
  <1>2. Kept(d.pattern, T) \in Seq(ToSet(d.pattern))
    BY KeptElements DEF IsDefinition
  <1> DEFINE k == Kept(d.pattern, T)
             findings == RegexMatches(d, value)
  <1> HIDE DEF k, findings
  <1>3. Len(k) \in Nat /\ DOMAIN k = 1 .. Len(k)
    BY <1>2 DEF k
  <1>4. findings = [i \in 1 .. Len(k) |-> Value("str", "word", k[i])]
    BY <1>1, <1>3 DEF findings, k
  <1>5. \A j \in 1 .. Len(k) : IsValue(findings[j])
    BY <1>4, WordsAreValues
  <1>6. findings \in [1 .. Len(k) -> ToSet(findings)]
    BY <1>4 DEF ToSet
  <1>7. findings \in Seq(ToSet(findings)) /\ DOMAIN findings = 1 .. Len(k)
    BY <1>3, <1>6
  <1>. QED
    BY <1>5, <1>7 DEF findings

(* Candidates that a pattern finds in others.                              *)
LEMMA RegexCandidates ==
    ASSUME NEW d, IsDefinition(d), NEW c, AreCandidates(c)
    PROVE  AreCandidates(ApplyRegex(d, c))
  <1> DEFINE findings(i) == RegexMatches(d, c[i].value)
             part(i) == [j \in DOMAIN findings(i) |-> Candidate(findings(i)[j], c[i].line)]
             ss == [i \in DOMAIN c |-> part(i)]
             S == UNION {ToSet(part(i)) : i \in DOMAIN c}
             N == Len(c)
  <1>1. N \in Nat /\ DOMAIN c = 1 .. N
    BY DEF AreCandidates
  <1>2. ApplyRegex(d, c) = FlattenSeq(ss)
    BY DEF ApplyRegex
  <1>3. ASSUME NEW i \in 1 .. N
        PROVE  /\ part(i) \in Seq(ToSet(part(i)))
               /\ \A x \in ToSet(part(i)) : IsValue(x.value)
    <2> DEFINE f == findings(i)
               p == part(i)
    <2>1. f \in Seq(ToSet(f)) /\ \A j \in DOMAIN f : IsValue(f[j])
      BY MatchesAreValues
    <2>2. p = [j \in DOMAIN f |-> Candidate(f[j], c[i].line)]
      OBVIOUS
    <2> HIDE DEF f, p
    <2>3. Len(f) \in Nat /\ DOMAIN f = 1 .. Len(f)
      BY <2>1
    <2>4. \A j \in 1 .. Len(f) : p[j] \in ToSet(p) /\ IsValue(p[j].value)
      BY <2>1, <2>2, <2>3 DEF ToSet, Candidate
    <2>5. p \in [1 .. Len(f) -> ToSet(p)]
      BY <2>2, <2>3, <2>4
    <2>6. p \in Seq(ToSet(p))
      BY <2>3, <2>5
    <2>7. \A x \in ToSet(p) : IsValue(x.value)
      BY <2>3, <2>4, <2>5 DEF ToSet
    <2>. QED
      BY <2>6, <2>7 DEF p
  <1> HIDE DEF part
  <1>4. \A i \in 1 .. N : ToSet(part(i)) \subseteq S
    BY <1>1
  <1>5. \A i \in 1 .. N : part(i) \in Seq(S)
    <2> TAKE i \in 1 .. N
    <2>1. part(i) \in Seq(ToSet(part(i))) /\ ToSet(part(i)) \subseteq S
      BY <1>3, <1>4
    <2> HIDE DEF S
    <2>. QED
      BY <2>1
  <1>6. \A x \in S : IsValue(x.value)
    BY <1>1, <1>3
  <1> HIDE DEF S
  <1>7. ss \in Seq(Seq(S)) /\ Len(ss) = N /\ \A i \in 1 .. N : ss[i] = part(i)
    BY <1>1, <1>5
  <1> HIDE DEF ss
  <1> DEFINE r == FlattenSeq(ss)
  <1>8. r \in Seq(S)
    BY <1>7, FlattenElements
  <1> HIDE DEF r
  <1>9. Len(r) \in Nat /\ r = [i \in 1 .. Len(r) |-> r[i]]
        /\ \A i \in 1 .. Len(r) : IsValue(r[i].value)
    BY <1>6, <1>8
  <1>10. AreCandidates(r)
    BY <1>9, CandidatesFrom
  <1>. QED
    BY <1>2, <1>10 DEF r

(* Candidates that a table knows.                                          *)
LEMMA LookupCandidates ==
    ASSUME NEW d, IsDefinition(d), NEW c, AreCandidates(c)
    PROVE  AreCandidates(ApplyLookup(d, c))
  <1> DEFINE T == {x \in ToSet(c) : x.value.v \in DOMAIN d.table}
             known == Kept(c, T)
             r == ApplyLookup(d, c)
  <1>1. known \in Seq(ToSet(c)) /\ ToSet(known) = ToSet(c) \cap T
    BY KeptElements DEF AreCandidates
  <1>2. r = [i \in DOMAIN known |-> Candidate(d.table[known[i].value.v], known[i].line)]
    BY DEF ApplyLookup
  <1> HIDE DEF known, r
  <1>3. Len(known) \in Nat /\ DOMAIN known = 1 .. Len(known)
    BY <1>1
  <1>4. ASSUME NEW i \in 1 .. Len(known) PROVE IsValue(r[i].value)
    <2>1. known[i] \in ToSet(known)
      BY <1>3 DEF ToSet
    <2>2. known[i].value.v \in DOMAIN d.table
      BY <1>1, <2>1
    <2>3. r[i].value = d.table[known[i].value.v]
      BY <1>2, <1>3 DEF Candidate
    <2>. QED
      BY <2>2, <2>3 DEF IsDefinition
  <1>5. r = [i \in 1 .. Len(known) |-> r[i]]
    BY <1>2, <1>3
  <1>. QED
    BY <1>3, <1>4, <1>5, CandidatesFrom DEF r

(* The candidates of a definition.                                         *)
LEMMA DefinitionCandidates ==
    ASSUME NEW d, IsDefinition(d), d.operation = "constant" => d.constant # NoValue,
           NEW rows, NEW extracted, IsSource(rows, extracted)
    PROVE  AreCandidates(Candidates(d, rows, extracted))
  <1> DEFINE sources == SourceCandidates(d, rows, extracted)
             c == Candidates(d, rows, extracted)
  <1>1. AreCandidates(sources)
    BY SourcesAreCandidates
  <1>2. CASE d.operation = "constant"
    <2> DEFINE x == Candidate(d.constant, 0)
    <2>1. c = <<x>>
      BY <1>2 DEF Candidates
    <2>2. IsValue(x.value)
      BY <1>2 DEF IsDefinition, Candidate
    <2> HIDE DEF c, x
    <2>3. c = [i \in 1 .. 1 |-> c[i]] /\ \A i \in 1 .. 1 : IsValue(c[i].value)
      BY <2>1, <2>2
    <2>. QED
      BY <2>3, CandidatesFrom DEF c
  <1>3. CASE d.operation = "copy"
    <2>1. c = sources
      BY <1>3 DEF Candidates
    <2>. QED
      BY <1>1, <2>1
  <1>4. CASE d.operation = "regex"
    <2>1. c = ApplyRegex(d, sources)
      BY <1>4 DEF Candidates
    <2>. QED
      BY <1>1, <2>1, RegexCandidates
  <1>5. CASE d.operation = "lookup"
    <2>1. c = ApplyLookup(d, sources)
      BY <1>5 DEF Candidates
    <2>. QED
      BY <1>1, <2>1, LookupCandidates
  <1>. QED
    BY <1>2, <1>3, <1>4, <1>5 DEF IsDefinition

-----------------------------------------------------------------------------
(* Targets in a document                                                   *)

\* A target holds a value exactly when it has one to give.
HoldsValue(m) ==
    /\ IsTarget(m)
    /\ IsContent(m.source_value)
    /\ IsSuccessful(m) => IsValue(m.value)
    /\ ~IsSuccessful(m) => m.value = NoValue

\* The datetime of a datetime target is one that was moved.
HoldsStamp(m) ==
    m.value_type = "datetime" /\ m.value # NoValue =>
        \E time \in Times : m.value = Value("datetime", "stamp", time)

(* One of the candidates is selected.                                      *)
LEMMA SelectedIsValue ==
    ASSUME NEW d, NEW c, AreCandidates(c), c # <<>>
    PROVE  IsValue(Selected(d, c).value)
  <1>1. Len(c) \in Nat /\ Len(c) # 0
    BY DEF AreCandidates
  <1>2. 1 \in 1 .. Len(c) /\ Len(c) \in 1 .. Len(c)
    BY <1>1
  <1>3. \E i \in 1 .. Len(c) : Selected(d, c) = c[i]
    BY <1>2 DEF Selected
  <1>. QED
    BY <1>3 DEF AreCandidates

(* A value that is converted is a value of the type.                       *)
LEMMA ConvertedIsValue ==
    ASSUME NEW type \in DOMAIN PythonType, NEW value, IsValue(value),
           Convertible(value, type)
    PROVE  IsValue(Convert(value, type))
  <1> DEFINE form == CASE type = "datetime" -> "stamp"
                       [] type = "string" /\ value.type = "datetime" -> "printed"
                       [] OTHER -> value.form
             y == Value(PythonType[type], form, value.v)
  <1>3. Convert(value, type) = y
    BY DEF Convert
  <1>4. PythonType[type] = "datetime" => type = "datetime"
    BY DEF PythonType
  <1>5. type = "datetime" => form = "stamp"
    BY DEF form
  <1>6. form \in TimeForms => value.v \in Times
    <2>1. value.type = "datetime" => value.form = "stamp"
      BY DEF IsValue
    <2>2. value.form \in TimeForms => value.v \in Times
      BY DEF IsValue
    <2>3. type = "datetime" => value.type = "datetime" \/ value.form = "date"
      BY DEF Convertible
    <2>4. {"date", "stamp"} \subseteq TimeForms
      BY DEF TimeForms
    <2>5. type = "datetime" \/ value.type = "datetime" \/ form = value.form
      BY DEF form
    <2>. QED
      BY <2>1, <2>2, <2>3, <2>4, <2>5
  <1>7. y = [type |-> PythonType[type], form |-> form, v |-> value.v]
    BY DEF Value
  <1> HIDE DEF y
  <1>8. y.type = PythonType[type] /\ y.form = form /\ y.v = value.v
    BY <1>7
  <1>9. y = Value(y.type, y.form, y.v)
    BY <1>7, <1>8 DEF Value
  <1>. QED
    BY <1>3, <1>4, <1>5, <1>6, <1>8, <1>9 DEF IsValue

(* A definition yields a target that holds what it should.                 *)
LEMMA AppliedHolds ==
    ASSUME NEW d, IsDefinition(d), d.operation = "constant" => d.constant # NoValue,
           NEW rows, NEW extracted, IsSource(rows, extracted)
    PROVE  HoldsValue(ApplyDefinition(d, rows, extracted))
  <1> DEFINE c == Candidates(d, rows, extracted)
             chosen == Selected(d, c)
             m == ApplyDefinition(d, rows, extracted)
  <1>1. AreCandidates(c)
    BY DefinitionCandidates
  <1>2. IsTarget(m)
    BY AppliedIsTarget
  <1>3. \/ m = MappedValue(d, "mapping_error", NoValue, NoValue, 0, FALSE)
        \/ m = MappedValue(d, "missing", NoValue, NoValue, 0, TRUE)
        \/ m = MappedValue(d, "defaulted", d.default, NoValue, 0, TRUE)
           /\ d.default # NoValue
        \/ m = MappedValue(d, "conversion_error", NoValue, chosen.value, chosen.line, FALSE)
           /\ c # <<>>
        \/ m = MappedValue(d, "mapped", Convert(chosen.value, d.type), chosen.value,
                           chosen.line, Len(c) > 1)
           /\ c # <<>> /\ Convertible(chosen.value, d.type)
    BY DEF ApplyDefinition
  <1>4. c # <<>> => IsValue(chosen.value)
    BY <1>1, SelectedIsValue
  <1>5. d.type \in DOMAIN PythonType /\ (d.default = NoValue \/ IsValue(d.default))
    BY DEF IsDefinition
  <1> SUFFICES HoldsValue(m)
    OBVIOUS
  <1> HIDE DEF m, c, chosen
  <1>6. CASE m = MappedValue(d, "mapping_error", NoValue, NoValue, 0, FALSE)
    BY <1>2, <1>6 DEF MappedValue, HoldsValue, IsContent, IsSuccessful
  <1>7. CASE m = MappedValue(d, "missing", NoValue, NoValue, 0, TRUE)
    BY <1>2, <1>7 DEF MappedValue, HoldsValue, IsContent, IsSuccessful
  <1>8. CASE m = MappedValue(d, "defaulted", d.default, NoValue, 0, TRUE)
             /\ d.default # NoValue
    <2>1. m.status = "defaulted" /\ m.value = d.default /\ m.source_value = NoValue
      BY <1>8 DEF MappedValue
    <2>. QED
      BY <1>2, <1>5, <1>8, <2>1 DEF HoldsValue, IsContent, IsSuccessful
  <1>9. CASE m = MappedValue(d, "conversion_error", NoValue, chosen.value, chosen.line,
                             FALSE)
             /\ c # <<>>
    <2>1. m.status = "conversion_error" /\ m.value = NoValue
          /\ m.source_value = chosen.value
      BY <1>9 DEF MappedValue
    <2>. QED
      BY <1>2, <1>4, <1>9, <2>1 DEF HoldsValue, IsContent, IsSuccessful
  <1>10. CASE m = MappedValue(d, "mapped", Convert(chosen.value, d.type), chosen.value,
                              chosen.line, Len(c) > 1)
              /\ c # <<>> /\ Convertible(chosen.value, d.type)
    <2>1. m.status = "mapped" /\ m.value = Convert(chosen.value, d.type)
          /\ m.source_value = chosen.value
      BY <1>10 DEF MappedValue
    <2>2. IsValue(Convert(chosen.value, d.type))
      BY <1>4, <1>5, <1>10, ConvertedIsValue
    <2>. QED
      BY <1>2, <1>4, <1>10, <2>1, <2>2 DEF HoldsValue, IsContent, IsSuccessful
  <1>. QED
    BY <1>3, <1>6, <1>7, <1>8, <1>9, <1>10

(* A time that is moved is a time.                                         *)
LEMMA MovedIsTime ==
    ASSUME NEW zones, ZonesOK(zones), NEW time \in Times \cup {NoTime},
           Normalized(time, zones).status \in {"normalized", "unchanged"}
    PROVE  Normalized(time, zones).time \in Times
  <1>1. time # NoTime
    BY DEF Normalized
  <1>2. time \in Times
    BY <1>1
  <1>3. Normalized(time, zones).time = InZone(Zoned(time, zones), zones.target)
    BY <1>1 DEF Normalized
  <1> DEFINE z == Zoned(time, zones)
  <1>4. z.local \in Int /\ z.offset \in Int
    <2>1. CASE time.offset # Naive
      BY <1>2, <2>1 DEF Zoned, Times
    <2>2. CASE time.offset = Naive
      <3>1. z = [time EXCEPT !.offset = IF zones.strategy = "assume_utc" THEN 0
                                        ELSE zones.source]
        BY <2>2 DEF Zoned
      <3>2. time = [local |-> time.local, offset |-> time.offset] /\ time.local \in Int
        BY <1>2 DEF Times
      <3> HIDE DEF z
      <3>3. z.local = time.local
            /\ z.offset = IF zones.strategy = "assume_utc" THEN 0 ELSE zones.source
        BY <3>1, <3>2
      <3>. QED
        BY <3>2, <3>3 DEF ZonesOK, z
    <2>. QED
      BY <2>1, <2>2
  <1> HIDE DEF z
  <1>5. InZone(z, zones.target) \in Times
    BY <1>4 DEF InZone, Instant, Times, ZonesOK
  <1>. QED
    BY <1>3, <1>5 DEF z

(* Moving its datetime keeps a target sound, and a datetime target has the *)
(* datetime that was moved.                                                *)
LEMMA MovedHolds ==
    ASSUME NEW m, HoldsValue(m), NEW zones, ZonesOK(zones)
    PROVE  HoldsValue(NormalizedMappedValue(m, zones))
           /\ HoldsStamp(NormalizedMappedValue(m, zones))
  <1> DEFINE n == NormalizedMappedValue(m, zones)
             time == DatetimeOf(m.value)
             result == Normalized(time, zones)
  <1>1. IsTarget(m)
    BY DEF HoldsValue
  <1>2. IsTarget(n) /\ n.value_type = m.value_type /\ n.source_value = m.source_value
    BY <1>1, MovedIsTarget
  <1>3. CASE ~ShouldNormalize(m)
    <2>1. n = m
      BY <1>3 DEF NormalizedMappedValue
    <2>2. HoldsStamp(m)
      BY <1>3 DEF HoldsStamp, HoldsValue, ShouldNormalize
    <2>. QED
      BY <2>1, <2>2
  <1>4. CASE ShouldNormalize(m)
    <2>1. IsValue(m.value)
      BY <1>4 DEF HoldsValue, ShouldNormalize
    <2>2. time \in Times \cup {NoTime}
      BY <2>1 DEF DatetimeOf, IsValue, TimeForms
    <2>3. CASE result.status \in {"normalized", "unchanged"}
      <3> DEFINE x == Value("datetime", "stamp", result.time)
      <3>1. result.time \in Times
        BY <2>2, <2>3, MovedIsTime
      <3>2. n = [m EXCEPT !.value = x, !.warned = m.warned \/ result.warned]
        BY <1>4, <2>3 DEF NormalizedMappedValue
      <3> HIDE DEF n, result
      <3>3. x = [type |-> "datetime", form |-> "stamp", v |-> result.time]
        BY DEF Value
      <3>4. IsValue(x)
        BY <3>1, <3>3 DEF IsValue, Value
      <3> HIDE DEF x
      <3>5. n.value = x /\ n.status = m.status
        BY <1>1, <3>2 DEF IsTarget
      <3>6. IsSuccessful(n)
        BY <1>4, <3>5 DEF ShouldNormalize, IsSuccessful
      <3>7. HoldsValue(n)
        BY <1>2, <3>4, <3>5, <3>6 DEF HoldsValue
      <3>8. HoldsStamp(n)
        BY <3>1, <3>5 DEF HoldsStamp, x
      <3>. QED
        BY <3>7, <3>8 DEF n
    <2>4. CASE result.status \notin {"normalized", "unchanged"}
      <3>1. n = [m EXCEPT !.status = "conversion_error", !.value = NoValue,
                          !.warned = FALSE]
        BY <1>4, <2>4 DEF NormalizedMappedValue
      <3> HIDE DEF n
      <3>2. n.value = NoValue /\ n.status = "conversion_error"
        BY <1>1, <3>1 DEF IsTarget
      <3>3. HoldsValue(n)
        BY <1>2, <3>2 DEF HoldsValue, IsSuccessful
      <3>4. HoldsStamp(n)
        BY <3>2 DEF HoldsStamp
      <3>. QED
        BY <3>3, <3>4 DEF n
    <2>. QED
      BY <2>3, <2>4
  <1>. QED
    BY <1>3, <1>4

\* What comes back of a target: the property calls it asText.
AsText(m) ==
    [m EXCEPT !.source_value = JsonValue(@),
              !.value = IF m.value_type = "datetime" THEN @ ELSE JsonValue(@)]

(* A target with its fields.                                               *)
LEMMA AsTextIs ==
    ASSUME NEW m, IsTarget(m)
    PROVE  /\ IsTarget(AsText(m))
           /\ AsText(m).target = m.target
           /\ AsText(m).status = m.status
           /\ AsText(m).value_type = m.value_type
           /\ AsText(m).line = m.line
           /\ AsText(m).warned = m.warned
           /\ AsText(m).source_value = JsonValue(m.source_value)
           /\ AsText(m).value
                = IF m.value_type = "datetime" THEN m.value ELSE JsonValue(m.value)
  <1> DEFINE x == IF m.value_type = "datetime" THEN m.value ELSE JsonValue(m.value)
             y == JsonValue(m.source_value)
             n == AsText(m)
  <1>1. n = [m EXCEPT !.source_value = y, !.value = x]
    BY DEF AsText, IsTarget
  <1> HIDE DEF n, x, y
  <1>2. n = [target |-> m.target, status |-> m.status, value |-> x,
             value_type |-> m.value_type, source_value |-> y, line |-> m.line,
             warned |-> m.warned]
    BY <1>1 DEF IsTarget
  <1>. QED
    BY <1>2 DEF IsTarget, n, x, y

(* Two targets with the same fields are the same.                          *)
LEMMA SameTarget ==
    ASSUME NEW m, NEW n, IsTarget(m), IsTarget(n),
           m.target = n.target, m.status = n.status, m.value = n.value,
           m.value_type = n.value_type, m.source_value = n.source_value,
           m.line = n.line, m.warned = n.warned
    PROVE  m = n
  BY DEF IsTarget

(* A target that is written and read is as the document has it, but for    *)
(* its datetime.                                                           *)
LEMMA TargetComesBack ==
    ASSUME NEW m, HoldsValue(m), HoldsStamp(m)
    PROVE  MappedFromDict(MappedToDict(m)) = AsText(m)
  <1> DEFINE w == MappedToDict(m)
             x == JsonValue(m.value)
             y == JsonValue(m.source_value)
             n == MappedFromDict(w)
             z == IF m.value_type = "datetime" THEN m.value ELSE JsonValue(m.value)
  <1>1. IsTarget(m)
    BY DEF HoldsValue
  <1>2. w = [m EXCEPT !.value = x, !.source_value = y]
    BY <1>1 DEF MappedToDict, IsTarget
  <1> HIDE DEF w, x, y, n, z
  <1>3. w = [target |-> m.target, status |-> m.status, value |-> x,
             value_type |-> m.value_type, source_value |-> y, line |-> m.line,
             warned |-> m.warned]
    BY <1>1, <1>2 DEF IsTarget
  <1>4. n = [target |-> m.target, status |-> m.status, value |-> z,
             value_type |-> m.value_type, source_value |-> y, line |-> m.line,
             warned |-> m.warned]
    <2>1. CASE m.value_type # "datetime"
      <3>1. n = w
        BY <1>3, <2>1 DEF MappedFromDict, n
      <3>2. z = x
        BY <2>1 DEF x, z
      <3>. QED
        BY <1>3, <3>1, <3>2
    <2>2. CASE m.value_type = "datetime" /\ m.value = NoValue
      <3>1. x = NoValue /\ z = NoValue
        BY <2>2 DEF x, z, JsonValue
      <3>2. n = w
        BY <1>3, <3>1 DEF MappedFromDict, n
      <3>. QED
        BY <1>3, <3>1, <3>2
    <2>3. CASE m.value_type = "datetime" /\ m.value # NoValue
      <3>1. PICK time \in Times : m.value = Value("datetime", "stamp", time)
        BY <2>3 DEF HoldsStamp
      <3>2. Value("str", "stamp", time)
               \in [type : {"str", "datetime"}, form : TimeForms, v : Times]
        BY DEF Value, TimeForms
      <3>3. Value("str", "stamp", time) # NoValue
        BY <3>2, MarkersAreNoData
      <3>4. x = [type |-> "str", form |-> "stamp", v |-> time]
        BY <2>3, <3>1 DEF x, JsonValue, Value
      <3>5. x # NoValue
        BY <3>3, <3>4 DEF Value
      <3>6. n = [w EXCEPT !.value.type = "datetime"]
        BY <1>3, <2>3, <3>5 DEF MappedFromDict, n
      <3>7. [x EXCEPT !.type = "datetime"] = m.value
        BY <3>1, <3>4 DEF Value
      <3>8. n = [w EXCEPT !.value = [x EXCEPT !.type = "datetime"]]
        BY <1>3, <3>6
      <3>9. n = [w EXCEPT !.value = m.value]
        BY <3>7, <3>8
      <3>10. z = m.value
        BY <2>3 DEF z
      <3>. QED
        BY <1>3, <3>9, <3>10
    <2>. QED
      BY <2>1, <2>2, <2>3
  <1>5. /\ IsTarget(n) /\ n.target = m.target /\ n.status = m.status
        /\ n.value_type = m.value_type /\ n.line = m.line /\ n.warned = m.warned
        /\ n.source_value = y /\ n.value = z
    BY <1>4 DEF IsTarget
  <1>6. n = AsText(m)
    <2> DEFINE t == AsText(m)
    <2>1. /\ IsTarget(t) /\ t.target = m.target /\ t.status = m.status
          /\ t.value_type = m.value_type /\ t.line = m.line /\ t.warned = m.warned
          /\ t.source_value = y /\ t.value = z
      BY <1>1, AsTextIs DEF y, z
    <2> HIDE DEF t
    <2>2. n = t
      BY <1>5, <2>1, SameTarget
    <2>. QED
      BY <2>2 DEF t
  <1>. QED
    BY <1>6 DEF n, w

(* Coming back once more changes nothing, and the text stays.              *)
LEMMA BackTwice ==
    ASSUME NEW m, HoldsValue(m)
    PROVE  /\ AsText(AsText(m)) = AsText(m)
           /\ AsText(m).target = m.target
           /\ IsSuccessful(AsText(m)) <=> IsSuccessful(m)
           /\ TextOf(AsText(m).value) = TextOf(m.value)
  <1> DEFINE n == AsText(m)
             t == AsText(n)
  <1>1. IsTarget(m) /\ IsContent(m.source_value) /\ IsContent(m.value)
    BY DEF HoldsValue, IsContent
  <1>2. /\ IsTarget(n) /\ n.target = m.target /\ n.status = m.status
        /\ n.value_type = m.value_type /\ n.line = m.line /\ n.warned = m.warned
        /\ n.source_value = JsonValue(m.source_value)
        /\ n.value = IF m.value_type = "datetime" THEN m.value ELSE JsonValue(m.value)
    BY <1>1, AsTextIs
  <1> HIDE DEF n
  <1>3. /\ IsTarget(t) /\ t.target = n.target /\ t.status = n.status
        /\ t.value_type = n.value_type /\ t.line = n.line /\ t.warned = n.warned
        /\ t.source_value = JsonValue(n.source_value)
        /\ t.value = IF n.value_type = "datetime" THEN n.value ELSE JsonValue(n.value)
    BY <1>2, AsTextIs
  <1> HIDE DEF t
  <1>4. t.source_value = n.source_value
    <2>1. JsonValue(JsonValue(m.source_value)) = JsonValue(m.source_value)
      BY <1>1, WrittenTwice
    <2>. QED
      BY <1>2, <1>3, <2>1
  <1>5. t.value = n.value
    <2>1. JsonValue(JsonValue(m.value)) = JsonValue(m.value)
      BY <1>1, WrittenTwice
    <2>. QED
      BY <1>2, <1>3, <2>1
  <1>6. t = n
    BY <1>2, <1>3, <1>4, <1>5, SameTarget
  <1>7. IsSuccessful(n) <=> IsSuccessful(m)
    BY <1>2 DEF IsSuccessful
  <1>8. TextOf(n.value) = TextOf(m.value)
    <2>1. TextOf(JsonValue(m.value)) = TextOf(m.value)
      BY <1>1, WrittenTwice
    <2>. QED
      BY <1>2, <2>1
  <1>. QED
    BY <1>2, <1>6, <1>7, <1>8 DEF n, t

(* The targets of an artifact hold what they should.                       *)
LEMMA MappedHolds ==
    ASSUME NEW a, IsGiven(a), IsConfigured, NEW i \in 1 .. Len(input.defs)
    PROVE  HoldsValue(MappedAt(a, i)) /\ HoldsStamp(MappedAt(a, i))
  <1> DEFINE d == input.defs[i]
             rows == RowsIn(a)
             extracted == ExtractValues(rows)
  <1>1. IsDefinition(d)
    BY DEF IsConfigured
  <1>2. d.operation = "constant" => d.constant # NoValue
    <2>1. d \in ToSet(input.defs)
      BY DEF IsConfigured
    <2>. QED
      BY <2>1 DEF IsConfigured, ConfigurationOK
  <1>3. IsSource(rows, extracted)
    <2>1. rows \in Seq(ToSet(rows))
      BY RowsAreLines DEF IsRows
    <2>2. \A name \in DOMAIN extracted.values : IsValue(extracted.values[name].value)
      BY ExtractedAreValues
    <2>. QED
      BY <2>1, <2>2 DEF IsSource
  <1>4. HoldsValue(ValueAt(a, i))
    BY <1>1, <1>2, <1>3, AppliedHolds DEF ValueAt
  <1>5. ZonesOK(input.zones)
    BY DEF IsGiven
  <1>. QED
    BY <1>4, <1>5, MovedHolds DEF MappedAt

(* What comes back of the targets.                                         *)
LEMMA TargetsComeBack ==
    ASSUME NEW a, IsGiven(a), IsConfigured
    PROVE  Rebuilt(a).mapped.values
             = [i \in 1 .. Len(input.defs) |-> AsText(MappedAt(a, i))]
  <1> DEFINE N == Len(input.defs)
             before == MappingOf(a).values
             written == Each(before, MappedToDict)
             after == Each(written, MappedFromDict)
  <1>1. Rebuilt(a).mapped.values = after
    BY RebuiltIs
  <1>2. before = [i \in 1 .. N |-> MappedAt(a, i)]
    BY TargetsAre
  <1>3. written = [i \in DOMAIN before |-> MappedToDict(before[i])]
    BY DEF Each
  <1>4. after = [i \in DOMAIN written |-> MappedFromDict(written[i])]
    BY DEF Each
  <1> HIDE DEF before, written, after
  <1>5. written = [i \in 1 .. N |-> MappedToDict(MappedAt(a, i))]
    BY <1>2, <1>3
  <1>6. after = [i \in 1 .. N |-> MappedFromDict(MappedToDict(MappedAt(a, i)))]
    BY <1>4, <1>5
  <1>7. \A i \in 1 .. N :
           MappedFromDict(MappedToDict(MappedAt(a, i))) = AsText(MappedAt(a, i))
    BY MappedHolds, TargetComesBack
  <1>. QED
    BY <1>1, <1>6, <1>7

\* An extracted value with the row it comes from.
AreEntries(values) ==
    /\ values = [name \in DOMAIN values |-> values[name]]
    /\ \A name \in DOMAIN values :
          /\ values[name] = [value |-> values[name].value, line |-> values[name].line]
          /\ IsValue(values[name].value)

(* Extracted values in a document are as they are when written again.      *)
LEMMA EntriesTwice ==
    ASSUME NEW values, AreEntries(values)
    PROVE  /\ JsonEntries(JsonEntries(values)) = JsonEntries(values)
           /\ DOMAIN JsonEntries(values) = DOMAIN values
           /\ \A name \in DOMAIN values :
                 TextOf(JsonEntries(values)[name].value) = TextOf(values[name].value)
  <1> DEFINE once == JsonEntries(values)
             twice == JsonEntries(once)
             text(x) == JsonValue(x.value)
  <1>1. once = [name \in DOMAIN values |->
                  [values[name] EXCEPT !.value = text(values[name])]]
    BY DEF JsonEntries
  <1>2. twice = [name \in DOMAIN once |-> [once[name] EXCEPT !.value = text(once[name])]]
    BY DEF JsonEntries
  <1> HIDE DEF once, twice
  <1>3. ASSUME NEW name \in DOMAIN values
        PROVE  twice[name] = once[name]
               /\ TextOf(once[name].value) = TextOf(values[name].value)
    <2> DEFINE e == values[name]
    <2>1. e = [value |-> e.value, line |-> e.line] /\ IsValue(e.value)
      BY DEF AreEntries
    <2>2. once[name] = [value |-> JsonValue(e.value), line |-> e.line]
      BY <1>1, <2>1
    <2>3. twice[name] = [once[name] EXCEPT !.value = JsonValue(once[name].value)]
      BY <1>1, <1>2
    <2>4. /\ JsonValue(JsonValue(e.value)) = JsonValue(e.value)
          /\ TextOf(JsonValue(e.value)) = TextOf(e.value)
      BY <2>1, WrittenTwice DEF IsContent
    <2> HIDE DEF e
    <2>5. once[name].value = JsonValue(e.value) /\ once[name].line = e.line
      BY <2>2
    <2>6. twice[name] = once[name]
      BY <2>2, <2>3, <2>4, <2>5
    <2>7. TextOf(once[name].value) = TextOf(e.value)
      BY <2>4, <2>5
    <2>. QED
      BY <2>6, <2>7 DEF e
  <1>4. DOMAIN once = DOMAIN values /\ once = [name \in DOMAIN values |-> once[name]]
    BY <1>1
  <1>5. twice = [name \in DOMAIN values |-> twice[name]]
    BY <1>2, <1>4
  <1>6. twice = once
    BY <1>3, <1>4, <1>5
  <1>. QED
    BY <1>3, <1>4, <1>6 DEF twice, once

(* The extracted values of a file.                                         *)
LEMMA ExtractedAreEntries ==
    ASSUME NEW a, IsGiven(a)
    PROVE  AreEntries(ExtractValues(RowsIn(a)).values)
  <1> DEFINE rows == RowsIn(a)
             values == ExtractValues(rows).values
  <1>1. ExtractValues(rows) \in Findings(rows)
    BY RowsAreLines, ExtractedValuesFollow
  <1>2. values \in UNION {[M -> Entries(rows)] : M \in SUBSET Names(rows)}
    BY <1>1 DEF Findings
  <1>3. \A name \in DOMAIN values : IsValue(values[name].value)
    BY ExtractedAreValues
  <1> HIDE DEF values
  <1>4. values = [name \in DOMAIN values |-> values[name]]
    BY <1>2
  <1>5. ASSUME NEW name \in DOMAIN values
        PROVE  values[name] = [value |-> values[name].value, line |-> values[name].line]
    <2>1. values[name] \in Entries(rows)
      BY <1>2
    <2>2. PICK row, assignment : values[name] = Extracted(row, assignment)
      BY <2>1 DEF Entries
    <2>. QED
      BY <2>2 DEF Extracted
  <1>6. AreEntries(values)
    BY <1>3, <1>4, <1>5 DEF AreEntries
  <1>. QED
    BY <1>6 DEF values

\* Two mappings agree on the names, the verdicts and the texts of their targets.
Agree(t, u) ==
    \E n \in Nat :
        /\ DOMAIN t.values = 1 .. n
        /\ DOMAIN u.values = 1 .. n
        /\ \A i \in 1 .. n : /\ t.values[i].target = u.values[i].target
                             /\ IsSuccessful(t.values[i]) <=> IsSuccessful(u.values[i])
                             /\ TextOf(t.values[i].value) = TextOf(u.values[i].value)

(* Then they give the same text for a name.                                *)
LEMMA SameText ==
    ASSUME NEW t, NEW u, Agree(t, u), NEW name, NEW x, NEW y, TextOf(x) = TextOf(y)
    PROVE  TextOf(MappedOr(t, name, x)) = TextOf(MappedOr(u, name, y))
  <1>0. PICK n \in Nat :
          /\ DOMAIN t.values = 1 .. n
          /\ DOMAIN u.values = 1 .. n
          /\ \A i \in 1 .. n : /\ t.values[i].target = u.values[i].target
                               /\ IsSuccessful(t.values[i]) <=> IsSuccessful(u.values[i])
                               /\ TextOf(t.values[i].value) = TextOf(u.values[i].value)
    BY DEF Agree
  <1> DEFINE S == {i \in 1 .. n : t.values[i].target = name /\ IsSuccessful(t.values[i])}
             R == {i \in 1 .. n : u.values[i].target = name /\ IsSuccessful(u.values[i])}
  <1>1. S = R
    BY <1>0
  <1>2. MappedOr(t, name, x) = IF S = {} THEN x ELSE t.values[Min(S)].value
    BY <1>0 DEF MappedOr
  <1>3. MappedOr(u, name, y) = IF R = {} THEN y ELSE u.values[Min(R)].value
    BY <1>0 DEF MappedOr
  <1>4. S \in SUBSET Nat /\ S \subseteq 1 .. n
    OBVIOUS
  <1> HIDE DEF S, R
  <1>5. CASE S = {}
    BY <1>1, <1>2, <1>3, <1>5
  <1>6. CASE S # {}
    <2>1. Min(S) \in 1 .. n
      BY <1>4, <1>6, MinIsSmallest
    <2>2. TextOf(t.values[Min(S)].value) = TextOf(u.values[Min(S)].value)
      BY <1>0, <2>1
    <2>. QED
      BY <1>1, <1>2, <1>3, <1>6, <2>2
  <1>. QED
    BY <1>5, <1>6

(* A trace that is rebuilt gives the texts of the trace before, but for the*)
(* T of a datetime.                                                        *)
LEMMA TextsComeBack ==
    ASSUME NEW a, IsGiven(a), IsConfigured, NEW name
    PROVE  IsoText(TraceValue(Rebuilt(a), name)) = IsoText(TraceValue(ParsedInMemory(a), name))
  <1> DEFINE N == Len(input.defs)
             r == Rebuilt(a)
             p == ParsedInMemory(a)
             values == ExtractValues(RowsIn(a)).values
             written == JsonEntries(values)
             x == IF name \in DOMAIN written THEN written[name].value ELSE NoValue
             y == IF name \in DOMAIN values THEN values[name].value ELSE NoValue
  <1>1. r.extracted.values = written
    BY RebuiltIs
  <1>2. r.mapped.values = [i \in 1 .. N |-> AsText(MappedAt(a, i))]
    BY TargetsComeBack
  <1>3. p.extracted.values = values /\ p.mapped = MappingOf(a)
    BY InMemoryIsParsed
  <1>4. MappingOf(a).values = [i \in 1 .. N |-> MappedAt(a, i)]
    BY TargetsAre
  <1>5. AreEntries(values)
    BY ExtractedAreEntries
  <1>6. N \in Nat
    BY DEF IsConfigured
  <1>7. \A i \in 1 .. N : HoldsValue(MappedAt(a, i))
    BY MappedHolds
  <1> HIDE DEF N, r, p, values
  <1>8. /\ DOMAIN written = DOMAIN values
        /\ \A n \in DOMAIN values : TextOf(written[n].value) = TextOf(values[n].value)
    BY <1>5, EntriesTwice
  <1> HIDE DEF written
  <1>9. TextOf(x) = TextOf(y)
    BY <1>8
  <1>10. /\ DOMAIN r.mapped.values = 1 .. N /\ DOMAIN p.mapped.values = 1 .. N
         /\ \A i \in 1 .. N : r.mapped.values[i] = AsText(MappedAt(a, i))
                              /\ p.mapped.values[i] = MappedAt(a, i)
    BY <1>2, <1>3, <1>4
  <1>11. \A i \in 1 .. N :
            /\ r.mapped.values[i].target = p.mapped.values[i].target
            /\ IsSuccessful(r.mapped.values[i]) <=> IsSuccessful(p.mapped.values[i])
            /\ TextOf(r.mapped.values[i].value) = TextOf(p.mapped.values[i].value)
    BY <1>7, <1>10, BackTwice
  <1> HIDE DEF x, y
  <1>12. Agree(r.mapped, p.mapped)
    BY <1>6, <1>10, <1>11 DEF Agree
  <1>13. TextOf(MappedOr(r.mapped, name, x)) = TextOf(MappedOr(p.mapped, name, y))
    BY <1>9, <1>12, SameText
  <1>14. IsoText(TraceValue(r, name)) = TextOf(MappedOr(r.mapped, name, x))
    BY <1>1 DEF TraceValue, TextOf, x
  <1>15. IsoText(TraceValue(p, name)) = TextOf(MappedOr(p.mapped, name, y))
    BY <1>3 DEF TraceValue, TextOf, y
  <1>. QED
    BY <1>13, <1>14, <1>15 DEF r, p

\* Events with their texts in the form of ISO: the property calls them inIso and
\* told.
InIso(e) == [e EXCEPT !.operator = IsoText(@), !.country = IsoText(@)]

ToldIn(result) == [result EXCEPT !.events = Each(@, InIso)]

(* An event in that form is the event of the texts in that form.           *)
LEMMA EventInIso ==
    ASSUME NEW identity, NEW number, NEW e, NEW operator, NEW country, NEW values
    PROVE  /\ InIso(Event(identity, number, e, operator, country, values))
                = Event(identity, number, e, IsoText(operator), IsoText(country), values)
           /\ EventIsFailure(Event(identity, number, e, operator, country, values))
                <=> EventIsFailure(Event(identity, number, e, IsoText(operator),
                                         IsoText(country), values))
           /\ EventIsHighSeverity(Event(identity, number, e, operator, country, values))
                <=> EventIsHighSeverity(Event(identity, number, e, IsoText(operator),
                                              IsoText(country), values))
           /\ Event(identity, number, e, operator, country, values).retry
                = Event(identity, number, e, IsoText(operator), IsoText(country), values).retry
  <1> DEFINE x == Event(identity, number, e, operator, country, values)
             y == Event(identity, number, e, IsoText(operator), IsoText(country), values)
  <1>1. /\ x.operator = operator /\ x.country = country
        /\ x.result = y.result /\ x.severity = y.severity /\ x.retry = y.retry
    BY DEF Event
  <1>2. [x EXCEPT !.operator = IsoText(operator), !.country = IsoText(country)] = y
    <2>1. y = [n \in DOMAIN x |-> CASE n = "operator" -> IsoText(operator)
                                    [] n = "country" -> IsoText(country)
                                    [] OTHER -> x[n]]
      BY DEF Event
    <2>2. "operator" \in DOMAIN x /\ "country" \in DOMAIN x /\ x = [n \in DOMAIN x |-> x[n]]
      BY DEF Event
    <2> HIDE DEF x, y
    <2>. QED
      BY <2>1, <2>2
  <1> HIDE DEF x, y
  <1>3. InIso(x) = y
    BY <1>1, <1>2 DEF InIso
  <1>4. EventIsFailure(x) <=> EventIsFailure(y)
    BY <1>1 DEF EventIsFailure
  <1>5. EventIsHighSeverity(x) <=> EventIsHighSeverity(y)
    BY <1>1 DEF EventIsHighSeverity
  <1>. QED
    BY <1>1, <1>3, <1>4, <1>5 DEF x, y

(* And the events of the trace before.                                     *)
LEMMA EventsComeBack ==
    ASSUME NEW a, IsGiven(a), IsConfigured
    PROVE  ToldIn(NormalizeTrace(Rebuilt(a))) = ToldIn(NormalizeTrace(ParsedInMemory(a)))
  <1> DEFINE r == Rebuilt(a)
             p == ParsedInMemory(a)
             values == ExtractValues(RowsIn(a)).values
             E == Evidences(RowsIn(a))
             written == JsonEntries(values)
             operator(t) == TraceValue(t, "operator")
             country(t) == TraceValue(t, "country")
             of(t, i) == Event(a, i, E[i], operator(t), country(t), written)
             iso(t, i) == Event(a, i, E[i], IsoText(operator(t)), IsoText(country(t)), written)
  <1>1. r.artifact = a /\ r.evidences = E /\ r.extracted.values = written
    BY RebuiltIs
  <1>2. p.artifact = a /\ p.evidences = E /\ p.extracted.values = values
    BY InMemoryIsParsed
  <1>3. JsonEntries(written) = written
    BY ExtractedAreEntries, EntriesTwice
  <1>4. IsoText(operator(r)) = IsoText(operator(p)) /\ IsoText(country(r)) = IsoText(country(p))
    BY TextsComeBack
  <1> HIDE DEF r, p, values, written, E
  <1>5. Events(r) = [i \in DOMAIN E |-> of(r, i)]
    BY <1>1, <1>3 DEF Events
  <1>6. Events(p) = [i \in DOMAIN E |-> of(p, i)]
    BY <1>2 DEF Events, written
  <1> HIDE DEF operator, country
  <1>7. ASSUME NEW i \in DOMAIN E
        PROVE  /\ InIso(of(r, i)) = InIso(of(p, i))
               /\ EventIsFailure(of(r, i)) <=> EventIsFailure(of(p, i))
               /\ EventIsHighSeverity(of(r, i)) <=> EventIsHighSeverity(of(p, i))
               /\ of(r, i).retry = of(p, i).retry
    <2>1. iso(r, i) = iso(p, i)
      BY <1>4
    <2>2. /\ InIso(of(r, i)) = iso(r, i)
          /\ EventIsFailure(of(r, i)) <=> EventIsFailure(iso(r, i))
          /\ EventIsHighSeverity(of(r, i)) <=> EventIsHighSeverity(iso(r, i))
          /\ of(r, i).retry = iso(r, i).retry
      BY EventInIso
    <2>3. /\ InIso(of(p, i)) = iso(p, i)
          /\ EventIsFailure(of(p, i)) <=> EventIsFailure(iso(p, i))
          /\ EventIsHighSeverity(of(p, i)) <=> EventIsHighSeverity(iso(p, i))
          /\ of(p, i).retry = iso(p, i).retry
      BY EventInIso
    <2> HIDE DEF of, iso
    <2>. QED
      BY <2>1, <2>2, <2>3
  <1> HIDE DEF of, iso
  <1> DEFINE made(t) == Events(t)
             result(t) == [artifact |-> a, events |-> made(t),
                           failures |-> Cardinality({i \in DOMAIN made(t) :
                                                        EventIsFailure(made(t)[i])}),
                           high |-> Cardinality({i \in DOMAIN made(t) :
                                                    EventIsHighSeverity(made(t)[i])}),
                           retries |-> Cardinality({i \in DOMAIN made(t) : made(t)[i].retry})]
  <1>8. NormalizeTrace(r) = result(r) /\ NormalizeTrace(p) = result(p)
    BY <1>1, <1>2 DEF NormalizeTrace
  <1>9. /\ {i \in DOMAIN made(r) : EventIsFailure(made(r)[i])}
             = {i \in DOMAIN made(p) : EventIsFailure(made(p)[i])}
        /\ {i \in DOMAIN made(r) : EventIsHighSeverity(made(r)[i])}
             = {i \in DOMAIN made(p) : EventIsHighSeverity(made(p)[i])}
        /\ {i \in DOMAIN made(r) : made(r)[i].retry} = {i \in DOMAIN made(p) : made(p)[i].retry}
    BY <1>5, <1>6, <1>7
  <1>10. Each(made(r), InIso) = Each(made(p), InIso)
    <2>1. Each(made(r), InIso) = [i \in DOMAIN E |-> InIso(of(r, i))]
      BY <1>5 DEF Each
    <2>2. Each(made(p), InIso) = [i \in DOMAIN E |-> InIso(of(p, i))]
      BY <1>6 DEF Each
    <2>. QED
      BY <1>7, <2>1, <2>2
  <1>11. ASSUME NEW t
         PROVE  ToldIn(result(t)) = [result(t) EXCEPT !.events = Each(made(t), InIso)]
    BY DEF ToldIn
  <1>12. [result(r) EXCEPT !.events = Each(made(r), InIso)]
           = [result(p) EXCEPT !.events = Each(made(p), InIso)]
    <2> DEFINE said(x, n, h, k) == [artifact |-> a, events |-> x, failures |-> n, high |-> h,
                                    retries |-> k]
               fails(t) == Cardinality({i \in DOMAIN made(t) : EventIsFailure(made(t)[i])})
               highs(t) == Cardinality({i \in DOMAIN made(t) : EventIsHighSeverity(made(t)[i])})
               again(t) == Cardinality({i \in DOMAIN made(t) : made(t)[i].retry})
    <2>1. fails(r) = fails(p) /\ highs(r) = highs(p) /\ again(r) = again(p)
      BY <1>9
    <2> HIDE DEF made, fails, highs, again
    <2>2. ASSUME NEW t
          PROVE  [said(made(t), fails(t), highs(t), again(t)) EXCEPT !.events = Each(made(t), InIso)]
                   = said(Each(made(t), InIso), fails(t), highs(t), again(t))
      OBVIOUS
    <2>3. ASSUME NEW t
          PROVE  result(t) = said(made(t), fails(t), highs(t), again(t))
      BY DEF fails, highs, again
    <2> HIDE DEF said, result
    <2>. QED
      BY <1>10, <2>1, <2>2, <2>3
  <1> HIDE DEF made
  <1>. QED
    BY <1>8, <1>11, <1>12 DEF r, p

(* What the normalizer holds of an artifact is what the parser had.        *)
LEMMA ReloadTells == ASSUME AnalysisInv PROVE ReloadIsInvisible
  <1> SUFFICES ASSUME loaded # NoValue PROVE ReloadIsInvisible
    BY DEF ReloadIsInvisible
  <1> DEFINE a == loaded.artifact
             N == Len(input.defs)
             before == ParsedInMemory(a)
             asText(m) == [m EXCEPT !.source_value = JsonValue(@),
                                    !.value = IF m.value_type = "datetime" THEN @
                                              ELSE JsonValue(@)]
             targets(p) == Each(p.mapped.values, asText)
             inIso(e) == [e EXCEPT !.operator = IsoText(@), !.country = IsoText(@)]
             told(result) == [result EXCEPT !.events = Each(@, inIso)]
  <1>1. a \in Stored /\ loaded = Rebuilt(a) /\ IsGiven(a) /\ IsConfigured
    <2>1. PICK b \in Stored : loaded = Rebuilt(b)
      BY DEF AnalysisInv, StoreFollows
    <2>2. IsGiven(b)
      BY StoredIsGiven DEF Stored
    <2>3. Rebuilt(b).artifact = b
      BY <2>2, RebuiltIs
    <2>. QED
      BY <2>1, <2>2, <2>3, InputIsConfigured
  <1>2. normalized # NoValue => normalized = NormalizeTrace(loaded)
    BY DEF AnalysisInv, StoreFollows
  <1> HIDE DEF a
  <1>3. outcome[a] = "stored"
    BY <1>1 DEF Stored
  <1>4. loaded.raw_trace = before.raw_trace /\ loaded.errors = before.errors
    BY <1>1, RebuiltIs
  <1>5. targets(loaded) = targets(before)
    <2>1. loaded.mapped.values = [i \in 1 .. N |-> AsText(MappedAt(a, i))]
      BY <1>1, TargetsComeBack
    <2>2. before.mapped.values = [i \in 1 .. N |-> MappedAt(a, i)]
      <3>1. before.mapped = MappingOf(a)
        BY <1>1, InMemoryIsParsed
      <3>. QED
        BY <1>1, <3>1, TargetsAre
    <2>3. \A i \in 1 .. N : AsText(AsText(MappedAt(a, i))) = AsText(MappedAt(a, i))
      BY <1>1, MappedHolds, BackTwice
    <2>4. targets(loaded) = [i \in DOMAIN loaded.mapped.values |->
                               AsText(loaded.mapped.values[i])]
      BY DEF Each, AsText
    <2>5. targets(before) = [i \in DOMAIN before.mapped.values |->
                               AsText(before.mapped.values[i])]
      BY DEF Each, AsText
    <2> HIDE DEF N, before
    <2>6. targets(loaded) = [i \in 1 .. N |-> AsText(AsText(MappedAt(a, i)))]
      BY <2>1, <2>4
    <2>7. targets(before) = [i \in 1 .. N |-> AsText(MappedAt(a, i))]
      BY <2>2, <2>5
    <2>. QED
      BY <2>3, <2>6, <2>7
  <1>6. ToldIn(NormalizeTrace(loaded)) = ToldIn(NormalizeTrace(before))
    BY <1>1, EventsComeBack
  <1>7. IsValid(loaded) <=> IsValid(before)
    BY <1>4 DEF IsValid
  <1> HIDE DEF before
  <1>t. \A result : told(result) = ToldIn(result)
    BY DEF ToldIn, InIso
  <1> HIDE DEF told
  <1>8. /\ outcome[a] = "stored"
        /\ loaded.raw_trace = before.raw_trace
        /\ targets(loaded) = targets(before)
        /\ IsValid(loaded) <=> IsValid(before)
        /\ normalized # NoValue => told(normalized) = told(NormalizeTrace(before))
    BY <1>2, <1>3, <1>4, <1>5, <1>6, <1>7, <1>t
  <1>. QED
    BY <1>8 DEF ReloadIsInvisible, before, a, told

(* The database is not noticed (ParsedTrace.to_dict, ParsedTraceMapper):   *)
(* the normalizer works on what the parser had in memory.                  *)
THEOREM ReloadIsFaithful == Spec => []ReloadIsInvisible
  <1>1. AnalysisInv => ReloadIsInvisible
    BY ReloadTells
  <1>. QED
    BY <1>1, AnalysisInvariant, PTL
=============================================================================
