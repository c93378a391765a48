----------------------------- MODULE FoldLemmas -----------------------------
(***************************************************************************)
(* Facts about sums and sequences that the proofs of several components    *)
(* share.  The library's induction theorems take an operator as a          *)
(* parameter; here induction is stated with a set instead and follows from *)
(* the well-foundedness of < on the naturals, so that the folds of the     *)
(* community modules can be reasoned about.                                *)
(***************************************************************************)
EXTENDS Integers, Sequences, FiniteSets, SequencesExt, FiniteSetTheorems, TLAPS

-----------------------------------------------------------------------------
(* Induction.                                                              *)

\* Every non-empty set of naturals has a least element.
LEMMA LeastElement ==
    ASSUME NEW T, T \subseteq Nat, T # {}
    PROVE  \E m \in T : \A n \in T : m <= n
<1>. DEFINE R == OpToRel(<, Nat)
<1>1. IsWellFoundedOn(R, Nat)
  BY NatLessThanWellFounded
<1>2. \A n, m \in Nat : n < m => <<n, m>> \in R
  BY DEF OpToRel
<1>. HIDE DEF R
<1>3. PICK m \in T : \A n \in T : <<n, m>> \notin R
  BY <1>1, WFMin
<1>4. ASSUME NEW n \in T PROVE m <= n
  <2>1. m \in Nat /\ n \in Nat /\ ~(n < m)
    BY <1>2, <1>3
  <2>. QED  BY <2>1
<1>. QED  BY <1>4

\* A set with 0 that is closed under successor holds all naturals.
LEMMA NatSetInduction ==
    ASSUME NEW S, 0 \in S, \A n \in Nat : n \in S => n + 1 \in S
    PROVE  Nat \subseteq S
<1>. SUFFICES ASSUME Nat \ S # {} PROVE FALSE
  OBVIOUS
<1>1. PICK m \in Nat \ S : \A n \in Nat \ S : m <= n
  BY LeastElement
<1>2. m # 0 /\ m - 1 \in Nat
  BY <1>1
<1>3. m - 1 \in S
  BY <1>1, <1>2
<1>. QED  BY <1>2, <1>3

\* What holds of the empty set, and of a set when it holds of the sets that
\* have one element less, holds of every subset of a finite set.
LEMMA FiniteSetInduction ==
    ASSUME NEW A, IsFiniteSet(A), NEW P, {} \in P,
           \A X \in SUBSET A : X # {} /\ (\A x \in X : X \ {x} \in P) => X \in P
    PROVE  SUBSET A \subseteq P
<1>. DEFINE N == {n \in Nat : \A X \in SUBSET A : Cardinality(X) = n => X \in P}
<1>1. \A X \in SUBSET A : IsFiniteSet(X) /\ Cardinality(X) \in Nat
  BY FS_Subset, FS_CardinalityType
<1>2. 0 \in N
  BY <1>1, FS_EmptySet
<1>3. ASSUME NEW n \in Nat, n \in N PROVE n + 1 \in N
  <2>. SUFFICES ASSUME NEW X \in SUBSET A, Cardinality(X) = n + 1 PROVE X \in P
    OBVIOUS
  <2>1. X # {}
    BY <1>1, FS_EmptySet
  <2>2. \A x \in X : Cardinality(X \ {x}) = n /\ X \ {x} \in SUBSET A
    BY <1>1, FS_RemoveElement
  <2>. QED  BY <1>3, <2>1, <2>2
<1>. HIDE DEF N
<1>4. Nat \subseteq N
  BY <1>2, <1>3, NatSetInduction
<1>. QED  BY <1>1, <1>4 DEF N

-----------------------------------------------------------------------------
(* Sums.                                                                   *)

Some(s) == CHOOSE x \in s : TRUE

\* it is the function by which the fold of a sum is defined, on the sets in D
\* or on all subsets of S.
IsSumOn(it, f, D) ==
    it = [s \in D |-> IF s = {} THEN 0 ELSE f[Some(s)] + it[s \ {Some(s)}]]

IsSum(it, f, S) == IsSumOn(it, f, SUBSET S)

\* The recursion that defines a sum ends.
LEMMA SumExists ==
    ASSUME NEW f, NEW S, IsFiniteSet(S)
    PROVE  \E it : IsSum(it, f, S)
<1>. DEFINE Level(n) == {s \in SUBSET S : Cardinality(s) <= n}
            N == {n \in Nat : \E it : IsSumOn(it, f, Level(n))}
<1>1. \A X \in SUBSET S : IsFiniteSet(X) /\ Cardinality(X) \in Nat
  BY FS_Subset, FS_CardinalityType
<1>2. \A X \in SUBSET S : \A x \in X : Cardinality(X \ {x}) = Cardinality(X) - 1
  BY <1>1, FS_RemoveElement
<1>3. \A X \in SUBSET S : X # {} => Some(X) \in X
  BY DEF Some
<1>4. 0 \in N
  <2>. DEFINE zero == [s \in Level(0) |-> 0]
  <2>1. \A s \in Level(0) : s = {}
    BY <1>1, FS_EmptySet
  <2>2. IsSumOn(zero, f, Level(0))
    BY <2>1 DEF IsSumOn
  <2>. QED  BY <2>2
<1>5. ASSUME NEW n \in Nat, n \in N PROVE n + 1 \in N
  <2>1. PICK it : IsSumOn(it, f, Level(n))
    BY <1>5
  <2>. DEFINE up == [s \in Level(n + 1) |->
                        IF s = {} THEN 0 ELSE f[Some(s)] + it[s \ {Some(s)}]]
  <2>2. \A s \in Level(n + 1) : s # {} => s \ {Some(s)} \in Level(n)
    BY <1>1, <1>2, <1>3
  <2>3. \A s \in Level(n) : s \in Level(n + 1)
    BY <1>1
  <2>. HIDE DEF Level
  <2>4. \A s \in Level(n) : up[s] = it[s]
    BY <2>1, <2>3 DEF IsSumOn
  <2>5. \A s \in Level(n + 1) :
            up[s] = IF s = {} THEN 0 ELSE f[Some(s)] + up[s \ {Some(s)}]
    BY <2>2, <2>4
  <2>6. IsSumOn(up, f, Level(n + 1))
    BY <2>5 DEF IsSumOn
  <2>. QED  BY <2>6
<1>. HIDE DEF N
<1>6. Nat \subseteq N
  BY <1>4, <1>5, NatSetInduction
<1>7. SUBSET S = Level(Cardinality(S))
  BY <1>1, FS_Subset
<1>8. Cardinality(S) \in N
  BY <1>1, <1>6
<1>. QED  BY <1>7, <1>8 DEF N, IsSum

\* The sums over the subsets of a finite set do not depend on which set the
\* recursion started from.
LEMMA SumUnique ==
    ASSUME NEW f, NEW S, IsFiniteSet(S), NEW T \in SUBSET S,
           NEW it, IsSum(it, f, S), NEW jt, IsSum(jt, f, T)
    PROVE  it[T] = jt[T]
<1>. DEFINE P == {X \in SUBSET T : it[X] = jt[X]}
<1>1. IsFiniteSet(T)
  BY FS_Subset
<1>2. {} \in P
  BY DEF IsSum, IsSumOn
<1>3. ASSUME NEW X \in SUBSET T, X # {}, \A x \in X : X \ {x} \in P
      PROVE  X \in P
  <2>1. Some(X) \in X
    BY <1>3 DEF Some
  <2>2. it[X] = f[Some(X)] + it[X \ {Some(X)}] /\ jt[X] = f[Some(X)] + jt[X \ {Some(X)}]
    BY <1>3 DEF IsSum, IsSumOn
  <2>. QED  BY <1>3, <2>1, <2>2
<1>. HIDE DEF P
<1>4. SUBSET T \subseteq P
  BY <1>1, <1>2, <1>3, FiniteSetInduction
<1>. QED  BY <1>4 DEF P

\* Sums of naturals are naturals.
LEMMA SumNat ==
    ASSUME NEW S, IsFiniteSet(S), NEW f, \A x \in S : f[x] \in Nat,
           NEW it, IsSum(it, f, S)
    PROVE  \A X \in SUBSET S : it[X] \in Nat
<1>. DEFINE P == {X \in SUBSET S : it[X] \in Nat}
<1>1. {} \in P
  BY DEF IsSum, IsSumOn
<1>2. ASSUME NEW X \in SUBSET S, X # {}, \A x \in X : X \ {x} \in P
      PROVE  X \in P
  <2>1. Some(X) \in X /\ it[X] = f[Some(X)] + it[X \ {Some(X)}]
    BY <1>2 DEF Some, IsSum, IsSumOn
  <2>. QED  BY <1>2, <2>1
<1>. HIDE DEF P
<1>3. SUBSET S \subseteq P
  BY <1>1, <1>2, FiniteSetInduction
<1>. QED  BY <1>3 DEF P

\* Any element can be taken out of a sum, not only the one the fold chooses.
LEMMA SumRemove ==
    ASSUME NEW S, IsFiniteSet(S), NEW f, \A x \in S : f[x] \in Nat,
           NEW it, IsSum(it, f, S)
    PROVE  \A X \in SUBSET S : \A x \in X : it[X] = f[x] + it[X \ {x}]
<1>. DEFINE P == {X \in SUBSET S : \A x \in X : it[X] = f[x] + it[X \ {x}]}
<1>0. \A X \in SUBSET S : it[X] \in Nat
  BY SumNat
<1>1. {} \in P
  OBVIOUS
<1>2. ASSUME NEW X \in SUBSET S, X # {}, \A x \in X : X \ {x} \in P
      PROVE  X \in P
  <2>. DEFINE c == Some(X)
  <2>1. c \in X /\ it[X] = f[c] + it[X \ {c}]
    BY <1>2 DEF Some, IsSum, IsSumOn
  <2>. HIDE DEF c
  <2>2. ASSUME NEW x \in X, x # c PROVE it[X] = f[x] + it[X \ {x}]
    <3>. DEFINE rest == (X \ {c}) \ {x}
    <3>1. it[X \ {c}] = f[x] + it[rest]
      BY <1>2, <2>1, <2>2
    <3>2. rest = (X \ {x}) \ {c}
      OBVIOUS
    <3>3. it[X \ {x}] = f[c] + it[rest]
      BY <1>2, <2>1, <2>2, <3>2
    <3>4. it[rest] \in Nat /\ f[x] \in Nat /\ f[c] \in Nat
      BY <1>0, <2>1
    <3>. QED  BY <2>1, <3>1, <3>3, <3>4
  <2>. QED  BY <2>1, <2>2
<1>. HIDE DEF P
<1>3. SUBSET S \subseteq P
  BY <1>1, <1>2, FiniteSetInduction
<1>. QED  BY <1>3 DEF P

\* SumFunctionOnSet is the value of such a function.
LEMMA SumIsSum ==
    ASSUME NEW f, NEW S, IsFiniteSet(S)
    PROVE  \E it : IsSum(it, f, S) /\ SumFunctionOnSet(f, S) = it[S]
<1>. DEFINE it == CHOOSE g : IsSum(g, f, S)
<1>1. SumFunctionOnSet(f, S) = it[S]
  BY DEF SumFunctionOnSet, FoldFunctionOnSet, MapThenFoldSet, IsSum, IsSumOn, Some
<1>2. IsSum(it, f, S)
  BY SumExists
<1>. QED  BY <1>1, <1>2

\* The three facts about sums that the proofs below use.
LEMMA SumOnSet ==
    ASSUME NEW f, NEW S, IsFiniteSet(S), \A x \in S : f[x] \in Nat
    PROVE  /\ SumFunctionOnSet(f, S) \in Nat
           /\ S = {} => SumFunctionOnSet(f, S) = 0
           /\ \A x \in S : SumFunctionOnSet(f, S) = f[x] + SumFunctionOnSet(f, S \ {x})
<1>1. PICK it : IsSum(it, f, S) /\ SumFunctionOnSet(f, S) = it[S]
  BY SumIsSum
<1>2. it[S] \in Nat
  BY <1>1, SumNat
<1>3. S = {} => it[S] = 0
  BY <1>1 DEF IsSum, IsSumOn
<1>4. ASSUME NEW T \in SUBSET S PROVE SumFunctionOnSet(f, T) = it[T]
  <2>1. IsFiniteSet(T)
    BY FS_Subset
  <2>2. PICK jt : IsSum(jt, f, T) /\ SumFunctionOnSet(f, T) = jt[T]
    BY <2>1, SumIsSum
  <2>3. it[T] = jt[T]
    BY <1>1, <2>2, SumUnique
  <2>. QED  BY <2>2, <2>3
<1>5. \A x \in S : it[S] = f[x] + it[S \ {x}]
  BY <1>1, SumRemove
<1>. QED  BY <1>1, <1>2, <1>3, <1>4, <1>5

\* A sum depends only on the values it adds up.
LEMMA SumAgrees ==
    ASSUME NEW f, NEW g, NEW S, IsFiniteSet(S),
           \A x \in S : f[x] \in Nat /\ f[x] = g[x]
    PROVE  SumFunctionOnSet(f, S) = SumFunctionOnSet(g, S)
<1>. DEFINE P == {X \in SUBSET S : SumFunctionOnSet(f, X) = SumFunctionOnSet(g, X)}
<1>1. \A X \in SUBSET S : IsFiniteSet(X) /\ \A x \in X : f[x] \in Nat /\ f[x] = g[x]
  BY FS_Subset
<1>2. {} \in P
  BY <1>1, SumOnSet
<1>3. ASSUME NEW X \in SUBSET S, X # {}, \A x \in X : X \ {x} \in P
      PROVE  X \in P
  <2>1. PICK x \in X : TRUE
    BY <1>3
  <2>2. SumFunctionOnSet(f, X) = f[x] + SumFunctionOnSet(f, X \ {x})
    BY <1>1, SumOnSet
  <2>3. SumFunctionOnSet(g, X) = g[x] + SumFunctionOnSet(g, X \ {x})
    BY <1>1, SumOnSet
  <2>. QED  BY <1>1, <1>3, <2>2, <2>3
<1>. HIDE DEF P
<1>4. SUBSET S \subseteq P
  BY <1>2, <1>3, FiniteSetInduction
<1>. QED  BY <1>4 DEF P

\* Fewer terms, smaller sum.
LEMMA SumSubset ==
    ASSUME NEW f, NEW S, IsFiniteSet(S), \A x \in S : f[x] \in Nat, NEW T \in SUBSET S
    PROVE  SumFunctionOnSet(f, T) <= SumFunctionOnSet(f, S)
<1>. DEFINE P == {X \in SUBSET S :
                    \A Y \in SUBSET X : SumFunctionOnSet(f, Y) <= SumFunctionOnSet(f, X)}
<1>1. \A X \in SUBSET S : IsFiniteSet(X) /\ \A x \in X : f[x] \in Nat
  BY FS_Subset
<1>2. \A X \in SUBSET S : SumFunctionOnSet(f, X) \in Nat
  BY <1>1, SumOnSet
<1>3. {} \in P
  BY <1>2
<1>4. ASSUME NEW X \in SUBSET S, X # {}, \A x \in X : X \ {x} \in P
      PROVE  X \in P
  <2>. SUFFICES ASSUME NEW Y \in SUBSET X, Y # X
                PROVE  SumFunctionOnSet(f, Y) <= SumFunctionOnSet(f, X)
    BY <1>2
  <2>1. PICK x \in X : x \notin Y
    OBVIOUS
  <2>2. SumFunctionOnSet(f, X) = f[x] + SumFunctionOnSet(f, X \ {x})
    BY <1>1, SumOnSet
  <2>3. SumFunctionOnSet(f, Y) <= SumFunctionOnSet(f, X \ {x})
    BY <1>4, <2>1
  <2>4. f[x] \in Nat /\ SumFunctionOnSet(f, X \ {x}) \in Nat /\ SumFunctionOnSet(f, Y) \in Nat
    BY <1>2
  <2>. QED  BY <2>2, <2>3, <2>4
<1>. HIDE DEF P
<1>5. SUBSET S \subseteq P
  BY <1>3, <1>4, FiniteSetInduction
<1>. QED  BY <1>5 DEF P

-----------------------------------------------------------------------------
(* Sequences, and the sets of their elements.                              *)

\* A sequence is its elements.
LEMMA SeqElements ==
    ASSUME NEW S, NEW s \in Seq(S)
    PROVE  /\ ToSet(s) = {s[i] : i \in 1 .. Len(s)}
           /\ ToSet(s) \subseteq S
           /\ \A x : Contains(s, x) <=> x \in ToSet(s)
           /\ s = <<>> <=> ToSet(s) = {}
<1>1. DOMAIN s = 1 .. Len(s) /\ Len(s) \in Nat /\ \A i \in 1 .. Len(s) : s[i] \in S
  OBVIOUS
<1>2. ToSet(s) = {s[i] : i \in 1 .. Len(s)}
  BY <1>1 DEF ToSet
<1>3. \A x : Contains(s, x) <=> x \in ToSet(s)
  BY <1>2 DEF Contains
<1>4. ASSUME ToSet(s) = {} PROVE s = <<>>
  <2>1. 1 \notin 1 .. Len(s)
    BY <1>2, <1>4
  <2>2. Len(s) = 0
    BY <1>1, <2>1
  <2>. QED  BY <2>2
<1>5. ToSet(<<>>) = {}
  BY DEF ToSet
<1>. QED  BY <1>1, <1>2, <1>3, <1>4, <1>5

\* push_back()
LEMMA AppendElements ==
    ASSUME NEW S, NEW s \in Seq(S), NEW e \in S
    PROVE  /\ Append(s, e) \in Seq(S)
           /\ ToSet(Append(s, e)) = ToSet(s) \cup {e}
           /\ IsInjective(s) /\ e \notin ToSet(s) => IsInjective(Append(s, e))
<1>1. Append(s, e) \in Seq(S) /\ DOMAIN Append(s, e) = 1 .. (Len(s) + 1) /\ Len(s) \in Nat
      /\ DOMAIN s = 1 .. Len(s)
  OBVIOUS
<1>2. \A i \in 1 .. Len(s) : Append(s, e)[i] = s[i]
  OBVIOUS
<1>3. Append(s, e)[Len(s) + 1] = e
  OBVIOUS
<1>4. \A i \in 1 .. (Len(s) + 1) : i \in 1 .. Len(s) \/ i = Len(s) + 1
  BY <1>1
<1>5. ToSet(Append(s, e)) = ToSet(s) \cup {e}
  BY <1>1, <1>2, <1>3, <1>4 DEF ToSet
<1>6. IsInjective(s) /\ e \notin ToSet(s) => IsInjective(Append(s, e))
  BY <1>1, <1>2, <1>3, <1>4 DEF ToSet, IsInjective
<1>. QED  BY <1>1, <1>5, <1>6

\* pop_front()
LEMMA TailElements ==
    ASSUME NEW S, NEW s \in Seq(S), s # <<>>
    PROVE  /\ Head(s) \in ToSet(s)
           /\ Tail(s) \in Seq(S)
           /\ ToSet(s) = ToSet(Tail(s)) \cup {Head(s)}
           /\ IsInjective(s) =>
                  IsInjective(Tail(s)) /\ ToSet(Tail(s)) = ToSet(s) \ {Head(s)}
<1>1. /\ Len(s) \in Nat \ {0} /\ DOMAIN s = 1 .. Len(s) /\ Head(s) = s[1]
      /\ Tail(s) \in Seq(S) /\ DOMAIN Tail(s) = 1 .. (Len(s) - 1)
  OBVIOUS
<1>2. \A i \in 1 .. (Len(s) - 1) : Tail(s)[i] = s[i + 1]
  OBVIOUS
<1>3. \A i \in 1 .. Len(s) : i = 1 \/ (i - 1 \in 1 .. (Len(s) - 1) /\ (i - 1) + 1 = i)
  BY <1>1
<1>4. \A i \in 1 .. (Len(s) - 1) : i + 1 \in 1 .. Len(s) /\ i + 1 # 1 /\ i \in Nat
  BY <1>1
<1>5. \A i, j \in 1 .. (Len(s) - 1) : i + 1 = j + 1 => i = j
  BY <1>1
<1>6. 1 \in 1 .. Len(s)
  BY <1>1
<1>7. Head(s) \in ToSet(s)
  BY <1>1, <1>6 DEF ToSet
<1>8. ToSet(s) = ToSet(Tail(s)) \cup {Head(s)}
  <2>1. ASSUME NEW x \in ToSet(s) PROVE x \in ToSet(Tail(s)) \cup {Head(s)}
    <3>1. PICK i \in 1 .. Len(s) : x = s[i]
      BY <1>1 DEF ToSet
    <3>2. CASE i = 1
      BY <1>1, <3>1, <3>2
    <3>3. CASE i # 1
      <4>1. i - 1 \in 1 .. (Len(s) - 1) /\ x = Tail(s)[i - 1]
        BY <1>2, <1>3, <3>1, <3>3
      <4>. QED  BY <1>1, <4>1 DEF ToSet
    <3>. QED  BY <3>2, <3>3
  <2>2. ASSUME NEW x \in ToSet(Tail(s)) PROVE x \in ToSet(s)
    <3>1. PICK i \in 1 .. (Len(s) - 1) : x = Tail(s)[i]
      BY <1>1 DEF ToSet
    <3>. QED  BY <1>1, <1>2, <1>4, <3>1 DEF ToSet
  <2>. QED  BY <1>7, <2>1, <2>2
<1>9. ASSUME IsInjective(s) PROVE IsInjective(Tail(s)) /\ Head(s) \notin ToSet(Tail(s))
  <2>1. \A i \in 1 .. (Len(s) - 1) : Tail(s)[i] # s[1]
    BY <1>1, <1>2, <1>4, <1>6, <1>9 DEF IsInjective
  <2>2. ASSUME NEW i \in 1 .. (Len(s) - 1), NEW j \in 1 .. (Len(s) - 1), Tail(s)[i] = Tail(s)[j]
        PROVE  i = j
    <3>1. s[i + 1] = s[j + 1]
      BY <1>2, <2>2
    <3>2. i + 1 = j + 1
      BY <1>1, <1>4, <1>9, <3>1 DEF IsInjective
    <3>. QED  BY <1>5, <3>2
  <2>3. IsInjective(Tail(s))
    BY <1>1, <2>2 DEF IsInjective
  <2>4. Head(s) \notin ToSet(Tail(s))
    BY <1>1, <2>1 DEF ToSet
  <2>. QED  BY <2>3, <2>4
<1>. QED  BY <1>1, <1>7, <1>8, <1>9

=============================================================================
