------------------------------ MODULE CodeLemmas ------------------------------
(***************************************************************************)
(* Lemmas on the functions of the code that have no state of their own:    *)
(* the sums that rates and volumes are, the division by powers of two in   *)
(* prefixes, the ring buffer (RingBuffer) for a window of any length, and  *)
(* AlertInstance::evaluate (AlertInstance).  The proofs about the state    *)
(* machines built from them rest on these.                                 *)
(***************************************************************************)
EXTENDS RingBuffer, AlertInstance, FiniteSetTheorems, WellFoundedInduction, TLAPS

-----------------------------------------------------------------------------
(* Sums.  SumFunctionOnSet adds in an order of its own; here it is shown    *)
(* that the order does not matter.                                          *)

\* Induction over the natural numbers, with a set for the predicate: one
\* outside the set would have a least one.
LEMMA Induct ==
  ASSUME NEW Q, 0 \in Q, \A n \in Nat : n \in Q => n + 1 \in Q
  PROVE  Nat \subseteq Q
<1> SUFFICES ASSUME Nat \ Q # {} PROVE FALSE
  OBVIOUS
<1> DEFINE T == Nat \ Q
<1>1. T \subseteq Nat /\ T # {}
  OBVIOUS
<1> HIDE DEF T
<1>2. PICK m \in T : \A d \in T : ~(<<d, m>> \in OpToRel(<, Nat))
  BY <1>1, NatLessThanWellFounded, WFMin
<1>3. \A d, e \in Nat : d < e => <<d, e>> \in OpToRel(<, Nat)
  BY DEF OpToRel
<1>4. \A d \in T : ~(d < m)
  BY <1>1, <1>2, <1>3
<1>5. m \in Nat /\ m \notin Q
  BY DEF T
<1>6. m # 0
  BY <1>5
<1>7. m - 1 \in Nat /\ m - 1 < m
  BY <1>5, <1>6
<1>8. m - 1 \in Q
  BY <1>4, <1>7 DEF T
<1>9. QED
  BY <1>5, <1>7, <1>8

\* A subset without one of its elements.
LEMMA OneLess ==
  ASSUME NEW S, IsFiniteSet(S), NEW s \in SUBSET S, NEW n \in Nat,
         Cardinality(s) = n + 1, NEW x \in s
  PROVE  s \ {x} \in SUBSET S /\ Cardinality(s \ {x}) = n
<1>1. IsFiniteSet(s)
  BY FS_Subset
<1>2. Cardinality(s \ {x}) = Cardinality(s) - 1
  BY <1>1, FS_RemoveElement
<1>3. QED
  BY <1>2

Pick(s) == CHOOSE x \in s : TRUE

Term(g, f, s) == IF s = {} THEN 0 ELSE f[Pick(s)] + g[s \ {Pick(s)}]

\* g holds the sums of f over the sets in D.
Sums(g, f, D) == g = [s \in D |-> Term(g, f, s)]

\* The definition in the library.
LEMMA SumDefinition ==
  ASSUME NEW f, NEW S
  PROVE  SumFunctionOnSet(f, S) = (CHOOSE g : Sums(g, f, SUBSET S))[S]
BY DEF SumFunctionOnSet, FoldFunctionOnSet, MapThenFoldSet, Sums, Term, Pick

\* A finite set has its sums, built up by the size of the subset.
LEMMA SumsExist ==
  ASSUME NEW f, NEW S, IsFiniteSet(S)
  PROVE  \E g : Sums(g, f, SUBSET S)
<1> DEFINE Small(n) == {s \in SUBSET S : Cardinality(s) <= n}
           Q == {n \in Nat : \E g : Sums(g, f, Small(n))}
<1>1. \A s \in SUBSET S : IsFiniteSet(s) /\ Cardinality(s) \in Nat
  BY FS_Subset, FS_CardinalityType
<1>2. 0 \in Q
  <2>1. Small(0) = {{}}
    <3>1. \A s \in SUBSET S : Cardinality(s) <= 0 <=> s = {}
      BY <1>1, FS_EmptySet
    <3>2. QED
      BY <3>1
  <2> HIDE DEF Small
  <2>2. Sums([s \in {{}} |-> 0], f, {{}})
    BY DEF Sums, Term
  <2>3. QED
    BY <2>1, <2>2
<1>3. ASSUME NEW n \in Nat, n \in Q PROVE n + 1 \in Q
  <2>1. PICK g : Sums(g, f, Small(n))
    BY <1>3
  <2> DEFINE h == [s \in Small(n + 1) |-> Term(g, f, s)]
  <2>2. ASSUME NEW s \in Small(n + 1)
        PROVE  Term(g, f, s) = Term(h, f, s)
    <3>1. CASE s = {}
      BY <3>1 DEF Term
    <3>2. CASE s # {}
      <4> DEFINE r == s \ {Pick(s)}
      <4>1. Pick(s) \in s
        BY <3>2 DEF Pick
      <4>2. r \in SUBSET S /\ Cardinality(r) = Cardinality(s) - 1
        BY <1>1, <4>1, FS_RemoveElement
      <4>3. Cardinality(r) <= n /\ Cardinality(r) <= n + 1
        BY <1>1, <4>2
      <4>4. r \in Small(n) /\ r \in Small(n + 1)
        BY <4>2, <4>3
      <4> HIDE DEF Small, r
      <4>5. g[r] = Term(g, f, r)
        BY <2>1, <4>4 DEF Sums
      <4>6. h[r] = Term(g, f, r)
        BY <4>4
      <4>7. QED
        BY <3>2, <4>5, <4>6 DEF Term, r
    <3>3. QED
      BY <3>1, <3>2
  <2> HIDE DEF Small
  <2>3. h = [s \in Small(n + 1) |-> Term(h, f, s)]
    BY <2>2
  <2> HIDE DEF h
  <2>4. Sums(h, f, Small(n + 1))
    BY <2>3 DEF Sums
  <2>5. QED
    BY <2>4
<1>4. Cardinality(S) \in Q
  <2> HIDE DEF Q
  <2>1. Cardinality(S) \in Nat
    BY FS_CardinalityType
  <2>2. Nat \subseteq Q
    BY <1>2, <1>3, Induct
  <2>3. QED
    BY <2>1, <2>2
<1>5. Small(Cardinality(S)) = SUBSET S
  BY FS_Subset
<1> HIDE DEF Small
<1>6. QED
  BY <1>4, <1>5

LEMMA SumRecursion ==
  ASSUME NEW f, NEW S, IsFiniteSet(S)
  PROVE  \E g : /\ Sums(g, f, SUBSET S)
                /\ SumFunctionOnSet(f, S) = g[S]
BY SumsExist, SumDefinition

\* Sums of functions that agree on a set agree on its subsets.
LEMMA SumsAgree ==
  ASSUME NEW f1, NEW f2, NEW S1, NEW S2,
         NEW T, T \subseteq S1, T \subseteq S2, IsFiniteSet(T),
         \A x \in T : f1[x] = f2[x],
         NEW g1, NEW g2, Sums(g1, f1, SUBSET S1), Sums(g2, f2, SUBSET S2)
  PROVE  g1[T] = g2[T]
<1> DEFINE Q == {n \in Nat : \A s \in SUBSET T : Cardinality(s) = n => g1[s] = g2[s]}
<1>1. \A s \in SUBSET T : IsFiniteSet(s) /\ Cardinality(s) \in Nat
  BY FS_Subset, FS_CardinalityType
<1>2. \A s \in SUBSET T : g1[s] = Term(g1, f1, s) /\ g2[s] = Term(g2, f2, s)
  <2>1. \A s \in SUBSET S1 : g1[s] = Term(g1, f1, s)
    BY DEF Sums
  <2>2. \A s \in SUBSET S2 : g2[s] = Term(g2, f2, s)
    BY DEF Sums
  <2>3. QED
    BY <2>1, <2>2
<1>3. 0 \in Q
  <2>1. \A s \in SUBSET T : Cardinality(s) = 0 => s = {}
    BY <1>1, FS_EmptySet
  <2>2. QED
    BY <1>2, <2>1 DEF Term
<1>4. ASSUME NEW n \in Nat, n \in Q PROVE n + 1 \in Q
  <2>1. ASSUME NEW s \in SUBSET T, Cardinality(s) = n + 1
        PROVE  g1[s] = g2[s]
    <3> DEFINE p == Pick(s)
               r == s \ {p}
    <3>1. s # {}
      BY <2>1, FS_EmptySet
    <3>2. p \in s
      BY <3>1 DEF Pick
    <3>3. r \in SUBSET T /\ Cardinality(r) = n
      BY <2>1, <3>2, OneLess
    <3>4. g1[r] = g2[r]
      BY <1>4, <3>3
    <3>5. f1[p] = f2[p]
      BY <3>2
    <3>6. QED
      BY <1>2, <3>1, <3>4, <3>5 DEF Term
  <2>2. QED
    BY <2>1
<1>5. Cardinality(T) \in Q
  <2> HIDE DEF Q
  <2>1. Nat \subseteq Q
    BY <1>3, <1>4, Induct
  <2>2. QED
    BY <1>1, <2>1
<1>6. QED
  BY <1>5

LEMMA SumAgrees ==
  ASSUME NEW f1, NEW f2, NEW S, IsFiniteSet(S), \A x \in S : f1[x] = f2[x]
  PROVE  SumFunctionOnSet(f1, S) = SumFunctionOnSet(f2, S)
<1>1. PICK g1 : Sums(g1, f1, SUBSET S) /\ SumFunctionOnSet(f1, S) = g1[S]
  BY SumRecursion
<1>2. PICK g2 : Sums(g2, f2, SUBSET S) /\ SumFunctionOnSet(f2, S) = g2[S]
  BY SumRecursion
<1>3. g1[S] = g2[S]
  BY <1>1, <1>2, SumsAgree
<1>4. QED
  BY <1>1, <1>2, <1>3

LEMMA SumOfNone == ASSUME NEW f PROVE SumFunctionOnSet(f, {}) = 0
<1>1. PICK g : Sums(g, f, SUBSET {}) /\ SumFunctionOnSet(f, {}) = g[{}]
  BY SumRecursion, FS_EmptySet
<1>2. QED
  BY <1>1 DEF Sums, Term

\* The library's own step.
LEMMA SumStep ==
  ASSUME NEW f, NEW S, IsFiniteSet(S), S # {}
  PROVE  SumFunctionOnSet(f, S) = f[Pick(S)] + SumFunctionOnSet(f, S \ {Pick(S)})
<1> DEFINE r == S \ {Pick(S)}
<1>1. PICK g : Sums(g, f, SUBSET S) /\ SumFunctionOnSet(f, S) = g[S]
  BY SumRecursion
<1>2. IsFiniteSet(r) /\ r \subseteq S
  BY FS_Subset
<1>3. PICK h : Sums(h, f, SUBSET r) /\ SumFunctionOnSet(f, r) = h[r]
  BY <1>2, SumRecursion
<1>4. g[r] = h[r]
  <2> HIDE DEF r
  <2>1. QED
    BY <1>1, <1>2, <1>3, SumsAgree
<1>5. g[S] = f[Pick(S)] + g[r]
  BY <1>1 DEF Sums, Term
<1>6. QED
  BY <1>1, <1>3, <1>4, <1>5

\* A sum of natural numbers is one.
LEMMA SumType ==
  ASSUME NEW f, NEW S, IsFiniteSet(S), \A x \in S : f[x] \in Nat
  PROVE  SumFunctionOnSet(f, S) \in Nat
<1> DEFINE Q == {n \in Nat : \A s \in SUBSET S :
                   Cardinality(s) = n => SumFunctionOnSet(f, s) \in Nat}
<1>1. \A s \in SUBSET S : IsFiniteSet(s) /\ Cardinality(s) \in Nat
  BY FS_Subset, FS_CardinalityType
<1>2. 0 \in Q
  BY <1>1, FS_EmptySet, SumOfNone
<1>3. ASSUME NEW n \in Nat, n \in Q PROVE n + 1 \in Q
  <2>1. ASSUME NEW s \in SUBSET S, Cardinality(s) = n + 1
        PROVE  SumFunctionOnSet(f, s) \in Nat
    <3>1. s # {}
      BY <2>1, FS_EmptySet
    <3>2. Pick(s) \in s
      BY <3>1 DEF Pick
    <3>3. s \ {Pick(s)} \in SUBSET S /\ Cardinality(s \ {Pick(s)}) = n
      BY <2>1, <3>2, OneLess
    <3>4. SumFunctionOnSet(f, s) = f[Pick(s)] + SumFunctionOnSet(f, s \ {Pick(s)})
      BY <1>1, <3>1, SumStep
    <3>5. f[Pick(s)] \in Nat /\ SumFunctionOnSet(f, s \ {Pick(s)}) \in Nat
      BY <1>3, <3>2, <3>3
    <3>6. QED
      BY <3>4, <3>5
  <2>2. QED
    BY <2>1
<1>4. Cardinality(S) \in Q
  <2> HIDE DEF Q
  <2>1. Nat \subseteq Q
    BY <1>2, <1>3, Induct
  <2>2. QED
    BY <1>1, <2>1
<1>5. QED
  BY <1>4

\* Whichever element is taken out first, the sum is the same.
LEMMA SumTakesOut ==
  ASSUME NEW f, NEW S, IsFiniteSet(S), \A x \in S : f[x] \in Nat, NEW e \in S
  PROVE  SumFunctionOnSet(f, S) = f[e] + SumFunctionOnSet(f, S \ {e})
<1> DEFINE Total(s) == SumFunctionOnSet(f, s)
           Q == {n \in Nat : \A s \in SUBSET S : Cardinality(s) = n =>
                   \A x \in s : Total(s) = f[x] + Total(s \ {x})}
<1>1. \A s \in SUBSET S : IsFiniteSet(s) /\ Cardinality(s) \in Nat
  BY FS_Subset, FS_CardinalityType
<1>2. \A s \in SUBSET S : Total(s) \in Nat
  <2>1. TAKE s \in SUBSET S
  <2>2. QED
    BY <1>1, SumType
<1>3. \A s \in SUBSET S : s # {} =>
         Pick(s) \in s /\ Total(s) = f[Pick(s)] + Total(s \ {Pick(s)})
  BY <1>1, SumStep DEF Pick
<1> HIDE DEF Total
<1>4. 0 \in Q
  BY <1>1, FS_EmptySet
<1>5. ASSUME NEW n \in Nat, n \in Q PROVE n + 1 \in Q
  <2>1. ASSUME NEW s \in SUBSET S, Cardinality(s) = n + 1, NEW x \in s
        PROVE  Total(s) = f[x] + Total(s \ {x})
    <3> DEFINE p == Pick(s)
               q == s \ {p}
               r == s \ {x}
    <3>1. p \in s /\ Total(s) = f[p] + Total(q)
      BY <1>3
    <3>2. CASE p = x
      BY <3>1, <3>2
    <3>3. CASE p # x
      <4>1. /\ q \in SUBSET S /\ Cardinality(q) = n
            /\ r \in SUBSET S /\ Cardinality(r) = n
        BY <2>1, <3>1, OneLess
      <4>2. x \in q /\ p \in r /\ q \ {x} = r \ {p}
        BY <3>1, <3>3
      <4> HIDE DEF q, r, p
      <4>3. Total(q) = f[x] + Total(q \ {x}) /\ Total(r) = f[p] + Total(r \ {p})
        BY <1>5, <4>1, <4>2
      <4>4. f[x] \in Nat /\ f[p] \in Nat /\ Total(q \ {x}) \in Nat
        <5>1. p \in S /\ x \in S /\ q \ {x} \in SUBSET S
          BY <3>1, <4>1
        <5>2. QED
          BY <1>2, <5>1
      <4>5. Total(s) = f[x] + Total(r)
        BY <3>1, <4>2, <4>3, <4>4
      <4>6. QED
        BY <4>5 DEF r
    <3>4. QED
      BY <3>2, <3>3
  <2>2. QED
    BY <2>1
<1>6. Cardinality(S) \in Q
  <2> HIDE DEF Q
  <2>1. Nat \subseteq Q
    BY <1>4, <1>5, Induct
  <2>2. QED
    BY <1>1, <2>1
<1>7. QED
  BY <1>6 DEF Total

\* Sums that differ in one term differ by the difference of that term.
LEMMA SumChanges ==
  ASSUME NEW f1, NEW f2, NEW S, IsFiniteSet(S), NEW e \in S, NEW v \in Nat,
         \A x \in S : f1[x] \in Nat /\ f2[x] \in Nat,
         \A x \in S \ {e} : f2[x] = f1[x],
         f2[e] = f1[e] + v
  PROVE  SumFunctionOnSet(f2, S) = SumFunctionOnSet(f1, S) + v
<1> DEFINE r == S \ {e}
<1>1. IsFiniteSet(r)
  BY FS_Subset
<1>2. /\ SumFunctionOnSet(f1, S) = f1[e] + SumFunctionOnSet(f1, r)
      /\ SumFunctionOnSet(f2, S) = f2[e] + SumFunctionOnSet(f2, r)
  BY SumTakesOut
<1>3. SumFunctionOnSet(f1, r) = SumFunctionOnSet(f2, r)
  BY <1>1, SumAgrees
<1>4. SumFunctionOnSet(f1, r) \in Nat
  BY <1>1, SumType
<1> HIDE DEF r
<1>5. QED
  BY <1>2, <1>3, <1>4

LEMMA SumOfZeros ==
  ASSUME NEW f, NEW S, IsFiniteSet(S), \A x \in S : f[x] = 0
  PROVE  SumFunctionOnSet(f, S) = 0
<1> DEFINE Q == {n \in Nat : \A s \in SUBSET S :
                   Cardinality(s) = n => SumFunctionOnSet(f, s) = 0}
<1>1. \A s \in SUBSET S : IsFiniteSet(s) /\ Cardinality(s) \in Nat
  BY FS_Subset, FS_CardinalityType
<1>2. 0 \in Q
  BY <1>1, FS_EmptySet, SumOfNone
<1>3. ASSUME NEW n \in Nat, n \in Q PROVE n + 1 \in Q
  <2>1. ASSUME NEW s \in SUBSET S, Cardinality(s) = n + 1
        PROVE  SumFunctionOnSet(f, s) = 0
    <3>1. s # {}
      BY <2>1, FS_EmptySet
    <3>2. Pick(s) \in s
      BY <3>1 DEF Pick
    <3>3. s \ {Pick(s)} \in SUBSET S /\ Cardinality(s \ {Pick(s)}) = n
      BY <2>1, <3>2, OneLess
    <3>4. SumFunctionOnSet(f, s) = f[Pick(s)] + SumFunctionOnSet(f, s \ {Pick(s)})
      BY <1>1, <3>1, SumStep
    <3>5. f[Pick(s)] = 0 /\ SumFunctionOnSet(f, s \ {Pick(s)}) = 0
      BY <1>3, <3>2, <3>3
    <3>6. QED
      BY <3>4, <3>5
  <2>2. QED
    BY <2>1
<1>4. Cardinality(S) \in Q
  <2> HIDE DEF Q
  <2>1. Nat \subseteq Q
    BY <1>2, <1>3, Induct
  <2>2. QED
    BY <1>1, <2>1
<1>5. QED
  BY <1>4

\* A set and the rest of it.
LEMMA SumSplits ==
  ASSUME NEW f, NEW S, IsFiniteSet(S), \A x \in S : f[x] \in Nat, NEW T \in SUBSET S
  PROVE  SumFunctionOnSet(f, S) = SumFunctionOnSet(f, T) + SumFunctionOnSet(f, S \ T)
<1> DEFINE Total(s) == SumFunctionOnSet(f, s)
           Q == {n \in Nat : \A s \in SUBSET S :
                   Cardinality(s) = n => Total(S) = Total(s) + Total(S \ s)}
<1>1. \A s \in SUBSET S : IsFiniteSet(s) /\ Cardinality(s) \in Nat
  BY FS_Subset, FS_CardinalityType
<1>2. \A s \in SUBSET S : Total(s) \in Nat
  <2> SUFFICES ASSUME NEW s \in SUBSET S PROVE Total(s) \in Nat
    OBVIOUS
  <2>1. IsFiniteSet(s) /\ \A x \in s : f[x] \in Nat
    BY <1>1
  <2> QED
    BY <2>1, SumType
<1>3. 0 \in Q
  <2> SUFFICES ASSUME NEW s \in SUBSET S, Cardinality(s) = 0
               PROVE  Total(S) = Total(s) + Total(S \ s)
    OBVIOUS
  <2>1. s = {}
    BY <1>1, FS_EmptySet
  <2>2. Total(s) = 0
    BY <2>1, SumOfNone
  <2>3. S \ s = S
    BY <2>1
  <2> HIDE DEF Total
  <2> QED
    BY <1>2, <2>2, <2>3
<1>4. ASSUME NEW n \in Nat, n \in Q PROVE n + 1 \in Q
  <2> SUFFICES ASSUME NEW s \in SUBSET S, Cardinality(s) = n + 1
               PROVE  Total(S) = Total(s) + Total(S \ s)
    OBVIOUS
  <2>1. s # {}
    BY FS_EmptySet
  <2>2. PICK e \in s : TRUE
    BY <2>1
  <2> DEFINE r == s \ {e}
  <2>3. r \in SUBSET S /\ Cardinality(r) = n
    BY OneLess
  <2>4. Total(S) = Total(r) + Total(S \ r)
    BY <1>4, <2>3
  <2>5. Total(s) = f[e] + Total(r)
    <3>1. IsFiniteSet(s) /\ \A x \in s : f[x] \in Nat
      BY <1>1
    <3> QED
      BY <2>2, <3>1, SumTakesOut
  <2>6. Total(S \ r) = f[e] + Total(S \ s)
    <3>1. IsFiniteSet(S \ r) /\ (\A x \in S \ r : f[x] \in Nat) /\ e \in S \ r
      BY <1>1
    <3>2. Total(S \ r) = f[e] + Total((S \ r) \ {e})
      BY <3>1, SumTakesOut
    <3>3. (S \ r) \ {e} = S \ s
      OBVIOUS
    <3> QED
      BY <3>2, <3>3
  <2>7. /\ Total(r) \in Nat /\ Total(S \ s) \in Nat /\ f[e] \in Nat
    BY <1>2, <2>3
  <2> HIDE DEF Total, r
  <2> QED
    BY <2>4, <2>5, <2>6, <2>7
<1>5. Cardinality(T) \in Q
  <2>1. Nat \subseteq Q
    <3> HIDE DEF Q
    <3> QED
      BY <1>3, <1>4, Induct
  <2> QED
    BY <1>1, <2>1
<1> QED
  BY <1>5

-----------------------------------------------------------------------------
(* Powers of two and division with remainder, for the sizes of prefixes.    *)

(***************************************************************************)
(* Powers of two, by way of the number of subsets.                         *)
(***************************************************************************)
LEMMA PowerOfTwo ==
  ASSUME NEW n \in Nat
  PROVE  2 ^ n \in Nat \ {0} /\ 2 ^ (n + 1) = 2 * 2 ^ n
<1> DEFINE A == 1 .. n
           B == SUBSET A
           C == {s \cup {n + 1} : s \in B}
           T == 1 .. (n + 1)
<1>1. /\ IsFiniteSet(A) /\ Cardinality(A) = n
      /\ IsFiniteSet(T) /\ Cardinality(T) = n + 1
  BY FS_Interval
<1>2. /\ IsFiniteSet(B) /\ Cardinality(B) = 2 ^ n
      /\ Cardinality(SUBSET T) = 2 ^ (n + 1)
  <2> HIDE DEF A, T
  <2>1. IsFiniteSet(SUBSET A) /\ Cardinality(SUBSET A) = 2 ^ Cardinality(A)
    BY <1>1, FS_SUBSET
  <2>2. Cardinality(SUBSET T) = 2 ^ Cardinality(T)
    BY <1>1, FS_SUBSET
  <2> QED
    BY <1>1, <2>1, <2>2
<1>3. n + 1 \notin A /\ T = A \cup {n + 1}
  OBVIOUS
<1> HIDE DEF A, T
<1>4. ExistsBijection(B, C)
  <2> DEFINE f == [s \in B |-> s \cup {n + 1}]
  <2>1. f \in [B -> C]
    OBVIOUS
  <2>2. \A s, t \in B : f[s] = f[t] => s = t
    BY <1>3
  <2>3. \A c \in C : \E s \in B : f[s] = c
    OBVIOUS
  <2> HIDE DEF B, C, f
  <2>4. DOMAIN f = B
    BY <2>1
  <2>5. f \in Injection(B, C) /\ f \in Surjection(B, C)
    BY <2>1, <2>2, <2>3, <2>4 DEF Injection, Surjection, IsInjective
  <2> QED
    BY <2>5 DEF ExistsBijection, Bijection
<1>5. IsFiniteSet(C) /\ Cardinality(C) = Cardinality(B)
  BY <1>2, <1>4, FS_Bijection
<1>6. SUBSET T = B \cup C /\ B \cap C = {}
  <2>1. ASSUME NEW s \in SUBSET T PROVE s \in B \cup C
    <3>1. CASE n + 1 \in s
      <4>1. s \ {n + 1} \in B /\ s = (s \ {n + 1}) \cup {n + 1}
        BY <1>3, <3>1
      <4> QED
        BY <4>1
    <3>2. CASE n + 1 \notin s
      BY <1>3, <3>2
    <3> QED
      BY <3>1, <3>2
  <2>2. B \cup C \subseteq SUBSET T
    BY <1>3
  <2>3. B \cap C = {}
    BY <1>3
  <2> QED
    BY <2>1, <2>2, <2>3
<1> HIDE DEF B, C
<1>7. Cardinality(SUBSET T) = Cardinality(B) + Cardinality(C) - Cardinality({})
  BY <1>2, <1>5, <1>6, FS_Union
<1>8. Cardinality(B) \in Nat /\ Cardinality({}) = 0
  BY <1>2, FS_CardinalityType, FS_EmptySet
<1>9. Cardinality(B) # 0
  <2>1. {} \in B
    BY DEF B
  <2> QED
    BY <1>2, <2>1, FS_EmptySet
<1>10. 2 ^ (n + 1) = 2 * Cardinality(B)
  BY <1>2, <1>5, <1>7, <1>8
<1> QED
  BY <1>2, <1>8, <1>9, <1>10

\* A power of two is a multiple of the smaller ones.
LEMMA PowerDivides ==
  ASSUME NEW a \in Nat, NEW b \in Nat, a <= b
  PROVE  \E k \in Nat \ {0} : 2 ^ b = k * 2 ^ a
<1> DEFINE Q == {n \in Nat : \E k \in Nat \ {0} : 2 ^ (a + n) = k * 2 ^ a}
<1>1. 2 ^ a \in Nat \ {0} /\ \A n \in Nat : 2 ^ ((a + n) + 1) = 2 * 2 ^ (a + n)
  BY PowerOfTwo
<1>2. 0 \in Q
  <2>1. 2 ^ (a + 0) = 2 ^ a
    OBVIOUS
  <2>2. 2 ^ a = 1 * 2 ^ a
    BY <1>1
  <2> QED
    BY <2>1, <2>2
<1>3. ASSUME NEW n \in Nat, n \in Q PROVE n + 1 \in Q
  <2>1. PICK k \in Nat \ {0} : 2 ^ (a + n) = k * 2 ^ a
    BY <1>3
  <2>2. a + (n + 1) = (a + n) + 1
    OBVIOUS
  <2>3. 2 ^ (a + (n + 1)) = 2 * 2 ^ (a + n)
    BY <1>1, <2>2
  <2> DEFINE s == 2 ^ a
  <2>4. 2 * (k * s) = (2 * k) * s /\ 2 * k \in Nat \ {0}
    BY <1>1
  <2>5. 2 ^ (a + (n + 1)) = (2 * k) * 2 ^ a
    BY <2>1, <2>3, <2>4
  <2>6. \E m \in Nat \ {0} : 2 ^ (a + (n + 1)) = m * 2 ^ a
    BY <2>4, <2>5
  <2> QED
    BY <2>6
<1>4. Nat \subseteq Q
  <2> HIDE DEF Q
  <2> QED
    BY <1>2, <1>3, Induct
<1>5. b - a \in Q
  <2>1. b - a \in Nat
    OBVIOUS
  <2> HIDE DEF Q
  <2> QED
    BY <1>4, <2>1
<1>6. a + (b - a) = b
  OBVIOUS
<1> QED
  BY <1>5, <1>6

\* Division with remainder.
LEMMA Divided ==
  ASSUME NEW s \in Nat \ {0}, NEW x \in Nat
  PROVE  /\ x \div s \in Nat /\ x % s \in 0 .. (s - 1)
         /\ x = (x \div s) * s + (x % s)
<1> DEFINE q == x \div s
           r == x % s
<1>1. q \in Int /\ r \in 0 .. (s - 1) /\ x = s * q + r
  OBVIOUS
<1> HIDE DEF q, r
<1>2. q >= 0
  <2> SUFFICES ASSUME q <= -1 PROVE FALSE
    BY <1>1
  <2>1. s * q <= s * (-1)
    BY <1>1
  <2> QED
    BY <1>1, <2>1
<1>3. s * q = q * s
  BY <1>1
<1>4. q \in Nat /\ r \in 0 .. (s - 1) /\ x = q * s + r
  BY <1>1, <1>2, <1>3
<1> QED
  BY <1>4 DEF q, r

LEMMA Quotient ==
  ASSUME NEW s \in Nat \ {0}, NEW q \in Nat, NEW r \in 0 .. (s - 1),
         NEW x, x = q * s + r
  PROVE  x \in Nat /\ x \div s = q /\ x % s = r
<1>1. q * s \in Nat
  OBVIOUS
<1>2. x \in Nat
  BY <1>1
<1> DEFINE p == x \div s
           t == x % s
<1>3. p \in Nat /\ t \in 0 .. (s - 1) /\ x = p * s + t
  BY <1>2, Divided
<1> HIDE DEF p, t
<1>4. (p - q) * s = r - t
  <2>1. (p - q) * s = p * s - q * s
    BY <1>3
  <2> QED
    BY <1>1, <1>3, <2>1
<1>5. p - q <= 0
  <2> SUFFICES ASSUME p - q >= 1 PROVE FALSE
    BY <1>3
  <2>1. (p - q) * s >= 1 * s
    BY <1>3
  <2> QED
    BY <1>3, <1>4, <2>1
<1>6. p - q >= 0
  <2> SUFFICES ASSUME p - q <= -1 PROVE FALSE
    BY <1>3
  <2>1. (p - q) * s <= (-1) * s
    BY <1>3
  <2> QED
    BY <1>3, <1>4, <2>1
<1>7. p = q
  BY <1>3, <1>5, <1>6
<1>8. t = r
  BY <1>3, <1>7, <1>1
<1> QED
  BY <1>2, <1>7, <1>8 DEF p, t

\* What shares a quotient shares the quotient by a multiple.
LEMMA Coarser ==
  ASSUME NEW s \in Nat \ {0}, NEW k \in Nat \ {0},
         NEW x \in Nat, NEW y \in Nat, x \div s = y \div s
  PROVE  x \div (k * s) = y \div (k * s)
<1> DEFINE q == x \div s
           u == q \div k
           v == q % k
<1>1. q \in Nat
  BY Divided
<1>2. u \in Nat /\ v \in 0 .. (k - 1) /\ q = u * k + v
  BY <1>1, Divided
<1>3. k * s \in Nat \ {0}
  OBVIOUS
<1>4. ASSUME NEW z \in Nat, z \div s = q
      PROVE  z \div (k * s) = u
  <2> DEFINE r == z % s
  <2>1. r \in 0 .. (s - 1) /\ z = q * s + r
    BY <1>4, Divided
  <2> HIDE DEF q, u, v, r
  <2>2. (u * k + v) * s = u * (k * s) + v * s
    BY <1>2
  <2>3. v * s <= (k - 1) * s /\ (k - 1) * s = k * s - s /\ v * s >= 0
    BY <1>2
  <2>4. v * s + r \in 0 .. (k * s - 1)
    <3> DEFINE vs == v * s
               ks == k * s
    <3>1. vs \in Int /\ ks \in Int /\ vs <= ks - s /\ vs >= 0
      BY <1>2, <1>3, <2>3
    <3> HIDE DEF vs, ks
    <3>2. vs + r \in 0 .. (ks - 1)
      BY <2>1, <3>1
    <3> QED
      BY <3>2 DEF vs, ks
  <2>5. z = u * (k * s) + (v * s + r)
    BY <1>2, <1>3, <2>1, <2>2, <2>4
  <2> QED
    BY <1>2, <1>3, <2>4, <2>5, Quotient
<1> HIDE DEF u, v
<1> QED
  BY <1>4

-----------------------------------------------------------------------------
(* The ring buffer, for a window of any length.                            *)

\* Two seconds that share a bucket are at least a window apart.
LEMMA ModSpread ==
  ASSUME NEW w \in Nat \ {0}, NEW a \in Nat, NEW b \in Nat, a < b, a % w = b % w
  PROVE  b - a >= w
<1> DEFINE qa == a \div w
           qb == b \div w
           r  == a % w
<1>1. /\ qa \in Int /\ qb \in Int /\ r \in Int
      /\ a = w * qa + r
      /\ b = w * qb + r
  OBVIOUS
<1> HIDE DEF qa, qb, r
<1>2. b - a = w * (qb - qa)
  BY <1>1
<1>3. qb - qa >= 1
  <2>1. CASE qb - qa <= 0
    <3>1. w * (qb - qa) <= 0
      BY <2>1, <1>1
    <3>2. QED
      BY <3>1, <1>2
  <2>2. QED
    BY <2>1, <1>1
<1>4. w * (qb - qa) >= w
  BY <1>1, <1>3
<1>5. QED
  BY <1>2, <1>4

\* What a flow does to the bucket it falls into, and to the others.
AddedTo(new, w, ring, t, volume) ==
  /\ new \in Ring(w)
  /\ new[t % w].timestamp = t
  /\ \A m \in Measure :
       new[t % w].sum[m] =
         (IF ring[t % w].timestamp = t THEN ring[t % w].sum[m] ELSE 0) + volume[m]
  /\ \A b \in 0 .. (w - 1) : b # t % w => new[b] = ring[b]

LEMMA AddEffect ==
  ASSUME NEW w \in Nat \ {0}, NEW ring \in Ring(w), NEW t \in Nat,
         NEW volume \in [Measure -> Nat]
  PROVE  AddedTo(AddInstantFlow(w, ring, t, volume), w, ring, t, volume)
<1> DEFINE idx == t % w
           bucket == GetOrResetBucket(ring[idx], t)
           added == [timestamp |-> bucket.timestamp,
                     sum |-> [m \in Measure |-> bucket.sum[m] + volume[m]]]
           new == AddInstantFlow(w, ring, t, volume)
<1>1. idx \in 0 .. (w - 1)
  OBVIOUS
<1>2. ring[idx] \in Bucket
  BY <1>1 DEF Ring
<1>3. /\ bucket \in Bucket
      /\ bucket.timestamp = t
      /\ \A m \in Measure :
           bucket.sum[m] = IF ring[idx].timestamp = t THEN ring[idx].sum[m] ELSE 0
  BY <1>2 DEF GetOrResetBucket, ResetBucket, NoTraffic, Bucket
<1>4. added \in Bucket
  BY <1>3 DEF Bucket
<1>5. new = [ring EXCEPT ![idx] = added]
  BY DEF AddInstantFlow, BucketIndex
<1> HIDE DEF added, idx
<1>6. /\ new \in Ring(w)
      /\ new[idx] = added
      /\ \A b \in 0 .. (w - 1) : b # idx => new[b] = ring[b]
  BY <1>1, <1>4, <1>5 DEF Ring
<1>7. /\ added.timestamp = t
      /\ \A m \in Measure :
           added.sum[m] =
             (IF ring[idx].timestamp = t THEN ring[idx].sum[m] ELSE 0) + volume[m]
  BY <1>3 DEF added
<1>8. QED
  BY <1>6, <1>7 DEF idx, AddedTo

\* The seconds a ring can hold when the newest flow is of second t.
InPlace(w, ring, t) ==
  \A b \in 0 .. (w - 1) :
     LET second == ring[b].timestamp
     IN  second = 0 \/ (second <= t /\ second % w = b)

LEMMA ReadType ==
  ASSUME NEW w \in Nat \ {0}, NEW ring \in Ring(w), NEW u \in Nat, NEW m \in Measure
  PROVE  ReadSecond(w, ring, u, m) \in Nat
<1>1. u % w \in 0 .. (w - 1)
  OBVIOUS
<1>2. ring[u % w] \in Bucket
  BY <1>1 DEF Ring
<1>3. QED
  BY <1>2 DEF ReadSecond, BucketIndex, Bucket

\* A flow changes what the ring answers for its own second, and for no other
\* of the window: the second it pushes out of its bucket is older than that.
LEMMA ReadAfterAdd ==
  ASSUME NEW w \in Nat \ {0}, NEW ring \in Ring(w), NEW t \in Nat, w <= t,
         NEW volume \in [Measure -> Nat], InPlace(w, ring, t),
         NEW now \in Nat, t <= now, NEW i \in 0 .. (w - 1), NEW m \in Measure
  PROVE  ReadSecond(w, AddInstantFlow(w, ring, t, volume), now - i, m)
           = ReadSecond(w, ring, now - i, m) + (IF now - i = t THEN volume[m] ELSE 0)
<1> DEFINE new == AddInstantFlow(w, ring, t, volume)
           v == volume[m]
           before(u) == ReadSecond(w, ring, u, m)
           after(u) == ReadSecond(w, new, u, m)
<1>1. PICK u \in Nat : u = now - i
  OBVIOUS
<1>2. u > 0 /\ u % w \in 0 .. (w - 1)
  BY <1>1
<1>3. AddedTo(new, w, ring, t, volume)
  BY AddEffect
<1>4. before(u) \in Nat /\ v \in Nat
  BY ReadType
<1> HIDE DEF new, v
<1>5. CASE u = t
  BY <1>1, <1>3, <1>5 DEF ReadSecond, BucketIndex, AddedTo, new, v
<1>6. CASE u # t /\ u % w # t % w
  <2>1. new[u % w] = ring[u % w]
    BY <1>2, <1>3, <1>6 DEF AddedTo
  <2>2. after(u) = before(u)
    BY <2>1 DEF ReadSecond, BucketIndex
  <2>3. QED
    BY <1>1, <1>4, <1>6, <2>2 DEF new
<1>7. CASE u # t /\ u % w = t % w
  <2>1. after(u) = 0
    BY <1>3, <1>7 DEF ReadSecond, BucketIndex, AddedTo
  <2>2. ring[u % w].timestamp # u
    <3>1. SUFFICES ASSUME ring[u % w].timestamp = u PROVE FALSE
      OBVIOUS
    <3>2. u < t
      BY <1>2, <1>7, <3>1 DEF InPlace
    <3>3. t - u >= w
      BY <1>7, <3>2, ModSpread
    <3>4. QED
      BY <1>1, <3>3
  <2>3. before(u) = 0
    BY <2>2 DEF ReadSecond, BucketIndex
  <2>4. QED
    BY <1>1, <1>7, <2>1, <2>3 DEF new
<1>8. QED
  BY <1>5, <1>6, <1>7

\* A flow counts in every rate of the window that ends at its second or later
\* and has not yet passed it, and in no other.
LEMMA TotalAfterAdd ==
  ASSUME NEW w \in Nat \ {0}, NEW ring \in Ring(w), NEW t \in Nat, w <= t,
         NEW volume \in [Measure -> Nat], InPlace(w, ring, t),
         NEW now \in Nat, t <= now, NEW m \in Measure
  PROVE  WindowTotal(w, AddInstantFlow(w, ring, t, volume), now, m)
           = WindowTotal(w, ring, now, m) + (IF now - t < w THEN volume[m] ELSE 0)
<1> DEFINE new == AddInstantFlow(w, ring, t, volume)
           S   == 0 .. (w - 1)
           f1  == Contribution(w, ring, now, m)
           f2  == Contribution(w, new, now, m)
<1>1. IsFiniteSet(S)
  BY FS_Interval
<1>2. new \in Ring(w)
  BY AddEffect DEF AddedTo
<1>3. /\ DOMAIN f1 = S /\ \A i \in S : f1[i] = ReadSecond(w, ring, now - i, m)
      /\ DOMAIN f2 = S /\ \A i \in S : f2[i] = ReadSecond(w, new, now - i, m)
  <2>1. \A i \in S : SaturatingSub(now, i) = now - i
    BY DEF SaturatingSub
  <2>2. QED
    BY <2>1 DEF Contribution
<1>4. \A i \in S : f1[i] \in Nat /\ f2[i] \in Nat
  <2>1. TAKE i \in S
  <2>2. now - i \in Nat
    OBVIOUS
  <2>3. QED
    BY <1>2, <1>3, <2>2, ReadType
<1>5. \A i \in S : f2[i] = f1[i] + (IF now - i = t THEN volume[m] ELSE 0)
  <2>1. TAKE i \in S
  <2>2. QED
    BY <1>3, ReadAfterAdd
<1>6. /\ WindowTotal(w, ring, now, m) = SumFunctionOnSet(f1, S)
      /\ WindowTotal(w, new, now, m) = SumFunctionOnSet(f2, S)
  BY <1>3 DEF WindowTotal, SumFunction
<1> HIDE DEF f1, f2, new
<1>7. CASE now - t < w
  <2> DEFINE e == now - t
  <2>1. e \in S /\ \A i \in S : now - i = t <=> i = e
    BY <1>7
  <2>2. volume[m] \in Nat
    OBVIOUS
  <2>3. f2[e] = f1[e] + volume[m] /\ \A i \in S \ {e} : f2[i] = f1[i]
    BY <1>4, <1>5, <2>1
  <2> HIDE DEF e, S
  <2>4. SumFunctionOnSet(f2, S) = SumFunctionOnSet(f1, S) + volume[m]
    BY <1>1, <1>4, <2>1, <2>2, <2>3, SumChanges
  <2>5. QED
    BY <1>6, <1>7, <2>4 DEF new
<1>8. CASE ~(now - t < w)
  <2>1. \A i \in S : f1[i] = f2[i]
    BY <1>4, <1>5, <1>8
  <2>2. SumFunctionOnSet(f1, S) \in Nat
    BY <1>1, <1>4, SumType
  <2> HIDE DEF S
  <2>3. SumFunctionOnSet(f2, S) = SumFunctionOnSet(f1, S)
    BY <1>1, <2>1, SumAgrees
  <2>4. QED
    BY <1>6, <1>8, <2>2, <2>3 DEF new
<1>9. QED
  BY <1>7, <1>8

\* The bucket a flow falls into takes its second.
LEMMA AddInPlace ==
  ASSUME NEW w \in Nat \ {0}, NEW ring \in Ring(w), NEW t \in Nat,
         NEW volume \in [Measure -> Nat], InPlace(w, ring, t)
  PROVE  InPlace(w, AddInstantFlow(w, ring, t, volume), t)
<1> DEFINE new == AddInstantFlow(w, ring, t, volume)
<1>1. AddedTo(new, w, ring, t, volume)
  BY AddEffect
<1> HIDE DEF new
<1>2. ASSUME NEW b \in 0 .. (w - 1)
      PROVE  new[b].timestamp = 0 \/ (new[b].timestamp <= t /\ new[b].timestamp % w = b)
  <2>1. CASE b = t % w
    BY <1>1, <2>1 DEF AddedTo
  <2>2. CASE b # t % w
    BY <1>1, <2>2 DEF AddedTo, InPlace
  <2>3. QED
    BY <2>1, <2>2
<1>3. QED
  BY <1>2 DEF new, InPlace

\* A new ring is empty, in whatever second it is read.
LEMMA NewRingFacts ==
  ASSUME NEW w \in Nat
  PROVE  /\ NewRing(w) \in Ring(w)
         /\ \A t : InPlace(w, NewRing(w), t)
         /\ \A now \in Nat, m \in Measure : WindowTotal(w, NewRing(w), now, m) = 0
<1>1. NewRing(w) \in Ring(w)
  BY DEF NewRing, Ring, Bucket, NoTraffic
<1>2. \A t : InPlace(w, NewRing(w), t)
  BY DEF NewRing, InPlace
<1>3. ASSUME NEW now \in Nat, NEW m \in Measure
      PROVE  WindowTotal(w, NewRing(w), now, m) = 0
  <2> DEFINE S == 0 .. (w - 1)
             f == Contribution(w, NewRing(w), now, m)
  <2>1. IsFiniteSet(S) /\ DOMAIN f = S
    BY FS_Interval DEF Contribution
  <2>2. w > 0 => \A u \in Nat : ReadSecond(w, NewRing(w), u, m) = 0
    <3>1. ASSUME w > 0, NEW u \in Nat PROVE ReadSecond(w, NewRing(w), u, m) = 0
      <4>1. u % w \in 0 .. (w - 1)
        BY <3>1
      <4>2. NewRing(w)[u % w] = [timestamp |-> 0, sum |-> NoTraffic]
        BY <4>1 DEF NewRing
      <4>3. QED
        BY <4>2 DEF ReadSecond, BucketIndex, NoTraffic
    <3>2. QED
      BY <3>1
  <2>3. \A i \in S : SaturatingSub(now, i) \in Nat /\ w > 0
    BY DEF SaturatingSub
  <2>4. \A i \in S : f[i] = 0
    BY <2>2, <2>3 DEF Contribution
  <2>5. WindowTotal(w, NewRing(w), now, m) = SumFunctionOnSet(f, S)
    BY <2>1 DEF WindowTotal, SumFunction
  <2> HIDE DEF f, S
  <2>6. QED
    BY <2>1, <2>4, <2>5, SumOfZeros
<1>4. QED
  BY <1>1, <1>2, <1>3
-----------------------------------------------------------------------------
(* AlertInstance::evaluate.                                                *)

\* Every state the machine builds is an alert state.
LEMMA StatesTyped ==
  ASSUME NEW t \in Nat
  PROVE  {Normal, Pending(t), Firing(t), Recovering(t)} \subseteq AlertState
BY DEF Normal, Pending, Firing, Recovering, AlertState

\* What a state carries, read off its constructor.
LEMMA StateFields ==
  ASSUME NEW t \in Nat
  PROVE  /\ Normal.tag = "normal"         /\ Normal.at = 0
         /\ Pending(t).tag = "pending"       /\ Pending(t).at = t
         /\ Firing(t).tag = "firing"         /\ Firing(t).at = t
         /\ Recovering(t).tag = "recovering" /\ Recovering(t).at = t
BY DEF Normal, Pending, Firing, Recovering

\* evaluate, spelled out as its eleven transitions.
LEMMA EvaluateCases ==
  ASSUME NEW p \in Policy, NEW s \in AlertState, NEW rate \in Nat, NEW t \in Nat
  PROVE  LET o == EvaluateAlert(p, s, rate, t)
         IN  \/ s.tag = "normal" /\ rate >= p.trigger
                /\ o = Outcome(Pending(t), "none")
             \/ s.tag = "normal" /\ rate < p.trigger /\ o = Outcome(s, "none")
             \/ s.tag = "pending" /\ rate < p.trigger
                /\ o = Outcome(Normal, "none")
             \/ s.tag = "pending" /\ rate >= p.trigger
                /\ t - s.at >= p.triggerFor /\ o = Outcome(Firing(t), "fire")
             \/ s.tag = "pending" /\ rate >= p.trigger
                /\ t - s.at < p.triggerFor /\ o = Outcome(s, "none")
             \/ s.tag = "firing" /\ rate < p.recover
                /\ o = Outcome(Recovering(t), "none")
             \/ s.tag = "firing" /\ rate >= p.recover
                /\ t - s.at >= p.updateInterval /\ o = Outcome(Firing(t), "update")
             \/ s.tag = "firing" /\ rate >= p.recover
                /\ t - s.at < p.updateInterval /\ o = Outcome(s, "none")
             \/ s.tag = "recovering" /\ rate >= p.recover
                /\ o = Outcome(Firing(t), "none")
             \/ s.tag = "recovering" /\ rate < p.recover
                /\ t - s.at >= p.recoverFor /\ o = Outcome(Normal, "resolve")
             \/ s.tag = "recovering" /\ rate < p.recover
                /\ t - s.at < p.recoverFor /\ o = Outcome(s, "none")
<1>1. /\ p.trigger \in Nat /\ p.recover \in Nat /\ p.triggerFor \in Nat
      /\ p.recoverFor \in Nat /\ p.updateInterval \in Nat /\ s.at \in Nat
      /\ s.tag \in {"normal", "pending", "firing", "recovering"}
  BY DEF Policy, AlertState
<1>2. CASE s.tag = "normal"
  BY <1>1, <1>2 DEF EvaluateAlert, EvaluateNormal
<1>3. CASE s.tag = "pending"
  BY <1>1, <1>3 DEF EvaluateAlert, EvaluatePending
<1>4. CASE s.tag = "firing"
  BY <1>1, <1>4 DEF EvaluateAlert, EvaluateFiring
<1>5. CASE s.tag = "recovering"
  BY <1>1, <1>5 DEF EvaluateAlert, EvaluateRecovering
<1>6. QED
  BY <1>1, <1>2, <1>3, <1>4, <1>5

\* The states in which an incident is open.
Open(s) == s.tag \in {"firing", "recovering"}

\* What the caller may read off the action evaluate returns: a fire opens an
\* incident, a resolve closes one, an update leaves it open, and no action
\* neither opens nor closes.
LEMMA ActionsFollowStates ==
  ASSUME NEW p \in Policy, NEW s \in AlertState, NEW rate \in Nat, NEW t \in Nat
  PROVE  LET o == EvaluateAlert(p, s, rate, t)
         IN  /\ o.state \in AlertState /\ o.action \in AlertAction
             /\ o.action = "fire"    => ~Open(s) /\ Open(o.state)
             /\ o.action = "update"  => Open(s) /\ Open(o.state)
             /\ o.action = "resolve" => Open(s) /\ ~Open(o.state)
             /\ o.action = "none"    => (Open(s) <=> Open(o.state))
<1> DEFINE o == EvaluateAlert(p, s, rate, t)
<1>1. \A st, a : Outcome(st, a).state = st /\ Outcome(st, a).action = a
  BY DEF Outcome
<1>2. {Normal, Pending(t), Firing(t), Recovering(t)} \subseteq AlertState
  BY StatesTyped
<1> HIDE DEF o
<1>3. QED
  BY <1>1, <1>2, EvaluateCases, StateFields DEF o, Open, AlertAction
===============================================================================
