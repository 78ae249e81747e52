------------------------------ MODULE FoldFacts ------------------------------
(***************************************************************************)
(* What the folds of the community modules compute.                        *)
(*                                                                         *)
(* MapThenFoldSet is a recursive function over the subsets of its argument *)
(* that removes one chosen element at a time.  Induction is stated here on *)
(* sets (a set of good numbers, a set of good subsets) rather than on      *)
(* predicates, so that every lemma can be cited by name.                   *)
(***************************************************************************)
EXTENDS Integers, FiniteSets, Functions, FiniteSetTheorems, WellFoundedInduction, TLAPS

-----------------------------------------------------------------------------
(* Two inductions, from the well-foundedness of < and of strict inclusion. *)

\* A set of numbers that has 0 and, with each number, the next one has them all.
LEMMA NatSetInduction ==
  ASSUME NEW Good, 0 \in Good, \A n \in Nat : n \in Good => n + 1 \in Good
  PROVE  Nat \subseteq Good
<1> DEFINE Bad == Nat \ Good
<1>1. SUFFICES ASSUME Bad # {} PROVE FALSE
  OBVIOUS
<1>2. PICK n \in Bad : \A m \in Bad : <<m, n>> \notin OpToRel(<, Nat)
  <2> HIDE DEF Bad
  <2>1. Bad \subseteq Nat
    BY DEF Bad
  <2> QED
    BY <1>1, <2>1, NatLessThanWellFounded, WFMin, Zenon
<1>3. n \in Nat /\ n # 0
  BY <1>2
<1>4. n - 1 \in Nat /\ n - 1 \in Bad
  <2>1. n - 1 \in Nat /\ (n - 1) + 1 = n
    BY <1>3
  <2>2. n - 1 \in Good => (n - 1) + 1 \in Good
    BY <2>1
  <2> QED
    BY <2>1, <2>2
<1>5. <<n - 1, n>> \in OpToRel(<, Nat)
  BY <1>3, <1>4 DEF OpToRel
<1> QED
  BY <1>2, <1>4, <1>5

\* A set of bad subsets of a finite set has one that is good without any element.
LEMMA LeastSubset ==
  ASSUME NEW D, IsFiniteSet(D), NEW Bad, Bad \subseteq SUBSET D, Bad # {}
  PROVE  \E T \in Bad : \A x \in T : T \ {x} \notin Bad
<1>1. IsWellFoundedOn(StrictSubsetOrdering(D), SUBSET D)
  BY FS_StrictSubsetOrderingWellFounded, FS_FiniteSubsetsOfFinite
<1>2. PICK T \in Bad : \A U \in Bad : <<U, T>> \notin StrictSubsetOrdering(D)
  BY <1>1, WFMin, Zenon
<1>3. \A x \in T : <<T \ {x}, T>> \in StrictSubsetOrdering(D)
  BY <1>2 DEF StrictSubsetOrdering
<1> QED
  BY <1>2, <1>3

-----------------------------------------------------------------------------
(* The recursion of MapThenFoldSet, with its operators given as functions: *)
(* pick chooses the next element, step folds it into what the rest gave.   *)

Picks(pick, D) == \A s \in SUBSET D : s # {} => pick[s] \in s

FoldsOn(f, S, base, pick, step) ==
  \A s \in S : f[s] = IF s = {} THEN base ELSE step[<<pick[s], f[s \ {pick[s]}]>>]

\* Over a finite set the recursion has a solution, with values of the right type.
LEMMA FoldExists ==
  ASSUME NEW D, IsFiniteSet(D), NEW V, NEW base \in V, NEW pick, Picks(pick, D),
         NEW step, \A x \in D, v \in V : step[<<x, v>>] \in V
  PROVE  \E f \in [SUBSET D -> V] : FoldsOn(f, SUBSET D, base, pick, step)
<1> DEFINE Upto(n) == {s \in SUBSET D : Cardinality(s) <= n}
           Found(n) == \E f \in [Upto(n) -> V] : FoldsOn(f, Upto(n), base, pick, step)
           Good == {n \in Nat : Found(n)}
<1>a. \A s \in SUBSET D : IsFiniteSet(s) /\ Cardinality(s) \in Nat
  BY FS_Subset, FS_CardinalityType
<1>1. 0 \in Good
  <2>1. \A s \in Upto(0) : s = {}
    BY <1>a, FS_EmptySet
  <2>2. FoldsOn([s \in Upto(0) |-> base], Upto(0), base, pick, step)
    BY <2>1 DEF FoldsOn
  <2> QED
    BY <2>2
<1>2. ASSUME NEW n \in Nat, n \in Good PROVE n + 1 \in Good
  <2>1. PICK f \in [Upto(n) -> V] : FoldsOn(f, Upto(n), base, pick, step)
    BY <1>2
  <2> DEFINE value(s) == IF s = {} THEN base ELSE step[<<pick[s], f[s \ {pick[s]}]>>]
             g == [s \in Upto(n + 1) |-> value(s)]
  <2>2. \A s \in Upto(n + 1) : s # {} => pick[s] \in D /\ s \ {pick[s]} \in Upto(n)
    <3> SUFFICES ASSUME NEW s \in Upto(n + 1), s # {}
                 PROVE  pick[s] \in D /\ s \ {pick[s]} \in Upto(n)
      OBVIOUS
    <3>1. pick[s] \in s /\ s \in SUBSET D
      BY DEF Picks
    <3>2. Cardinality(s \ {pick[s]}) = Cardinality(s) - 1
      BY <1>a, <3>1, FS_RemoveElement
    <3> QED
      BY <1>a, <3>1, <3>2
  <2>3. \A s \in Upto(n + 1) : value(s) \in V
    <3> SUFFICES ASSUME NEW s \in Upto(n + 1), s # {}
                 PROVE  step[<<pick[s], f[s \ {pick[s]}]>>] \in V
      OBVIOUS
    <3>1. f[s \ {pick[s]}] \in V
      BY <2>2
    <3> QED
      BY <2>2, <3>1
  <2>4. g \in [Upto(n + 1) -> V]
    BY <2>3
  <2>5. \A s \in Upto(n) : s \in Upto(n + 1) /\ g[s] = f[s]
    <3> SUFFICES ASSUME NEW s \in Upto(n) PROVE s \in Upto(n + 1) /\ g[s] = f[s]
      OBVIOUS
    <3>1. s \in Upto(n + 1)
      BY <1>a
    <3> QED
      BY <2>1, <3>1 DEF FoldsOn
  <2>6. FoldsOn(g, Upto(n + 1), base, pick, step)
    BY <2>2, <2>5 DEF FoldsOn
  <2>7. Found(n + 1)
    <3> HIDE DEF g, Upto
    <3> QED
      BY <2>4, <2>6
  <2> HIDE DEF Found
  <2> QED
    BY <2>7
<1>3. Cardinality(D) \in Good
  <2> HIDE DEF Good
  <2> QED
    BY <1>1, <1>2, <1>a, NatSetInduction
<1>4. Upto(Cardinality(D)) = SUBSET D
  BY <1>a, FS_Subset
<1> QED
  BY <1>3, <1>4

-----------------------------------------------------------------------------
(* Sums.                                                                   *)

SumOf(a, S) == FoldFunctionOnSet(+, 0, a, S)

First(S) == CHOOSE x \in S : TRUE

Numbers(a, S) == \A x \in S : a[x] \in Nat

SumRecursion(f, a, S) ==
  \A s \in SUBSET S : f[s] = IF s = {} THEN 0 ELSE a[First(s)] + f[s \ {First(s)}]

\* The recursive function that FoldFunctionOnSet defines.
SumIter(a, S) ==
  CHOOSE f : f = [s \in SUBSET S |-> IF s = {} THEN 0 ELSE a[First(s)] + f[s \ {First(s)}]]

LEMMA SumUnfolds ==
  ASSUME NEW a, NEW S
  PROVE  SumOf(a, S) = SumIter(a, S)[S]
BY DEF SumOf, SumIter, First, FoldFunctionOnSet, MapThenFoldSet

\* Two solutions of the recursion agree wherever both are defined.
LEMMA SumUnique ==
  ASSUME NEW S, IsFiniteSet(S), NEW a,
         NEW f, SumRecursion(f, a, S), NEW g, SumRecursion(g, a, S)
  PROVE  f[S] = g[S]
<1> DEFINE Bad == {s \in SUBSET S : f[s] # g[s]}
<1>1. SUFFICES ASSUME Bad # {} PROVE FALSE
  OBVIOUS
<1>2. PICK T \in Bad : \A x \in T : T \ {x} \notin Bad
  <2> HIDE DEF Bad
  <2>1. Bad \subseteq SUBSET S
    BY DEF Bad
  <2> QED
    BY <1>1, <2>1, LeastSubset
<1>3. T # {} => f[T \ {First(T)}] = g[T \ {First(T)}]
  BY <1>2 DEF First
<1> QED
  BY <1>2, <1>3 DEF SumRecursion

Summed(a, S) ==
  \E f \in [SUBSET S -> Nat] : SumRecursion(f, a, S) /\ SumOf(a, S) = f[S]

\* Over a finite set of numbers it has one, and the sum is its value.
LEMMA SumFolds ==
  ASSUME NEW a, NEW S, IsFiniteSet(S), Numbers(a, S)
  PROVE  Summed(a, S)
<1> DEFINE pick == [s \in SUBSET S |-> First(s)]
           step == [p \in S \X Nat |-> a[p[1]] + p[2]]
           Solves(f) ==
             f = [s \in SUBSET S |-> IF s = {} THEN 0 ELSE a[First(s)] + f[s \ {First(s)}]]
<1>0. \A s \in SUBSET S : s # {} => First(s) \in s
  BY DEF First
<1>1. Picks(pick, S)
  BY <1>0 DEF Picks
<1>2. \A x \in S, v \in Nat : step[<<x, v>>] = a[x] + v /\ step[<<x, v>>] \in Nat
  BY DEF Numbers
<1>3. PICK f \in [SUBSET S -> Nat] : FoldsOn(f, SUBSET S, 0, pick, step)
  <2> HIDE DEF pick, step
  <2> QED
    BY <1>1, <1>2, FoldExists
<1>4. \A s \in SUBSET S : s # {} =>
        /\ pick[s] = First(s) /\ First(s) \in S
        /\ s \ {First(s)} \in SUBSET S
  BY <1>0
<1>5. SumRecursion(f, a, S)
  <2> SUFFICES ASSUME NEW s \in SUBSET S
               PROVE  f[s] = IF s = {} THEN 0 ELSE a[First(s)] + f[s \ {First(s)}]
    BY DEF SumRecursion
  <2> HIDE DEF pick, step
  <2>1. CASE s = {}
    BY <1>3, <2>1 DEF FoldsOn
  <2>2. CASE s # {}
    <3>1. f[s] = step[<<First(s), f[s \ {First(s)}]>>]
      BY <1>3, <1>4, <2>2 DEF FoldsOn
    <3>2. f[s \ {First(s)}] \in Nat
      BY <1>4, <2>2
    <3> QED
      BY <1>2, <1>4, <2>2, <3>1, <3>2
  <2> QED
    BY <2>1, <2>2
<1>6. Solves(f)
  BY <1>5 DEF SumRecursion
<1>7. Solves(SumIter(a, S))
  <2> HIDE DEF pick, step
  <2> QED
    BY <1>6, Zenon DEF SumIter
<1>8. SumRecursion(SumIter(a, S), a, S)
  <2> DEFINE g == SumIter(a, S)
  <2> HIDE DEF g
  <2>1. Solves(g)
    BY <1>7 DEF g
  <2>2. SumRecursion(g, a, S)
    BY <2>1 DEF SumRecursion
  <2> QED
    BY <2>2 DEF g
<1> QED
  BY <1>5, <1>8, SumUnfolds, SumUnique DEF Summed

\* A sum of numbers is a number, 0 over nothing, and otherwise what the first
\* element adds to the sum of the others.
LEMMA SumFirst ==
  ASSUME NEW a, NEW S, IsFiniteSet(S), Numbers(a, S)
  PROVE  /\ SumOf(a, S) \in Nat
         /\ SumOf(a, S) = IF S = {} THEN 0 ELSE a[First(S)] + SumOf(a, S \ {First(S)})
<1>1. PICK f \in [SUBSET S -> Nat] : SumRecursion(f, a, S) /\ SumOf(a, S) = f[S]
  <2>1. Summed(a, S)
    BY SumFolds
  <2> QED
    BY <2>1 DEF Summed
<1> DEFINE T == S \ {First(S)}
<1>2. T \in SUBSET S /\ Numbers(a, T) /\ IsFiniteSet(T)
  BY FS_Subset DEF Numbers
<1>3. PICK g \in [SUBSET T -> Nat] : SumRecursion(g, a, T) /\ SumOf(a, T) = g[T]
  <2> HIDE DEF T
  <2>1. Summed(a, T)
    BY <1>2, SumFolds
  <2> QED
    BY <2>1 DEF Summed
<1>4. SumRecursion(f, a, T)
  BY <1>1, <1>2 DEF SumRecursion
<1>5. f[T] = g[T]
  <2> HIDE DEF T
  <2> QED
    BY <1>2, <1>3, <1>4, SumUnique
<1> QED
  BY <1>1, <1>3, <1>5 DEF SumRecursion

LEMMA SumType ==
  ASSUME NEW a, NEW S, IsFiniteSet(S), Numbers(a, S)
  PROVE  SumOf(a, S) \in Nat
BY SumFirst

LEMMA SumEmpty ==
  ASSUME NEW a
  PROVE  SumOf(a, {}) = 0
BY SumFirst, FS_EmptySet DEF Numbers

\* The order in which the fold takes the elements does not matter: any of them
\* can be put last.
LEMMA SumRemove ==
  ASSUME NEW a, NEW S, IsFiniteSet(S), Numbers(a, S), NEW x \in S
  PROVE  SumOf(a, S) = SumOf(a, S \ {x}) + a[x]
<1> DEFINE Fine(T) == \A y \in T : SumOf(a, T) = SumOf(a, T \ {y}) + a[y]
           Bad == {T \in SUBSET S : ~Fine(T)}
<1>1. SUFFICES ASSUME Bad # {} PROVE FALSE
  OBVIOUS
<1>2. PICK T \in Bad : \A y \in T : T \ {y} \notin Bad
  <2> HIDE DEF Bad
  <2>1. Bad \subseteq SUBSET S
    BY DEF Bad
  <2> QED
    BY <1>1, <2>1, LeastSubset
<1>3. PICK y \in T : SumOf(a, T) # SumOf(a, T \ {y}) + a[y]
  BY <1>2
<1> DEFINE z == First(T)
<1>4. z \in T
  BY <1>3 DEF First
<1>a. ASSUME NEW U \in SUBSET T
      PROVE  Numbers(a, U) /\ IsFiniteSet(U) /\ SumOf(a, U) \in Nat
  <2>1. Numbers(a, U) /\ IsFiniteSet(U)
    BY <1>2, FS_Subset DEF Numbers
  <2> QED
    BY <2>1, SumType
<1>5. SumOf(a, T) = a[z] + SumOf(a, T \ {z})
  BY <1>a, <1>4, SumFirst
<1> HIDE DEF z
<1>6. a[y] \in Nat /\ a[z] \in Nat
  BY <1>2, <1>4 DEF Numbers
<1>7. y # z
  <2>1. SUFFICES ASSUME y = z PROVE FALSE
    OBVIOUS
  <2>2. SumOf(a, T) = a[y] + SumOf(a, T \ {y}) /\ SumOf(a, T \ {y}) \in Nat
    BY <1>a, <1>5, <2>1
  <2> QED
    BY <1>3, <1>6, <2>2
<1>8. SumOf(a, T \ {z}) = SumOf(a, (T \ {z}) \ {y}) + a[y]
  BY <1>2, <1>4, <1>7
<1>9. SumOf(a, T \ {y}) = SumOf(a, (T \ {y}) \ {z}) + a[z]
  BY <1>2, <1>4, <1>7
<1>10. (T \ {z}) \ {y} = (T \ {y}) \ {z} /\ SumOf(a, (T \ {y}) \ {z}) \in Nat
  BY <1>a
<1>11. SumOf(a, T) = a[z] + (SumOf(a, (T \ {y}) \ {z}) + a[y])
  BY <1>5, <1>8, <1>10
<1> QED
  BY <1>3, <1>6, <1>9, <1>10, <1>11

LEMMA SumAdd ==
  ASSUME NEW a, NEW S, IsFiniteSet(S), Numbers(a, S),
         NEW x, x \notin S, a[x] \in Nat
  PROVE  SumOf(a, S \cup {x}) = SumOf(a, S) + a[x]
<1>1. Numbers(a, S \cup {x}) /\ IsFiniteSet(S \cup {x}) /\ (S \cup {x}) \ {x} = S
  BY FS_AddElement DEF Numbers
<1> QED
  BY <1>1, SumRemove

\* Only the values on the set count.
LEMMA SumAgree ==
  ASSUME NEW a, NEW b, NEW S, IsFiniteSet(S), Numbers(a, S), \A x \in S : a[x] = b[x]
  PROVE  SumOf(a, S) = SumOf(b, S)
<1> DEFINE Bad == {T \in SUBSET S : SumOf(a, T) # SumOf(b, T)}
<1>1. SUFFICES ASSUME Bad # {} PROVE FALSE
  OBVIOUS
<1>2. PICK T \in Bad : \A y \in T : T \ {y} \notin Bad
  <2> HIDE DEF Bad
  <2>1. Bad \subseteq SUBSET S
    BY DEF Bad
  <2> QED
    BY <1>1, <2>1, LeastSubset
<1>3. Numbers(a, T) /\ Numbers(b, T) /\ IsFiniteSet(T) /\ (T # {} => First(T) \in T)
  BY <1>2, FS_Subset DEF First, Numbers
<1>4. T # {} => SumOf(a, T \ {First(T)}) = SumOf(b, T \ {First(T)})
  BY <1>2, <1>3
<1>5. /\ SumOf(a, T) = IF T = {} THEN 0 ELSE a[First(T)] + SumOf(a, T \ {First(T)})
      /\ SumOf(b, T) = IF T = {} THEN 0 ELSE b[First(T)] + SumOf(b, T \ {First(T)})
  BY <1>3, SumFirst
<1> QED
  BY <1>2, <1>3, <1>4, <1>5

\* A part never sums to more than the whole.
LEMMA SumMonotone ==
  ASSUME NEW a, NEW S, IsFiniteSet(S), Numbers(a, S), NEW P \in SUBSET S
  PROVE  SumOf(a, P) <= SumOf(a, S)
<1> DEFINE Bad == {T \in SUBSET S : \E U \in SUBSET T : ~(SumOf(a, U) <= SumOf(a, T))}
<1>1. SUFFICES ASSUME Bad # {} PROVE FALSE
  OBVIOUS
<1>2. PICK T \in Bad : \A y \in T : T \ {y} \notin Bad
  <2> HIDE DEF Bad
  <2>1. Bad \subseteq SUBSET S
    BY DEF Bad
  <2> QED
    BY <1>1, <2>1, LeastSubset
<1>a. \A U \in SUBSET T : SumOf(a, U) \in Nat
  <2> SUFFICES ASSUME NEW U \in SUBSET T PROVE SumOf(a, U) \in Nat
    OBVIOUS
  <2>1. Numbers(a, U) /\ IsFiniteSet(U)
    BY <1>2, FS_Subset DEF Numbers
  <2> QED
    BY <2>1, SumType
<1>3. PICK U \in SUBSET T : ~(SumOf(a, U) <= SumOf(a, T))
  BY <1>2
<1>4. PICK y \in T \ U : TRUE
  <2>1. U # T
    BY <1>3, <1>a
  <2> QED
    BY <2>1
<1>5. SumOf(a, U) <= SumOf(a, T \ {y})
  <2>1. U \in SUBSET (T \ {y}) /\ T \ {y} \in SUBSET S
    BY <1>2, <1>4
  <2> QED
    BY <1>2, <1>4, <2>1
<1>6. SumOf(a, T) = SumOf(a, T \ {y}) + a[y]
  <2>1. Numbers(a, T) /\ IsFiniteSet(T)
    BY <1>2, FS_Subset DEF Numbers
  <2> QED
    BY <1>4, <2>1, SumRemove
<1>7. SumOf(a, U) \in Nat /\ SumOf(a, T \ {y}) \in Nat /\ a[y] \in Nat
  BY <1>a, <1>2, <1>4 DEF Numbers
<1> QED
  BY <1>3, <1>5, <1>6, <1>7
=============================================================================
