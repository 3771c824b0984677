-------------------------------- MODULE Sums --------------------------------
(***************************************************************************)
(* What every sum over a finite set obeys, proved from the definition of   *)
(* SumFunctionOnSet: the laws that the weights of Custody, Intake and      *)
(* their reports rest on.                                                  *)
(*                                                                         *)
(* SumFunctionOnSet is a recursive function over the subsets of the set.   *)
(* That it exists, and every law about it, goes by induction, which is     *)
(* stated here over a set of sets: a set of subsets of a finite set that   *)
(* holds every subset whose proper subsets it holds, holds them all.       *)
(***************************************************************************)
EXTENDS Integers, FiniteSets, Functions, FiniteSetTheorems,
        WellFoundedInduction, TLAPS

\* The element a sum takes first.
First(s) == CHOOSE x \in s : TRUE

\* What the recursion makes of s, given the sums g of smaller sets.
Unfold(f, g, s) == IF s = {} THEN 0 ELSE f[First(s)] + g[s \ {First(s)}]

\* The sums over the sets of D, each from that over a smaller one.
SumsOver(f, g, D) == g = [s \in D |-> Unfold(f, g, s)]

\* The sums over the subsets of S.
IsSums(f, g, S) == SumsOver(f, g, SUBSET S)

LEMMA FirstIn ==
  ASSUME NEW s, s # {}
  PROVE  First(s) \in s
BY DEF First

-----------------------------------------------------------------------------
(* Induction. *)

\* A set of natural numbers has a least one, unless it is empty.
LEMMA LeastNat ==
  ASSUME NEW T \in SUBSET Nat, T # {}
  PROVE  \E m \in T : \A n \in T : m <= n
<1> DEFINE R == OpToRel(<, Nat)
<1>1. IsWellFoundedOn(R, Nat)
  BY NatLessThanWellFounded
<1> HIDE DEF R
<1>2. PICK m \in T : \A n \in T : ~(<<n, m>> \in R)
  BY <1>1, WFMin
<1>3. ASSUME NEW n \in T, n < m PROVE <<n, m>> \in R
  BY <1>3 DEF R, OpToRel
<1>4. ASSUME NEW n \in T PROVE m <= n
  <2>1. n \in Nat /\ m \in Nat /\ ~(n < m)
    BY <1>2, <1>3
  <2> QED
    BY <2>1
<1> QED
  BY <1>4

\* Induction over the subsets of a finite set.
LEMMA SubsetInduction ==
  ASSUME NEW S, IsFiniteSet(S), NEW G,
         \A T \in SUBSET S : (\A U \in SUBSET T : U # T => U \in G) => T \in G
  PROVE  SUBSET S \subseteq G
<1> DEFINE R == StrictSubsetOrdering(S)
           Bad == {T \in SUBSET S : T \notin G}
<1> SUFFICES ASSUME Bad # {} PROVE FALSE
  OBVIOUS
<1>1. IsWellFoundedOn(R, SUBSET S)
  <2>1. IsWellFoundedOn(R, FiniteSubsetsOf(S))
    BY FS_StrictSubsetOrderingWellFounded
  <2> QED
    BY <2>1, FS_FiniteSubsetsOfFinite
<1>2. ASSUME NEW T \in SUBSET S, NEW U \in SUBSET T, U # T
      PROVE  <<U, T>> \in R
  BY <1>2 DEF StrictSubsetOrdering
<1>3. Bad \subseteq SUBSET S
  OBVIOUS
<1> HIDE DEF R, Bad
<1>4. PICK T \in Bad : \A U \in Bad : ~(<<U, T>> \in R)
  BY <1>1, <1>3, WFMin
<1>5. ASSUME NEW U \in SUBSET T, U # T PROVE U \in G
  <2>1. T \in SUBSET S /\ U \in SUBSET S
    BY <1>3, <1>4
  <2>2. <<U, T>> \in R
    BY <1>2, <1>5, <2>1
  <2> QED
    BY <1>4, <2>1, <2>2 DEF Bad
<1> QED
  BY <1>3, <1>4, <1>5 DEF Bad

-----------------------------------------------------------------------------
(* The recursion. *)

\* A function that sums the subsets of a finite set exists.
LEMMA SumsExist ==
  ASSUME NEW S, IsFiniteSet(S), NEW f
  PROVE  \E g : IsSums(f, g, S)
<1> DEFINE Upto(n) == {s \in SUBSET S : Cardinality(s) <= n}
           Good == {n \in Nat : \E g : SumsOver(f, g, Upto(n))}
           Bad == Nat \ Good
<1>1. 0 \in Good
  <2> DEFINE g == [s \in Upto(0) |-> 0]
  <2>1. ASSUME NEW s \in Upto(0) PROVE s = {}
    <3>1. IsFiniteSet(s) /\ Cardinality(s) <= 0
      BY FS_Subset
    <3>2. Cardinality(s) \in Nat
      BY <3>1, FS_CardinalityType
    <3>3. Cardinality(s) = 0
      BY <3>1, <3>2
    <3> QED
      BY <3>1, <3>3, FS_EmptySet
  <2>2. SumsOver(f, g, Upto(0))
    BY <2>1 DEF SumsOver, Unfold
  <2> QED
    BY <2>2
<1>2. ASSUME NEW m \in Nat, m \in Good PROVE m + 1 \in Good
  <2>1. PICK h : SumsOver(f, h, Upto(m))
    BY <1>2
  <2> DEFINE g == [s \in Upto(m + 1) |-> Unfold(f, h, s)]
  <2>2. ASSUME NEW s \in Upto(m + 1), s # {}
        PROVE  g[s \ {First(s)}] = h[s \ {First(s)}]
    <3> DEFINE t == s \ {First(s)}
    <3>1. First(s) \in s /\ IsFiniteSet(s) /\ Cardinality(s) \in Nat
      BY <2>2, FirstIn, FS_Subset, FS_CardinalityType
    <3>2. Cardinality(t) = Cardinality(s) - 1
      BY <3>1, FS_RemoveElement
    <3>3. t \in Upto(m) /\ t \in Upto(m + 1)
      BY <3>1, <3>2
    <3> HIDE DEF t
    <3>4. h[t] = Unfold(f, h, t) /\ g[t] = Unfold(f, h, t)
      BY <2>1, <3>3 DEF IsSums, SumsOver
    <3> QED
      BY <3>4 DEF t
  <2>3. SumsOver(f, g, Upto(m + 1))
    BY <2>2 DEF SumsOver, Unfold
  <2>4. m + 1 \in Nat
    OBVIOUS
  <2> HIDE DEF g, Upto
  <2> QED
    BY <2>3, <2>4
<1> HIDE DEF Good
<1>3. Good = Nat
  <2> SUFFICES ASSUME Bad # {} PROVE FALSE
    BY DEF Good
  <2>1. PICK m \in Bad : \A n \in Bad : m <= n
    BY LeastNat
  <2>2. m \in Nat /\ m # 0 /\ m \notin Good
    BY <1>1, <2>1
  <2>3. m - 1 \in Nat /\ m - 1 \notin Bad
    BY <2>1, <2>2
  <2>4. (m - 1) + 1 \in Good
    BY <1>2, <2>3
  <2> QED
    BY <2>2, <2>4
<1>4. Cardinality(S) \in Good /\ Upto(Cardinality(S)) = SUBSET S
  BY <1>3, FS_CardinalityType, FS_Subset
<1> QED
  BY <1>4 DEF Good, IsSums

\* Two such functions agree where both are defined.
LEMMA SumsAgree ==
  ASSUME NEW f, NEW S, IsFiniteSet(S), NEW g, IsSums(f, g, S),
         NEW T \in SUBSET S, NEW h, IsSums(f, h, T)
  PROVE  g[T] = h[T]
<1> DEFINE G == {s \in SUBSET T : g[s] = h[s]}
<1>1. ASSUME NEW s \in SUBSET T, \A u \in SUBSET s : u # s => u \in G
      PROVE  s \in G
  <2>1. g[s] = Unfold(f, g, s) /\ h[s] = Unfold(f, h, s)
    BY DEF IsSums, SumsOver
  <2>2. CASE s = {}
    BY <2>1, <2>2 DEF Unfold
  <2>3. CASE s # {}
    <3>1. s \ {First(s)} \in G
      BY <1>1, <2>3, FirstIn
    <3> QED
      BY <2>1, <2>3, <3>1 DEF Unfold
  <2> QED
    BY <2>2, <2>3
<1>2. IsFiniteSet(T)
  BY FS_Subset
<1> HIDE DEF G
<1>3. SUBSET T \subseteq G
  BY <1>1, <1>2, SubsetInduction
<1> QED
  BY <1>3 DEF G

\* A sum is what one of them says.
LEMMA SumIsSums ==
  ASSUME NEW S, IsFiniteSet(S), NEW f
  PROVE  \E g : IsSums(f, g, S) /\ SumFunctionOnSet(f, S) = g[S]
<1> DEFINE g == CHOOSE k : IsSums(f, k, S)
<1>1. IsSums(f, g, S)
  BY SumsExist
<1>2. SumFunctionOnSet(f, S) = g[S]
  BY DEF SumFunctionOnSet, FoldFunctionOnSet, MapThenFoldSet, IsSums, SumsOver, Unfold, First
<1> QED
  BY <1>1, <1>2

\* The sum over a set is what its first element adds to the sum of the rest.
LEMMA SumUnfold ==
  ASSUME NEW S, IsFiniteSet(S), NEW f
  PROVE  SumFunctionOnSet(f, S) =
           IF S = {} THEN 0
           ELSE f[First(S)] + SumFunctionOnSet(f, S \ {First(S)})
<1>1. PICK g : IsSums(f, g, S) /\ SumFunctionOnSet(f, S) = g[S]
  BY SumIsSums
<1>2. g[S] = Unfold(f, g, S)
  BY <1>1 DEF IsSums, SumsOver
<1>3. CASE S = {}
  BY <1>1, <1>2, <1>3 DEF Unfold
<1>4. CASE S # {}
  <2> DEFINE T == S \ {First(S)}
  <2>1. T \in SUBSET S /\ IsFiniteSet(T)
    BY FS_RemoveElement
  <2> HIDE DEF T
  <2>2. PICK h : IsSums(f, h, T) /\ SumFunctionOnSet(f, T) = h[T]
    BY <2>1, SumIsSums
  <2>3. g[T] = h[T]
    BY <1>1, <2>1, <2>2, SumsAgree
  <2>4. g[S] = f[First(S)] + g[T]
    BY <1>2, <1>4 DEF Unfold, T
  <2>5. SumFunctionOnSet(f, S) = f[First(S)] + SumFunctionOnSet(f, T)
    BY <1>1, <2>2, <2>3, <2>4
  <2> QED
    BY <1>4, <2>5 DEF T
<1> QED
  BY <1>3, <1>4

-----------------------------------------------------------------------------
(* The laws. *)

\* Nothing comes to nothing.
LEMMA SumEmpty ==
  ASSUME NEW f
  PROVE  SumFunctionOnSet(f, {}) = 0
BY SumUnfold, FS_EmptySet

\* A sum of integers is an integer.
LEMMA SumInt ==
  ASSUME NEW S, IsFiniteSet(S), NEW f, \A x \in S : f[x] \in Int
  PROVE  SumFunctionOnSet(f, S) \in Int
<1> DEFINE G == {T \in SUBSET S : SumFunctionOnSet(f, T) \in Int}
<1>1. ASSUME NEW T \in SUBSET S, \A U \in SUBSET T : U # T => U \in G
      PROVE  T \in G
  <2>1. IsFiniteSet(T)
    BY FS_Subset
  <2>2. CASE T = {}
    BY <2>2, SumEmpty
  <2>3. CASE T # {}
    <3>1. First(T) \in T
      BY <2>3, FirstIn
    <3>2. SumFunctionOnSet(f, T \ {First(T)}) \in Int
      BY <1>1, <3>1
    <3>3. SumFunctionOnSet(f, T) = f[First(T)] + SumFunctionOnSet(f, T \ {First(T)})
      BY <2>1, <2>3, SumUnfold
    <3>4. f[First(T)] \in Int
      BY <3>1
    <3> QED
      BY <3>2, <3>3, <3>4
  <2> QED
    BY <2>2, <2>3
<1> HIDE DEF G
<1>2. S \in G
  BY <1>1, SubsetInduction
<1> QED
  BY <1>2 DEF G

\* The order does not matter: a sum is what any element of the set adds to
\* the sum of the rest.
LEMMA SumRemove ==
  ASSUME NEW S, IsFiniteSet(S), NEW f, \A x \in S : f[x] \in Int, NEW a \in S
  PROVE  SumFunctionOnSet(f, S) = f[a] + SumFunctionOnSet(f, S \ {a})
<1> DEFINE Sum(T) == SumFunctionOnSet(f, T)
           G == {T \in SUBSET S : \A x \in T : Sum(T) = f[x] + Sum(T \ {x})}
<1>0. \A T \in SUBSET S : IsFiniteSet(T) /\ Sum(T) \in Int
  BY FS_Subset, SumInt
<1>1. ASSUME NEW T \in SUBSET S, \A U \in SUBSET T : U # T => U \in G
      PROVE  T \in G
  <2> SUFFICES ASSUME NEW x \in T PROVE Sum(T) = f[x] + Sum(T \ {x})
    OBVIOUS
  <2> DEFINE c == First(T)
  <2>1. c \in T
    BY FirstIn
  <2>2. Sum(T) = f[c] + Sum(T \ {c})
    BY <1>0, SumUnfold
  <2>3. CASE x # c
    <3> DEFINE both == (T \ {c}) \ {x}
    <3>1. both = (T \ {x}) \ {c} /\ both \in SUBSET S
      OBVIOUS
    <3>2. T \ {c} \in G /\ x \in T \ {c} /\ T \ {x} \in G /\ c \in T \ {x}
      BY <1>1, <2>1, <2>3
    <3>3. Sum(T \ {c}) = f[x] + Sum(both)
      BY <3>2
    <3>4. Sum(T \ {x}) = f[c] + Sum(both)
      BY <3>1, <3>2
    <3>5. f[x] \in Int /\ f[c] \in Int /\ Sum(both) \in Int
      BY <1>0, <2>1, <3>1
    <3> HIDE DEF both, c, Sum
    <3> QED
      BY <2>2, <3>3, <3>4, <3>5
  <2> QED
    BY <2>2, <2>3
<1> HIDE DEF G, Sum
<1>2. S \in G
  BY <1>1, SubsetInduction
<1> QED
  BY <1>2 DEF G, Sum

\* A new element adds its own.
LEMMA SumAdd ==
  ASSUME NEW S, IsFiniteSet(S), NEW f, NEW a, a \notin S,
         \A x \in S \cup {a} : f[x] \in Int
  PROVE  SumFunctionOnSet(f, S \cup {a}) = SumFunctionOnSet(f, S) + f[a]
<1> DEFINE T == S \cup {a}
<1>1. IsFiniteSet(T) /\ a \in T /\ T \ {a} = S
  BY FS_AddElement
<1>2. \A x \in T : f[x] \in Int
  OBVIOUS
<1>3. SumFunctionOnSet(f, S) \in Int /\ f[a] \in Int
  BY SumInt
<1> HIDE DEF T
<1>4. SumFunctionOnSet(f, T) = f[a] + SumFunctionOnSet(f, T \ {a})
  BY <1>1, <1>2, SumRemove
<1>5. SumFunctionOnSet(f, T) = f[a] + SumFunctionOnSet(f, S)
  BY <1>1, <1>4
<1>6. SumFunctionOnSet(f, T) = SumFunctionOnSet(f, S) + f[a]
  BY <1>3, <1>5
<1> QED
  BY <1>6 DEF T

\* Induction along the elements of a finite set.
LEMMA ElementInduction ==
  ASSUME NEW S, IsFiniteSet(S), NEW G, {} \in G,
         \A T \in SUBSET S : \A x \in T : T \ {x} \in G => T \in G
  PROVE  S \in G
<1>1. ASSUME NEW T \in SUBSET S, \A U \in SUBSET T : U # T => U \in G
      PROVE  T \in G
  <2>1. CASE T # {}
    <3>1. First(T) \in T
      BY <2>1, FirstIn
    <3>2. T \ {First(T)} \in SUBSET T /\ T \ {First(T)} # T
      BY <3>1
    <3>3. T \ {First(T)} \in G
      BY <1>1, <3>2
    <3> QED
      BY <3>1, <3>3
  <2> QED
    BY <2>1
<1>2. SUBSET S \subseteq G
  BY <1>1, SubsetInduction
<1> QED
  BY <1>2

\* A sum is no more than another whose every term is at least as large.
LEMMA SumLeq ==
  ASSUME NEW S, IsFiniteSet(S), NEW f, NEW g,
         \A x \in S : f[x] \in Int /\ g[x] \in Int /\ f[x] <= g[x]
  PROVE  SumFunctionOnSet(f, S) <= SumFunctionOnSet(g, S)
<1> DEFINE F(T) == SumFunctionOnSet(f, T)
           H(T) == SumFunctionOnSet(g, T)
           G == {T \in SUBSET S : F(T) <= H(T)}
<1>0. \A T \in SUBSET S : IsFiniteSet(T) /\ F(T) \in Int /\ H(T) \in Int
  BY FS_Subset, SumInt
<1>1. {} \in G
  BY SumEmpty
<1>2. ASSUME NEW T \in SUBSET S, NEW x \in T, T \ {x} \in G
      PROVE  T \in G
  <2>1. F(T) = f[x] + F(T \ {x}) /\ H(T) = g[x] + H(T \ {x})
    BY <1>0, SumRemove
  <2>2. /\ f[x] \in Int /\ g[x] \in Int /\ f[x] <= g[x]
        /\ F(T \ {x}) \in Int /\ H(T \ {x}) \in Int
    BY <1>0
  <2>3. F(T \ {x}) <= H(T \ {x})
    BY <1>2
  <2> HIDE DEF F, H
  <2> QED
    BY <2>1, <2>2, <2>3
<1> HIDE DEF G
<1>3. S \in G
  BY <1>1, <1>2, ElementInduction
<1> QED
  BY <1>3 DEF G

\* Equal terms make equal sums.
LEMMA SumSame ==
  ASSUME NEW S, IsFiniteSet(S), NEW f, NEW g,
         \A x \in S : f[x] \in Int /\ g[x] = f[x]
  PROVE  SumFunctionOnSet(f, S) = SumFunctionOnSet(g, S)
<1>1. SumFunctionOnSet(f, S) <= SumFunctionOnSet(g, S)
  BY SumLeq
<1>2. SumFunctionOnSet(g, S) <= SumFunctionOnSet(f, S)
  BY SumLeq
<1>3. SumFunctionOnSet(f, S) \in Int /\ SumFunctionOnSet(g, S) \in Int
  BY SumInt
<1> QED
  BY <1>1, <1>2, <1>3

\* A sum of natural numbers is one.
LEMMA SumNat ==
  ASSUME NEW S, IsFiniteSet(S), NEW f, \A x \in S : f[x] \in Nat
  PROVE  SumFunctionOnSet(f, S) \in Nat
<1> DEFINE F(T) == SumFunctionOnSet(f, T)
           G == {T \in SUBSET S : F(T) \in Nat}
<1>1. {} \in G
  BY SumEmpty
<1>2. ASSUME NEW T \in SUBSET S, NEW x \in T, T \ {x} \in G
      PROVE  T \in G
  <2>1. IsFiniteSet(T) /\ \A y \in T : f[y] \in Int
    BY FS_Subset
  <2>2. F(T) = f[x] + F(T \ {x})
    BY <2>1, SumRemove
  <2>3. f[x] \in Nat /\ F(T \ {x}) \in Nat
    BY <1>2
  <2> HIDE DEF F
  <2> QED
    BY <2>2, <2>3
<1> HIDE DEF G
<1>3. S \in G
  BY <1>1, <1>2, ElementInduction
<1> QED
  BY <1>3 DEF G

\* Two sets apart come to what each comes to.
LEMMA SumDisjoint ==
  ASSUME NEW S, IsFiniteSet(S), NEW D, IsFiniteSet(D), S \cap D = {}, NEW f,
         \A x \in S \cup D : f[x] \in Int
  PROVE  SumFunctionOnSet(f, S \cup D)
           = SumFunctionOnSet(f, S) + SumFunctionOnSet(f, D)
<1> DEFINE F(T) == SumFunctionOnSet(f, T)
           G == {T \in SUBSET S : F(T \cup D) = F(T) + F(D)}
<1>0. \A T \in SUBSET S : /\ IsFiniteSet(T) /\ IsFiniteSet(T \cup D)
                          /\ F(T) \in Int /\ F(T \cup D) \in Int
  <2> SUFFICES ASSUME NEW T \in SUBSET S
               PROVE  /\ IsFiniteSet(T) /\ IsFiniteSet(T \cup D)
                      /\ F(T) \in Int /\ F(T \cup D) \in Int
    OBVIOUS
  <2>1. IsFiniteSet(T)
    BY FS_Subset
  <2>2. IsFiniteSet(T \cup D)
    BY <2>1, FS_Union
  <2> QED
    BY <2>1, <2>2, SumInt
<1>d. F(D) \in Int
  BY SumInt
<1>1. {} \in G
  <2>1. F({}) = 0 /\ {} \cup D = D
    BY SumEmpty
  <2> HIDE DEF F
  <2> QED
    BY <1>d, <2>1
<1>2. ASSUME NEW T \in SUBSET S, NEW x \in T, T \ {x} \in G
      PROVE  T \in G
  <2>1. F(T) = f[x] + F(T \ {x})
    BY <1>0, SumRemove
  <2>2. F(T \cup D) = f[x] + F((T \cup D) \ {x})
    <3>1. x \in T \cup D /\ IsFiniteSet(T \cup D) /\ \A y \in T \cup D : f[y] \in Int
      BY <1>0
    <3> QED
      BY <3>1, SumRemove
  <2>3. (T \cup D) \ {x} = (T \ {x}) \cup D
    OBVIOUS
  <2>4. f[x] \in Int /\ F(T \ {x}) \in Int
    BY <1>0
  <2>5. F((T \ {x}) \cup D) = F(T \ {x}) + F(D)
    BY <1>2
  <2>6. F(T \cup D) = f[x] + (F(T \ {x}) + F(D))
    BY <2>2, <2>3, <2>5
  <2>7. F(T \cup D) = F(T) + F(D)
    <3> HIDE DEF F
    <3> QED BY <1>d, <2>1, <2>4, <2>6
  <2> QED
    BY <2>7
<1> HIDE DEF G
<1>3. S \in G
  BY <1>1, <1>2, ElementInduction
<1> QED
  BY <1>3 DEF G

\* A sum of sums, term by term.
LEMMA SumPlus ==
  ASSUME NEW S, IsFiniteSet(S), NEW f, NEW g, NEW h,
         \A x \in S : f[x] \in Int /\ g[x] \in Int /\ h[x] = f[x] + g[x]
  PROVE  SumFunctionOnSet(h, S) = SumFunctionOnSet(f, S) + SumFunctionOnSet(g, S)
<1> DEFINE F(T) == SumFunctionOnSet(f, T)
           K(T) == SumFunctionOnSet(g, T)
           H(T) == SumFunctionOnSet(h, T)
           G == {T \in SUBSET S : H(T) = F(T) + K(T)}
<1>0. \A T \in SUBSET S :
        /\ IsFiniteSet(T) /\ \A x \in T : f[x] \in Int /\ g[x] \in Int /\ h[x] \in Int
        /\ F(T) \in Int /\ K(T) \in Int /\ H(T) \in Int
  <2> SUFFICES ASSUME NEW T \in SUBSET S
               PROVE  /\ IsFiniteSet(T)
                      /\ \A x \in T : f[x] \in Int /\ g[x] \in Int /\ h[x] \in Int
                      /\ F(T) \in Int /\ K(T) \in Int /\ H(T) \in Int
    OBVIOUS
  <2>1. /\ IsFiniteSet(T)
        /\ \A x \in T : f[x] \in Int /\ g[x] \in Int /\ h[x] \in Int
    BY FS_Subset
  <2> QED
    BY <2>1, SumInt
<1>1. {} \in G
  BY SumEmpty
<1>2. ASSUME NEW T \in SUBSET S, NEW x \in T, T \ {x} \in G
      PROVE  T \in G
  <2>1. /\ F(T) = f[x] + F(T \ {x}) /\ K(T) = g[x] + K(T \ {x})
        /\ H(T) = h[x] + H(T \ {x})
    BY <1>0, SumRemove
  <2>2. /\ H(T \ {x}) = F(T \ {x}) + K(T \ {x}) /\ h[x] = f[x] + g[x]
        /\ F(T \ {x}) \in Int /\ K(T \ {x}) \in Int /\ f[x] \in Int /\ g[x] \in Int
    BY <1>0, <1>2
  <2> HIDE DEF F, K, H
  <2>3. H(T) = F(T) + K(T)
    BY <2>1, <2>2
  <2> QED
    BY <2>3
<1> HIDE DEF G
<1>3. S \in G
  BY <1>1, <1>2, ElementInduction
<1> QED
  BY <1>3 DEF G

\* Part of a sum of natural numbers is no more than the whole.
LEMMA SumPart ==
  ASSUME NEW S, IsFiniteSet(S), NEW f, \A x \in S : f[x] \in Nat, NEW T \in SUBSET S
  PROVE  SumFunctionOnSet(f, T) <= SumFunctionOnSet(f, S)
<1> DEFINE D == S \ T
<1>1. IsFiniteSet(T) /\ IsFiniteSet(D) /\ T \cap D = {} /\ T \cup D = S
  BY FS_Subset
<1>2. SumFunctionOnSet(f, D) \in Nat /\ SumFunctionOnSet(f, T) \in Nat
  BY <1>1, SumNat
<1> HIDE DEF D
<1>3. SumFunctionOnSet(f, T \cup D) = SumFunctionOnSet(f, T) + SumFunctionOnSet(f, D)
  BY <1>1, SumDisjoint
<1>4. SumFunctionOnSet(f, S) = SumFunctionOnSet(f, T) + SumFunctionOnSet(f, D)
  BY <1>1, <1>3
<1> QED
  BY <1>2, <1>4

\* A sum of natural numbers is nought just when each of them is.
LEMMA SumZero ==
  ASSUME NEW S, IsFiniteSet(S), NEW f, \A x \in S : f[x] \in Nat
  PROVE  SumFunctionOnSet(f, S) = 0 <=> \A x \in S : f[x] = 0
<1> DEFINE F(T) == SumFunctionOnSet(f, T)
           G == {T \in SUBSET S : F(T) = 0 <=> \A x \in T : f[x] = 0}
<1>1. {} \in G
  BY SumEmpty
<1>2. ASSUME NEW T \in SUBSET S, NEW x \in T, T \ {x} \in G
      PROVE  T \in G
  <2>1. IsFiniteSet(T) /\ \A y \in T : f[y] \in Nat
    BY FS_Subset
  <2>2. F(T) = f[x] + F(T \ {x})
    BY <2>1, SumRemove
  <2>3. F(T \ {x}) \in Nat /\ f[x] \in Nat
    <3>1. IsFiniteSet(T \ {x}) /\ \A y \in T \ {x} : f[y] \in Nat
      BY <2>1, FS_Subset
    <3> QED
      BY <2>1, <3>1, SumNat
  <2>4. F(T \ {x}) = 0 <=> \A y \in T \ {x} : f[y] = 0
    BY <1>2
  <2> HIDE DEF F
  <2>5. F(T) = 0 <=> f[x] = 0 /\ F(T \ {x}) = 0
    BY <2>2, <2>3
  <2> QED
    BY <2>4, <2>5
<1> HIDE DEF G
<1>3. S \in G
  BY <1>1, <1>2, ElementInduction
<1> QED
  BY <1>3 DEF G

\* Terms outside a part that are nought add nothing to the part's sum.
LEMMA SumOfPart ==
  ASSUME NEW S, IsFiniteSet(S), NEW T \in SUBSET S, NEW f, NEW g,
         \A x \in T : f[x] \in Int,
         \A x \in S : g[x] = IF x \in T THEN f[x] ELSE 0
  PROVE  SumFunctionOnSet(g, S) = SumFunctionOnSet(f, T)
<1> DEFINE D == S \ T
<1>1. /\ IsFiniteSet(T) /\ IsFiniteSet(D) /\ T \cap D = {} /\ T \cup D = S
      /\ \A x \in T : f[x] \in Int /\ g[x] = f[x]
      /\ \A x \in D : g[x] = 0
  BY FS_Subset
<1> HIDE DEF D
<1>2. \A x \in T \cup D : g[x] \in Int
  BY <1>1
<1>3. SumFunctionOnSet(g, T \cup D) = SumFunctionOnSet(g, T) + SumFunctionOnSet(g, D)
  BY <1>1, <1>2, SumDisjoint
<1>4. SumFunctionOnSet(g, D) = 0
  BY <1>1, SumZero
<1>5. SumFunctionOnSet(f, T) = SumFunctionOnSet(g, T)
  BY <1>1, SumSame
<1>6. SumFunctionOnSet(g, T) \in Int
  BY <1>1, SumInt
<1>7. SumFunctionOnSet(g, S) = SumFunctionOnSet(g, T) + SumFunctionOnSet(g, D)
  BY <1>1, <1>3, Zenon
<1> QED
  BY <1>4, <1>5, <1>6, <1>7

\* As many ones as there are elements.
LEMMA SumOnes ==
  ASSUME NEW S, IsFiniteSet(S), NEW f, \A x \in S : f[x] = 1
  PROVE  SumFunctionOnSet(f, S) = Cardinality(S)
<1> DEFINE F(T) == SumFunctionOnSet(f, T)
           G == {T \in SUBSET S : F(T) = Cardinality(T)}
<1>1. {} \in G
  BY SumEmpty, FS_EmptySet
<1>2. ASSUME NEW T \in SUBSET S, NEW x \in T, T \ {x} \in G
      PROVE  T \in G
  <2>1. IsFiniteSet(T) /\ Cardinality(T) \in Nat /\ \A y \in T : f[y] \in Int
    BY FS_Subset, FS_CardinalityType
  <2>2. F(T) = f[x] + F(T \ {x})
    BY <2>1, SumRemove
  <2>3. Cardinality(T \ {x}) = Cardinality(T) - 1
    BY <2>1, FS_RemoveElement
  <2>4. f[x] = 1 /\ F(T \ {x}) = Cardinality(T \ {x})
    BY <1>2
  <2> HIDE DEF F
  <2> QED
    BY <2>1, <2>2, <2>3, <2>4
<1> HIDE DEF G
<1>3. S \in G
  BY <1>1, <1>2, ElementInduction
<1> QED
  BY <1>3 DEF G

\* One element comes to its own term.
LEMMA SumSingle ==
  ASSUME NEW f, NEW a, f[a] \in Int
  PROVE  SumFunctionOnSet(f, {a}) = f[a]
<1>1. IsFiniteSet({a}) /\ {a} \ {a} = {} /\ a \in {a}
  BY FS_Singleton
<1>2. \A x \in {a} : f[x] \in Int
  OBVIOUS
<1>3. SumFunctionOnSet(f, {a}) = f[a] + SumFunctionOnSet(f, {a} \ {a})
  BY <1>1, <1>2, SumRemove
<1>4. SumFunctionOnSet(f, {a}) = f[a] + 0
  BY <1>1, <1>3, SumEmpty
<1> QED
  BY <1>4

\* The values a function takes on a finite set are finitely many.
LEMMA ImageFinite ==
  ASSUME NEW S, IsFiniteSet(S), NEW h
  PROVE  IsFiniteSet({h[x] : x \in S})
<1> DEFINE K == {h[x] : x \in S}
           f == [x \in S |-> h[x]]
<1>1. f \in Surjection(S, K)
  BY DEF Surjection
<1> HIDE DEF f, K
<1>2. IsFiniteSet(K)
  BY <1>1, FS_Surjection
<1> QED
  BY <1>2 DEF K

\* The elements that h sends to k.
Fibre(S, h, k) == {x \in S : h[x] = k}

\* Split by a key, summed by key, and summed again, the terms come to the same.
LEMMA SumByKey ==
  ASSUME NEW S, IsFiniteSet(S), NEW f, \A x \in S : f[x] \in Int,
         NEW K, IsFiniteSet(K), NEW h, \A x \in S : h[x] \in K,
         NEW g, \A k \in K : g[k] = SumFunctionOnSet(f, Fibre(S, h, k))
  PROVE  SumFunctionOnSet(g, K) = SumFunctionOnSet(f, S)
<1> DEFINE Part(L) == {x \in S : h[x] \in L}
           F(T) == SumFunctionOnSet(f, T)
           H(L) == SumFunctionOnSet(g, L)
           G == {L \in SUBSET K : H(L) = F(Part(L))}
<1>0. \A T \in SUBSET S : IsFiniteSet(T) /\ F(T) \in Int
  BY FS_Subset, SumInt
<1>1. \A k \in K : Fibre(S, h, k) \in SUBSET S /\ g[k] \in Int
  BY <1>0 DEF Fibre
<1>2. {} \in G
  <2>1. Part({}) = {}
    OBVIOUS
  <2>2. H({}) = 0 /\ F({}) = 0
    BY SumEmpty
  <2> QED
    BY <2>1, <2>2
<1>3. ASSUME NEW L \in SUBSET K, NEW k \in L, L \ {k} \in G
      PROVE  L \in G
  <2> DEFINE A == Part(L \ {k})
             B == Fibre(S, h, k)
  <2>1. /\ A \in SUBSET S /\ B \in SUBSET S /\ A \cap B = {} /\ A \cup B = Part(L)
    BY DEF Fibre
  <2>2. IsFiniteSet(L) /\ \A l \in L : g[l] \in Int
    BY <1>1, FS_Subset
  <2>3. H(L) = g[k] + H(L \ {k})
    BY <2>2, SumRemove
  <2>4. H(L \ {k}) = F(A) /\ g[k] = F(B)
    BY <1>3
  <2>5. F(A \cup B) = F(A) + F(B)
    <3>1. IsFiniteSet(A) /\ IsFiniteSet(B) /\ \A x \in A \cup B : f[x] \in Int
      BY <1>0, <2>1
    <3> HIDE DEF A, B
    <3> QED
      BY <2>1, <3>1, SumDisjoint
  <2>6. F(Part(L)) = F(A) + F(B) /\ F(A) \in Int /\ F(B) \in Int
    BY <1>0, <2>1, <2>5
  <2>7. H(L) = F(Part(L))
    <3> HIDE DEF H, F, Part, A, B
    <3> QED BY <2>3, <2>4, <2>6
  <2> QED
    BY <2>7
<1> HIDE DEF G
<1>4. K \in G
  BY <1>2, <1>3, ElementInduction
<1>5. Part(K) = S
  OBVIOUS
<1> QED
  BY <1>4, <1>5 DEF G

\* The same elements, counted key by key.
LEMMA CountByKey ==
  ASSUME NEW S, IsFiniteSet(S), NEW K, IsFiniteSet(K), NEW h, \A x \in S : h[x] \in K,
         NEW g, \A k \in K : g[k] = Cardinality(Fibre(S, h, k))
  PROVE  SumFunctionOnSet(g, K) = Cardinality(S)
<1> DEFINE one == [x \in S |-> 1]
<1>1. \A T \in SUBSET S : SumFunctionOnSet(one, T) = Cardinality(T)
  <2> SUFFICES ASSUME NEW T \in SUBSET S
               PROVE  SumFunctionOnSet(one, T) = Cardinality(T)
    OBVIOUS
  <2>1. IsFiniteSet(T) /\ \A x \in T : one[x] = 1
    BY FS_Subset
  <2> HIDE DEF one
  <2> QED
    BY <2>1, SumOnes
<1>2. \A x \in S : one[x] \in Int
  OBVIOUS
<1> HIDE DEF one
<1>3. \A k \in K : g[k] = SumFunctionOnSet(one, Fibre(S, h, k))
  BY <1>1 DEF Fibre
<1>4. SumFunctionOnSet(g, K) = SumFunctionOnSet(one, S)
  BY <1>2, <1>3, SumByKey
<1> QED
  BY <1>1, <1>4

\* Renamed one to one, the elements come to the same.
LEMMA SumRenamed ==
  ASSUME NEW S, IsFiniteSet(S), NEW K, IsFiniteSet(K), NEW h,
         \A x \in S : h[x] \in K, \A x, y \in S : h[x] = h[y] => x = y,
         \A k \in K : \E x \in S : h[x] = k,
         NEW f, NEW g, \A x \in S : f[x] \in Int /\ g[h[x]] = f[x]
  PROVE  SumFunctionOnSet(g, K) = SumFunctionOnSet(f, S)
<1>1. ASSUME NEW k \in K PROVE g[k] = SumFunctionOnSet(f, Fibre(S, h, k))
  <2>1. PICK x \in S : h[x] = k
    OBVIOUS
  <2>2. Fibre(S, h, k) = {x}
    BY <2>1 DEF Fibre
  <2>3. SumFunctionOnSet(f, {x}) = f[x]
    BY SumSingle
  <2> QED
    BY <2>1, <2>2, <2>3
<1> QED
  BY <1>1, SumByKey
=============================================================================
