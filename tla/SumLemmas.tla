------------------------------- MODULE SumLemmas -------------------------------
(***************************************************************************)
(* Lemmas about SumFunctionOnSet of the community modules, which folds a   *)
(* function over a finite set.  The induction they need is by a smallest   *)
(* counterexample: finite subsets are well founded by strict inclusion.    *)
(* On them rest lemmas about sums along sequences, and about what a queue  *)
(* of jobs and the agents that run them have still to do.                  *)
(***************************************************************************)
EXTENDS Functions, FiniteSetTheorems, SequenceTheorems, TLAPS

\* A nonempty collection of subsets of a finite set has a smallest one.
LEMMA MinimalSubset ==
    ASSUME NEW S, IsFiniteSet(S), NEW X, X \subseteq SUBSET S, X # {}
    PROVE  \E T \in X : \A U \in X : U \subseteq T => U = T
<1>1. X \subseteq FiniteSubsetsOf(S)
    BY FS_FiniteSubsetsOfFinite
<1>2. PICK T \in X : \A U \in X : ~(<<U, T>> \in StrictSubsetOrdering(S))
    BY <1>1, FS_StrictSubsetOrderingWellFounded, WFMin
<1> QED
    BY <1>2 DEF StrictSubsetOrdering

\* A nonempty set of numbers has a smallest one.
LEMMA MinimalNumber ==
    ASSUME NEW X, X \subseteq Nat, X # {}
    PROVE  \E m \in X : \A n \in X : m <= n
<1>1. PICK m \in X : \A n \in X : ~(<<n, m>> \in OpToRel(<, Nat))
    BY NatLessThanWellFounded, WFMin
<1>2. \A a, b \in Nat : a < b => <<a, b>> \in OpToRel(<, Nat)
    BY Zenon DEF OpToRel
<1>3. \A n \in X : ~(n < m)
    BY <1>1, <1>2
<1> QED
    BY <1>3
-----------------------------------------------------------------------------
(* The recursive function that the fold applies to the whole set.          *)

\* The element that the fold takes out of a set.
Any(s) == CHOOSE x \in s : TRUE

\* f is the fold of g over every set of D.
Folds(f, g, D) == f = [s \in D |-> IF s = {} THEN 0 ELSE g[Any(s)] + f[s \ {Any(s)}]]

\* It is an element of that set.
LEMMA AnyIsMember ==
    ASSUME NEW s, s # {}
    PROVE  Any(s) \in s
BY DEF Any

\* The subsets of S with at most n elements.
Smaller(S, n) == {s \in SUBSET S : Cardinality(s) <= n}

\* The equation that defines the fold has a solution.
LEMMA FoldExists ==
    ASSUME NEW g, NEW S, IsFiniteSet(S)
    PROVE  \E f : Folds(f, g, SUBSET S)
<1> DEFINE Bad == {n \in Nat : ~\E f : Folds(f, g, Smaller(S, n))}
<1>1. Bad = {}
    <2> SUFFICES ASSUME Bad # {} PROVE FALSE
        OBVIOUS
    <2>1. PICK m \in Bad : \A n \in Bad : m <= n
        BY MinimalNumber
    <2>2. CASE m = 0
        <3>1. Smaller(S, 0) = {{}}
            BY FS_EmptySet, FS_Subset, FS_CardinalityType DEF Smaller
        <3> DEFINE f == [s \in {{}} |-> 0]
        <3>2. Folds(f, g, {{}})
            BY DEF Folds
        <3> HIDE DEF f
        <3> QED
            BY <2>1, <2>2, <3>1, <3>2
    <2>3. CASE m # 0
        <3>1. m - 1 \in Nat /\ m - 1 \notin Bad
            BY <2>1, <2>3
        <3>2. PICK f : Folds(f, g, Smaller(S, m - 1))
            BY <3>1
        <3> DEFINE D == Smaller(S, m)
                   h == [s \in D |-> IF s = {} THEN 0 ELSE g[Any(s)] + f[s \ {Any(s)}]]
        <3>3. ASSUME NEW s \in D, s # {}
              PROVE  s \ {Any(s)} \in Smaller(S, m - 1) /\ s \ {Any(s)} \in D
            BY <3>3, AnyIsMember, FS_RemoveElement, FS_Subset, FS_CardinalityType DEF Smaller
        <3>4. ASSUME NEW s \in Smaller(S, m - 1) PROVE h[s] = f[s]
            <4>1. s \in D
                BY <3>1, FS_Subset, FS_CardinalityType DEF Smaller
            <4>2. f[s] = IF s = {} THEN 0 ELSE g[Any(s)] + f[s \ {Any(s)}]
                BY <3>2 DEF Folds
            <4> QED
                BY <4>1, <4>2
        <3>5. \A s \in D : h[s] = IF s = {} THEN 0 ELSE g[Any(s)] + h[s \ {Any(s)}]
            BY <3>3, <3>4
        <3>6. h = [s \in D |-> h[s]]
            OBVIOUS
        <3> HIDE DEF h, D
        <3>7. Folds(h, g, D)
            BY <3>5, <3>6 DEF Folds
        <3> QED
            BY <2>1, <3>7 DEF D
    <2> QED
        BY <2>2, <2>3
<1>2. Cardinality(S) \in Nat /\ Smaller(S, Cardinality(S)) = SUBSET S
    BY FS_CardinalityType, FS_Subset DEF Smaller
<1>3. Cardinality(S) \notin Bad
    BY <1>1
<1> QED
    BY <1>2, <1>3

\* So the sum of the community modules satisfies it.
LEMMA SumIsFold ==
    ASSUME NEW g, NEW S, IsFiniteSet(S)
    PROVE  \E f : Folds(f, g, SUBSET S) /\ SumFunctionOnSet(g, S) = f[S]
<1> DEFINE f == CHOOSE f : f = [s \in SUBSET S |->
                IF s = {} THEN 0
                ELSE g[CHOOSE x \in s : TRUE] + f[s \ {CHOOSE x \in s : TRUE}]]
<1>1. SumFunctionOnSet(g, S) = f[S]
    BY DEF SumFunctionOnSet, FoldFunctionOnSet, MapThenFoldSet
<1>2. PICK h : h = [s \in SUBSET S |->
                IF s = {} THEN 0
                ELSE g[CHOOSE x \in s : TRUE] + h[s \ {CHOOSE x \in s : TRUE}]]
    <2>1. \E h : Folds(h, g, SUBSET S)
        BY FoldExists
    <2> QED
        BY <2>1 DEF Folds, Any
<1>3. f = [s \in SUBSET S |->
                IF s = {} THEN 0
                ELSE g[CHOOSE x \in s : TRUE] + f[s \ {CHOOSE x \in s : TRUE}]]
    BY <1>2, Zenon
<1> HIDE DEF f
<1>4. Folds(f, g, SUBSET S)
    BY <1>3 DEF Folds, Any
<1> QED
    BY <1>1, <1>4
-----------------------------------------------------------------------------
\* The sum over no elements.
LEMMA SumEmpty ==
    ASSUME NEW g
    PROVE  SumFunctionOnSet(g, {}) = 0
<1>1. PICK f : Folds(f, g, SUBSET {}) /\ SumFunctionOnSet(g, {}) = f[{}]
    BY SumIsFold, FS_EmptySet
<1> QED
    BY <1>1 DEF Folds

\* The element the fold takes first: the fold over the rest is part of the
\* fold over the whole.
LEMMA SumOfAny ==
    ASSUME NEW g, NEW S, IsFiniteSet(S), S # {}
    PROVE  SumFunctionOnSet(g, S) = g[Any(S)] + SumFunctionOnSet(g, S \ {Any(S)})
<1> DEFINE T == S \ {Any(S)}
<1>1. PICK e : Folds(e, g, SUBSET S) /\ SumFunctionOnSet(g, S) = e[S]
    BY SumIsFold
<1>2. IsFiniteSet(T) /\ T \subseteq S
    BY FS_Subset
<1>3. PICK f : Folds(f, g, SUBSET T) /\ SumFunctionOnSet(g, T) = f[T]
    BY <1>2, SumIsFold
<1> DEFINE Bad == {s \in SUBSET T : e[s] # f[s]}
<1>4. ASSUME Bad # {} PROVE FALSE
    <2>1. Bad \subseteq SUBSET T
        OBVIOUS
    <2>2. PICK s \in Bad : \A u \in Bad : u \subseteq s => u = s
        <3> HIDE DEF Bad, T
        <3> QED
            BY <1>2, <1>4, <2>1, MinimalSubset
    <2>3. /\ e[s] = IF s = {} THEN 0 ELSE g[Any(s)] + e[s \ {Any(s)}]
          /\ f[s] = IF s = {} THEN 0 ELSE g[Any(s)] + f[s \ {Any(s)}]
        BY <1>1, <1>3 DEF Folds
    <2>4. s # {} => Any(s) \in s /\ s \ {Any(s)} \notin Bad
        BY <2>2, AnyIsMember
    <2> QED
        BY <2>2, <2>3, <2>4
<1>5. e[T] = f[T]
    BY <1>4
<1>6. e[S] = g[Any(S)] + e[T]
    BY <1>1 DEF Folds
<1> QED
    BY <1>1, <1>3, <1>5, <1>6

\* Sums of functions that agree are equal.
LEMMA SumEqual ==
    ASSUME NEW g, NEW h, NEW S, IsFiniteSet(S), \A x \in S : g[x] = h[x]
    PROVE  SumFunctionOnSet(g, S) = SumFunctionOnSet(h, S)
<1> DEFINE Bad == {T \in SUBSET S : SumFunctionOnSet(g, T) # SumFunctionOnSet(h, T)}
<1>1. ASSUME Bad # {} PROVE FALSE
    <2>a. Bad \subseteq SUBSET S
        OBVIOUS
    <2>1. PICK T \in Bad : \A u \in Bad : u \subseteq T => u = T
        <3> HIDE DEF Bad
        <3> QED
            BY <1>1, <2>a, MinimalSubset
    <2>2. IsFiniteSet(T)
        BY FS_Subset
    <2>3. CASE T = {}
        BY <2>1, <2>3, SumEmpty
    <2>4. CASE T # {}
        <3>1. Any(T) \in T /\ T \ {Any(T)} \notin Bad
            BY <2>1, <2>4, AnyIsMember
        <3> QED
            BY <2>1, <2>2, <2>4, <3>1, SumOfAny
    <2> QED
        BY <2>3, <2>4
<1> QED
    BY <1>1

\* Sums of integers are integers.
LEMMA SumIsInt ==
    ASSUME NEW g, NEW S, IsFiniteSet(S), \A x \in S : g[x] \in Int
    PROVE  SumFunctionOnSet(g, S) \in Int
<1> DEFINE Bad == {T \in SUBSET S : SumFunctionOnSet(g, T) \notin Int}
<1>1. ASSUME Bad # {} PROVE FALSE
    <2>a. Bad \subseteq SUBSET S
        OBVIOUS
    <2>1. PICK T \in Bad : \A u \in Bad : u \subseteq T => u = T
        <3> HIDE DEF Bad
        <3> QED
            BY <1>1, <2>a, MinimalSubset
    <2>2. IsFiniteSet(T)
        BY FS_Subset
    <2>3. CASE T = {}
        BY <2>1, <2>3, SumEmpty
    <2>4. CASE T # {}
        <3>1. Any(T) \in T /\ T \ {Any(T)} \notin Bad
            BY <2>1, <2>4, AnyIsMember
        <3> QED
            BY <2>1, <2>2, <2>4, <3>1, SumOfAny
    <2> QED
        BY <2>3, <2>4
<1> QED
    BY <1>1

\* Any element can be taken first.
LEMMA SumOfOne ==
    ASSUME NEW g, NEW S, IsFiniteSet(S), \A x \in S : g[x] \in Int, NEW x \in S
    PROVE  SumFunctionOnSet(g, S) = g[x] + SumFunctionOnSet(g, S \ {x})
<1> DEFINE Sum(T) == SumFunctionOnSet(g, T)
           Bad == {T \in SUBSET S : \E y \in T : Sum(T) # g[y] + Sum(T \ {y})}
<1>1. ASSUME Bad # {} PROVE FALSE
    <2>a. Bad \subseteq SUBSET S
        OBVIOUS
    <2>1. PICK T \in Bad : \A u \in Bad : u \subseteq T => u = T
        <3> HIDE DEF Bad
        <3> QED
            BY <1>1, <2>a, MinimalSubset
    <2>2. PICK y \in T : Sum(T) # g[y] + Sum(T \ {y})
        BY <2>1
    <2> DEFINE c == Any(T)
               R == T \ {c, y}
    <2>3. IsFiniteSet(T) /\ IsFiniteSet(R) /\ c \in T /\ c # y
        BY <2>1, <2>2, FS_Subset, AnyIsMember, SumOfAny
    <2> HIDE DEF c
    <2>4. Sum(T) = g[c] + Sum(T \ {c})
        BY <2>2, <2>3, SumOfAny DEF c
    <2>5. (T \ {c}) \ {y} = R /\ (T \ {y}) \ {c} = R
        OBVIOUS
    <2>6. Sum(T \ {c}) = g[y] + Sum(R)
        BY <2>1, <2>2, <2>3, <2>5
    <2>7. Sum(T \ {y}) = g[c] + Sum(R)
        BY <2>1, <2>2, <2>3, <2>5
    <2>8. g[c] \in Int /\ g[y] \in Int /\ Sum(R) \in Int
        BY <2>1, <2>2, <2>3, SumIsInt
    <2> HIDE DEF Sum, R
    <2> QED
        BY <2>2, <2>4, <2>6, <2>7, <2>8
<1> QED
    BY <1>1

\* A sum changes by as much as the one term that changes.
LEMMA SumChangesByOne ==
    ASSUME NEW g, NEW h, NEW S, IsFiniteSet(S), NEW x \in S,
           \A y \in S : g[y] \in Int /\ h[y] \in Int,
           \A y \in S \ {x} : g[y] = h[y]
    PROVE  SumFunctionOnSet(h, S) = SumFunctionOnSet(g, S) + (h[x] - g[x])
<1>1. IsFiniteSet(S \ {x})
    BY FS_Subset
<1>2. SumFunctionOnSet(g, S \ {x}) = SumFunctionOnSet(h, S \ {x})
    BY <1>1, SumEqual
<1>3. SumFunctionOnSet(g, S) = g[x] + SumFunctionOnSet(g, S \ {x})
    BY SumOfOne
<1>4. SumFunctionOnSet(h, S) = h[x] + SumFunctionOnSet(h, S \ {x})
    BY SumOfOne
<1>5. SumFunctionOnSet(g, S \ {x}) \in Int
    BY <1>1, SumIsInt
<1> QED
    BY <1>2, <1>3, <1>4, <1>5

\* A sum of zeroes is zero.
LEMMA SumOfZeroes ==
    ASSUME NEW g, NEW S, IsFiniteSet(S), \A x \in S : g[x] = 0
    PROVE  SumFunctionOnSet(g, S) = 0
<1> DEFINE Bad == {T \in SUBSET S : SumFunctionOnSet(g, T) # 0}
<1>1. ASSUME Bad # {} PROVE FALSE
    <2>a. Bad \subseteq SUBSET S
        OBVIOUS
    <2>1. PICK T \in Bad : \A u \in Bad : u \subseteq T => u = T
        <3> HIDE DEF Bad
        <3> QED
            BY <1>1, <2>a, MinimalSubset
    <2>2. IsFiniteSet(T) /\ T # {}
        BY <2>1, FS_Subset, SumEmpty
    <2>3. Any(T) \in T /\ T \ {Any(T)} \notin Bad
        BY <2>1, <2>2, AnyIsMember
    <2>4. SumFunctionOnSet(g, T) = 0 + 0
        BY <2>2, <2>3, SumOfAny
    <2> QED
        BY <2>1, <2>4
<1> QED
    BY <1>1

\* Terms that do not exceed each other.
LEMMA SumIsMonotone ==
    ASSUME NEW g, NEW h, NEW S, IsFiniteSet(S),
           \A x \in S : g[x] \in Int /\ h[x] \in Int /\ g[x] <= h[x]
    PROVE  SumFunctionOnSet(g, S) <= SumFunctionOnSet(h, S)
<1> DEFINE Bad == {T \in SUBSET S : ~(SumFunctionOnSet(g, T) <= SumFunctionOnSet(h, T))}
<1>1. ASSUME Bad # {} PROVE FALSE
    <2>a. Bad \subseteq SUBSET S
        OBVIOUS
    <2>1. PICK T \in Bad : \A u \in Bad : u \subseteq T => u = T
        <3> HIDE DEF Bad
        <3> QED
            BY <1>1, <2>a, MinimalSubset
    <2>b. SumFunctionOnSet(g, {}) <= SumFunctionOnSet(h, {})
        BY SumEmpty
    <2>2. IsFiniteSet(T) /\ T # {}
        BY <2>1, <2>b, FS_Subset
    <2> DEFINE R == T \ {Any(T)}
    <2>3. Any(T) \in T /\ R \notin Bad /\ R \in SUBSET S /\ IsFiniteSet(R)
        BY <2>1, <2>2, AnyIsMember, FS_Subset
    <2>4. SumFunctionOnSet(g, R) \in Int /\ SumFunctionOnSet(h, R) \in Int
        BY <2>3, SumIsInt
    <2>5. /\ SumFunctionOnSet(g, T) = g[Any(T)] + SumFunctionOnSet(g, R)
          /\ SumFunctionOnSet(h, T) = h[Any(T)] + SumFunctionOnSet(h, R)
        BY <2>2, SumOfAny
    <2>6. SumFunctionOnSet(g, R) <= SumFunctionOnSet(h, R)
        BY <2>3
    <2>7. g[Any(T)] <= h[Any(T)] /\ g[Any(T)] \in Int /\ h[Any(T)] \in Int
        BY <2>3
    <2> HIDE DEF R
    <2> QED
        BY <2>1, <2>4, <2>5, <2>6, <2>7
<1> QED
    BY <1>1

\* A sum of differences is the difference of the sums.
LEMMA SumSubtracts ==
    ASSUME NEW f, NEW g, NEW h, NEW S, IsFiniteSet(S),
           \A x \in S : f[x] \in Int /\ g[x] \in Int /\ h[x] = f[x] - g[x]
    PROVE  SumFunctionOnSet(h, S) = SumFunctionOnSet(f, S) - SumFunctionOnSet(g, S)
<1> DEFINE Right(T) == SumFunctionOnSet(h, T) = SumFunctionOnSet(f, T) - SumFunctionOnSet(g, T)
           Bad == {T \in SUBSET S : ~Right(T)}
<1>1. ASSUME Bad # {} PROVE FALSE
    <2>a. Bad \subseteq SUBSET S
        OBVIOUS
    <2>1. PICK T \in Bad : \A u \in Bad : u \subseteq T => u = T
        <3> HIDE DEF Bad
        <3> QED
            BY <1>1, <2>a, MinimalSubset
    <2>b. Right({})
        BY SumEmpty
    <2>2. IsFiniteSet(T) /\ T # {}
        BY <2>1, <2>b, FS_Subset
    <2> DEFINE R == T \ {Any(T)}
    <2>3. Any(T) \in T /\ R \notin Bad /\ R \in SUBSET S /\ IsFiniteSet(R)
        BY <2>1, <2>2, AnyIsMember, FS_Subset
    <2>4. SumFunctionOnSet(f, R) \in Int /\ SumFunctionOnSet(g, R) \in Int
        BY <2>3, SumIsInt
    <2>5. /\ SumFunctionOnSet(f, T) = f[Any(T)] + SumFunctionOnSet(f, R)
          /\ SumFunctionOnSet(g, T) = g[Any(T)] + SumFunctionOnSet(g, R)
          /\ SumFunctionOnSet(h, T) = h[Any(T)] + SumFunctionOnSet(h, R)
        BY <2>2, SumOfAny
    <2>6. SumFunctionOnSet(h, R) = SumFunctionOnSet(f, R) - SumFunctionOnSet(g, R)
        BY <2>3
    <2>7. f[Any(T)] \in Int /\ g[Any(T)] \in Int /\ h[Any(T)] = f[Any(T)] - g[Any(T)]
        BY <2>3
    <2> HIDE DEF R
    <2> QED
        BY <2>1, <2>4, <2>5, <2>6, <2>7
<1>2. Right(S)
    BY <1>1
<1> QED
    BY <1>2

\* The elements of a part of the set can be summed up alone.
LEMMA SumOfPart ==
    ASSUME NEW g, NEW S, IsFiniteSet(S), \A x \in S : g[x] \in Int,
           NEW T \in SUBSET S, \A x \in S \ T : g[x] = 0
    PROVE  SumFunctionOnSet(g, S) = SumFunctionOnSet(g, T)
<1> DEFINE Bad == {U \in SUBSET S : T \subseteq U
                       /\ SumFunctionOnSet(g, U) # SumFunctionOnSet(g, T)}
<1>1. ASSUME Bad # {} PROVE FALSE
    <2>a. Bad \subseteq SUBSET S
        OBVIOUS
    <2>1. PICK U \in Bad : \A u \in Bad : u \subseteq U => u = U
        <3> HIDE DEF Bad
        <3> QED
            BY <1>1, <2>a, MinimalSubset
    <2>2. PICK x \in U : x \notin T
        BY <2>1
    <2>3. U \ {x} \notin Bad /\ T \subseteq U \ {x} /\ IsFiniteSet(U) /\ IsFiniteSet(U \ {x})
        BY <2>1, <2>2, FS_Subset
    <2>4. SumFunctionOnSet(g, U \ {x}) = SumFunctionOnSet(g, T)
        BY <2>3
    <2>5. SumFunctionOnSet(g, U) = g[x] + SumFunctionOnSet(g, U \ {x})
        BY <2>1, <2>3, SumOfOne
    <2>6. g[x] = 0 /\ SumFunctionOnSet(g, U \ {x}) \in Int
        BY <2>1, <2>2, <2>3, SumIsInt
    <2> QED
        BY <2>1, <2>4, <2>5, <2>6
<1> QED
    BY <1>1

\* A sum over a subset is one over the set that takes the others as zero.
LEMMA SumRestricted ==
    ASSUME NEW g, NEW S, IsFiniteSet(S), NEW T \in SUBSET S, \A x \in T : g[x] \in Int
    PROVE  SumFunctionOnSet(g, T)
             = SumFunctionOnSet([x \in S |-> IF x \in T THEN g[x] ELSE 0], S)
<1> DEFINE h == [x \in S |-> IF x \in T THEN g[x] ELSE 0]
<1>1. \A x \in S : h[x] \in Int
    OBVIOUS
<1>2. \A x \in S \ T : h[x] = 0
    OBVIOUS
<1>3. \A x \in T : g[x] = h[x]
    OBVIOUS
<1>4. IsFiniteSet(T)
    BY FS_Subset
<1> HIDE DEF h
<1>5. SumFunctionOnSet(h, S) = SumFunctionOnSet(h, T)
    BY <1>1, <1>2, SumOfPart
<1>6. SumFunctionOnSet(g, T) = SumFunctionOnSet(h, T)
    BY <1>3, <1>4, SumEqual
<1> QED
    BY <1>5, <1>6 DEF h

\* The last term of an interval can be taken off.
LEMMA SumOfLast ==
    ASSUME NEW f, NEW m \in Nat, \A n \in 1 .. m + 1 : f[n] \in Int
    PROVE  /\ SumFunctionOnSet(f, 1 .. m + 1) = SumFunctionOnSet(f, 1 .. m) + f[m + 1]
           /\ SumFunctionOnSet(f, 1 .. m) \in Int
<1> DEFINE I == 1 .. m + 1
           J == 1 .. m
           l == m + 1
<1>1. l \in I /\ I \ {l} = J /\ J \subseteq I
    OBVIOUS
<1>2. IsFiniteSet(I) /\ IsFiniteSet(J)
    <2>1. 1 \in Int /\ m \in Int /\ m + 1 \in Int
        OBVIOUS
    <2> QED
        BY <2>1, FS_Interval, Zenon
<1>3. \A n \in I : f[n] \in Int
    OBVIOUS
<1> HIDE DEF I, J, l
<1>4. SumFunctionOnSet(f, I) = f[l] + SumFunctionOnSet(f, I \ {l})
    BY <1>1, <1>2, <1>3, SumOfOne
<1>5. SumFunctionOnSet(f, J) \in Int
    BY <1>1, <1>2, <1>3, SumIsInt
<1>6. f[l] \in Int
    BY <1>1, <1>3
<1>7. SumFunctionOnSet(f, I) = f[l] + SumFunctionOnSet(f, J)
    BY <1>1, <1>4, Zenon
<1>8. SumFunctionOnSet(f, I) = SumFunctionOnSet(f, J) + f[l]
    BY <1>5, <1>6, <1>7
<1> QED
    BY <1>5, <1>8 DEF I, J, l

\* A sum over an interval that is shifted by one.
LEMMA SumShifts ==
    ASSUME NEW f, NEW g, NEW m \in Nat, \A n \in 1 .. m + 1 : f[n] \in Int,
           \A n \in 1 .. m : g[n] = f[n + 1]
    PROVE  SumFunctionOnSet(f, 1 .. m + 1) = f[1] + SumFunctionOnSet(g, 1 .. m)
<1> DEFINE F(k) == SumFunctionOnSet(f, 1 .. k)
           G(k) == SumFunctionOnSet(g, 1 .. k)
           Bad == {k \in 0 .. m : F(k + 1) # f[1] + G(k)}
<1>1. \A k \in 0 .. m : F(k + 1) = F(k) + f[k + 1] /\ F(k) \in Int
    BY SumOfLast
<1>2. \A k \in 1 .. m : G(k) = G(k - 1) + f[k + 1] /\ G(k - 1) \in Int
    <2> SUFFICES ASSUME NEW k \in 1 .. m
                 PROVE  G(k) = G(k - 1) + f[k + 1] /\ G(k - 1) \in Int
        OBVIOUS
    <2>1. k - 1 \in Nat /\ (k - 1) + 1 = k /\ g[k] = f[k + 1]
        OBVIOUS
    <2>2. \A n \in 1 .. (k - 1) + 1 : g[n] \in Int
        OBVIOUS
    <2>3. G((k - 1) + 1) = G(k - 1) + g[(k - 1) + 1] /\ G(k - 1) \in Int
        BY <2>1, <2>2, SumOfLast
    <2> QED
        BY <2>1, <2>3
<1>3. F(0) = 0 /\ G(0) = 0
    <2>1. 1 .. 0 = {}
        OBVIOUS
    <2> QED
        BY <2>1, SumEmpty
<1>4. \A k \in 0 .. m : f[k + 1] \in Int
    OBVIOUS
<1> HIDE DEF F, G
<1>5. ASSUME Bad # {} PROVE FALSE
    <2>1. Bad \subseteq Nat
        OBVIOUS
    <2>2. PICK k \in Bad : \A n \in Bad : k <= n
        <3> HIDE DEF Bad
        <3> QED
            BY <1>5, <2>1, MinimalNumber
    <2>3. k \in 0 .. m /\ F(k + 1) # f[1] + G(k)
        BY <2>2
    <2>4. CASE k = 0
        BY <1>1, <1>3, <1>4, <2>3, <2>4
    <2>5. CASE k # 0
        <3>1. k \in 1 .. m /\ k - 1 \in 0 .. m /\ k - 1 \notin Bad /\ (k - 1) + 1 = k
            BY <2>2, <2>3, <2>5
        <3>2. F(k) = f[1] + G(k - 1)
            BY <3>1
        <3>3. f[1] \in Int /\ f[k + 1] \in Int
            BY <1>4, <2>3
        <3> HIDE DEF Bad
        <3> QED
            BY <1>1, <1>2, <2>3, <3>1, <3>2, <3>3
    <2> QED
        BY <2>4, <2>5
<1>6. m \in 0 .. m /\ m \notin Bad
    BY <1>5
<1> QED
    BY <1>6 DEF F, G

\* The sum of a whole function, when one of its values changes.
LEMMA SumFunctionChanges ==
    ASSUME NEW S, IsFiniteSet(S), NEW f \in [S -> Int], NEW g \in [S -> Int], NEW x \in S,
           \A y \in S \ {x} : f[y] = g[y]
    PROVE  SumFunction(g) = SumFunction(f) + (g[x] - f[x])
<1>1. SumFunctionOnSet(g, S) = SumFunctionOnSet(f, S) + (g[x] - f[x])
    BY SumChangesByOne
<1> QED
    BY <1>1 DEF SumFunction

\* The same of whole functions.
LEMMA SumFunctionSubtracts ==
    ASSUME NEW S, IsFiniteSet(S), NEW f \in [S -> Int], NEW g \in [S -> Int], NEW h,
           DOMAIN h = S, \A x \in S : h[x] = f[x] - g[x]
    PROVE  SumFunction(h) = SumFunction(f) - SumFunction(g)
<1>1. SumFunctionOnSet(h, S) = SumFunctionOnSet(f, S) - SumFunctionOnSet(g, S)
    BY SumSubtracts
<1> QED
    BY <1>1 DEF SumFunction

\* The sum of a whole function is one over the set it is restricted to.
LEMMA SumFunctionRestricted ==
    ASSUME NEW S, IsFiniteSet(S), NEW T \in SUBSET S, NEW f \in [S -> Int], NEW g,
           DOMAIN g = T, \A x \in T : g[x] = f[x], \A x \in S \ T : f[x] = 0
    PROVE  SumFunction(g) = SumFunction(f) /\ SumFunction(f) \in Int
<1>1. SumFunctionOnSet(f, S) = SumFunctionOnSet(f, T)
    BY SumOfPart
<1>2. IsFiniteSet(T)
    BY FS_Subset
<1>3. SumFunctionOnSet(g, T) = SumFunctionOnSet(f, T)
    BY <1>2, SumEqual
<1>4. SumFunctionOnSet(f, S) \in Int
    BY SumIsInt
<1> QED
    BY <1>1, <1>3, <1>4 DEF SumFunction
-----------------------------------------------------------------------------
(* What the elements of a sequence are worth together.                     *)

\* The worth of a sequence.
Total(val, s) == SumFunction([n \in DOMAIN s |-> val[s[n]]])

\* The empty sequence is worth nothing.
LEMMA TotalEmpty ==
    ASSUME NEW val
    PROVE  Total(val, <<>>) = 0
BY SumEmpty DEF Total, SumFunction

\* A sequence of elements that are worth integers is worth an integer.
LEMMA TotalIsInt ==
    ASSUME NEW E, NEW val \in [E -> Int], NEW s \in Seq(E)
    PROVE  Total(val, s) \in Int
<1>1. DOMAIN s = 1 .. Len(s) /\ Len(s) \in Nat /\ \A n \in 1 .. Len(s) : s[n] \in E
    BY LenProperties, ElementOfSeq
<1>2. IsFiniteSet(DOMAIN s)
    BY <1>1, FS_Interval
<1> DEFINE f == [n \in DOMAIN s |-> val[s[n]]]
<1>3. \A n \in DOMAIN s : f[n] \in Int
    BY <1>1
<1>4. DOMAIN f = DOMAIN s
    OBVIOUS
<1>5. SumFunctionOnSet(f, DOMAIN s) \in Int
    <2> HIDE DEF f
    <2> QED
        BY <1>2, <1>3, SumIsInt
<1> QED
    BY <1>4, <1>5 DEF Total, SumFunction

\* The first element can be taken off.
LEMMA TotalOfTail ==
    ASSUME NEW E, NEW val \in [E -> Int], NEW s \in Seq(E), s # <<>>
    PROVE  Total(val, s) = val[Head(s)] + Total(val, Tail(s))
<1>1. /\ DOMAIN s = 1 .. Len(s) /\ Len(s) \in Nat
      /\ \A n \in 1 .. Len(s) : s[n] \in E
    BY LenProperties, ElementOfSeq
<1>2. /\ Tail(s) \in Seq(E) /\ Len(Tail(s)) = Len(s) - 1 /\ Head(s) = s[1]
      /\ \A i \in 1 .. Len(Tail(s)) : Tail(s)[i] = s[i+1]
    BY HeadTailProperties
<1>3. Len(s) > 0 /\ Len(s) - 1 \in Nat
    BY <1>1, EmptySeq
<1>4. DOMAIN Tail(s) = 1 .. Len(s) - 1
    BY <1>2, LenProperties
<1> DEFINE m == Len(s) - 1
           f == [n \in DOMAIN s |-> val[s[n]]]
           g == [n \in DOMAIN Tail(s) |-> val[Tail(s)[n]]]
<1>5. DOMAIN f = 1 .. m + 1 /\ DOMAIN g = 1 .. m /\ m \in Nat
    BY <1>1, <1>3, <1>4
<1>6. \A n \in 1 .. m + 1 : f[n] \in Int
    BY <1>1, <1>3
<1>7. \A n \in 1 .. m : g[n] = f[n + 1]
    BY <1>1, <1>2, <1>3, <1>4
<1>8. f[1] = val[Head(s)]
    BY <1>1, <1>2, <1>3
<1>9. Total(val, s) = SumFunctionOnSet(f, DOMAIN f)
      /\ Total(val, Tail(s)) = SumFunctionOnSet(g, DOMAIN g)
    BY DEF Total, SumFunction
<1> HIDE DEF f, g, m
<1>10. SumFunctionOnSet(f, 1 .. m + 1) = f[1] + SumFunctionOnSet(g, 1 .. m)
    BY <1>5, <1>6, <1>7, SumShifts, ZenonT(30)
<1> QED
    BY <1>5, <1>8, <1>9, <1>10

\* An element put before the others.
LEMMA TotalOfPrepended ==
    ASSUME NEW E, NEW val \in [E -> Int], NEW s \in Seq(E), NEW e \in E
    PROVE  Total(val, <<e>> \o s) = val[e] + Total(val, s)
<1> DEFINE t == <<e>> \o s
<1>1. <<e>> \in Seq(E) /\ Len(<<e>>) = 1 /\ <<e>>[1] = e
    OBVIOUS
<1>2. /\ t \in Seq(E) /\ Len(t) = 1 + Len(s)
      /\ \A i \in 1 .. 1 + Len(s) : t[i] = IF i <= 1 THEN e ELSE s[i - 1]
    BY <1>1, ConcatProperties
<1>3. Len(s) \in Nat
    BY LenProperties
<1>4. t # <<>>
    BY <1>2, <1>3, EmptySeq
<1> HIDE DEF t
<1>5. Head(t) = e
    BY <1>2, <1>3
<1>6. Tail(t) = s
    <2>1. /\ Tail(t) \in Seq(E) /\ Len(Tail(t)) = Len(s)
          /\ \A i \in 1 .. Len(Tail(t)) : Tail(t)[i] = t[i+1]
        BY <1>2, <1>3, <1>4, HeadTailProperties
    <2>2. \A i \in 1 .. Len(Tail(t)) : Tail(t)[i] = s[i]
        BY <1>2, <1>3, <2>1, SMTT(30)
    <2> QED
        BY <2>1, <2>2, SeqEqual
<1> QED
    BY <1>2, <1>4, <1>5, <1>6, TotalOfTail DEF t

\* An element put behind the others.
LEMMA TotalOfAppended ==
    ASSUME NEW E, NEW val \in [E -> Int], NEW s \in Seq(E), NEW e \in E
    PROVE  Total(val, Append(s, e)) = Total(val, s) + val[e]
<1> DEFINE t == Append(s, e)
           m == Len(s)
           f == [n \in DOMAIN s |-> val[s[n]]]
           g == [n \in DOMAIN t |-> val[t[n]]]
<1>1. /\ DOMAIN s = 1 .. m /\ m \in Nat /\ \A n \in 1 .. m : s[n] \in E
    BY LenProperties, ElementOfSeq
<1>2. /\ t \in Seq(E) /\ Len(t) = m + 1 /\ t[m + 1] = e
      /\ \A n \in 1 .. m : t[n] = s[n]
    BY AppendProperties
<1>3. DOMAIN t = 1 .. m + 1
    BY <1>2, LenProperties
<1> HIDE DEF t
<1>4. /\ \A n \in 1 .. m + 1 : g[n] \in Int
      /\ \A n \in 1 .. m : f[n] = g[n]
      /\ g[m + 1] = val[e] /\ DOMAIN f = 1 .. m /\ DOMAIN g = 1 .. m + 1
    BY <1>1, <1>2, <1>3
<1>5. Total(val, s) = SumFunctionOnSet(f, DOMAIN f) /\ Total(val, t) = SumFunctionOnSet(g, DOMAIN g)
    BY DEF Total, SumFunction
<1>6. m \in Nat
    BY <1>1
<1> HIDE DEF f, g, m
<1>7. SumFunctionOnSet(g, 1 .. m + 1) = SumFunctionOnSet(g, 1 .. m) + g[m + 1]
    BY <1>4, <1>6, SumOfLast
<1>8. SumFunctionOnSet(f, 1 .. m) = SumFunctionOnSet(g, 1 .. m)
    <2> DEFINE I == 1 .. m
    <2>1. IsFiniteSet(I) /\ \A n \in I : f[n] = g[n]
        BY <1>4, <1>6, FS_Interval
    <2> HIDE DEF I
    <2>2. SumFunctionOnSet(f, I) = SumFunctionOnSet(g, I)
        BY <2>1, SumEqual
    <2> QED
        BY <2>2 DEF I
<1>9. Total(val, t) = Total(val, s) + val[e]
    BY <1>4, <1>5, <1>7, <1>8
<1> QED
    BY <1>9 DEF t

\* Elements that are worth nothing, or not less than nothing.
LEMMA TotalOfZeroes ==
    ASSUME NEW E, NEW val, NEW s \in Seq(E), \A n \in DOMAIN s : val[s[n]] = 0
    PROVE  Total(val, s) = 0
<1>1. IsFiniteSet(DOMAIN s)
    BY LenProperties, FS_Interval
<1> DEFINE f == [n \in DOMAIN s |-> val[s[n]]]
<1>2. \A n \in DOMAIN s : f[n] = 0
    OBVIOUS
<1>3. DOMAIN f = DOMAIN s
    OBVIOUS
<1>4. SumFunctionOnSet(f, DOMAIN s) = 0
    <2> HIDE DEF f
    <2> QED
        BY <1>1, <1>2, SumOfZeroes
<1> QED
    BY <1>3, <1>4 DEF Total, SumFunction

\* A sequence that is worth nothing, though none of it is worth less.
LEMMA TotalIsNatural ==
    ASSUME NEW E, NEW val \in [E -> Nat], NEW s \in Seq(E)
    PROVE  /\ Total(val, s) \in Nat
           /\ Total(val, s) = 0 => \A n \in DOMAIN s : val[s[n]] = 0
<1>1. DOMAIN s = 1 .. Len(s) /\ Len(s) \in Nat /\ \A n \in 1 .. Len(s) : s[n] \in E
    BY LenProperties, ElementOfSeq
<1>2. IsFiniteSet(DOMAIN s)
    BY <1>1, FS_Interval
<1> DEFINE f == [n \in DOMAIN s |-> val[s[n]]]
           D == DOMAIN s
<1>3. \A n \in D : f[n] \in Nat
    BY <1>1
<1>4. DOMAIN f = D
    OBVIOUS
<1>5. Total(val, s) = SumFunctionOnSet(f, D)
    BY DEF Total, SumFunction
<1>6. \A T \in SUBSET D : SumFunctionOnSet(f, T) \in Nat
    <2> SUFFICES ASSUME NEW T \in SUBSET D PROVE SumFunctionOnSet(f, T) \in Nat
        OBVIOUS
    <2> DEFINE z == [n \in D |-> 0]
    <2>1. IsFiniteSet(T)
        BY <1>2, FS_Subset
    <2>2. \A n \in T : z[n] \in Int /\ f[n] \in Int /\ z[n] <= f[n] /\ z[n] = 0
        BY <1>3
    <2> HIDE DEF z, f
    <2>3. SumFunctionOnSet(z, T) <= SumFunctionOnSet(f, T) /\ SumFunctionOnSet(z, T) = 0
        BY <2>1, <2>2, SumIsMonotone, SumOfZeroes
    <2>4. SumFunctionOnSet(f, T) \in Int
        BY <2>1, <2>2, SumIsInt
    <2> QED
        BY <2>3, <2>4
<1>7. ASSUME NEW n \in D, f[n] # 0 PROVE SumFunctionOnSet(f, D) # 0
    <2>1. SumFunctionOnSet(f, D) = f[n] + SumFunctionOnSet(f, D \ {n})
        <3>1. \A x \in D : f[x] \in Int
            BY <1>3
        <3> HIDE DEF f
        <3> QED
            BY <1>2, <3>1, SumOfOne
    <2>2. SumFunctionOnSet(f, D \ {n}) \in Nat
        <3>1. D \ {n} \in SUBSET D
            OBVIOUS
        <3> HIDE DEF f, D
        <3> QED
            BY <1>6, <3>1
    <2>3. f[n] \in Nat
        BY <1>3
    <2> HIDE DEF f, D
    <2> QED
        BY <1>7, <2>1, <2>2, <2>3
<1>8. SumFunctionOnSet(f, D) \in Nat
    <2> HIDE DEF f, D
    <2> QED
        BY <1>6
<1> QED
    BY <1>5, <1>7, <1>8
-----------------------------------------------------------------------------
(* Lines that wait in a queue of jobs, and those that agents still have to *)
(* process, by what each line is worth.                                    *)

\* The worth of the lines in the queue, and of those with the agents.
Waiting(val, queue) == SumFunction([n \in DOMAIN queue |-> Total(val, queue[n].lines)])
Running(val, todo) == SumFunction([a \in DOMAIN todo |-> Total(val, todo[a])])

\* The queue is a sequence of jobs that are worth what their lines are worth.
LEMMA WaitingIsTotal ==
    ASSUME NEW L, NEW val, NEW J,
           NEW worth, \A j \in J : worth[j] = Total(val, j.lines)
    PROVE  \A queue \in Seq(J) : Waiting(val, queue) = Total(worth, queue)
<1>1. ASSUME NEW queue \in Seq(J)
      PROVE  Waiting(val, queue) = Total(worth, queue)
    <2>1. \A n \in DOMAIN queue : queue[n] \in J
        BY LenProperties, ElementOfSeq
    <2>2. \A n \in DOMAIN queue : worth[queue[n]] = Total(val, queue[n].lines)
        BY <2>1
    <2>3. [n \in DOMAIN queue |-> Total(val, queue[n].lines)]
            = [n \in DOMAIN queue |-> worth[queue[n]]]
        BY <2>2
    <2> QED
        BY <2>3 DEF Waiting, Total
<1> QED
    BY <1>1

\* What joins the queue at its end or at its head, or leaves it.
LEMMA WaitingChanges ==
    ASSUME NEW L, NEW val \in [L -> Int],
           NEW J, \A j \in J : j.lines \in Seq(L), NEW queue \in Seq(J)
    PROVE  /\ Waiting(val, queue) \in Int
           /\ \A j \in J :
                 /\ Waiting(val, Append(queue, j)) = Waiting(val, queue) + Total(val, j.lines)
                 /\ Waiting(val, <<j>> \o queue) = Waiting(val, queue) + Total(val, j.lines)
                 /\ Total(val, j.lines) \in Int
           /\ queue # <<>> =>
                 Waiting(val, queue) = Waiting(val, Tail(queue)) + Total(val, Head(queue).lines)
<1> DEFINE worth == [j \in J |-> Total(val, j.lines)]
<1>1. \A j \in J : worth[j] = Total(val, j.lines)
    OBVIOUS
<1>2. worth \in [J -> Int]
    BY TotalIsInt
<1> HIDE DEF worth
<1>3. \A q \in Seq(J) : Waiting(val, q) = Total(worth, q)
    BY <1>1, WaitingIsTotal
<1>4. Waiting(val, queue) \in Int
    BY <1>2, <1>3, TotalIsInt
<1>5. ASSUME NEW j \in J
      PROVE  /\ Waiting(val, Append(queue, j)) = Waiting(val, queue) + Total(val, j.lines)
             /\ Waiting(val, <<j>> \o queue) = Waiting(val, queue) + Total(val, j.lines)
             /\ Total(val, j.lines) \in Int
    <2>1. Append(queue, j) \in Seq(J) /\ <<j>> \o queue \in Seq(J)
        <3>1. <<j>> \in Seq(J)
            OBVIOUS
        <3> QED
            BY <3>1, AppendProperties, ConcatProperties
    <2>2. /\ Total(worth, Append(queue, j)) = Total(worth, queue) + worth[j]
          /\ Total(worth, <<j>> \o queue) = worth[j] + Total(worth, queue)
        BY <1>2, TotalOfAppended, TotalOfPrepended
    <2>3. worth[j] \in Int /\ worth[j] = Total(val, j.lines)
        BY <1>1, <1>2
    <2>4. /\ Waiting(val, Append(queue, j)) = Waiting(val, queue) + worth[j]
          /\ Waiting(val, <<j>> \o queue) = worth[j] + Waiting(val, queue)
        BY <1>3, <2>1, <2>2, Zenon
    <2> QED
        BY <1>4, <2>3, <2>4
<1>6. ASSUME queue # <<>>
      PROVE  Waiting(val, queue) = Waiting(val, Tail(queue)) + Total(val, Head(queue).lines)
    <2>1. Tail(queue) \in Seq(J) /\ Head(queue) \in J
        BY <1>6, HeadTailProperties
    <2>2. Total(worth, queue) = worth[Head(queue)] + Total(worth, Tail(queue))
        BY <1>2, <1>6, TotalOfTail
    <2>3. /\ Total(worth, Tail(queue)) \in Int /\ worth[Head(queue)] \in Int
          /\ worth[Head(queue)] = Total(val, Head(queue).lines)
        BY <1>1, <1>2, <2>1, TotalIsInt
    <2>4. /\ Waiting(val, queue) = Total(worth, queue)
          /\ Waiting(val, Tail(queue)) = Total(worth, Tail(queue))
        BY <1>3, <2>1, Zenon
    <2> QED
        BY <2>2, <2>3, <2>4
<1> QED
    BY <1>4, <1>5, <1>6

\* A natural worth of every line makes a natural worth of the queue.
LEMMA WaitingIsNatural ==
    ASSUME NEW L, NEW val \in [L -> Nat],
           NEW J, \A j \in J : j.lines \in Seq(L), NEW queue \in Seq(J)
    PROVE  Waiting(val, queue) \in Nat
<1> DEFINE worth == [j \in J |-> Total(val, j.lines)]
<1>1. \A j \in J : worth[j] = Total(val, j.lines)
    OBVIOUS
<1>2. worth \in [J -> Nat]
    BY TotalIsNatural
<1> HIDE DEF worth
<1>3. Waiting(val, queue) = Total(worth, queue)
    BY <1>1, WaitingIsTotal
<1> QED
    BY <1>2, <1>3, TotalIsNatural

\* Integers again.
LEMMA RunningIsInt ==
    ASSUME NEW A, IsFiniteSet(A), NEW L, NEW val \in [L -> Int], NEW todo \in [A -> Seq(L)]
    PROVE  Running(val, todo) \in Int
<1> DEFINE g == [a \in A |-> Total(val, todo[a])]
<1>1. \A a \in A : g[a] \in Int
    BY TotalIsInt
<1>2. Running(val, todo) = SumFunctionOnSet(g, A)
    BY DEF Running, SumFunction
<1> HIDE DEF g
<1> QED
    BY <1>1, <1>2, SumIsInt

\* Only agent a gets other lines.
OneMoves(A, L, todo, a, t) ==
    /\ todo \in [A -> Seq(L)] /\ t \in [A -> Seq(L)]
    /\ a \in A /\ \A b \in A \ {a} : t[b] = todo[b]

\* What the agents have left changes by what one of them gets and loses.
LEMMA RunningChanges ==
    ASSUME NEW A, IsFiniteSet(A), NEW L, NEW val \in [L -> Int], NEW todo, NEW a, NEW t, OneMoves(A, L, todo, a, t)
    PROVE  /\ Total(val, t[a]) \in Int /\ Total(val, todo[a]) \in Int
           /\ Running(val, t) = Running(val, todo) + (Total(val, t[a]) - Total(val, todo[a]))
<1> DEFINE g == [b \in A |-> Total(val, todo[b])]
           h == [b \in A |-> Total(val, t[b])]
<1>a. todo \in [A -> Seq(L)] /\ t \in [A -> Seq(L)] /\ a \in A /\ \A b \in A \ {a} : t[b] = todo[b]
    BY DEF OneMoves
<1>1. \A s \in Seq(L) : Total(val, s) \in Int
    BY TotalIsInt
<1>2. Running(val, t) = SumFunctionOnSet(h, A) /\ Running(val, todo) = SumFunctionOnSet(g, A)
    BY <1>a DEF Running, SumFunction
<1>3. /\ \A b \in A : g[b] \in Int /\ h[b] \in Int
      /\ \A b \in A \ {a} : g[b] = h[b]
      /\ g[a] = Total(val, todo[a]) /\ h[a] = Total(val, t[a])
    BY <1>1, <1>a
<1> HIDE DEF g, h
<1>4. SumFunctionOnSet(h, A) = SumFunctionOnSet(g, A) + (h[a] - g[a])
    BY <1>3, <1>a, SumChangesByOne
<1> QED
    BY <1>1, <1>2, <1>3, <1>4, <1>a

\* Nothing is left when no agent has a line.
LEMMA RunningNothing ==
    ASSUME NEW A, IsFiniteSet(A), NEW val, NEW todo, DOMAIN todo = A,
           \A a \in A : todo[a] = <<>>
    PROVE  Running(val, todo) = 0
<1> DEFINE g == [a \in A |-> Total(val, todo[a])]
<1>1. \A a \in A : g[a] = 0
    BY TotalEmpty
<1>2. Running(val, todo) = SumFunctionOnSet(g, A)
    BY DEF Running, SumFunction
<1> HIDE DEF g
<1> QED
    BY <1>1, <1>2, SumOfZeroes

\* A natural worth of every line makes a natural worth of all that is left.
LEMMA RunningIsNatural ==
    ASSUME NEW A, IsFiniteSet(A), NEW L, NEW val \in [L -> Nat], NEW todo \in [A -> Seq(L)]
    PROVE  Running(val, todo) \in Nat
<1> DEFINE g == [a \in A |-> Total(val, todo[a])]
           z == [a \in A |-> 0]
<1>1. \A a \in A : g[a] \in Nat
    BY TotalIsNatural
<1>2. Running(val, todo) = SumFunctionOnSet(g, A)
    BY DEF Running, SumFunction
<1>3. \A a \in A : z[a] = 0
    OBVIOUS
<1> HIDE DEF g, z
<1>4. SumFunctionOnSet(z, A) <= SumFunctionOnSet(g, A) /\ SumFunctionOnSet(z, A) = 0
    BY <1>1, <1>3, SumIsMonotone, SumOfZeroes, SMTT(30)
<1>5. SumFunctionOnSet(g, A) \in Int
    BY <1>1, SumIsInt
<1> QED
    BY <1>2, <1>4, <1>5

\* The worth of all of them.
Outstanding(val, queue, todo) == Waiting(val, queue) + Running(val, todo)

\* The lines of jobs that wait, and those that agents still have to process.
Lines(A, L, J, queue, todo) ==
    /\ IsFiniteSet(A) /\ \A j \in J : j.lines \in Seq(L)
    /\ queue \in Seq(J) /\ todo \in [A -> Seq(L)]

\* The next lemmas say what is outstanding when an agent gets other lines or is
\* done with one, and when a job changes hands or joins the queue.
LEMMA OutstandingIsInt ==
    ASSUME NEW A, NEW L, NEW val \in [L -> Int], NEW J, NEW queue, NEW todo,
           Lines(A, L, J, queue, todo)
    PROVE  Outstanding(val, queue, todo) \in Int
<1>l. /\ IsFiniteSet(A) /\ \A j \in J : j.lines \in Seq(L)
      /\ queue \in Seq(J) /\ todo \in [A -> Seq(L)]
    BY DEF Lines
<1>1. Waiting(val, queue) \in Int /\ Running(val, todo) \in Int
    BY <1>l, WaitingChanges, RunningIsInt
<1> QED
    BY <1>l, <1>1 DEF Outstanding

\* An agent gets other lines.
LEMMA OutstandingWhenGiven ==
    ASSUME NEW A, NEW L, NEW val \in [L -> Int], NEW J, NEW queue, NEW todo,
           Lines(A, L, J, queue, todo), NEW a, NEW t, OneMoves(A, L, todo, a, t)
    PROVE  /\ Total(val, t[a]) \in Int /\ Total(val, todo[a]) \in Int
           /\ Outstanding(val, queue, t)
                = Outstanding(val, queue, todo) + (Total(val, t[a]) - Total(val, todo[a]))
<1>l. /\ IsFiniteSet(A) /\ \A j \in J : j.lines \in Seq(L)
      /\ queue \in Seq(J) /\ todo \in [A -> Seq(L)]
    BY DEF Lines
<1>a. todo \in [A -> Seq(L)] /\ t \in [A -> Seq(L)] /\ a \in A
    BY DEF OneMoves
<1>1. /\ Total(val, t[a]) \in Int /\ Total(val, todo[a]) \in Int
      /\ Running(val, t) = Running(val, todo) + (Total(val, t[a]) - Total(val, todo[a]))
    BY <1>l, RunningChanges
<1>2. Waiting(val, queue) \in Int /\ Running(val, todo) \in Int
    BY <1>l, <1>a, WaitingChanges, RunningIsInt
<1> QED
    BY <1>l, <1>1, <1>2 DEF Outstanding

\* An agent is done with its first line.
LEMMA OutstandingWhenDone ==
    ASSUME NEW A, NEW L, NEW val \in [L -> Int], NEW J, NEW queue, NEW todo,
           Lines(A, L, J, queue, todo), NEW a, NEW t, OneMoves(A, L, todo, a, t),
           todo[a] # <<>>, t[a] = Tail(todo[a])
    PROVE  Outstanding(val, queue, t) = Outstanding(val, queue, todo) - val[Head(todo[a])]
<1>l. /\ IsFiniteSet(A) /\ \A j \in J : j.lines \in Seq(L)
      /\ queue \in Seq(J) /\ todo \in [A -> Seq(L)]
    BY DEF Lines
<1>a. todo \in [A -> Seq(L)] /\ t \in [A -> Seq(L)] /\ a \in A
    BY DEF OneMoves
<1>1. Tail(todo[a]) \in Seq(L) /\ Head(todo[a]) \in L
    BY <1>l, <1>a, HeadTailProperties
<1>2. Total(val, todo[a]) = val[Head(todo[a])] + Total(val, Tail(todo[a]))
    BY <1>l, <1>a, TotalOfTail
<1>3. /\ Total(val, t[a]) \in Int
      /\ Outstanding(val, queue, t)
           = Outstanding(val, queue, todo) + (Total(val, t[a]) - Total(val, todo[a]))
    BY <1>l, OutstandingWhenGiven
<1>4. val[Head(todo[a])] \in Int /\ Outstanding(val, queue, todo) \in Int
    BY <1>l, <1>a, <1>1, OutstandingIsInt
<1> QED
    BY <1>l, <1>2, <1>3, <1>4

\* An idle agent takes the lines of the first job.
LEMMA OutstandingWhenTaken ==
    ASSUME NEW A, NEW L, NEW val \in [L -> Int], NEW J, NEW queue, NEW todo,
           Lines(A, L, J, queue, todo), NEW a, NEW t, OneMoves(A, L, todo, a, t),
           todo[a] = <<>>, queue # <<>>, t[a] = Head(queue).lines
    PROVE  Outstanding(val, Tail(queue), t) = Outstanding(val, queue, todo)
<1>l. /\ IsFiniteSet(A) /\ \A j \in J : j.lines \in Seq(L)
      /\ queue \in Seq(J) /\ todo \in [A -> Seq(L)]
    BY DEF Lines
<1>a. todo \in [A -> Seq(L)] /\ t \in [A -> Seq(L)] /\ a \in A
    BY DEF OneMoves
<1>1. Tail(queue) \in Seq(J) /\ Head(queue) \in J
    BY <1>l, <1>a, HeadTailProperties
<1>2. Waiting(val, queue) = Waiting(val, Tail(queue)) + Total(val, Head(queue).lines)
    BY <1>l, WaitingChanges
<1>3. Waiting(val, Tail(queue)) \in Int
    BY <1>l, <1>1, WaitingChanges
<1>4. Total(val, todo[a]) = 0
    BY <1>l, <1>a, TotalEmpty
<1>5. /\ Total(val, t[a]) \in Int
      /\ Running(val, t) = Running(val, todo) + (Total(val, t[a]) - Total(val, todo[a]))
    BY <1>l, RunningChanges
<1>6. Running(val, todo) \in Int
    BY <1>l, <1>a, RunningIsInt
<1> QED
    BY <1>l, <1>2, <1>3, <1>4, <1>5, <1>6 DEF Outstanding

\* A job joins the queue, at its end or at its head.
LEMMA OutstandingWhenAdded ==
    ASSUME NEW A, NEW L, NEW val \in [L -> Int], NEW J, NEW queue, NEW todo,
           Lines(A, L, J, queue, todo),
           NEW j \in J, NEW q, q = Append(queue, j) \/ q = <<j>> \o queue
    PROVE  /\ Total(val, j.lines) \in Int
           /\ Outstanding(val, q, todo) = Outstanding(val, queue, todo) + Total(val, j.lines)
<1>l. /\ IsFiniteSet(A) /\ \A i \in J : i.lines \in Seq(L)
      /\ queue \in Seq(J) /\ todo \in [A -> Seq(L)]
    BY DEF Lines
<1>1. /\ Waiting(val, queue) \in Int
      /\ \A i \in J :
            /\ Waiting(val, Append(queue, i)) = Waiting(val, queue) + Total(val, i.lines)
            /\ Waiting(val, <<i>> \o queue) = Waiting(val, queue) + Total(val, i.lines)
            /\ Total(val, i.lines) \in Int
    BY <1>l, WaitingChanges
<1>2. Running(val, todo) \in Int
    BY <1>l, RunningIsInt
<1>3. /\ Waiting(val, q) = Waiting(val, queue) + Total(val, j.lines)
      /\ Total(val, j.lines) \in Int
    BY <1>l, <1>1
<1> QED
    BY <1>l, <1>1, <1>2, <1>3 DEF Outstanding

\* What waits and what agents still have to process add up separately.
LEMMA OutstandingAddsUp ==
    ASSUME NEW A, NEW L, NEW val \in [L -> Int], NEW J, NEW queue, NEW todo, NEW q, NEW t,
           Lines(A, L, J, queue, todo), Lines(A, L, J, q, t)
    PROVE  /\ Outstanding(val, q, t) = Outstanding(val, q, todo)
                 + (Outstanding(val, queue, t) - Outstanding(val, queue, todo))
           /\ Outstanding(val, q, todo) \in Int /\ Outstanding(val, queue, t) \in Int
<1>1. /\ IsFiniteSet(A) /\ \A j \in J : j.lines \in Seq(L)
      /\ queue \in Seq(J) /\ todo \in [A -> Seq(L)] /\ q \in Seq(J) /\ t \in [A -> Seq(L)]
    BY DEF Lines
<1>2. Waiting(val, queue) \in Int
    BY <1>1, WaitingChanges
<1>3. Waiting(val, q) \in Int
    BY <1>1, WaitingChanges
<1>4. Running(val, todo) \in Int /\ Running(val, t) \in Int
    BY <1>1, RunningIsInt
<1> QED
    BY <1>2, <1>3, <1>4 DEF Outstanding

\* Nothing is outstanding when nothing waits and nobody has a line left.
LEMMA NothingOutstanding ==
    ASSUME NEW A, IsFiniteSet(A), NEW val, NEW todo, DOMAIN todo = A,
           \A a \in A : todo[a] = <<>>
    PROVE  Outstanding(val, <<>>, todo) = 0
<1>1. Waiting(val, <<>>) = 0
    BY SumEmpty DEF Waiting, SumFunction
<1>2. Running(val, todo) = 0
    BY RunningNothing
<1> QED
    BY <1>1, <1>2 DEF Outstanding

\* Lines that are worth something leave something outstanding.
LEMMA OutstandingIsNatural ==
    ASSUME NEW A, IsFiniteSet(A), NEW L, NEW val \in [L -> Nat],
           NEW J, \A j \in J : j.lines \in Seq(L), NEW queue \in Seq(J),
           NEW todo \in [A -> Seq(L)]
    PROVE  Outstanding(val, queue, todo) \in Nat
<1>1. Waiting(val, queue) \in Nat
    BY WaitingIsNatural
<1>2. Running(val, todo) \in Nat
    BY RunningIsNatural
<1> QED
    BY <1>1, <1>2 DEF Outstanding
-----------------------------------------------------------------------------
(* Jobs that wait or are held by a worker, none of them in two places.     *)

\* The jobs that wait or that a worker has, and that each request's is there once.
Held(queue, active, none) ==
    {queue[n] : n \in DOMAIN queue} \cup ({active[w] : w \in DOMAIN active} \ {none})

OnceEach(queue, active, none) ==
    /\ \A m, n \in DOMAIN queue : queue[m].id = queue[n].id => m = n
    /\ \A w, x \in DOMAIN active :
          active[w] # none /\ active[x] # none /\ active[w].id = active[x].id => w = x
    /\ \A w \in DOMAIN active, n \in DOMAIN queue :
          active[w] # none => active[w].id # queue[n].id

\* A worker takes the first job.
LEMMA HeldWhenTaken ==
    ASSUME NEW J, NEW queue \in Seq(J), queue # <<>>, NEW none, none \notin J,
           NEW active, NEW w \in DOMAIN active, active[w] = none,
           OnceEach(queue, active, none)
    PROVE  LET q == Tail(queue)
               a == [active EXCEPT ![w] = Head(queue)]
           IN  OnceEach(q, a, none) /\ Held(q, a, none) \subseteq Held(queue, active, none)
<1> DEFINE q == Tail(queue)
           a == [active EXCEPT ![w] = Head(queue)]
<1>1. /\ Head(queue) = queue[1] /\ 1 \in DOMAIN queue
      /\ DOMAIN q = 1 .. Len(queue) - 1 /\ DOMAIN queue = 1 .. Len(queue) /\ Len(queue) \in Nat
      /\ \A n \in DOMAIN q : q[n] = queue[n + 1]
    <2>1. q \in Seq(J) /\ Len(q) = Len(queue) - 1 /\ \A i \in 1 .. Len(q) : q[i] = queue[i + 1]
        BY HeadTailProperties
    <2>2. Len(queue) \in Nat \ {0} /\ DOMAIN queue = 1 .. Len(queue) /\ DOMAIN q = 1 .. Len(q)
        BY <2>1, EmptySeq, LenProperties
    <2> HIDE DEF q
    <2> QED
        BY <2>1, <2>2
<1>2. \A n \in DOMAIN q : n + 1 \in DOMAIN queue /\ n + 1 # 1 /\ n \in Nat
    BY <1>1
<1>3. DOMAIN a = DOMAIN active /\ a[w] = queue[1] /\ \A x \in DOMAIN active \ {w} : a[x] = active[x]
    BY <1>1
<1> HIDE DEF q, a
<1>4. OnceEach(q, a, none)
    <2>1. \A m, n \in DOMAIN q : q[m].id = q[n].id => m = n
        BY <1>1, <1>2 DEF OnceEach
    <2>2. \A v, x \in DOMAIN a : a[v] # none /\ a[x] # none /\ a[v].id = a[x].id => v = x
        BY <1>1, <1>3 DEF OnceEach
    <2>3. ASSUME NEW v \in DOMAIN a, NEW n \in DOMAIN q, a[v] # none
          PROVE  a[v].id # q[n].id
        BY <1>1, <1>2, <1>3, <2>3 DEF OnceEach
    <2> QED
        BY <2>1, <2>2, <2>3 DEF OnceEach
<1>5. Held(q, a, none) \subseteq Held(queue, active, none)
    BY <1>1, <1>2, <1>3 DEF Held
<1> QED
    BY <1>4, <1>5 DEF q, a

\* A worker loses its job, which nobody else has.
LEMMA HeldWhenDropped ==
    ASSUME NEW queue, NEW none, NEW active, NEW w \in DOMAIN active, active[w] # none,
           OnceEach(queue, active, none)
    PROVE  LET a == [active EXCEPT ![w] = none]
           IN  /\ OnceEach(queue, a, none)
               /\ Held(queue, a, none) \subseteq Held(queue, active, none)
               /\ \A j \in Held(queue, a, none) : j.id # active[w].id
<1> DEFINE a == [active EXCEPT ![w] = none]
<1>1. DOMAIN a = DOMAIN active /\ a[w] = none /\ \A x \in DOMAIN active \ {w} : a[x] = active[x]
    OBVIOUS
<1> HIDE DEF a
<1>2. OnceEach(queue, a, none)
    BY <1>1 DEF OnceEach
<1>3. Held(queue, a, none) \subseteq Held(queue, active, none)
    BY <1>1 DEF Held
<1>4. \A j \in Held(queue, a, none) : j.id # active[w].id
    BY <1>1 DEF OnceEach, Held
<1> QED
    BY <1>2, <1>3, <1>4 DEF a

\* A job that nobody has joins the queue.
LEMMA HeldWhenAdded ==
    ASSUME NEW J, NEW queue \in Seq(J), NEW j \in J, NEW none, NEW active,
           OnceEach(queue, active, none),
           \A i \in Held(queue, active, none) : i.id # j.id
    PROVE  /\ OnceEach(Append(queue, j), active, none)
           /\ Held(Append(queue, j), active, none) \subseteq Held(queue, active, none) \cup {j}
           /\ OnceEach(<<j>> \o queue, active, none)
           /\ Held(<<j>> \o queue, active, none) \subseteq Held(queue, active, none) \cup {j}
<1>1. \A n \in DOMAIN queue : queue[n].id # j.id
    BY DEF Held
<1>2. \A w \in DOMAIN active : active[w] # none => active[w].id # j.id
    BY DEF Held
<1>3. DOMAIN queue = 1 .. Len(queue) /\ Len(queue) \in Nat
    BY LenProperties
<1>4. ASSUME NEW q, NEW k \in DOMAIN q, q[k] = j, NEW from,
             \A n \in DOMAIN q \ {k} : from[n] \in DOMAIN queue /\ q[n] = queue[from[n]],
             \A m, n \in DOMAIN q \ {k} : from[m] = from[n] => m = n
      PROVE  /\ OnceEach(q, active, none)
             /\ Held(q, active, none) \subseteq Held(queue, active, none) \cup {j}
    <2>1. \A m, n \in DOMAIN q : q[m].id = q[n].id => m = n
        BY <1>1, <1>4 DEF OnceEach
    <2>2. \A w \in DOMAIN active, n \in DOMAIN q : active[w] # none => active[w].id # q[n].id
        BY <1>2, <1>4 DEF OnceEach
    <2>3. OnceEach(q, active, none)
        BY <2>1, <2>2 DEF OnceEach
    <2>4. Held(q, active, none) \subseteq Held(queue, active, none) \cup {j}
        BY <1>4 DEF Held
    <2> QED
        BY <2>3, <2>4
<1>5. /\ OnceEach(Append(queue, j), active, none)
      /\ Held(Append(queue, j), active, none) \subseteq Held(queue, active, none) \cup {j}
    <2> DEFINE q == Append(queue, j)
               k == Len(queue) + 1
               from == [n \in DOMAIN q |-> n]
    <2>1. /\ q \in Seq(J) /\ Len(q) = Len(queue) + 1 /\ q[Len(queue) + 1] = j
          /\ \A n \in 1 .. Len(queue) : q[n] = queue[n]
        BY AppendProperties
    <2>2. DOMAIN q = 1 .. Len(queue) + 1
        BY <2>1, LenProperties
    <2> HIDE DEF q
    <2>3. /\ k \in DOMAIN q /\ q[k] = j
          /\ \A n \in DOMAIN q \ {k} : from[n] \in DOMAIN queue /\ q[n] = queue[from[n]]
          /\ \A m, n \in DOMAIN q \ {k} : from[m] = from[n] => m = n
        BY <1>3, <2>1, <2>2
    <2> HIDE DEF k, from
    <2>4. OnceEach(q, active, none) /\ Held(q, active, none) \subseteq Held(queue, active, none) \cup {j}
        BY <1>4, <2>3
    <2> QED
        BY <2>4 DEF q
<1>6. /\ OnceEach(<<j>> \o queue, active, none)
      /\ Held(<<j>> \o queue, active, none) \subseteq Held(queue, active, none) \cup {j}
    <2> DEFINE q == <<j>> \o queue
               from == [n \in DOMAIN q |-> n - 1]
    <2>1. <<j>> \in Seq(J) /\ Len(<<j>>) = 1 /\ <<j>>[1] = j
        OBVIOUS
    <2>2. /\ q \in Seq(J) /\ Len(q) = 1 + Len(queue)
          /\ \A i \in 1 .. 1 + Len(queue) : q[i] = IF i <= 1 THEN j ELSE queue[i - 1]
        BY <2>1, ConcatProperties
    <2>3. DOMAIN q = 1 .. 1 + Len(queue)
        BY <2>2, LenProperties
    <2> HIDE DEF q
    <2>4. /\ 1 \in DOMAIN q /\ q[1] = j
          /\ \A n \in DOMAIN q \ {1} : from[n] \in DOMAIN queue /\ q[n] = queue[from[n]]
          /\ \A m, n \in DOMAIN q \ {1} : from[m] = from[n] => m = n
        BY <1>3, <2>2, <2>3
    <2> HIDE DEF from
    <2>5. OnceEach(q, active, none) /\ Held(q, active, none) \subseteq Held(queue, active, none) \cup {j}
        BY <1>4, <2>4
    <2> QED
        BY <2>5 DEF q
<1> QED
    BY <1>5, <1>6
=============================================================================
