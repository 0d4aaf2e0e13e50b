----------------------------- MODULE SumLemmas -----------------------------
(***************************************************************************)
(* Facts about sums over finite sets, which the balances, books and totals *)
(* of the other modules are: SumFunctionOnSet(f, S) is the sum of f[x] for *)
(* x in S.  It folds over the set in an order that CHOOSE picks, so what a *)
(* proof needs (that any element may be taken out first) takes induction   *)
(* over the set: a smallest counterexample is picked and refuted.          *)
(***************************************************************************)
EXTENDS Integers, FiniteSets, Functions, FiniteSetTheorems, WellFoundedInduction, TLAPS

\* Balances and amounts are integers; the totals are differences and sums of them.
LEMMA IntegersClosed ==
    /\ 0 \in Nat /\ 0 \in Int /\ \A n \in Nat : n \in Int
    /\ \A n \in Int : -n \in Int /\ n + 0 = n
    /\ \A m, n \in Int : m + n \in Int /\ m - n \in Int /\ m + (-n) = m - n
OBVIOUS

\* A set of subsets of a finite set has a smallest member.
LEMMA SmallestSubset ==
    ASSUME NEW S, IsFiniteSet(S), NEW C, C \subseteq SUBSET S, C # {}
    PROVE  \E T \in C : \A U \in C : U \subseteq T => U = T
<1>1. FiniteSubsetsOf(S) = SUBSET S
    BY FS_FiniteSubsetsOfFinite
<1>2. IsWellFoundedOn(StrictSubsetOrdering(S), SUBSET S)
    BY <1>1, FS_StrictSubsetOrderingWellFounded
<1>3. PICK T \in C : \A U \in C : ~(<<U, T>> \in StrictSubsetOrdering(S))
    BY <1>2, WFMin
<1>4. ASSUME NEW U \in C, U \subseteq T
      PROVE  U = T
    BY <1>3, <1>4 DEF StrictSubsetOrdering
<1> QED BY <1>3, <1>4

-----------------------------------------------------------------------------
(* The fold behind a sum. *)

Pick(s) == CHOOSE x \in s : TRUE

Unfolds(f, g, S) ==
    g = [s \in SUBSET S |-> IF s = {} THEN 0 ELSE f[Pick(s)] + g[s \ {Pick(s)}]]

Iter(f, S) == CHOOSE g : Unfolds(f, g, S)

\* A sum is the last value of a function that unfolds it.
LEMMA SumIsFold == ASSUME NEW f, NEW S PROVE SumFunctionOnSet(f, S) = Iter(f, S)[S]
BY DEF SumFunctionOnSet, FoldFunctionOnSet, MapThenFoldSet, Iter, Unfolds, Pick

\* What CHOOSE picks from a set is in it.
LEMMA PickInSet == ASSUME NEW s, s # {} PROVE Pick(s) \in s
BY DEF Pick

\* Two functions that unfold the sum agree where both are defined.
LEMMA UnfoldsAgree ==
    ASSUME NEW f, NEW S, IsFiniteSet(S), NEW A, NEW B, S \subseteq A, S \subseteq B,
           NEW g, Unfolds(f, g, A), NEW h, Unfolds(f, h, B)
    PROVE  g[S] = h[S]
<1> DEFINE C == {T \in SUBSET S : g[T] # h[T]}
<1> SUFFICES ASSUME C # {} PROVE FALSE
    OBVIOUS
<1>1. PICK T \in C : \A U \in C : U \subseteq T => U = T
    <2>1. C \subseteq SUBSET S
        OBVIOUS
    <2> HIDE DEF C
    <2> QED BY <2>1, SmallestSubset
<1>2. T # {}
    <2>1. g[{}] = 0 /\ h[{}] = 0
        BY DEF Unfolds
    <2> QED BY <2>1
<1>3. Pick(T) \in T
    BY <1>2, PickInSet
<1>4. T \ {Pick(T)} \notin C
    BY <1>1, <1>3
<1>5. g[T \ {Pick(T)}] = h[T \ {Pick(T)}]
    BY <1>4
<1>6. T \in SUBSET A /\ T \in SUBSET B
    OBVIOUS
<1>7. g[T] = f[Pick(T)] + g[T \ {Pick(T)}]
    BY <1>2, <1>6 DEF Unfolds
<1>8. h[T] = f[Pick(T)] + h[T \ {Pick(T)}]
    BY <1>2, <1>6 DEF Unfolds
<1> QED BY <1>5, <1>7, <1>8

\* Every finite set has a function that unfolds the sum over its subsets.
LEMMA UnfoldsExists ==
    ASSUME NEW f, NEW S, IsFiniteSet(S)
    PROVE  Unfolds(f, Iter(f, S), S)
<1> DEFINE C == {T \in SUBSET S : ~ \E g : Unfolds(f, g, T)}
<1>1. C = {}
    <2> SUFFICES ASSUME C # {} PROVE FALSE
        OBVIOUS
    <2>1. PICK T \in C : \A U \in C : U \subseteq T => U = T
        <3>1. C \subseteq SUBSET S
            OBVIOUS
        <3> HIDE DEF C
        <3> QED BY <3>1, SmallestSubset
    <2>2. ASSUME NEW U \in SUBSET T, U # T
          PROVE  Unfolds(f, Iter(f, U), U)
        <3>1. \E g : Unfolds(f, g, U)
            BY <2>1, <2>2
        <3> QED BY <3>1 DEF Iter
    <2> DEFINE P(s) == s \ {Pick(s)}
               g == [s \in SUBSET T |-> IF s = {} THEN 0 ELSE f[Pick(s)] + Iter(f, P(s))[P(s)]]
    <2>3. ASSUME NEW s \in SUBSET T, s # {}
          PROVE  g[P(s)] = Iter(f, P(s))[P(s)]
        <3>1. Pick(s) \in s
            BY <2>3, PickInSet
        <3>2. P(s) \in SUBSET T /\ P(s) # T
            BY <3>1
        <3>3. Unfolds(f, Iter(f, P(s)), P(s))
            BY <2>2, <3>2
        <3> DEFINE u == P(s)
        <3>4. CASE u = {}
            BY <3>2, <3>3, <3>4 DEF Unfolds
        <3>5. CASE u # {}
            <4>1. Pick(u) \in u
                BY <3>5, PickInSet
            <4>2. g[u] = f[Pick(u)] + Iter(f, P(u))[P(u)]
                BY <3>2, <3>5
            <4>3. Iter(f, u)[u] = f[Pick(u)] + Iter(f, u)[P(u)]
                BY <3>3, <3>5 DEF Unfolds
            <4>4. P(u) \in SUBSET T /\ P(u) # T /\ P(u) \subseteq u
                BY <3>2, <4>1
            <4>5. Unfolds(f, Iter(f, P(u)), P(u))
                BY <2>2, <4>4
            <4>6. IsFiniteSet(P(u))
                BY <4>4, FS_Subset
            <4> HIDE DEF P, g, u
            <4>7. Iter(f, P(u))[P(u)] = Iter(f, u)[P(u)]
                BY <3>3, <4>4, <4>5, <4>6, UnfoldsAgree DEF u
            <4> QED BY <4>2, <4>3, <4>7 DEF u
        <3> QED BY <3>4, <3>5
    <2>4. Unfolds(f, g, T)
        BY <2>3 DEF Unfolds
    <2> QED BY <2>1, <2>4
<1>2. \E g : Unfolds(f, g, S)
    BY <1>1
<1> QED BY <1>2 DEF Iter

-----------------------------------------------------------------------------
(* What the other modules use. *)

\* The sum over no element.
LEMMA SumEmpty == ASSUME NEW f PROVE SumFunctionOnSet(f, {}) = 0
<1>1. Unfolds(f, Iter(f, {}), {})
    BY FS_EmptySet, UnfoldsExists
<1> QED BY <1>1, SumIsFold DEF Unfolds

\* The sum is the value at the chosen element and the sum over the others.
LEMMA SumChosen ==
    ASSUME NEW f, NEW S, IsFiniteSet(S), S # {}
    PROVE  SumFunctionOnSet(f, S) = f[Pick(S)] + SumFunctionOnSet(f, S \ {Pick(S)})
<1> DEFINE U == S \ {Pick(S)}
<1>1. U \subseteq S /\ IsFiniteSet(U)
    BY FS_Subset
<1>2. Unfolds(f, Iter(f, S), S) /\ Unfolds(f, Iter(f, U), U)
    BY <1>1, UnfoldsExists
<1>3. Iter(f, S)[S] = f[Pick(S)] + Iter(f, S)[U]
    BY <1>2 DEF Unfolds
<1> HIDE DEF U
<1>4. Iter(f, S)[U] = Iter(f, U)[U]
    <2> DEFINE g == Iter(f, S)  h == Iter(f, U)
    <2>1. Unfolds(f, g, S) /\ Unfolds(f, h, U) /\ U \subseteq S /\ U \subseteq U
        BY <1>1, <1>2
    <2> HIDE DEF g, h
    <2>2. g[U] = h[U]
        BY <1>1, <2>1, UnfoldsAgree
    <2> QED BY <2>2 DEF g, h
<1> QED BY <1>3, <1>4, SumIsFold DEF U

\* The sum of integers is an integer.
LEMMA SumInt ==
    ASSUME NEW f, NEW S, IsFiniteSet(S), \A x \in S : f[x] \in Int
    PROVE  SumFunctionOnSet(f, S) \in Int
<1> DEFINE C == {T \in SUBSET S : SumFunctionOnSet(f, T) \notin Int}
<1> SUFFICES ASSUME C # {} PROVE FALSE
    OBVIOUS
<1>1. PICK T \in C : \A U \in C : U \subseteq T => U = T
    <2>1. C \subseteq SUBSET S
        OBVIOUS
    <2> HIDE DEF C
    <2> QED BY <2>1, SmallestSubset
<1>2. T # {} /\ IsFiniteSet(T)
    <2>1. SumFunctionOnSet(f, {}) = 0
        BY SumEmpty
    <2>2. T # {}
        BY <2>1
    <2> QED BY <2>2, FS_Subset
<1>3. Pick(T) \in T
    BY <1>2, PickInSet
<1>4. SumFunctionOnSet(f, T \ {Pick(T)}) \in Int
    BY <1>1, <1>3
<1>5. f[Pick(T)] \in Int
    BY <1>3
<1> QED BY <1>2, <1>4, <1>5, SumChosen

\* Any element may be taken out first.
LEMMA SumRemove ==
    ASSUME NEW f, NEW S, IsFiniteSet(S), \A x \in S : f[x] \in Int, NEW x \in S
    PROVE  SumFunctionOnSet(f, S) = f[x] + SumFunctionOnSet(f, S \ {x})
<1> DEFINE Out(T, y) == SumFunctionOnSet(f, T) = f[y] + SumFunctionOnSet(f, T \ {y})
           C == {T \in SUBSET S : ~ \A y \in T : Out(T, y)}
<1> SUFFICES ASSUME C # {} PROVE FALSE
    OBVIOUS
<1>1. PICK T \in C : \A U \in C : U \subseteq T => U = T
    <2>1. C \subseteq SUBSET S
        OBVIOUS
    <2> HIDE DEF C
    <2> QED BY <2>1, SmallestSubset
<1>2. PICK y \in T : ~Out(T, y)
    OBVIOUS
<1> DEFINE p == Pick(T)
<1>3. p \in T
    BY <1>2, PickInSet
<1>4. /\ IsFiniteSet(T) /\ IsFiniteSet(T \ {p}) /\ IsFiniteSet(T \ {y})
      /\ IsFiniteSet((T \ {p}) \ {y})
    BY FS_Subset
<1>5. SumFunctionOnSet(f, T) = f[p] + SumFunctionOnSet(f, T \ {p})
    BY <1>2, <1>4, SumChosen
<1>6. y # p
    BY <1>2, <1>5
<1>7. Out(T \ {p}, y)
    <2>1. T \ {p} \notin C
        BY <1>1, <1>3
    <2> QED BY <2>1, <1>6
<1>8. Out(T \ {y}, p)
    <2>1. T \ {y} \notin C
        BY <1>1, <1>2
    <2> QED BY <2>1, <1>3, <1>6
<1>9. (T \ {p}) \ {y} = (T \ {y}) \ {p}
    OBVIOUS
<1>10. f[p] \in Int /\ f[y] \in Int /\ SumFunctionOnSet(f, (T \ {p}) \ {y}) \in Int
    <2>1. \A z \in (T \ {p}) \ {y} : f[z] \in Int
        OBVIOUS
    <2> QED BY <1>3, <1>4, <2>1, SumInt
<1> QED
    <2>1. SumFunctionOnSet(f, T) = f[p] + (f[y] + SumFunctionOnSet(f, (T \ {p}) \ {y}))
        BY <1>5, <1>7
    <2>2. SumFunctionOnSet(f, T \ {y}) = f[p] + SumFunctionOnSet(f, (T \ {p}) \ {y})
        BY <1>8, <1>9
    <2>3. Out(T, y)
        BY <2>1, <2>2, <1>10
    <2> QED BY <1>2, <2>3

\* One element more.
LEMMA SumAdd ==
    ASSUME NEW f, NEW S, IsFiniteSet(S), NEW x, x \notin S, f[x] \in Int, \A y \in S : f[y] \in Int
    PROVE  SumFunctionOnSet(f, S \cup {x}) = SumFunctionOnSet(f, S) + f[x]
<1>1. (S \cup {x}) \ {x} = S /\ IsFiniteSet(S \cup {x})
    BY FS_AddElement
<1>2. SumFunctionOnSet(f, S \cup {x}) = f[x] + SumFunctionOnSet(f, S)
    BY <1>1, SumRemove
<1>3. SumFunctionOnSet(f, S) \in Int
    BY SumInt
<1> QED BY <1>2, <1>3

\* The sum depends on the values on the set only.
LEMMA SumSame ==
    ASSUME NEW f, NEW g, NEW S, IsFiniteSet(S), \A x \in S : f[x] = g[x]
    PROVE  SumFunctionOnSet(f, S) = SumFunctionOnSet(g, S)
<1> DEFINE C == {T \in SUBSET S : SumFunctionOnSet(f, T) # SumFunctionOnSet(g, T)}
<1> SUFFICES ASSUME C # {} PROVE FALSE
    OBVIOUS
<1>1. PICK T \in C : \A U \in C : U \subseteq T => U = T
    <2>1. C \subseteq SUBSET S
        OBVIOUS
    <2> HIDE DEF C
    <2> QED BY <2>1, SmallestSubset
<1>2. T # {} /\ IsFiniteSet(T)
    BY SumEmpty, FS_Subset
<1>3. Pick(T) \in T
    BY <1>2, PickInSet
<1>4. SumFunctionOnSet(f, T \ {Pick(T)}) = SumFunctionOnSet(g, T \ {Pick(T)})
    BY <1>1, <1>3
<1>5. f[Pick(T)] = g[Pick(T)]
    BY <1>3
<1> QED BY <1>2, <1>4, <1>5, SumChosen

\* The sum after the value at one element changed.
LEMMA SumChange ==
    ASSUME NEW f, NEW g, NEW S, IsFiniteSet(S), NEW x \in S,
           \A y \in S : f[y] \in Int /\ g[y] \in Int,
           \A y \in S \ {x} : g[y] = f[y]
    PROVE  SumFunctionOnSet(g, S) = SumFunctionOnSet(f, S) - f[x] + g[x]
<1>1. IsFiniteSet(S \ {x})
    BY FS_Subset
<1>2. SumFunctionOnSet(f, S \ {x}) = SumFunctionOnSet(g, S \ {x})
    BY <1>1, SumSame
<1>3. SumFunctionOnSet(f, S \ {x}) \in Int
    BY <1>1, SumInt
<1>4. SumFunctionOnSet(f, S) = f[x] + SumFunctionOnSet(f, S \ {x})
    BY SumRemove
<1>5. SumFunctionOnSet(g, S) = g[x] + SumFunctionOnSet(g, S \ {x})
    BY SumRemove
<1> QED BY <1>2, <1>3, <1>4, <1>5

\* Smaller values, smaller sum.
LEMMA SumMonotone ==
    ASSUME NEW f, NEW g, NEW S, IsFiniteSet(S),
           \A x \in S : f[x] \in Int /\ g[x] \in Int /\ f[x] <= g[x]
    PROVE  SumFunctionOnSet(f, S) <= SumFunctionOnSet(g, S)
<1> DEFINE C == {T \in SUBSET S : ~(SumFunctionOnSet(f, T) <= SumFunctionOnSet(g, T))}
<1> SUFFICES ASSUME C # {} PROVE FALSE
    OBVIOUS
<1>1. PICK T \in C : \A U \in C : U \subseteq T => U = T
    <2>1. C \subseteq SUBSET S
        OBVIOUS
    <2> HIDE DEF C
    <2> QED BY <2>1, SmallestSubset
<1>2. T # {} /\ IsFiniteSet(T)
    <2>1. SumFunctionOnSet(f, {}) = 0 /\ SumFunctionOnSet(g, {}) = 0
        BY SumEmpty
    <2>2. T # {}
        BY <2>1
    <2> QED BY <2>2, FS_Subset
<1> DEFINE p == Pick(T)  U == T \ {p}
<1>3. p \in T
    BY <1>2, PickInSet
<1>4. SumFunctionOnSet(f, U) <= SumFunctionOnSet(g, U)
    BY <1>1, <1>3
<1>5. f[p] \in Int /\ g[p] \in Int /\ f[p] <= g[p]
    BY <1>3
<1>6. IsFiniteSet(U) /\ \A x \in U : f[x] \in Int /\ g[x] \in Int
    BY FS_Subset
<1>7. SumFunctionOnSet(f, U) \in Int /\ SumFunctionOnSet(g, U) \in Int
    BY <1>6, SumInt
<1>8. SumFunctionOnSet(f, T) = f[p] + SumFunctionOnSet(f, U)
    BY <1>2, SumChosen
<1>9. SumFunctionOnSet(g, T) = g[p] + SumFunctionOnSet(g, U)
    BY <1>2, SumChosen
<1> QED BY <1>4, <1>5, <1>7, <1>8, <1>9

\* The sum of natural numbers is a natural number, and no term exceeds it.
LEMMA SumNat ==
    ASSUME NEW f, NEW S, IsFiniteSet(S), \A x \in S : f[x] \in Nat
    PROVE  /\ SumFunctionOnSet(f, S) \in Nat
           /\ \A x \in S : f[x] <= SumFunctionOnSet(f, S)
<1> DEFINE C == {T \in SUBSET S : SumFunctionOnSet(f, T) \notin Nat}
<1>1. C = {}
    <2> SUFFICES ASSUME C # {} PROVE FALSE
        OBVIOUS
    <2>1. PICK T \in C : \A U \in C : U \subseteq T => U = T
        <3>1. C \subseteq SUBSET S
            OBVIOUS
        <3> HIDE DEF C
        <3> QED BY <3>1, SmallestSubset
    <2>2. T # {} /\ IsFiniteSet(T)
        <3>1. SumFunctionOnSet(f, {}) = 0
            BY SumEmpty
        <3>2. T # {}
            BY <3>1
        <3> QED BY <3>2, FS_Subset
    <2>3. Pick(T) \in T
        BY <2>2, PickInSet
    <2>4. SumFunctionOnSet(f, T \ {Pick(T)}) \in Nat
        BY <2>1, <2>3
    <2>5. f[Pick(T)] \in Nat
        BY <2>3
    <2> QED BY <2>2, <2>4, <2>5, SumChosen
<1>2. ASSUME NEW T \in SUBSET S PROVE SumFunctionOnSet(f, T) \in Nat
    BY <1>1
<1>3. ASSUME NEW x \in S PROVE f[x] <= SumFunctionOnSet(f, S)
    <2>1. SumFunctionOnSet(f, S \ {x}) \in Nat
        BY <1>2
    <2>2. SumFunctionOnSet(f, S) = f[x] + SumFunctionOnSet(f, S \ {x})
        BY SumRemove
    <2> QED BY <2>1, <2>2
<1> QED BY <1>2, <1>3

\* The sum of zeros.
LEMMA SumZero ==
    ASSUME NEW f, NEW S, IsFiniteSet(S), \A x \in S : f[x] = 0
    PROVE  SumFunctionOnSet(f, S) = 0
<1> DEFINE C == {T \in SUBSET S : SumFunctionOnSet(f, T) # 0}
<1> SUFFICES ASSUME C # {} PROVE FALSE
    OBVIOUS
<1>1. PICK T \in C : \A U \in C : U \subseteq T => U = T
    <2>1. C \subseteq SUBSET S
        OBVIOUS
    <2> HIDE DEF C
    <2> QED BY <2>1, SmallestSubset
<1>2. T # {} /\ IsFiniteSet(T)
    BY SumEmpty, FS_Subset
<1>3. Pick(T) \in T
    BY <1>2, PickInSet
<1>4. SumFunctionOnSet(f, T \ {Pick(T)}) = 0
    BY <1>1, <1>3
<1>5. f[Pick(T)] = 0
    BY <1>3
<1> QED BY <1>2, <1>4, <1>5, SumChosen

\* The sum of two functions' values is the sum of their sums.
LEMMA SumPlus ==
    ASSUME NEW f, NEW g, NEW h, NEW S, IsFiniteSet(S),
           \A x \in S : f[x] \in Int /\ g[x] \in Int /\ h[x] = f[x] + g[x]
    PROVE  SumFunctionOnSet(h, S) = SumFunctionOnSet(f, S) + SumFunctionOnSet(g, S)
<1> DEFINE C == {T \in SUBSET S :
                    SumFunctionOnSet(h, T) # SumFunctionOnSet(f, T) + SumFunctionOnSet(g, T)}
<1> SUFFICES ASSUME C # {} PROVE FALSE
    OBVIOUS
<1>1. PICK T \in C : \A U \in C : U \subseteq T => U = T
    <2>1. C \subseteq SUBSET S
        OBVIOUS
    <2> HIDE DEF C
    <2> QED BY <2>1, SmallestSubset
<1>2. T # {}
    <2>1. SumFunctionOnSet(f, {}) = 0 /\ SumFunctionOnSet(g, {}) = 0 /\ SumFunctionOnSet(h, {}) = 0
        BY SumEmpty
    <2>2. SumFunctionOnSet(h, {}) = SumFunctionOnSet(f, {}) + SumFunctionOnSet(g, {})
        BY <2>1
    <2> QED BY <2>2
<1>3. PICK x \in T : TRUE
    BY <1>2
<1>4. IsFiniteSet(T) /\ IsFiniteSet(T \ {x})
    BY FS_Subset
<1>5. f[x] \in Int /\ g[x] \in Int /\ h[x] = f[x] + g[x]
    OBVIOUS
<1>6. T \ {x} \notin C /\ T \ {x} \in SUBSET S
    BY <1>1, <1>3
<1>7. SumFunctionOnSet(h, T \ {x}) = SumFunctionOnSet(f, T \ {x}) + SumFunctionOnSet(g, T \ {x})
    BY <1>6
<1>8. SumFunctionOnSet(f, T \ {x}) \in Int /\ SumFunctionOnSet(g, T \ {x}) \in Int
    BY <1>4, SumInt
<1>9. /\ SumFunctionOnSet(f, T) = f[x] + SumFunctionOnSet(f, T \ {x})
      /\ SumFunctionOnSet(g, T) = g[x] + SumFunctionOnSet(g, T \ {x})
    BY <1>3, <1>4, SumRemove
<1>10. SumFunctionOnSet(h, T) = h[x] + SumFunctionOnSet(h, T \ {x})
    <2>1. \A y \in T : h[y] \in Int
        OBVIOUS
    <2> QED BY <1>3, <1>4, <2>1, SumRemove
<1>11. SumFunctionOnSet(h, T) = SumFunctionOnSet(f, T) + SumFunctionOnSet(g, T)
    BY <1>5, <1>7, <1>8, <1>9, <1>10
<1> QED BY <1>11


\* The sum over two sets with nothing in common.
LEMMA SumUnion ==
    ASSUME NEW f, NEW S, IsFiniteSet(S), NEW R, IsFiniteSet(R), S \cap R = {},
           \A x \in S \cup R : f[x] \in Int
    PROVE  SumFunctionOnSet(f, S \cup R) = SumFunctionOnSet(f, S) + SumFunctionOnSet(f, R)
<1> DEFINE C == {T \in SUBSET R :
                    SumFunctionOnSet(f, S \cup T) # SumFunctionOnSet(f, S) + SumFunctionOnSet(f, T)}
<1> SUFFICES ASSUME C # {} PROVE FALSE
    OBVIOUS
<1>1. PICK T \in C : \A U \in C : U \subseteq T => U = T
    <2>1. C \subseteq SUBSET R
        OBVIOUS
    <2> HIDE DEF C
    <2> QED BY <2>1, SmallestSubset
<1>2. SumFunctionOnSet(f, S) \in Int
    BY SumInt
<1>3. T # {}
    <2>1. S \cup {} = S /\ SumFunctionOnSet(f, {}) = 0
        BY SumEmpty
    <2>2. SumFunctionOnSet(f, S \cup {}) = SumFunctionOnSet(f, S) + SumFunctionOnSet(f, {})
        BY <1>2, <2>1
    <2> QED BY <2>2
<1>4. PICK x \in T : TRUE
    BY <1>3
<1>5. IsFiniteSet(T) /\ IsFiniteSet(T \ {x}) /\ IsFiniteSet(S \cup T)
    BY FS_Subset, FS_Union
<1>6. T \ {x} \notin C /\ T \ {x} \in SUBSET R
    BY <1>1, <1>4
<1>7. SumFunctionOnSet(f, S \cup (T \ {x})) = SumFunctionOnSet(f, S) + SumFunctionOnSet(f, T \ {x})
    BY <1>6
<1>8. (S \cup T) \ {x} = S \cup (T \ {x})
    BY <1>4
<1>9. SumFunctionOnSet(f, T) = f[x] + SumFunctionOnSet(f, T \ {x})
    BY <1>4, <1>5, SumRemove
<1>10. SumFunctionOnSet(f, S \cup T) = f[x] + SumFunctionOnSet(f, (S \cup T) \ {x})
    <2>1. x \in S \cup T /\ \A y \in S \cup T : f[y] \in Int
        BY <1>4
    <2> QED BY <1>5, <2>1, SumRemove
<1>11. SumFunctionOnSet(f, T \ {x}) \in Int /\ f[x] \in Int
    BY <1>4, <1>5, SumInt
<1>12. SumFunctionOnSet(f, S \cup T) = f[x] + SumFunctionOnSet(f, S \cup (T \ {x}))
    BY <1>8, <1>10
<1>13. SumFunctionOnSet(f, S \cup T) = SumFunctionOnSet(f, S) + SumFunctionOnSet(f, T)
    BY ONLY <1>2, <1>7, <1>9, <1>11, <1>12
<1> QED BY <1>13

\* The images of a finite set under a function are finitely many.
LEMMA FiniteImage ==
    ASSUME NEW h, NEW S, IsFiniteSet(S)
    PROVE  IsFiniteSet({h[x] : x \in S})
<1> DEFINE R == {h[x] : x \in S}
           k == [x \in S |-> h[x]]
<1>1. k \in Surjection(S, R)
    BY DEF Surjection
<1> HIDE DEF k, R
<1>2. IsFiniteSet(R)
    BY <1>1, FS_Surjection
<1> QED BY <1>2 DEF R

\* The sum over the images of a set under a one-to-one function.
LEMMA SumImage ==
    ASSUME NEW f, NEW g, NEW S, IsFiniteSet(S), NEW h,
           \A x \in S : f[x] \in Int /\ g[h[x]] = f[x],
           \A x, y \in S : h[x] = h[y] => x = y
    PROVE  SumFunctionOnSet(g, {h[x] : x \in S}) = SumFunctionOnSet(f, S)
<1> DEFINE Im(T) == {h[x] : x \in T}
           C == {T \in SUBSET S : SumFunctionOnSet(g, Im(T)) # SumFunctionOnSet(f, T)}
<1> SUFFICES ASSUME C # {} PROVE FALSE
    OBVIOUS
<1>1. PICK T \in C : \A U \in C : U \subseteq T => U = T
    <2>1. C \subseteq SUBSET S
        OBVIOUS
    <2> HIDE DEF C
    <2> QED BY <2>1, SmallestSubset
<1>2. T # {}
    <2>1. Im({}) = {} /\ SumFunctionOnSet(f, {}) = 0 /\ SumFunctionOnSet(g, {}) = 0
        BY SumEmpty
    <2> QED BY <2>1
<1>3. PICK x \in T : TRUE
    BY <1>2
<1>4. IsFiniteSet(T) /\ IsFiniteSet(T \ {x})
    BY FS_Subset
<1>5. T \ {x} \notin C /\ T \ {x} \in SUBSET S
    BY <1>1, <1>3
<1>6. SumFunctionOnSet(g, Im(T \ {x})) = SumFunctionOnSet(f, T \ {x})
    BY <1>5
<1>7. Im(T) = Im(T \ {x}) \cup {h[x]} /\ h[x] \notin Im(T \ {x})
    BY <1>3
<1>8. IsFiniteSet(Im(T \ {x})) /\ \A y \in Im(T \ {x}) : g[y] \in Int
    BY <1>4, FiniteImage
<1>9. SumFunctionOnSet(f, T) = f[x] + SumFunctionOnSet(f, T \ {x})
    BY <1>3, <1>4, SumRemove
<1>10. f[x] \in Int /\ g[h[x]] = f[x] /\ SumFunctionOnSet(f, T \ {x}) \in Int
    BY <1>3, <1>4, SumInt
<1>11. SumFunctionOnSet(g, Im(T)) = SumFunctionOnSet(g, Im(T \ {x})) + g[h[x]]
    <2> DEFINE U == Im(T \ {x})
               z == h[x]
    <2>1. Im(T) = U \cup {z} /\ z \notin U /\ IsFiniteSet(U) /\ g[z] \in Int /\ \A y \in U : g[y] \in Int
        BY <1>7, <1>8, <1>10
    <2> HIDE DEF Im, U, z
    <2>2. SumFunctionOnSet(g, U \cup {z}) = SumFunctionOnSet(g, U) + g[z]
        BY <2>1, SumAdd
    <2> QED BY <2>1, <2>2 DEF U, z
<1>12. SumFunctionOnSet(g, Im(T)) = SumFunctionOnSet(f, T)
    BY <1>6, <1>9, <1>10, <1>11
<1> QED BY <1>12

=============================================================================
