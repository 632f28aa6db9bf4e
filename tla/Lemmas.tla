-------------------------------- MODULE Lemmas --------------------------------
(***************************************************************************)
(* Facts about numbers, finite sets and sums that the proofs of several    *)
(* components rest on.  The sums are those of the community modules        *)
(* (SumFunction, MapThenSumSet): a function on the subsets of the set that *)
(* takes the elements away in the order CHOOSE gives.  Induction over the  *)
(* subsets is by a smallest counterexample.                                *)
(***************************************************************************)
EXTENDS Integers, FiniteSets, FiniteSetsExt, Functions, FiniteSetTheorems, WellFoundedInduction, TLAPS

-----------------------------------------------------------------------------
(* Smallest elements.                                                      *)

\* Among finite sets, one that is not empty has a member with no part in it.
LEMMA SmallestSet ==
    ASSUME NEW C, C # {}, \A s \in C : IsFiniteSet(s)
    PROVE  \E s \in C : \A t \in C : t \subseteq s => t = s
<1> DEFINE U == UNION C
<1>1. C \subseteq FiniteSubsetsOf(U)
    BY DEF FiniteSubsetsOf
<1>2. IsWellFoundedOn(StrictSubsetOrdering(U), FiniteSubsetsOf(U))
    BY FS_StrictSubsetOrderingWellFounded
<1>3. \E s \in C : \A t \in C : ~(<<t, s>> \in StrictSubsetOrdering(U))
    <2> HIDE DEF U
    <2> QED
        BY <1>1, <1>2, WFMin
<1>4. PICK s \in C : \A t \in C : ~(<<t, s>> \in StrictSubsetOrdering(U))
    BY <1>3
<1>5. ASSUME NEW t \in C, t \subseteq s, t # s PROVE FALSE
    <2>1. s \in SUBSET U /\ t \in SUBSET U
        OBVIOUS
    <2>2. <<t, s>> \in StrictSubsetOrdering(U)
        BY <1>5, <2>1 DEF StrictSubsetOrdering
    <2> QED
        BY <1>4, <2>2
<1> QED
    BY <1>5

\* A set of numbers that is not empty has a least one.
LEMMA LeastNumber ==
    ASSUME NEW X, X \subseteq Nat, X # {}
    PROVE  \E n \in X : \A m \in X : n <= m
<1> DEFINE C == {0 .. m : m \in X}
<1>1. C # {} /\ \A s \in C : IsFiniteSet(s)
    <2>1. \A m \in X : IsFiniteSet(0 .. m)
        BY FS_Interval
    <2> QED
        BY <2>1
<1>2. PICK s \in C : \A t \in C : t \subseteq s => t = s
    <2> HIDE DEF C
    <2> QED
        BY <1>1, SmallestSet
<1>3. PICK n \in X : s = 0 .. n
    OBVIOUS
<1>4. ASSUME NEW m \in X, ~(n <= m) PROVE FALSE
    <2>1. n \in Nat /\ m \in Nat /\ m < n
        BY <1>4
    <2>2. n \in 0 .. n /\ n \notin 0 .. m /\ \A i \in 0 .. m : i \in 0 .. n
        BY <2>1
    <2>3. (0 .. m) \subseteq (0 .. n) /\ (0 .. m) # (0 .. n)
        BY <2>2
    <2> QED
        BY <1>2, <1>3, <2>3
<1> QED
    BY <1>4

-----------------------------------------------------------------------------
(* Sums.                                                                   *)

\* The function behind a sum: g[s] is the sum of w over s, for every s in S.
Sums(w, S, g) ==
    g = [s \in SUBSET S |->
            IF s = {} THEN 0 ELSE w[CHOOSE x \in s : TRUE] + g[s \ {CHOOSE x \in s : TRUE}]]

One(s) == CHOOSE x \in s : TRUE

LEMMA SumsDomain ==
    ASSUME NEW w, NEW S, NEW g, Sums(w, S, g)
    PROVE  DOMAIN g = SUBSET S
BY DEF Sums

LEMMA SumsEmpty ==
    ASSUME NEW w, NEW S, NEW g, Sums(w, S, g)
    PROVE  g[{}] = 0
<1>1. {} \in SUBSET S
    OBVIOUS
<1> QED
    BY <1>1 DEF Sums

LEMMA SumsAt ==
    ASSUME NEW w, NEW S, NEW g, Sums(w, S, g), NEW s \in DOMAIN g, s # {}
    PROVE  /\ One(s) \in s
           /\ (s \ {One(s)}) \in DOMAIN g
           /\ g[s] = w[One(s)] + g[s \ {One(s)}]
<1>1. DOMAIN g = SUBSET S
    BY SumsDomain
<1>2. g[s] = IF s = {} THEN 0 ELSE w[CHOOSE x \in s : TRUE] + g[s \ {CHOOSE x \in s : TRUE}]
    BY <1>1 DEF Sums
<1>3. One(s) \in s
    BY DEF One
<1> QED
    BY <1>1, <1>2, <1>3 DEF One

\* The function for a set has the one for each part of the set in it.
LEMMA SumsPart ==
    ASSUME NEW w, NEW S, NEW g, Sums(w, S, g), NEW T \in SUBSET S
    PROVE  Sums(w, T, [t \in SUBSET T |-> g[t]])
<1> DEFINE h == [t \in SUBSET T |-> g[t]]
<1>1. ASSUME NEW t \in SUBSET T
      PROVE  h[t] = IF t = {} THEN 0 ELSE w[CHOOSE x \in t : TRUE] + h[t \ {CHOOSE x \in t : TRUE}]
    <2>1. t \in SUBSET S
        OBVIOUS
    <2>2. g[t] = IF t = {} THEN 0 ELSE w[One(t)] + g[t \ {One(t)}]
        <3>1. CASE t = {}
            BY <3>1, SumsEmpty
        <3>2. CASE t # {}
            <4>1. t \in DOMAIN g
                BY <2>1, SumsDomain
            <4> QED
                BY <3>2, <4>1, SumsAt
        <3> QED
            BY <3>1, <3>2
    <2>3. h[t] = g[t] /\ h[t \ {One(t)}] = g[t \ {One(t)}]
        OBVIOUS
    <2> QED
        BY <2>2, <2>3 DEF One
<1>2. h = [t \in SUBSET T |->
             IF t = {} THEN 0 ELSE w[CHOOSE x \in t : TRUE] + h[t \ {CHOOSE x \in t : TRUE}]]
    BY <1>1
<1> QED
    BY <1>2 DEF Sums

\* There is at most one such function on a finite set.
LEMMA SumsUnique ==
    ASSUME NEW w, NEW S, IsFiniteSet(S), NEW g, NEW h, Sums(w, S, g), Sums(w, S, h)
    PROVE  g = h
<1> SUFFICES ASSUME g # h PROVE FALSE
    OBVIOUS
<1> DEFINE C == {s \in SUBSET S : g[s] # h[s]}
<1>1. DOMAIN g = SUBSET S /\ DOMAIN h = SUBSET S
    BY DEF Sums
<1>2. C # {}
    BY <1>1 DEF Sums
<1>3. \A s \in C : IsFiniteSet(s)
    BY FS_Subset
<1>4. PICK s \in C : \A t \in C : t \subseteq s => t = s
    <2> HIDE DEF C
    <2> QED
        BY <1>2, <1>3, SmallestSet
<1>a. s \in SUBSET S /\ g[s] # h[s]
    OBVIOUS
<1> HIDE DEF C
<1>b. s \in DOMAIN g /\ s \in DOMAIN h
    BY <1>1, <1>a
<1>c. s # {}
    BY <1>a, SumsEmpty
<1>6. /\ One(s) \in s /\ g[s] = w[One(s)] + g[s \ {One(s)}] /\ h[s] = w[One(s)] + h[s \ {One(s)}]
      /\ (s \ {One(s)}) \in SUBSET S
    <2>1. One(s) \in s /\ (s \ {One(s)}) \in DOMAIN g /\ g[s] = w[One(s)] + g[s \ {One(s)}]
        BY <1>b, <1>c, SumsAt
    <2>2. h[s] = w[One(s)] + h[s \ {One(s)}]
        BY <1>b, <1>c, SumsAt
    <2> QED
        BY <1>1, <2>1, <2>2
<1>7. g[s \ {One(s)}] # h[s \ {One(s)}]
    BY <1>a, <1>6
<1>8. (s \ {One(s)}) \in C /\ (s \ {One(s)}) \subseteq s /\ (s \ {One(s)}) # s
    BY <1>6, <1>7 DEF C
<1> QED
    BY <1>4, <1>8

\* There is one on every finite set.
LEMMA SumsExist ==
    ASSUME NEW w, NEW S, IsFiniteSet(S)
    PROVE  \E g : Sums(w, S, g)
<1> SUFFICES ASSUME ~\E g : Sums(w, S, g) PROVE FALSE
    OBVIOUS
<1> DEFINE C == {T \in SUBSET S : ~\E g : Sums(w, T, g)}
<1>1. C # {} /\ \A T \in C : IsFiniteSet(T)
    <2>1. S \in C
        OBVIOUS
    <2>2. \A T \in SUBSET S : IsFiniteSet(T)
        BY FS_Subset
    <2> QED
        BY <2>1, <2>2
<1>2. PICK T \in C : \A U \in C : U \subseteq T => U = T
    <2> HIDE DEF C
    <2> QED
        BY <1>1, SmallestSet
<1>3. /\ T \in SUBSET S /\ IsFiniteSet(T) /\ ~\E g : Sums(w, T, g)
      /\ \A U \in SUBSET T : U # T => \E g : Sums(w, U, g)
    BY <1>1, <1>2
<1> HIDE DEF C
\* The function of each smaller set, and the sums they give.
<1> DEFINE G(U) == CHOOSE g : Sums(w, U, g)
           h == [s \in SUBSET T |-> IF s = {} THEN 0 ELSE w[One(s)] + G(s \ {One(s)})[s \ {One(s)}]]
<1>4. \A U \in SUBSET T : U # T => Sums(w, U, G(U))
    BY <1>3
<1>5. ASSUME NEW V \in SUBSET T, V # T
      PROVE  h[V] = G(V)[V]
    <2>1. Sums(w, V, G(V)) /\ IsFiniteSet(V)
        BY <1>3, <1>4, <1>5, FS_Subset
    <2>2. CASE V = {}
        BY <2>1, <2>2, SumsEmpty
    <2>3. CASE V # {}
        <3> DEFINE U == V \ {One(V)}
        <3>1. One(V) \in V /\ U \in SUBSET V /\ U \in SUBSET T /\ U # T
            BY <2>3 DEF One
        <3>2. G(V)[V] = w[One(V)] + G(V)[U]
            <4> HIDE DEF G
            <4>0. DOMAIN G(V) = SUBSET V
                BY <2>1, SumsDomain
            <4>1. V \in DOMAIN G(V)
                BY <4>0
            <4> QED
                BY <2>1, <2>3, <4>1, SumsAt
        <3>3. h[V] = w[One(V)] + G(U)[U]
            BY <2>3
        <3>4. Sums(w, U, G(U)) /\ IsFiniteSet(U)
            BY <1>3, <1>4, <3>1, FS_Subset
        <3> DEFINE k == [t \in SUBSET U |-> G(V)[t]]
        <3>5. Sums(w, U, k)
            BY <2>1, <3>1, SumsPart
        <3>6. k = G(U)
            BY <3>4, <3>5, SumsUnique
        <3>7. k[U] = G(V)[U]
            OBVIOUS
        <3> QED
            BY <3>2, <3>3, <3>6, <3>7
    <2> QED
        BY <2>2, <2>3
<1>6. ASSUME NEW s \in SUBSET T
      PROVE  h[s] = IF s = {} THEN 0 ELSE w[CHOOSE x \in s : TRUE] + h[s \ {CHOOSE x \in s : TRUE}]
    <2>1. CASE s = {}
        BY <2>1
    <2>2. CASE s # {}
        <3>1. One(s) \in s /\ (s \ {One(s)}) \in SUBSET T /\ (s \ {One(s)}) # T
            BY <2>2 DEF One
        <3>2. h[s \ {One(s)}] = G(s \ {One(s)})[s \ {One(s)}]
            BY <1>5, <3>1
        <3>3. h[s] = w[One(s)] + h[s \ {One(s)}]
            <4>1. h[s] = w[One(s)] + G(s \ {One(s)})[s \ {One(s)}]
                BY <2>2
            <4> QED
                BY <3>2, <4>1
        <3> QED
            BY <2>2, <3>3 DEF One
    <2> QED
        BY <2>1, <2>2
<1>7. h = [s \in SUBSET T |->
             IF s = {} THEN 0 ELSE w[CHOOSE x \in s : TRUE] + h[s \ {CHOOSE x \in s : TRUE}]]
    <2>1. h = [s \in SUBSET T |-> h[s]]
        OBVIOUS
    <2> HIDE DEF h
    <2> QED
        BY <1>6, <2>1
<1>8. Sums(w, T, h)
    BY <1>7 DEF Sums
<1> QED
    BY <1>3, <1>8

\* The sum of a function over a finite set.
Total(w, S) == SumFunctionOnSet(w, S)

LEMMA TotalBy ==
    ASSUME NEW w, NEW S, IsFiniteSet(S), NEW g, Sums(w, S, g)
    PROVE  Total(w, S) = g[S]
<1> DEFINE h == CHOOSE iter : iter = [s \in SUBSET S |->
                   IF s = {} THEN 0 ELSE w[CHOOSE x \in s : TRUE] + iter[s \ {CHOOSE x \in s : TRUE}]]
<1>1. Total(w, S) = h[S]
    BY DEF Total, SumFunctionOnSet, FoldFunctionOnSet, MapThenFoldSet
<1>2. Sums(w, S, h)
    BY DEF Sums
<1>3. h = g
    <2> HIDE DEF h
    <2> QED
        BY <1>2, SumsUnique
<1> QED
    BY <1>1, <1>3

LEMMA TotalEmpty ==
    ASSUME NEW w
    PROVE  Total(w, {}) = 0
<1>1. IsFiniteSet({})
    BY FS_EmptySet
<1>2. PICK g : Sums(w, {}, g)
    BY <1>1, SumsExist
<1> QED
    BY <1>1, <1>2, TotalBy, SumsEmpty

LEMMA TotalOne ==
    ASSUME NEW w, NEW S, IsFiniteSet(S), S # {}
    PROVE  /\ One(S) \in S
           /\ IsFiniteSet(S \ {One(S)})
           /\ Total(w, S) = w[One(S)] + Total(w, S \ {One(S)})
<1> DEFINE U == S \ {One(S)}
<1>1. PICK g : Sums(w, S, g)
    BY SumsExist
<1>2. DOMAIN g = SUBSET S
    BY <1>1, SumsDomain
<1>3. S \in DOMAIN g
    BY <1>2
<1>4. One(S) \in S /\ U \in DOMAIN g /\ g[S] = w[One(S)] + g[U]
    BY <1>1, <1>3, SumsAt
<1>5. IsFiniteSet(U) /\ U \in SUBSET S /\ U \in SUBSET U
    BY FS_Subset
<1> DEFINE k == [t \in SUBSET U |-> g[t]]
<1>6. Sums(w, U, k) /\ k[U] = g[U]
    <2>1. Sums(w, U, k)
        BY <1>1, <1>5, SumsPart
    <2> QED
        BY <2>1
<1>7. Total(w, S) = g[S] /\ Total(w, U) = k[U]
    <2>1. Total(w, S) = g[S]
        BY <1>1, TotalBy
    <2> HIDE DEF U, k
    <2>2. Total(w, U) = k[U]
        BY <1>5, <1>6, TotalBy
    <2> QED
        BY <2>1, <2>2
<1> QED
    BY <1>4, <1>5, <1>6, <1>7

LEMMA TotalInt ==
    ASSUME NEW w, NEW S, IsFiniteSet(S), \A x \in S : w[x] \in Int
    PROVE  Total(w, S) \in Int
<1> SUFFICES ASSUME Total(w, S) \notin Int PROVE FALSE
    OBVIOUS
<1> DEFINE C == {T \in SUBSET S : Total(w, T) \notin Int}
<1>1. C # {} /\ \A T \in C : IsFiniteSet(T)
    <2>1. S \in C
        OBVIOUS
    <2>2. \A T \in SUBSET S : IsFiniteSet(T)
        BY FS_Subset
    <2> QED
        BY <2>1, <2>2
<1>2. PICK T \in C : \A U \in C : U \subseteq T => U = T
    <2> HIDE DEF C
    <2> QED
        BY <1>1, SmallestSet
<1>3. T \subseteq S /\ Total(w, T) \notin Int /\ IsFiniteSet(T)
    BY <1>1
<1>4. T # {}
    BY <1>3, TotalEmpty
<1> DEFINE U == T \ {One(T)}
<1>5. One(T) \in T /\ Total(w, T) = w[One(T)] + Total(w, U)
    BY <1>3, <1>4, TotalOne
<1>6. U \subseteq T /\ U # T /\ U \in SUBSET S
    BY <1>3, <1>5
<1>7. Total(w, U) \in Int
    BY <1>2, <1>6
<1>8. w[One(T)] \in Int
    BY <1>3, <1>5
<1> QED
    BY <1>3, <1>5, <1>7, <1>8

\* Equal summands give equal sums.
LEMMA TotalSame ==
    ASSUME NEW w, NEW v, NEW S, IsFiniteSet(S), \A x \in S : w[x] = v[x]
    PROVE  Total(w, S) = Total(v, S)
<1> SUFFICES ASSUME Total(w, S) # Total(v, S) PROVE FALSE
    OBVIOUS
<1> DEFINE C == {T \in SUBSET S : Total(w, T) # Total(v, T)}
<1>1. C # {} /\ \A T \in C : IsFiniteSet(T)
    <2>1. S \in C
        OBVIOUS
    <2>2. \A T \in SUBSET S : IsFiniteSet(T)
        BY FS_Subset
    <2> QED
        BY <2>1, <2>2
<1>2. PICK T \in C : \A U \in C : U \subseteq T => U = T
    <2> HIDE DEF C
    <2> QED
        BY <1>1, SmallestSet
<1>3. T \subseteq S /\ Total(w, T) # Total(v, T) /\ IsFiniteSet(T)
    BY <1>1
<1>4. T # {}
    BY <1>3, TotalEmpty
<1> DEFINE U == T \ {One(T)}
<1>5. One(T) \in T /\ Total(w, T) = w[One(T)] + Total(w, U) /\ Total(v, T) = v[One(T)] + Total(v, U)
    BY <1>3, <1>4, TotalOne
<1>6. U \subseteq T /\ U # T /\ U \in SUBSET S
    BY <1>3, <1>5
<1>7. Total(w, U) = Total(v, U)
    BY <1>2, <1>6
<1>8. w[One(T)] = v[One(T)]
    BY <1>3, <1>5
<1> QED
    BY <1>3, <1>5, <1>7, <1>8

\* The order in which a sum takes its elements does not matter.
LEMMA TotalRemove ==
    ASSUME NEW w, NEW S, IsFiniteSet(S), \A y \in S : w[y] \in Int, NEW x \in S
    PROVE  Total(w, S) = w[x] + Total(w, S \ {x})
<1> SUFFICES ASSUME Total(w, S) # w[x] + Total(w, S \ {x}) PROVE FALSE
    OBVIOUS
<1> DEFINE C == {T \in SUBSET S : \E z \in T : Total(w, T) # w[z] + Total(w, T \ {z})}
<1>1. C # {} /\ \A T \in C : IsFiniteSet(T)
    <2>1. S \in C
        OBVIOUS
    <2>2. \A T \in SUBSET S : IsFiniteSet(T)
        BY FS_Subset
    <2> QED
        BY <2>1, <2>2
<1>2. PICK T \in C : \A U \in C : U \subseteq T => U = T
    <2> HIDE DEF C
    <2> QED
        BY <1>1, SmallestSet
<1>3. T \subseteq S /\ IsFiniteSet(T)
    BY <1>1
<1>4. PICK z \in T : Total(w, T) # w[z] + Total(w, T \ {z})
    OBVIOUS
<1>5. \A U \in SUBSET T : U # T => \A y \in U : Total(w, U) = w[y] + Total(w, U \ {y})
    <2> TAKE U \in SUBSET T
    <2> HAVE U # T
    <2>1. U \in SUBSET S /\ U \notin C
        BY <1>2, <1>3
    <2> QED
        BY <2>1
<1> HIDE DEF C
<1> DEFINE y == One(T)
           U == T \ {y}
           V == T \ {z}
           W == T \ {y, z}
<1>6. y \in T /\ Total(w, T) = w[y] + Total(w, U)
    BY <1>3, <1>4, TotalOne
<1>7. y # z
    BY <1>4, <1>6
<1> HIDE DEF y
<1>8. Total(w, U) = w[z] + Total(w, W)
    <2>1. U \in SUBSET T /\ U # T /\ z \in U
        BY <1>4, <1>6, <1>7
    <2>2. U \ {z} = W
        OBVIOUS
    <2> QED
        BY <1>5, <2>1, <2>2
<1>9. Total(w, V) = w[y] + Total(w, W)
    <2>1. V \in SUBSET T /\ V # T /\ y \in V
        BY <1>4, <1>6, <1>7
    <2>2. V \ {y} = W
        OBVIOUS
    <2> QED
        BY <1>5, <2>1, <2>2
<1>10. w[y] \in Int /\ w[z] \in Int /\ Total(w, W) \in Int
    <2>1. \A v \in W : w[v] \in Int
        BY <1>3
    <2>2. IsFiniteSet(W)
        BY <1>3, FS_Subset
    <2> QED
        BY <1>3, <1>6, <2>1, <2>2, TotalInt
<1> QED
    BY <1>4, <1>6, <1>8, <1>9, <1>10

LEMMA TotalNat ==
    ASSUME NEW w, NEW S, IsFiniteSet(S), \A x \in S : w[x] \in Nat
    PROVE  Total(w, S) \in Nat
<1> SUFFICES ASSUME Total(w, S) \notin Nat PROVE FALSE
    OBVIOUS
<1> DEFINE C == {T \in SUBSET S : Total(w, T) \notin Nat}
<1>1. C # {} /\ \A T \in C : IsFiniteSet(T)
    <2>1. S \in C
        OBVIOUS
    <2>2. \A T \in SUBSET S : IsFiniteSet(T)
        BY FS_Subset
    <2> QED
        BY <2>1, <2>2
<1>2. PICK T \in C : \A U \in C : U \subseteq T => U = T
    <2> HIDE DEF C
    <2> QED
        BY <1>1, SmallestSet
<1>3. T \subseteq S /\ Total(w, T) \notin Nat /\ IsFiniteSet(T)
    BY <1>1
<1>4. T # {}
    BY <1>3, TotalEmpty
<1> DEFINE U == T \ {One(T)}
<1>5. One(T) \in T /\ Total(w, T) = w[One(T)] + Total(w, U)
    BY <1>3, <1>4, TotalOne
<1>6. U \subseteq T /\ U # T /\ U \in SUBSET S
    BY <1>3, <1>5
<1>7. Total(w, U) \in Nat
    BY <1>2, <1>6
<1>8. w[One(T)] \in Nat
    BY <1>3, <1>5
<1> QED
    BY <1>3, <1>5, <1>7, <1>8

\* A member more is its summand more.
LEMMA TotalAdd ==
    ASSUME NEW w, NEW S, IsFiniteSet(S), NEW x, x \notin S, \A y \in S \cup {x} : w[y] \in Int
    PROVE  Total(w, S \cup {x}) = Total(w, S) + w[x]
<1>1. IsFiniteSet(S \cup {x})
    BY FS_AddElement
<1>2. (S \cup {x}) \ {x} = S
    OBVIOUS
<1>3. Total(w, S \cup {x}) = w[x] + Total(w, S)
    BY <1>1, <1>2, TotalRemove
<1>4. Total(w, S) \in Int
    BY TotalInt
<1> QED
    BY <1>3, <1>4

\* One summand changed is its difference.
LEMMA TotalBut ==
    ASSUME NEW w, NEW v, NEW S, IsFiniteSet(S), NEW x \in S,
           \A y \in S : w[y] \in Int /\ v[y] \in Int, \A y \in S \ {x} : w[y] = v[y]
    PROVE  Total(v, S) = Total(w, S) + v[x] - w[x]
<1> DEFINE U == S \ {x}
<1>1. IsFiniteSet(U)
    BY FS_Subset
<1>2. Total(w, S) = w[x] + Total(w, U) /\ Total(v, S) = v[x] + Total(v, U)
    BY TotalRemove
<1>3. Total(w, U) = Total(v, U)
    BY <1>1, TotalSame
<1>4. Total(w, U) \in Int /\ w[x] \in Int /\ v[x] \in Int
    BY <1>1, TotalInt
<1> QED
    BY <1>2, <1>3, <1>4

\* A sum of sums.
LEMMA TotalSum ==
    ASSUME NEW u, NEW w, NEW v, NEW S, IsFiniteSet(S),
           \A x \in S : u[x] \in Int /\ w[x] \in Int /\ v[x] = u[x] + w[x]
    PROVE  Total(v, S) = Total(u, S) + Total(w, S)
<1> SUFFICES ASSUME Total(v, S) # Total(u, S) + Total(w, S) PROVE FALSE
    OBVIOUS
<1> DEFINE C == {T \in SUBSET S : Total(v, T) # Total(u, T) + Total(w, T)}
<1>1. C # {} /\ \A T \in C : IsFiniteSet(T)
    <2>1. S \in C
        OBVIOUS
    <2>2. \A T \in SUBSET S : IsFiniteSet(T)
        BY FS_Subset
    <2> QED
        BY <2>1, <2>2
<1>2. PICK T \in C : \A U \in C : U \subseteq T => U = T
    <2> HIDE DEF C
    <2> QED
        BY <1>1, SmallestSet
<1>3. T \subseteq S /\ Total(v, T) # Total(u, T) + Total(w, T) /\ IsFiniteSet(T)
    BY <1>1
<1>4. T # {}
    BY <1>3, TotalEmpty
<1> DEFINE U == T \ {One(T)}
<1>5. /\ One(T) \in T /\ IsFiniteSet(U)
      /\ Total(u, T) = u[One(T)] + Total(u, U)
      /\ Total(w, T) = w[One(T)] + Total(w, U)
      /\ Total(v, T) = v[One(T)] + Total(v, U)
    BY <1>3, <1>4, TotalOne
<1>6. U \subseteq T /\ U # T /\ U \in SUBSET S
    BY <1>3, <1>5
<1>7. Total(v, U) = Total(u, U) + Total(w, U)
    BY <1>2, <1>6
<1>8. u[One(T)] \in Int /\ w[One(T)] \in Int /\ v[One(T)] = u[One(T)] + w[One(T)]
    BY <1>3, <1>5
<1>9. Total(u, U) \in Int /\ Total(w, U) \in Int
    <2>1. \A x \in U : u[x] \in Int /\ w[x] \in Int
        BY <1>6
    <2> HIDE DEF U
    <2> QED
        BY <1>5, <2>1, TotalInt
<1> QED
    BY <1>3, <1>5, <1>7, <1>8, <1>9

\* A sum over two sets that share nothing.
LEMMA TotalUnion ==
    ASSUME NEW w, NEW S, NEW T, IsFiniteSet(S), IsFiniteSet(T), S \cap T = {},
           \A x \in S \cup T : w[x] \in Int
    PROVE  Total(w, S \cup T) = Total(w, S) + Total(w, T)
<1> SUFFICES ASSUME Total(w, S \cup T) # Total(w, S) + Total(w, T) PROVE FALSE
    OBVIOUS
<1> DEFINE C == {R \in SUBSET T : Total(w, S \cup R) # Total(w, S) + Total(w, R)}
<1>1. C # {} /\ \A R \in C : IsFiniteSet(R)
    <2>1. T \in C
        OBVIOUS
    <2>2. \A R \in SUBSET T : IsFiniteSet(R)
        BY FS_Subset
    <2> QED
        BY <2>1, <2>2
<1>2. PICK R \in C : \A U \in C : U \subseteq R => U = R
    <2> HIDE DEF C
    <2> QED
        BY <1>1, SmallestSet
<1>3. R \subseteq T /\ Total(w, S \cup R) # Total(w, S) + Total(w, R) /\ IsFiniteSet(R)
    BY <1>1
<1>4. R # {}
    <2>1. S \cup {} = S /\ Total(w, S) \in Int
        BY TotalInt
    <2> QED
        BY <1>3, <2>1, TotalEmpty
<1>5. PICK x \in R : TRUE
    BY <1>4
<1> DEFINE U == R \ {x}
<1> HIDE DEF C
<1>6. U \subseteq R /\ U # R /\ U \in SUBSET T /\ IsFiniteSet(U)
    BY <1>3, <1>5, FS_Subset
<1>7. Total(w, S \cup U) = Total(w, S) + Total(w, U)
    BY <1>2, <1>6 DEF C
<1>8. Total(w, R) = w[x] + Total(w, U)
    BY <1>3, <1>5, TotalRemove
<1>9. Total(w, S \cup R) = w[x] + Total(w, S \cup U)
    <2>1. IsFiniteSet(S \cup R) /\ x \in S \cup R /\ \A y \in S \cup R : w[y] \in Int
        BY <1>3, <1>5, FS_Union
    <2>2. (S \cup R) \ {x} = S \cup U
        BY <1>3, <1>5
    <2> QED
        BY <2>1, <2>2, TotalRemove
<1>10. Total(w, S) \in Int /\ Total(w, U) \in Int /\ w[x] \in Int
    <2>1. \A y \in U : w[y] \in Int
        BY <1>6
    <2> HIDE DEF U
    <2> QED
        BY <1>3, <1>5, <1>6, <2>1, TotalInt
<1> QED
    BY <1>3, <1>7, <1>8, <1>9, <1>10

\* A sum of zeros.
LEMMA TotalZero ==
    ASSUME NEW w, NEW S, IsFiniteSet(S), \A x \in S : w[x] = 0
    PROVE  Total(w, S) = 0
<1> DEFINE v == [x \in S |-> 0]
<1>0. \A x \in S : v[x] \in Int /\ v[x] = v[x] + v[x] /\ w[x] = v[x]
    OBVIOUS
<1> HIDE DEF v
<1>1. Total(v, S) = Total(v, S) + Total(v, S)
    BY <1>0, TotalSum
<1>2. Total(v, S) \in Int
    BY <1>0, TotalInt
<1>3. Total(w, S) = Total(v, S)
    <2>1. \A x \in S : w[x] = v[x]
        BY <1>0
    <2> QED
        BY <2>1, TotalSame
<1> DEFINE t == Total(v, S)
<1>4. t = t + t /\ t \in Int
    BY <1>1, <1>2
<1> HIDE DEF t
<1>5. t = 0
    BY <1>4
<1> QED
    BY <1>3, <1>5 DEF t

\* A sum of ones and zeros counts.
LEMMA TotalCounts ==
    ASSUME NEW w, NEW S, IsFiniteSet(S), NEW A, A \subseteq S,
           \A x \in S : w[x] = IF x \in A THEN 1 ELSE 0
    PROVE  Total(w, S) = Cardinality(A)
<1> SUFFICES ASSUME Total(w, S) # Cardinality(A) PROVE FALSE
    OBVIOUS
<1> DEFINE C == {T \in SUBSET S : Total(w, T) # Cardinality(A \cap T)}
<1>1. C # {} /\ \A T \in C : IsFiniteSet(T)
    <2>1. S \in C
        <3>1. A \cap S = A
            OBVIOUS
        <3> QED
            BY <3>1
    <2>2. \A T \in SUBSET S : IsFiniteSet(T)
        BY FS_Subset
    <2> QED
        BY <2>1, <2>2
<1>2. PICK T \in C : \A U \in C : U \subseteq T => U = T
    <2> HIDE DEF C
    <2> QED
        BY <1>1, SmallestSet
<1>3. T \subseteq S /\ Total(w, T) # Cardinality(A \cap T) /\ IsFiniteSet(T)
    BY <1>1
<1>4. T # {}
    <2>1. A \cap {} = {}
        OBVIOUS
    <2> QED
        BY <1>3, <2>1, TotalEmpty, FS_EmptySet
<1> DEFINE x == One(T)
           U == T \ {x}
<1>5. x \in T /\ IsFiniteSet(U) /\ Total(w, T) = w[x] + Total(w, U)
    BY <1>3, <1>4, TotalOne
<1> HIDE DEF C, x
<1>6. U \subseteq T /\ U # T /\ U \in SUBSET S
    BY <1>3, <1>5
<1>7. Total(w, U) = Cardinality(A \cap U)
    BY <1>2, <1>6 DEF C
<1>8. IsFiniteSet(A \cap U) /\ Cardinality(A \cap U) \in Nat
    BY <1>5, FS_Intersection, FS_CardinalityType
<1>9. CASE x \in A
    <2>1. A \cap T = (A \cap U) \cup {x} /\ x \notin A \cap U
        BY <1>5, <1>9
    <2>2. Cardinality(A \cap T) = Cardinality(A \cap U) + 1
        BY <1>8, <2>1, FS_AddElement
    <2>3. w[x] = 1
        BY <1>3, <1>5, <1>9
    <2> QED
        BY <1>3, <1>5, <1>7, <1>8, <2>2, <2>3
<1>10. CASE x \notin A
    <2>1. A \cap T = A \cap U
        BY <1>10
    <2>2. w[x] = 0
        BY <1>3, <1>5, <1>10
    <2> QED
        BY <1>3, <1>5, <1>7, <1>8, <2>1, <2>2
<1> QED
    BY <1>9, <1>10

\* A sum over a part is the sum over the whole of what is zero elsewhere.
LEMMA TotalWithin ==
    ASSUME NEW w, NEW v, NEW S, IsFiniteSet(S), NEW T, T \subseteq S, \A x \in T : w[x] \in Int,
           \A x \in S : v[x] = IF x \in T THEN w[x] ELSE 0
    PROVE  Total(v, S) = Total(w, T)
<1> DEFINE U == S \ T
<1>1. IsFiniteSet(T) /\ IsFiniteSet(U) /\ S = T \cup U /\ T \cap U = {}
    BY FS_Subset
<1>2. /\ \A x \in T : v[x] = w[x]
      /\ \A x \in U : v[x] = 0
      /\ \A x \in T \cup U : v[x] \in Int
    OBVIOUS
<1> HIDE DEF U
<1>3. Total(v, S) = Total(v, T) + Total(v, U)
    BY <1>1, <1>2, TotalUnion
<1>4. Total(v, T) = Total(w, T) /\ Total(v, U) = 0
    BY <1>1, <1>2, TotalSame, TotalZero
<1>5. Total(w, T) \in Int
    BY <1>1, TotalInt
<1> QED
    BY <1>3, <1>4, <1>5

LEMMA TotalAtMost ==
    ASSUME NEW w, NEW v, NEW S, IsFiniteSet(S),
           \A x \in S : w[x] \in Int /\ v[x] \in Int /\ w[x] <= v[x]
    PROVE  Total(w, S) <= Total(v, S)
<1> DEFINE u == [x \in S |-> v[x] - w[x]]
<1>1. \A x \in S : u[x] \in Nat /\ u[x] \in Int /\ v[x] = u[x] + w[x]
    OBVIOUS
<1> HIDE DEF u
<1>2. Total(v, S) = Total(u, S) + Total(w, S)
    BY <1>1, TotalSum
<1>3. Total(u, S) \in Nat /\ Total(w, S) \in Int
    BY <1>1, TotalNat, TotalInt
<1> QED
    BY <1>2, <1>3

\* Two summands are no more than the sum.
LEMMA TotalTwo ==
    ASSUME NEW w, NEW S, IsFiniteSet(S), \A x \in S : w[x] \in Nat, NEW a \in S, NEW b \in S \ {a}
    PROVE  w[a] + w[b] <= Total(w, S)
<1>1. IsFiniteSet(S \ {a}) /\ IsFiniteSet((S \ {a}) \ {b})
    BY FS_Subset
<1>2. Total(w, S) = w[a] + Total(w, S \ {a})
    BY TotalRemove
<1>3. Total(w, S \ {a}) = w[b] + Total(w, (S \ {a}) \ {b})
    BY <1>1, TotalRemove
<1>4. Total(w, (S \ {a}) \ {b}) \in Nat
    BY <1>1, TotalNat
<1> QED
    BY <1>2, <1>3, <1>4

\* The sum of a whole function.
LEMMA SumIsTotal ==
    ASSUME NEW f
    PROVE  SumFunction(f) = Total(f, DOMAIN f)
BY DEF SumFunction, Total

-----------------------------------------------------------------------------
(* The greatest of a finite set of numbers.                                *)

LEMMA MaxIsGreatest ==
    ASSUME NEW S, S \subseteq Int, IsFiniteSet(S), S # {}
    PROVE  Max(S) \in S /\ \A x \in S : x <= Max(S)
<1>1. \E x \in S : \A y \in S : x >= y
    <2> SUFFICES ASSUME \A x \in S : \E y \in S : ~(x >= y) PROVE FALSE
        OBVIOUS
    <2> DEFINE up(x) == {y \in S : y >= x}
               C == {up(x) : x \in S}
    <2>1. C # {} /\ \A T \in C : IsFiniteSet(T)
        <3>1. \A T \in SUBSET S : IsFiniteSet(T)
            BY FS_Subset
        <3> QED
            BY <3>1
    <2>2. PICK T \in C : \A U \in C : U \subseteq T => U = T
        <3> HIDE DEF C
        <3> QED
            BY <2>1, SmallestSet
    <2>3. PICK x \in S : T = up(x)
        OBVIOUS
    <2>4. PICK y \in S : ~(x >= y)
        OBVIOUS
    <2>5. up(y) \subseteq up(x) /\ x \in up(x) /\ x \notin up(y)
        <3>1. x \in Int /\ y \in Int /\ y > x
            BY <2>4
        <3>2. ASSUME NEW z \in S, z >= y PROVE z >= x
            <4>1. z \in Int
                OBVIOUS
            <4> QED
                BY <3>1, <3>2, <4>1
        <3>3. ~(x >= y) /\ x >= x
            BY <3>1
        <3> QED
            BY <3>2, <3>3
    <2>6. up(y) \in C
        OBVIOUS
    <2> QED
        BY <2>2, <2>3, <2>5, <2>6
<1> QED
    BY <1>1 DEF Max

LEMMA MinIsLeast ==
    ASSUME NEW S, S \subseteq Nat, S # {}
    PROVE  Min(S) \in S /\ \A x \in S : Min(S) <= x
<1>1. \E x \in S : \A y \in S : x <= y
    BY LeastNumber
<1> QED
    BY <1>1 DEF Min

LEMMA MaxIs ==
    ASSUME NEW S, S \subseteq Int, IsFiniteSet(S), NEW m \in S, \A x \in S : x <= m
    PROVE  Max(S) = m
<1>1. Max(S) \in S /\ \A x \in S : x <= Max(S)
    BY MaxIsGreatest
<1>2. Max(S) \in Int /\ m \in Int /\ m <= Max(S) /\ Max(S) <= m
    BY <1>1
<1> QED
    BY <1>2

-----------------------------------------------------------------------------
(* Whole quotients.                                                        *)

LEMMA Quotient ==
    ASSUME NEW a \in Nat, NEW b \in Nat \ {0}
    PROVE  /\ a \div b \in Nat
           /\ b * (a \div b) <= a
           /\ a < b * (a \div b) + b
<1>1. b * (a \div b) <= a
    OBVIOUS
<1>2. a < b * (a \div b) + b
    OBVIOUS
<1>3. a \div b \in Nat
    <2> DEFINE q == a \div b
    <2>1. q \in Int
        OBVIOUS
    <2> HIDE DEF q
    <2>2. q < 0 => b * q + b <= 0
        BY <2>1
    <2>3. a < b * q + b /\ a >= 0
        BY <1>2 DEF q
    <2>4. b * q + b \in Int
        BY <2>1
    <2> QED
        BY <2>1, <2>2, <2>3, <2>4 DEF q
<1> QED
    BY <1>1, <1>2, <1>3

LEMMA QuotientAtMost ==
    ASSUME NEW a \in Nat, NEW b \in Nat \ {0}
    PROVE  a \div b <= a
<1> DEFINE q == a \div b
<1>1. q \in Nat /\ b * q <= a
    BY Quotient
<1> HIDE DEF q
<1>2. q <= b * q
    BY <1>1
<1>3. b * q \in Nat
    BY <1>1
<1> QED
    BY <1>1, <1>2, <1>3 DEF q

\* A quotient is the greatest number that often fits.
LEMMA QuotientFits ==
    ASSUME NEW a \in Nat, NEW b \in Nat \ {0}, NEW x \in Nat, b * x <= a
    PROVE  x <= a \div b
<1> DEFINE q == a \div b
<1>1. q \in Nat /\ a < b * q + b
    BY Quotient
<1> HIDE DEF q
<1> SUFFICES ASSUME q + 1 <= x PROVE FALSE
    BY <1>1 DEF q
<1>2. b * (q + 1) <= b * x
    BY <1>1
<1>3. b * (q + 1) = b * q + b
    BY <1>1
<1> QED
    BY <1>1, <1>2, <1>3

LEMMA QuotientOrder ==
    ASSUME NEW a \in Nat, NEW c \in Nat, a <= c, NEW b \in Nat \ {0}
    PROVE  a \div b <= c \div b
<1> DEFINE q == a \div b
<1>1. q \in Nat /\ b * q <= a
    BY Quotient
<1> HIDE DEF q
<1>2. b * q \in Nat
    BY <1>1
<1>3. b * q <= c
    BY <1>1, <1>2
<1> QED
    BY <1>1, <1>3, QuotientFits DEF q

\* Shares rounded down are within the rounded whole.
LEMMA QuotientSum ==
    ASSUME NEW a \in Nat, NEW c \in Nat, NEW b \in Nat \ {0}
    PROVE  (a \div b) + (c \div b) <= (a + c) \div b
<1> DEFINE q == a \div b
           r == c \div b
<1>1. q \in Nat /\ b * q <= a /\ r \in Nat /\ b * r <= c
    BY Quotient
<1> HIDE DEF q, r
<1>2. b * q \in Nat /\ b * r \in Nat /\ b * (q + r) = b * q + b * r
    BY <1>1
<1>3. b * (q + r) <= a + c /\ q + r \in Nat /\ a + c \in Nat
    BY <1>1, <1>2
<1> QED
    BY <1>3, QuotientFits DEF q, r

-----------------------------------------------------------------------------
(* Folds.                                                                  *)

\* The function behind a fold of the community modules: some element of a set,
\* applied to what the rest of the set gives.  It exists, and its values are
\* those of the steps.
FoldOf(S, base, pick, step, g) ==
    g = [s \in SUBSET S |-> IF s = {} THEN base ELSE step[<<pick[s], g[s \ {pick[s]}]>>]]

LEMMA FoldExists ==
    ASSUME NEW S, IsFiniteSet(S), NEW V, NEW base \in V,
           NEW pick, \A s \in SUBSET S : s # {} => pick[s] \in s,
           NEW step \in [S \X V -> V]
    PROVE  \E g \in [SUBSET S -> V] : FoldOf(S, base, pick, step, g)
<1> DEFINE Next(g, s) == IF s = {} THEN base ELSE step[<<pick[s], g[s \ {pick[s]}]>>]
           UpTo(n) == {s \in SUBSET S : Cardinality(s) <= n}
           Good(n, g) == /\ g \in [SUBSET S -> V]
                         /\ \A s \in UpTo(n) : g[s] = Next(g, s)
           X == {n \in Nat : ~\E g : Good(n, g)}
<1>1. \A s \in SUBSET S : IsFiniteSet(s) /\ Cardinality(s) \in Nat /\ Cardinality(s) <= Cardinality(S)
    BY FS_Subset, FS_CardinalityType
<1>2. ASSUME NEW s \in SUBSET S, s # {}
      PROVE  /\ pick[s] \in S /\ (s \ {pick[s]}) \in SUBSET S
             /\ Cardinality(s \ {pick[s]}) = Cardinality(s) - 1
    <2>1. pick[s] \in s /\ IsFiniteSet(s)
        BY <1>1, <1>2
    <2>2. Cardinality(s \ {pick[s]}) = Cardinality(s) - 1
        BY <2>1, FS_RemoveElement
    <2> QED
        BY <2>1, <2>2
<1>3. ASSUME NEW g \in [SUBSET S -> V], NEW s \in SUBSET S PROVE Next(g, s) \in V
    <2>1. CASE s = {}
        BY <2>1
    <2>2. CASE s # {}
        <3>1. pick[s] \in S /\ (s \ {pick[s]}) \in SUBSET S
            BY <1>2, <2>2
        <3>2. <<pick[s], g[s \ {pick[s]}]>> \in S \X V
            BY <3>1
        <3> QED
            BY <2>2, <3>2
    <2> QED
        BY <2>1, <2>2
\* Sets of one element more are settled by those that are settled.
<1>4. ASSUME NEW n \in Nat, NEW g, n > 0 => Good(n - 1, g), g \in [SUBSET S -> V]
      PROVE  \E h : Good(n, h)
    <2> DEFINE h == [s \in SUBSET S |-> IF n > 0 /\ s \in UpTo(n - 1) THEN g[s] ELSE Next(g, s)]
    <2>1. h \in [SUBSET S -> V]
        <3> HIDE DEF Next
        <3> QED
            BY <1>3, <1>4
    <2>2. ASSUME NEW s \in UpTo(n), s # {}
          PROVE  n > 0 /\ (s \ {pick[s]}) \in UpTo(n - 1)
        <3>1. Cardinality(s) \in Nat /\ Cardinality(s) <= n /\ s \in SUBSET S
            BY <1>1
        <3>2. /\ (s \ {pick[s]}) \in SUBSET S /\ Cardinality(s \ {pick[s]}) = Cardinality(s) - 1
              /\ Cardinality(s \ {pick[s]}) \in Nat
            BY <1>1, <1>2, <2>2, <3>1
        <3> QED
            BY <3>1, <3>2
    <2>3. ASSUME NEW s \in UpTo(n) PROVE h[s] = Next(g, s)
        <3>1. s \in SUBSET S
            OBVIOUS
        <3>2. CASE n > 0 /\ s \in UpTo(n - 1)
            <4>1. h[s] = g[s] /\ g[s] = Next(g, s)
                BY <1>4, <3>2
            <4> QED
                BY <4>1
        <3>3. CASE ~(n > 0 /\ s \in UpTo(n - 1))
            BY <3>1, <3>3
        <3> QED
            BY <3>2, <3>3
    <2>4. ASSUME NEW s \in UpTo(n) PROVE h[s] = Next(h, s)
        <3>1. CASE s = {}
            BY <2>3, <3>1
        <3>2. CASE s # {}
            <4>1. n > 0 /\ (s \ {pick[s]}) \in UpTo(n - 1)
                BY <2>2, <3>2
            <4>2. h[s \ {pick[s]}] = g[s \ {pick[s]}]
                BY <4>1
            <4>3. h[s] = Next(g, s)
                BY <2>3
            <4> HIDE DEF h, UpTo
            <4> QED
                BY <3>2, <4>2, <4>3
        <3> QED
            BY <3>1, <3>2
    <2> HIDE DEF h, Next, UpTo
    <2> QED
        BY <2>1, <2>4
<1>5. \A n \in Nat : \E g : Good(n, g)
    <2> SUFFICES ASSUME X # {} PROVE FALSE
        OBVIOUS
    <2>1. PICK n \in X : \A m \in X : n <= m
        <3>1. X \subseteq Nat
            OBVIOUS
        <3> HIDE DEF X
        <3> QED
            BY <3>1, LeastNumber
    <2>2. n \in Nat /\ ~\E g : Good(n, g)
        OBVIOUS
    <2>3. CASE n = 0
        <3> DEFINE b == [s \in SUBSET S |-> base]
        <3>1. b \in [SUBSET S -> V]
            OBVIOUS
        <3>2. ~(n > 0)
            BY <2>3
        <3> HIDE DEF Good, X, b
        <3>3. \E h : Good(n, h)
            BY <1>4, <2>2, <3>1, <3>2
        <3> QED
            BY <2>2, <3>3
    <2>4. CASE n # 0
        <3>1. n - 1 \in Nat /\ n - 1 < n
            BY <2>2, <2>4
        <3>2. (n - 1) \notin X
            <4>1. (n - 1) \in X => n <= n - 1
                <5> HIDE DEF X
                <5> QED
                    BY <2>1
            <4> HIDE DEF X
            <4> QED
                BY <2>2, <3>1, <4>1
        <3>3. PICK g : Good(n - 1, g)
            <4> HIDE DEF Good
            <4> QED
                BY <3>1, <3>2
        <3>4. g \in [SUBSET S -> V]
            BY <3>3
        <3> HIDE DEF Good, X
        <3> QED
            BY <1>4, <2>2, <3>3, <3>4
    <2> QED
        BY <2>3, <2>4
<1>6. PICK g : Good(Cardinality(S), g)
    <2>1. Cardinality(S) \in Nat
        BY FS_CardinalityType
    <2> HIDE DEF Good
    <2> QED
        BY <1>5, <2>1
<1>7. g \in [SUBSET S -> V] /\ \A s \in SUBSET S : g[s] = Next(g, s)
    BY <1>1, <1>6
<1>8. g = [s \in SUBSET S |-> Next(g, s)]
    <2> HIDE DEF Next
    <2> QED
        BY <1>7
<1>9. FoldOf(S, base, pick, step, g)
    BY <1>8 DEF FoldOf
<1> QED
    BY <1>7, <1>9
-----------------------------------------------------------------------------
(* Recursion on numbers.                                                   *)

\* Induction up to n, over a set of numbers.
LEMMA UpTo ==
    ASSUME NEW n \in Nat, NEW P, 0 \in P, \A i \in 1 .. n : (i - 1) \in P => i \in P
    PROVE  0 .. n \subseteq P
<1> SUFFICES ASSUME NEW k \in 0 .. n, k \notin P PROVE FALSE
    OBVIOUS
<1> DEFINE X == {i \in 0 .. n : i \notin P}
<1>1. X # {} /\ X \subseteq Nat
    OBVIOUS
<1>2. PICK m \in X : \A i \in X : m <= i
    <2> HIDE DEF X
    <2> QED
        BY <1>1, LeastNumber
<1>3. m \in 1 .. n /\ m \notin P
    OBVIOUS
<1>4. (m - 1) \in 0 .. n /\ m - 1 < m
    BY <1>3
<1>5. (m - 1) \in P
    <2>1. (m - 1) \notin X
        <3>1. (m - 1) \in X => m <= m - 1
            <4> HIDE DEF X
            <4> QED
                BY <1>2
        <3> HIDE DEF X
        <3> QED
            BY <1>3, <3>1
    <2> QED
        BY <1>4, <2>1
<1> QED
    BY <1>3, <1>5

\* A recursive function on 0 .. n whose steps stay in V exists.
Recursive(n, base, step, f) ==
    f = [i \in 0 .. n |-> IF i = 0 THEN base ELSE step[<<i, f[i - 1]>>]]

LEMMA RecursionExists ==
    ASSUME NEW n \in Nat, NEW V, NEW base \in V, NEW step \in [(1 .. n) \X V -> V]
    PROVE  \E f \in [0 .. n -> V] : Recursive(n, base, step, f)
<1> DEFINE Good(f, m) == \A i \in 0 .. m : f[i] = IF i = 0 THEN base ELSE step[<<i, f[i - 1]>>]
           P == {m \in 0 .. n : \E f \in [0 .. n -> V] : Good(f, m)}
<1>1. 0 \in P
    <2> DEFINE f == [i \in 0 .. n |-> base]
    <2>1. f \in [0 .. n -> V] /\ Good(f, 0) /\ 0 \in 0 .. n
        OBVIOUS
    <2> HIDE DEF f, Good
    <2> QED
        BY <2>1
<1>2. ASSUME NEW m \in 1 .. n, (m - 1) \in P PROVE m \in P
    <2>1. PICK f \in [0 .. n -> V] : Good(f, m - 1)
        BY <1>2
    <2>2. m \in Int /\ m - 1 \in 0 .. n /\ m \in 0 .. n
        OBVIOUS
    <2>3. f[m - 1] \in V
        BY <2>2
    <2> DEFINE v == step[<<m, f[m - 1]>>]
               h == [f EXCEPT ![m] = v]
    <2>4. v \in V
        BY <2>3
    <2> HIDE DEF v
    <2>5. h \in [0 .. n -> V] /\ h[m] = v /\ \A i \in 0 .. n : i # m => h[i] = f[i]
        BY <2>4
    <2> HIDE DEF h
    <2>6. ASSUME NEW i \in 0 .. m PROVE h[i] = IF i = 0 THEN base ELSE step[<<i, h[i - 1]>>]
        <3>1. CASE i = m
            <4>1. h[m - 1] = f[m - 1] /\ m # 0
                BY <2>2, <2>5
            <4> QED
                BY <2>5, <3>1, <4>1 DEF v
        <3>2. CASE i # m
            <4>1. i \in 0 .. (m - 1) /\ i \in 0 .. n /\ (i # 0 => i - 1 \in 0 .. n /\ i - 1 # m)
                BY <2>2, <3>2
            <4>2. h[i] = f[i] /\ (i # 0 => h[i - 1] = f[i - 1])
                BY <2>5, <3>2, <4>1
            <4>3. f[i] = IF i = 0 THEN base ELSE step[<<i, f[i - 1]>>]
                BY <2>1, <4>1
            <4> QED
                BY <4>2, <4>3
        <3> QED
            BY <3>1, <3>2
    <2>7. Good(h, m)
        BY <2>6
    <2> HIDE DEF Good
    <2> QED
        BY <2>2, <2>5, <2>7
<1>3. n \in P
    <2> HIDE DEF P
    <2>1. 0 .. n \subseteq P
        BY <1>1, <1>2, UpTo
    <2> QED
        BY <2>1
<1>4. PICK f \in [0 .. n -> V] : Good(f, n)
    BY <1>3
<1>5. f = [i \in 0 .. n |-> IF i = 0 THEN base ELSE step[<<i, f[i - 1]>>]]
    BY <1>4
<1> QED
    BY <1>5 DEF Recursive

=============================================================================
