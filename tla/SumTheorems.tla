----------------------------- MODULE SumTheorems -----------------------------
(***************************************************************************)
(* What SumFunctionOnSet returns.  The community modules define it by a    *)
(* recursive function over the subsets of a set, which takes an arbitrary  *)
(* element out at each step.  The clawbacks of the ledger and the scores   *)
(* of fraud are sums of this kind, and their proofs need to know that the  *)
(* order does not matter.                                                  *)
(*                                                                         *)
(* Every proof looks at a smallest set that would be a counterexample:     *)
(* that is induction over finite sets without an operator as a parameter.  *)
(***************************************************************************)
EXTENDS Integers, FiniteSets, Functions, FiniteSetTheorems, SequenceTheorems, TLAPS

Pick(s) == CHOOSE x \in s : TRUE

\* g adds up f over every subset of T.
AddsUp(g, f, T) ==
    g = [s \in SUBSET T |->
            IF s = {} THEN 0 ELSE f[Pick(s)] + g[s \ {Pick(s)}]]

-----------------------------------------------------------------------------

\* A set of subsets of a finite set has one that contains no other.
LEMMA SmallestSet ==
    ASSUME NEW S, IsFiniteSet(S), NEW D \in SUBSET (SUBSET S), D # {}
    PROVE  \E T \in D : \A U \in D : U \subseteq T => U = T
<1>1. IsWellFoundedOn(StrictSubsetOrdering(S), SUBSET S)
  BY FS_StrictSubsetOrderingWellFounded, FS_FiniteSubsetsOfFinite, Zenon
<1>2. PICK T \in D : \A U \in D : ~(<<U, T>> \in StrictSubsetOrdering(S))
  BY <1>1, WFMin, Zenon
<1>3. ASSUME NEW U \in D, U \subseteq T PROVE U = T
  <2>1. <<U, T>> \in (SUBSET S) \X (SUBSET S)
    BY Zenon
  <2>2. <<U, T>>[1] = U /\ <<U, T>>[2] = T
    OBVIOUS
  <2>3. ~(<<U, T>> \in StrictSubsetOrdering(S))
    BY <1>2, Zenon
  <2> QED
    BY <1>3, <2>1, <2>2, <2>3 DEF StrictSubsetOrdering
<1> QED
  BY <1>3, Zenon

LEMMA PickIsMember ==
    ASSUME NEW s, s # {} PROVE Pick(s) \in s
BY DEF Pick

\* Two functions that add up f agree wherever both are defined.
LEMMA TotalsAgree ==
    ASSUME NEW f, NEW S, IsFiniteSet(S), NEW T \in SUBSET S, NEW U \in SUBSET S,
           NEW g, NEW h, AddsUp(g, f, T), AddsUp(h, f, U)
    PROVE  \A V \in SUBSET (T \cap U) : g[V] = h[V]
<1> DEFINE D == {V \in SUBSET (T \cap U) : g[V] # h[V]}
<1> SUFFICES ASSUME D # {} PROVE FALSE
  OBVIOUS
<1>1. D \in SUBSET (SUBSET S)
  OBVIOUS
<1>2. PICK V \in D : \A W \in D : W \subseteq V => W = V
  <2> HIDE DEF D
  <2> QED BY <1>1, SmallestSet
<1>3. V \in SUBSET T /\ V \in SUBSET U /\ g[V] # h[V]
  OBVIOUS
<1>4. /\ g[V] = IF V = {} THEN 0 ELSE f[Pick(V)] + g[V \ {Pick(V)}]
      /\ h[V] = IF V = {} THEN 0 ELSE f[Pick(V)] + h[V \ {Pick(V)}]
  BY <1>3 DEF AddsUp
<1>5. V # {} /\ g[V \ {Pick(V)}] # h[V \ {Pick(V)}]
  BY <1>3, <1>4
<1>6. V \ {Pick(V)} \in D
  BY <1>3, <1>5
<1>7. V \ {Pick(V)} # V
  BY <1>5, PickIsMember, Zenon
<1> QED
  BY <1>2, <1>6, <1>7

\* The sum is the value of a function that adds up f.
LEMMA SumIsTotal ==
    ASSUME NEW f, NEW S
    PROVE  SumFunctionOnSet(f, S) = (CHOOSE g : AddsUp(g, f, S))[S]
BY DEF SumFunctionOnSet, FoldFunctionOnSet, MapThenFoldSet, AddsUp, Pick

\* Where such a function exists, a sum takes the picked element first.
LEMMA SumUnfolds ==
    ASSUME NEW f, NEW S, IsFiniteSet(S),
           \A T \in SUBSET S : \E g : AddsUp(g, f, T)
    PROVE  SumFunctionOnSet(f, S) =
               IF S = {} THEN 0
               ELSE f[Pick(S)] + SumFunctionOnSet(f, S \ {Pick(S)})
<1> DEFINE G == CHOOSE g : AddsUp(g, f, S)
           P == S \ {Pick(S)}
           H == CHOOSE g : AddsUp(g, f, P)
<1>1. AddsUp(G, f, S) /\ AddsUp(H, f, P)
  <2>1. S \in SUBSET S /\ P \in SUBSET S
    OBVIOUS
  <2>2. (\E g : AddsUp(g, f, S)) /\ (\E g : AddsUp(g, f, P))
    BY <2>1, Zenon
  <2> QED BY <2>2, Zenon
<1>2. G[P] = H[P]
  <2>1. P \in SUBSET (S \cap P) /\ P \in SUBSET S /\ S \in SUBSET S
    OBVIOUS
  <2> HIDE DEF G, H, P
  <2> QED BY <1>1, <2>1, TotalsAgree
<1>3. G[S] = IF S = {} THEN 0 ELSE f[Pick(S)] + G[P]
  <2> HIDE DEF G
  <2> QED BY <1>1 DEF AddsUp
<1>4. SumFunctionOnSet(f, S) = G[S] /\ SumFunctionOnSet(f, P) = H[P]
  BY SumIsTotal, Zenon
<1> HIDE DEF G, H, P
<1>5. SumFunctionOnSet(f, S) =
          IF S = {} THEN 0 ELSE f[Pick(S)] + SumFunctionOnSet(f, P)
  BY <1>2, <1>3, <1>4
<1> QED BY <1>5 DEF P

\* A function that adds up f exists on every finite set.
LEMMA TotalExists ==
    ASSUME NEW f, NEW S, IsFiniteSet(S)
    PROVE  \A T \in SUBSET S : \E g : AddsUp(g, f, T)
<1> DEFINE D == {T \in SUBSET S : ~\E g : AddsUp(g, f, T)}
<1> SUFFICES ASSUME D # {} PROVE FALSE
  OBVIOUS
<1>1. D \in SUBSET (SUBSET S)
  OBVIOUS
<1>2. PICK U \in D : \A W \in D : W \subseteq U => W = U
  <2> HIDE DEF D
  <2> QED BY <1>1, SmallestSet
<1>3. U \in SUBSET S /\ ~\E g : AddsUp(g, f, U)
  OBVIOUS
<1>4. \A W \in SUBSET U : W # U => \E g : AddsUp(g, f, W)
  BY <1>2, <1>3
<1> DEFINE sum(W) == SumFunctionOnSet(f, W)
           h == [V \in SUBSET U |->
                    IF V = {} THEN 0 ELSE f[Pick(V)] + sum(V \ {Pick(V)})]
<1>5. ASSUME NEW V \in SUBSET U, V # {} PROVE h[V \ {Pick(V)}] = sum(V \ {Pick(V)})
  <2> DEFINE W == V \ {Pick(V)}
  <2>1. W \in SUBSET U /\ W # U /\ \A X \in SUBSET W : X \in SUBSET U /\ X # U
    BY <1>5, PickIsMember
  <2>2. IsFiniteSet(W)
    BY <1>3, <2>1, FS_Subset
  <2>3. \A X \in SUBSET W : \E g : AddsUp(g, f, X)
    BY <1>4, <2>1, Zenon
  <2>4. sum(W) = IF W = {} THEN 0 ELSE f[Pick(W)] + sum(W \ {Pick(W)})
    <3> HIDE DEF W
    <3> QED BY <2>2, <2>3, SumUnfolds, Zenon
  <2>5. h[W] = IF W = {} THEN 0 ELSE f[Pick(W)] + sum(W \ {Pick(W)})
    <3> HIDE DEF W, sum
    <3> QED BY <2>1
  <2> QED BY <2>4, <2>5, Zenon
<1>6. AddsUp(h, f, U)
  <2> DEFINE k == [V \in SUBSET U |->
                      IF V = {} THEN 0 ELSE f[Pick(V)] + h[V \ {Pick(V)}]]
  <2>1. ASSUME NEW V \in SUBSET U PROVE h[V] = k[V]
    <3>1. h[V] = IF V = {} THEN 0 ELSE f[Pick(V)] + sum(V \ {Pick(V)})
      OBVIOUS
    <3> HIDE DEF h, sum
    <3>2. k[V] = IF V = {} THEN 0 ELSE f[Pick(V)] + h[V \ {Pick(V)}]
      OBVIOUS
    <3> QED BY <1>5, <3>1, <3>2
  <2>2. h = k
    <3>1. h = [V \in SUBSET U |-> h[V]] /\ k = [V \in SUBSET U |-> k[V]]
      OBVIOUS
    <3> HIDE DEF h, k
    <3> QED BY <2>1, <3>1
  <2> HIDE DEF h
  <2> QED BY <2>2 DEF AddsUp
<1> QED
  BY <1>3, <1>6, Zenon

-----------------------------------------------------------------------------
\* What the sums of the model rest on.

\* The sum over nothing is zero.
LEMMA SumEmpty ==
    ASSUME NEW f PROVE SumFunctionOnSet(f, {}) = 0
<1>1. IsFiniteSet({})
  BY FS_EmptySet, Zenon
<1>2. \A T \in SUBSET {} : \E g : AddsUp(g, f, T)
  BY <1>1, TotalExists, Zenon
<1> QED
  BY <1>1, <1>2, SumUnfolds

\* A sum takes the picked element first.
LEMMA SumPicks ==
    ASSUME NEW f, NEW S, IsFiniteSet(S), S # {}
    PROVE  SumFunctionOnSet(f, S) =
               f[Pick(S)] + SumFunctionOnSet(f, S \ {Pick(S)})
<1>1. \A T \in SUBSET S : \E g : AddsUp(g, f, T)
  BY TotalExists, Zenon
<1> QED
  BY <1>1, SumUnfolds

\* A sum of natural numbers is a natural number.
LEMMA SumType ==
    ASSUME NEW f, NEW S, IsFiniteSet(S), \A x \in S : f[x] \in Nat
    PROVE  SumFunctionOnSet(f, S) \in Nat
<1> DEFINE D == {T \in SUBSET S : SumFunctionOnSet(f, T) \notin Nat}
<1> SUFFICES ASSUME D # {} PROVE FALSE
  OBVIOUS
<1>1. D \in SUBSET (SUBSET S)
  OBVIOUS
<1>2. PICK T \in D : \A W \in D : W \subseteq T => W = T
  <2> HIDE DEF D
  <2> QED BY <1>1, SmallestSet
<1>3. T \in SUBSET S /\ SumFunctionOnSet(f, T) \notin Nat
  OBVIOUS
<1>4. T # {}
  BY <1>3, SumEmpty
<1>5. IsFiniteSet(T)
  BY <1>3, FS_Subset
<1> DEFINE p == Pick(T)
           R == T \ {p}
<1>6. p \in T
  BY <1>4, PickIsMember, Zenon
<1>7. R \in SUBSET S /\ R \subseteq T /\ R # T
  BY <1>3, <1>6
<1>8. SumFunctionOnSet(f, R) \in Nat
  <2> HIDE DEF R
  <2> QED BY <1>2, <1>7
<1>9. SumFunctionOnSet(f, T) = f[p] + SumFunctionOnSet(f, R)
  BY <1>4, <1>5, SumPicks, Zenon
<1>10. f[p] \in Nat
  BY <1>3, <1>6
<1> HIDE DEF p, R
<1> QED
  BY <1>3, <1>8, <1>9, <1>10

\* Any element may be taken first.
LEMMA SumAdd ==
    ASSUME NEW f, NEW S, IsFiniteSet(S), \A x \in S : f[x] \in Nat,
           NEW x \in S
    PROVE  SumFunctionOnSet(f, S) = f[x] + SumFunctionOnSet(f, S \ {x})
<1> DEFINE sum(T) == SumFunctionOnSet(f, T)
           D == {T \in SUBSET S : \E y \in T : sum(T) # f[y] + sum(T \ {y})}
<1> SUFFICES ASSUME D # {} PROVE FALSE
  <2>1. S \notin D
    OBVIOUS
  <2> QED BY <2>1
<1>1. D \in SUBSET (SUBSET S)
  OBVIOUS
<1>2. PICK T \in D : \A W \in D : W \subseteq T => W = T
  <2> HIDE DEF D
  <2> QED BY <1>1, SmallestSet
<1>3. T \in SUBSET S
  OBVIOUS
<1>4. PICK y \in T : sum(T) # f[y] + sum(T \ {y})
  OBVIOUS
<1>5. \A W \in SUBSET T : IsFiniteSet(W) /\ sum(W) \in Nat
  <2> TAKE W \in SUBSET T
  <2>1. IsFiniteSet(W)
    BY <1>3, FS_Subset
  <2>2. \A z \in W : f[z] \in Nat
    BY <1>3
  <2> QED BY <2>1, <2>2, SumType, Zenon
<1> DEFINE p == Pick(T)
<1>6. p \in T
  BY PickIsMember
<1>7. sum(T) = f[p] + sum(T \ {p})
  <2>1. T # {} /\ T \in SUBSET T
    OBVIOUS
  <2> QED BY <1>5, <2>1, SumPicks, Zenon
<1>8. p # y
  BY <1>4, <1>7
<1>9. \A W \in SUBSET T : W # T => \A z \in W : sum(W) = f[z] + sum(W \ {z})
  <2> TAKE W \in SUBSET T
  <2> SUFFICES ASSUME W # T PROVE \A z \in W : sum(W) = f[z] + sum(W \ {z})
    OBVIOUS
  <2>1. W \in SUBSET S /\ W \notin D
    BY <1>2, <1>3
  <2> HIDE DEF sum
  <2> QED BY <2>1
<1> DEFINE N == (T \ {p}) \ {y}
<1>10. sum(T \ {p}) = f[y] + sum(N)
  <2>1. T \ {p} \in SUBSET T /\ T \ {p} # T /\ y \in T \ {p}
    BY <1>6, <1>8
  <2> QED BY <1>9, <2>1, Zenon
<1>11. sum(T \ {y}) = f[p] + sum(N)
  <2>1. T \ {y} \in SUBSET T /\ T \ {y} # T /\ p \in T \ {y}
    BY <1>6, <1>8
  <2>2. (T \ {y}) \ {p} = N
    OBVIOUS
  <2>3. sum(T \ {y}) = f[p] + sum((T \ {y}) \ {p})
    BY <1>9, <2>1, Zenon
  <2> QED BY <2>2, <2>3, Zenon
<1>12. f[p] \in Nat /\ f[y] \in Nat /\ sum(N) \in Nat
  <2>1. N \in SUBSET T
    OBVIOUS
  <2> QED BY <1>3, <1>5, <1>6, <2>1
<1> HIDE DEF p, N, sum
<1> QED
  BY <1>4, <1>7, <1>10, <1>11, <1>12

\* A sum depends only on the values that are added.
LEMMA SumSame ==
    ASSUME NEW f, NEW g, NEW S, IsFiniteSet(S), \A x \in S : f[x] = g[x]
    PROVE  SumFunctionOnSet(f, S) = SumFunctionOnSet(g, S)
<1> DEFINE D == {T \in SUBSET S : SumFunctionOnSet(f, T) # SumFunctionOnSet(g, T)}
<1> SUFFICES ASSUME D # {} PROVE FALSE
  OBVIOUS
<1>1. D \in SUBSET (SUBSET S)
  OBVIOUS
<1>2. PICK T \in D : \A W \in D : W \subseteq T => W = T
  <2> HIDE DEF D
  <2> QED BY <1>1, SmallestSet
<1>3. T \in SUBSET S /\ SumFunctionOnSet(f, T) # SumFunctionOnSet(g, T)
  OBVIOUS
<1>4. T # {}
  BY <1>3, SumEmpty
<1>5. IsFiniteSet(T)
  BY <1>3, FS_Subset
<1> DEFINE p == Pick(T)
           R == T \ {p}
<1>6. p \in T
  BY <1>4, PickIsMember, Zenon
<1>7. R \in SUBSET S /\ R \subseteq T /\ R # T
  BY <1>3, <1>6
<1>8. SumFunctionOnSet(f, R) = SumFunctionOnSet(g, R)
  <2> HIDE DEF R
  <2> QED BY <1>2, <1>7
<1>9. /\ SumFunctionOnSet(f, T) = f[p] + SumFunctionOnSet(f, R)
      /\ SumFunctionOnSet(g, T) = g[p] + SumFunctionOnSet(g, R)
  BY <1>4, <1>5, SumPicks, Zenon
<1>10. f[p] = g[p]
  BY <1>3, <1>6
<1> HIDE DEF p, R
<1> QED
  BY <1>3, <1>8, <1>9, <1>10

\* A sum of zeros is zero.
LEMMA SumZero ==
    ASSUME NEW f, NEW S, IsFiniteSet(S), \A x \in S : f[x] = 0
    PROVE  SumFunctionOnSet(f, S) = 0
<1> DEFINE D == {T \in SUBSET S : SumFunctionOnSet(f, T) # 0}
<1> SUFFICES ASSUME D # {} PROVE FALSE
  OBVIOUS
<1>1. D \in SUBSET (SUBSET S)
  OBVIOUS
<1>2. PICK T \in D : \A W \in D : W \subseteq T => W = T
  <2> HIDE DEF D
  <2> QED BY <1>1, SmallestSet
<1>3. T \in SUBSET S /\ SumFunctionOnSet(f, T) # 0
  OBVIOUS
<1>4. IsFiniteSet(T)
  BY <1>3, FS_Subset
<1>5. T # {}
  BY <1>3, SumEmpty
<1> DEFINE P == T \ {Pick(T)}
<1>6. Pick(T) \in T
  BY <1>5, PickIsMember
<1>7. P \notin D
  BY <1>2, <1>6
<1>8. SumFunctionOnSet(f, P) = 0
  BY <1>3, <1>7
<1>9. f[Pick(T)] = 0
  BY <1>3, <1>6
<1>10. SumFunctionOnSet(f, T) = f[Pick(T)] + SumFunctionOnSet(f, P)
  BY <1>4, <1>5, SumPicks
<1> QED
  BY <1>3, <1>8, <1>9, <1>10

\* A sum changes by what one of its terms changes.
LEMMA SumChange ==
    ASSUME NEW f, NEW g, NEW S, IsFiniteSet(S),
           \A x \in S : f[x] \in Nat /\ g[x] \in Nat,
           NEW x \in S, \A y \in S \ {x} : g[y] = f[y]
    PROVE  /\ SumFunctionOnSet(f, S) \in Nat
           /\ SumFunctionOnSet(g, S) \in Nat
           /\ SumFunctionOnSet(g, S) = SumFunctionOnSet(f, S) + g[x] - f[x]
<1> DEFINE P == S \ {x}
<1>1. IsFiniteSet(P)
  BY FS_Subset
<1>2. SumFunctionOnSet(f, S) \in Nat /\ SumFunctionOnSet(g, S) \in Nat
  BY SumType
<1>3. SumFunctionOnSet(f, P) \in Nat
  BY <1>1, SumType
<1>4. SumFunctionOnSet(f, P) = SumFunctionOnSet(g, P)
  BY <1>1, SumSame
<1>5. SumFunctionOnSet(f, S) = f[x] + SumFunctionOnSet(f, P)
  BY SumAdd
<1>6. SumFunctionOnSet(g, S) = g[x] + SumFunctionOnSet(g, P)
  BY SumAdd
<1> QED
  BY <1>2, <1>3, <1>4, <1>5, <1>6

\* Terms that are zero do not count.
LEMMA SumWithin ==
    ASSUME NEW f, NEW S, IsFiniteSet(S), \A x \in S : f[x] \in Nat,
           NEW T \in SUBSET S, \A x \in S \ T : f[x] = 0
    PROVE  SumFunctionOnSet(f, S) = SumFunctionOnSet(f, T)
<1> DEFINE sum(U) == SumFunctionOnSet(f, U)
           D == {U \in SUBSET S : sum(U) # sum(U \cap T)}
<1> SUFFICES ASSUME D # {} PROVE FALSE
  <2>1. sum(S) = sum(S \cap T)
    OBVIOUS
  <2>2. S \cap T = T
    OBVIOUS
  <2>3. QED BY <2>1, <2>2, Zenon
<1>1. D \in SUBSET (SUBSET S)
  OBVIOUS
<1>2. PICK U \in D : \A W \in D : W \subseteq U => W = U
  <2> HIDE DEF D
  <2> QED BY <1>1, SmallestSet
<1>3. U \in SUBSET S /\ sum(U) # sum(U \cap T)
  OBVIOUS
<1>4. PICK x : x \in U
  <2>1. U # {}
    <3>1. CASE U = {}
      <4>1. U \cap T = U
        BY <3>1
      <4>2. QED BY <1>3, <4>1
    <3>2. QED BY <3>1
  <2>2. QED BY <2>1
<1> DEFINE R == U \ {x}
<1>5. R \in SUBSET S /\ R \subseteq U /\ R # U
  BY <1>3, <1>4
<1>6. sum(R) = sum(R \cap T)
  <2>1. R \notin D
    BY <1>2, <1>5
  <2>2. QED BY <1>5, <2>1, Zenon
<1>7. IsFiniteSet(U) /\ IsFiniteSet(U \cap T) /\ IsFiniteSet(R)
  <2>1. U \cap T \in SUBSET S
    OBVIOUS
  <2>2. QED BY <1>3, <1>5, <2>1, FS_Subset, Zenon
<1>8. sum(U) = f[x] + sum(R)
  <2>1. \A y \in U : f[y] \in Nat
    BY <1>3
  <2> HIDE DEF R
  <2>2. SumFunctionOnSet(f, U) = f[x] + SumFunctionOnSet(f, U \ {x})
    <3> HIDE DEF D
    <3>1. QED BY <1>4, <1>7, <2>1, SumAdd
  <2>3. QED BY <2>2 DEF R
<1>9. CASE x \in T
  <2>1. \A y \in U \cap T : f[y] \in Nat
    BY <1>3
  <2>2. x \in U \cap T /\ (U \cap T) \ {x} = R \cap T
    BY <1>4, <1>9
  <2>3. sum(U \cap T) = f[x] + sum((U \cap T) \ {x})
    <3> DEFINE V == U \cap T
    <3>1. x \in V /\ IsFiniteSet(V) /\ \A y \in V : f[y] \in Nat
      BY <1>7, <2>1, <2>2
    <3> HIDE DEF D, V
    <3>2. SumFunctionOnSet(f, V) = f[x] + SumFunctionOnSet(f, V \ {x})
      BY <3>1, SumAdd
    <3>3. QED BY <3>2 DEF V
  <2>4. sum(U \cap T) = f[x] + sum(R \cap T)
    BY <2>2, <2>3, Zenon
  <2>5. sum(U) = f[x] + sum(R \cap T)
    BY <1>6, <1>8, Zenon
  <2>6. QED BY <1>3, <2>4, <2>5, Zenon
<1>10. CASE x \notin T
  <2>1. f[x] = 0 /\ R \cap T = U \cap T
    BY <1>3, <1>4, <1>10
  <2>2. sum(R) \in Nat
    <3>1. \A y \in R : f[y] \in Nat
      BY <1>5
    <3>2. QED BY <1>7, <3>1, SumType, Zenon
  <2>3. U \cap T = R \cap T
    BY <2>1
  <2>4. sum(U) = sum(R)
    <3> HIDE DEF sum, R, D
    <3>1. QED BY <1>8, <2>1, <2>2
  <2>5. QED BY <1>3, <1>6, <2>3, <2>4, Zenon
<1>11. QED
  BY <1>9, <1>10

\* A sum is that of a part and that of the rest.
LEMMA SumSplit ==
    ASSUME NEW f, NEW S, IsFiniteSet(S), \A x \in S : f[x] \in Nat,
           NEW T \in SUBSET S
    PROVE  SumFunctionOnSet(f, S)
               = SumFunctionOnSet(f, T) + SumFunctionOnSet(f, S \ T)
<1> DEFINE sum(U) == SumFunctionOnSet(f, U)
           D == {U \in SUBSET S : sum(S) # sum(U) + sum(S \ U)}
<1> SUFFICES ASSUME D # {} PROVE FALSE
  <2>1. T \notin D
    OBVIOUS
  <2> QED BY <2>1
<1>1. D \in SUBSET (SUBSET S)
  OBVIOUS
<1>2. PICK U \in D : \A W \in D : W \subseteq U => W = U
  <2> HIDE DEF D
  <2> QED BY <1>1, SmallestSet
<1>3. U \in SUBSET S /\ sum(S) # sum(U) + sum(S \ U)
  OBVIOUS
<1>4. \A W \in SUBSET S : IsFiniteSet(W) /\ sum(W) \in Nat
  <2> TAKE W \in SUBSET S
  <2>1. IsFiniteSet(W)
    BY FS_Subset
  <2>2. \A x \in W : f[x] \in Nat
    OBVIOUS
  <2> QED BY <2>1, <2>2, SumType, Zenon
<1>5. U # {}
  <2>1. S \ {} = S /\ sum({}) = 0 /\ sum(S) \in Nat
    BY <1>4, SumEmpty
  <2>2. sum(S) = sum({}) + sum(S \ {})
    <3> HIDE DEF sum
    <3> QED BY <2>1
  <2> QED BY <1>3, <2>2
<1>6. PICK x : x \in U
  BY <1>5
<1> DEFINE R == U \ {x}
<1>7. R \in SUBSET S /\ R \subseteq U /\ R # U
  BY <1>3, <1>6
<1>8. sum(S) = sum(R) + sum(S \ R)
  <2>1. R \notin D
    <3> HIDE DEF R, D
    <3> QED BY <1>2, <1>7
  <2> QED BY <1>7, <2>1, Zenon
<1>9. sum(U) = f[x] + sum(R)
  <2>1. IsFiniteSet(U) /\ \A y \in U : f[y] \in Nat
    BY <1>3, <1>4
  <2> HIDE DEF D
  <2>2. SumFunctionOnSet(f, U) = f[x] + SumFunctionOnSet(f, U \ {x})
    BY <1>6, <2>1, SumAdd
  <2> QED BY <2>2
<1>10. sum(S \ R) = f[x] + sum(S \ U)
  <2> DEFINE V == S \ R
  <2>1. V \in SUBSET S /\ x \in V /\ V \ {x} = S \ U
    BY <1>3, <1>6
  <2>2. IsFiniteSet(V) /\ \A y \in V : f[y] \in Nat
    BY <1>4, <2>1
  <2> HIDE DEF V, D
  <2>3. SumFunctionOnSet(f, V) = f[x] + SumFunctionOnSet(f, V \ {x})
    BY <2>1, <2>2, SumAdd
  <2> QED BY <2>1, <2>3, Zenon DEF V
<1>11. f[x] \in Nat /\ sum(R) \in Nat /\ sum(S \ U) \in Nat
  <2>1. S \ U \in SUBSET S /\ x \in S
    BY <1>3, <1>6
  <2> QED BY <1>4, <1>7, <2>1
<1> HIDE DEF sum, R, D
<1> QED
  BY <1>3, <1>8, <1>9, <1>10, <1>11

\* A sum does not depend on the names of its terms.
LEMMA SumMoves ==
    ASSUME NEW f, NEW S, IsFiniteSet(S), \A x \in S : f[x] \in Nat,
           NEW g, NEW b, \A x \in S : g[b[x]] = f[x],
           \A x, y \in S : b[x] = b[y] => x = y
    PROVE  SumFunctionOnSet(f, S) = SumFunctionOnSet(g, {b[x] : x \in S})
<1> DEFINE image(U) == {b[x] : x \in U}
           D == {U \in SUBSET S :
                    SumFunctionOnSet(f, U) # SumFunctionOnSet(g, image(U))}
<1> SUFFICES ASSUME D # {} PROVE FALSE
  <2>1. S \notin D
    OBVIOUS
  <2> QED BY <2>1
<1>1. D \in SUBSET (SUBSET S)
  OBVIOUS
<1>2. PICK U \in D : \A W \in D : W \subseteq U => W = U
  <2> HIDE DEF D
  <2> QED BY <1>1, SmallestSet
<1>3. U \in SUBSET S /\ SumFunctionOnSet(f, U) # SumFunctionOnSet(g, image(U))
  OBVIOUS
<1>4. U # {}
  <2>1. image({}) = {}
    OBVIOUS
  <2>2. SumFunctionOnSet(f, {}) = SumFunctionOnSet(g, image({}))
    BY <2>1, SumEmpty, Zenon
  <2> QED BY <1>3, <2>2, Zenon
<1>5. PICK x : x \in U
  BY <1>4
<1> DEFINE R == U \ {x}
<1>6. R \in SUBSET S /\ R \subseteq U /\ R # U
  BY <1>3, <1>5
<1>7. SumFunctionOnSet(f, R) = SumFunctionOnSet(g, image(R))
  <2>1. R \notin D
    <3> HIDE DEF R, D
    <3> QED BY <1>2, <1>6
  <2> QED BY <1>6, <2>1, Zenon
<1>8. IsFiniteSet(U) /\ \A y \in U : f[y] \in Nat
  BY <1>3, FS_Subset
<1>9. SumFunctionOnSet(f, U) = f[x] + SumFunctionOnSet(f, R)
  <2> HIDE DEF D, image
  <2>1. SumFunctionOnSet(f, U) = f[x] + SumFunctionOnSet(f, U \ {x})
    BY <1>5, <1>8, SumAdd
  <2> QED BY <2>1
<1>10. IsFiniteSet(image(U))
  <2> DEFINE h == [y \in U |-> b[y]]
  <2>1. h \in Surjection(U, image(U))
    <3>1. h \in [U -> image(U)] /\ \A z \in image(U) : \E y \in U : h[y] = z
      OBVIOUS
    <3> HIDE DEF h, image, D
    <3> QED BY <3>1 DEF Surjection
  <2> HIDE DEF h, image, D
  <2> QED BY <1>8, <2>1, FS_Surjection, Zenon
<1>11. b[x] \in image(U) /\ \A z \in image(U) : g[z] \in Nat
  BY <1>3, <1>5, <1>8
<1>12. image(U) \ {b[x]} = image(R)
  <2>1. ASSUME NEW z \in image(U) \ {b[x]} PROVE z \in image(R)
    <3>1. PICK y \in U : z = b[y]
      OBVIOUS
    <3>2. y \in R
      BY <3>1
    <3> QED BY <3>1, <3>2
  <2>2. ASSUME NEW z \in image(R) PROVE z \in image(U) \ {b[x]}
    <3>1. PICK y \in R : z = b[y]
      OBVIOUS
    <3>2. y \in U /\ y \in S /\ x \in S /\ y # x
      BY <1>3, <1>5
    <3>3. b[y] # b[x]
      BY <3>2
    <3> QED BY <3>1, <3>2, <3>3
  <2> QED BY <2>1, <2>2
<1>13. SumFunctionOnSet(g, image(U))
           = g[b[x]] + SumFunctionOnSet(g, image(U) \ {b[x]})
  <2> DEFINE V == image(U)
             z == b[x]
  <2>1. IsFiniteSet(V) /\ z \in V /\ \A y \in V : g[y] \in Nat
    BY <1>10, <1>11
  <2> HIDE DEF V, z, image, D
  <2>2. SumFunctionOnSet(g, V) = g[z] + SumFunctionOnSet(g, V \ {z})
    BY <2>1, SumAdd
  <2> QED BY <2>2, Zenon DEF V, z
<1>14. g[b[x]] = f[x]
  BY <1>3, <1>5
<1> HIDE DEF image, R, D
<1> QED
  BY <1>3, <1>7, <1>9, <1>12, <1>13, <1>14

\* The terms of two sums, one after the other.
LEMMA SumConcat ==
    ASSUME NEW m \in Nat, NEW n \in Nat, NEW f, NEW g, NEW h,
           \A k \in 1..m + n : f[k] \in Nat,
           \A k \in 1..m : f[k] = g[k],
           \A k \in 1..n : f[k + m] = h[k]
    PROVE  SumFunctionOnSet(f, 1..m + n)
               = SumFunctionOnSet(g, 1..m) + SumFunctionOnSet(h, 1..n)
<1> DEFINE A == 1..m + n
           P == 1..m
           Q == 1..n
           b == [k \in Q |-> k + m]
<1>1. IsFiniteSet(A) /\ IsFiniteSet(P) /\ IsFiniteSet(Q)
  BY FS_Interval
<1>2. P \in SUBSET A
  OBVIOUS
<1>3. \A j, k \in Q : b[j] = b[k] => j = k
  OBVIOUS
<1>4. \A k \in Q : h[k] \in Nat /\ f[b[k]] = h[k]
  <2> TAKE k \in Q
  <2>1. k + m \in A /\ b[k] = k + m
    OBVIOUS
  <2> QED BY <2>1
<1>5. {b[k] : k \in Q} = A \ P
  <2>1. ASSUME NEW k \in Q PROVE b[k] \in A \ P
    OBVIOUS
  <2>2. ASSUME NEW k \in A \ P PROVE k \in {b[j] : j \in Q}
    <3>1. k - m \in Q /\ (k - m) + m = k
      OBVIOUS
    <3>2. b[k - m] = k
      BY <3>1
    <3> QED BY <3>1, <3>2
  <2> QED BY <2>1, <2>2
<1>6. \A k \in A : f[k] \in Nat
  OBVIOUS
<1>7. \A k \in P : f[k] = g[k]
  OBVIOUS
<1> HIDE DEF A, P, Q, b
<1>8. SumFunctionOnSet(f, A) = SumFunctionOnSet(f, P) + SumFunctionOnSet(f, A \ P)
  BY <1>1, <1>2, <1>6, SumSplit
<1>9. SumFunctionOnSet(f, P) = SumFunctionOnSet(g, P)
  BY <1>1, <1>7, SumSame
<1>10. SumFunctionOnSet(h, Q) = SumFunctionOnSet(f, {b[k] : k \in Q})
  BY <1>1, <1>3, <1>4, SumMoves
<1>11. SumFunctionOnSet(f, A) = SumFunctionOnSet(g, P) + SumFunctionOnSet(h, Q)
  BY <1>5, <1>8, <1>9, <1>10, Zenon
<1> QED
  BY <1>11 DEF A, P, Q

-----------------------------------------------------------------------------
(* What a sequence holds, and what a sequence of sequences holds: the      *)
(* batches of the workers are cut, appended and bisected.                  *)

\* How many entries of s are in B.
Occurs(s, B) == Cardinality({i \in DOMAIN s : s[i] \in B})

LEMMA PlacesOf ==
    ASSUME NEW S, NEW s \in Seq(S)
    PROVE  /\ DOMAIN s = 1..Len(s) /\ Len(s) \in Nat
           /\ IsFiniteSet(1..Len(s)) /\ Cardinality(1..Len(s)) = Len(s)
<1>1. DOMAIN s = 1..Len(s) /\ Len(s) \in Nat
  OBVIOUS
<1>2. QED
  BY <1>1, FS_Interval

\* The places of s are finitely many, so how many of them are in B is a number.
LEMMA OccursType ==
    ASSUME NEW S, NEW s \in Seq(S), NEW B
    PROVE  /\ IsFiniteSet({i \in DOMAIN s : s[i] \in B})
           /\ Occurs(s, B) \in Nat /\ Occurs(s, B) <= Len(s)
<1>1. DOMAIN s = 1..Len(s) /\ Len(s) \in Nat
  OBVIOUS
<1>2. IsFiniteSet(1..Len(s)) /\ Cardinality(1..Len(s)) = Len(s)
  BY PlacesOf, Zenon
<1> DEFINE I == {i \in DOMAIN s : s[i] \in B}
<1>3. I \in SUBSET (1..Len(s))
  BY <1>1
<1>4. IsFiniteSet(I) /\ Cardinality(I) <= Cardinality(1..Len(s))
  <2> HIDE DEF I
  <2>1. QED BY <1>2, <1>3, FS_Subset
<1>5. Cardinality(I) \in Nat
  BY <1>4, FS_CardinalityType, Zenon
<1>6. QED
  BY <1>2, <1>4, <1>5 DEF Occurs

LEMMA OccursNone ==
    ASSUME NEW S, NEW s \in Seq(S), NEW B, \A i \in 1..Len(s) : s[i] \notin B
    PROVE  Occurs(s, B) = 0
<1>1. {i \in DOMAIN s : s[i] \in B} = {}
  OBVIOUS
<1>2. QED
  BY <1>1, FS_EmptySet, Zenon DEF Occurs

LEMMA OccursAll ==
    ASSUME NEW S, NEW s \in Seq(S), NEW B, \A i \in 1..Len(s) : s[i] \in B
    PROVE  Occurs(s, B) = Len(s)
<1>1. {i \in DOMAIN s : s[i] \in B} = 1..Len(s) /\ Len(s) \in Nat
  OBVIOUS
<1>2. Cardinality(1..Len(s)) = Len(s)
  BY PlacesOf, Zenon
<1>3. QED
  BY <1>1, <1>2, Zenon DEF Occurs

LEMMA OccursSome ==
    ASSUME NEW S, NEW s \in Seq(S), NEW B, NEW i \in 1..Len(s), s[i] \in B
    PROVE  Occurs(s, B) > 0
<1> DEFINE I == {j \in DOMAIN s : s[j] \in B}
<1>1. i \in I
  OBVIOUS
<1>2. IsFiniteSet(I) /\ Occurs(s, B) \in Nat
  BY OccursType, Zenon
<1> HIDE DEF I
<1>3. Cardinality(I) # 0
  BY <1>1, <1>2, FS_EmptySet, Zenon
<1>4. Occurs(s, B) = Cardinality(I)
  BY DEF Occurs, I
<1>5. QED
  BY <1>2, <1>3, <1>4

LEMMA OccursFound ==
    ASSUME NEW S, NEW s \in Seq(S), NEW B, Occurs(s, B) > 0
    PROVE  \E i \in 1..Len(s) : s[i] \in B
<1>1. SUFFICES ASSUME \A i \in 1..Len(s) : s[i] \notin B PROVE FALSE
  OBVIOUS
<1>2. QED
  BY <1>1, OccursNone

LEMMA OccursWithin ==
    ASSUME NEW S, NEW s \in Seq(S), NEW B, NEW C,
           \A i \in 1..Len(s) : s[i] \in B => s[i] \in C
    PROVE  Occurs(s, B) <= Occurs(s, C)
<1> DEFINE I == {j \in DOMAIN s : s[j] \in B}
           J == {j \in DOMAIN s : s[j] \in C}
<1>1. I \in SUBSET J
  OBVIOUS
<1>2. IsFiniteSet(J)
  BY OccursType, Zenon
<1> HIDE DEF I, J
<1>3. Cardinality(I) <= Cardinality(J)
  BY <1>1, <1>2, FS_Subset
<1>4. QED
  BY <1>3 DEF Occurs, I, J

LEMMA OccursOne ==
    ASSUME NEW S, NEW e \in S, NEW B
    PROVE  Occurs(<<e>>, B) = IF e \in B THEN 1 ELSE 0
<1>1. <<e>> \in Seq(S) /\ Len(<<e>>) = 1 /\ <<e>>[1] = e
  OBVIOUS
<1>2. ASSUME e \in B PROVE Occurs(<<e>>, B) = 1
  <2>1. \A i \in 1..Len(<<e>>) : <<e>>[i] \in B
    BY <1>1, <1>2
  <2>2. QED BY <1>1, <2>1, OccursAll, Zenon
<1>3. ASSUME e \notin B PROVE Occurs(<<e>>, B) = 0
  <2>1. \A i \in 1..Len(<<e>>) : <<e>>[i] \notin B
    BY <1>1, <1>3
  <2>2. QED BY <1>1, <2>1, OccursNone, Zenon
<1>4. QED
  BY <1>2, <1>3, Zenon

LEMMA OccursEmpty ==
    ASSUME NEW B PROVE Occurs(<<>>, B) = 0
<1>1. <<>> \in Seq({}) /\ \A i \in 1..Len(<<>>) : <<>>[i] \notin B
  OBVIOUS
<1>2. QED
  BY <1>1, OccursNone, Zenon

\* The places of the second sequence follow those of the first.
LEMMA OccursConcat ==
    ASSUME NEW S, NEW s \in Seq(S), NEW t \in Seq(S), NEW B
    PROVE  Occurs(s \o t, B) = Occurs(s, B) + Occurs(t, B)
<1> DEFINE n == Len(s)
           I == {i \in DOMAIN s : s[i] \in B}
           J == {i \in DOMAIN t : t[i] \in B}
           K == {i \in DOMAIN (s \o t) : (s \o t)[i] \in B}
           M == {i + n : i \in J}
<1>1. K = I \cup M /\ I \cap M = {}
  <2>1. /\ DOMAIN s = 1..Len(s) /\ DOMAIN t = 1..Len(t)
        /\ DOMAIN (s \o t) = 1..Len(s) + Len(t)
        /\ Len(s) \in Nat /\ Len(t) \in Nat
        /\ \A i \in 1..Len(s) : (s \o t)[i] = s[i]
        /\ \A i \in 1..Len(t) : (s \o t)[i + Len(s)] = t[i]
    OBVIOUS
  <2>2. ASSUME NEW i \in K PROVE i \in I \cup M
    <3>1. CASE i <= n
      BY <2>1, <3>1
    <3>2. CASE i > n
      <4>1. i - n \in 1..Len(t) /\ i = (i - n) + n
        BY <2>1, <3>2
      <4>2. i - n \in J
        BY <2>1, <4>1
      <4>3. QED BY <4>1, <4>2
    <3>3. QED BY <2>1, <3>1, <3>2
  <2>3. ASSUME NEW i \in I PROVE i \in K
    BY <2>1
  <2>4. ASSUME NEW i \in J PROVE i + n \in K /\ i + n \notin I
    BY <2>1
  <2>5. QED BY <2>2, <2>3, <2>4
<1>2. IsFiniteSet(I) /\ IsFiniteSet(J)
  BY OccursType, Zenon
<1>3. IsFiniteSet(M) /\ Cardinality(M) = Cardinality(J)
  <2> DEFINE f == [i \in J |-> i + n]
  <2>1. J \subseteq Nat /\ n \in Nat
    OBVIOUS
  <2>2. f \in Bijection(J, M)
    <3> HIDE DEF J, n
    <3>1. f \in [J -> M]
      OBVIOUS
    <3>2. \A x, y \in J : f[x] = f[y] => x = y
      BY <2>1
    <3>3. \A m \in M : \E x \in J : f[x] = m
      OBVIOUS
    <3>4. QED
      BY <3>1, <3>2, <3>3 DEF Bijection, Injection, Surjection, IsInjective
  <2> HIDE DEF f, J, M
  <2>3. ExistsBijection(J, M)
    BY <2>2, Zenon DEF ExistsBijection
  <2>4. QED BY <1>2, <2>3, FS_Bijection, Zenon
<1> HIDE DEF I, J, K, M
<1>4. Cardinality(I \cup M) = Cardinality(I) + Cardinality(M) - Cardinality(I \cap M)
  BY <1>2, <1>3, FS_Union, Zenon
<1>5. Cardinality(I \cap M) = 0
  BY <1>1, FS_EmptySet, Zenon
<1>6. Cardinality(I) \in Nat /\ Cardinality(M) \in Nat
  BY <1>2, <1>3, FS_CardinalityType, Zenon
<1>7. Cardinality(K) = Cardinality(I) + Cardinality(J)
  BY <1>1, <1>3, <1>4, <1>5, <1>6
<1>8. QED
  BY <1>7 DEF Occurs, I, J, K

LEMMA OccursAppend ==
    ASSUME NEW S, NEW s \in Seq(S), NEW e \in S, NEW B
    PROVE  Occurs(Append(s, e), B) = Occurs(s, B) + IF e \in B THEN 1 ELSE 0
<1>1. Append(s, e) = s \o <<e>> /\ <<e>> \in Seq(S)
  OBVIOUS
<1>2. Occurs(s \o <<e>>, B) = Occurs(s, B) + Occurs(<<e>>, B)
  BY <1>1, OccursConcat, Zenon
<1>3. QED
  BY <1>1, <1>2, OccursOne, Zenon

LEMMA OccursPush ==
    ASSUME NEW S, NEW s \in Seq(S), NEW e \in S, NEW B
    PROVE  Occurs(<<e>> \o s, B) = Occurs(s, B) + IF e \in B THEN 1 ELSE 0
<1>1. <<e>> \in Seq(S)
  OBVIOUS
<1>2. Occurs(<<e>> \o s, B) = Occurs(<<e>>, B) + Occurs(s, B)
  BY <1>1, OccursConcat, Zenon
<1>3. Occurs(s, B) \in Nat
  BY OccursType
<1>4. QED
  BY <1>2, <1>3, OccursOne

LEMMA OccursTail ==
    ASSUME NEW S, NEW s \in Seq(S), s # <<>>, NEW B
    PROVE  Occurs(s, B) = Occurs(Tail(s), B) + IF Head(s) \in B THEN 1 ELSE 0
<1>1. s = <<Head(s)>> \o Tail(s) /\ Head(s) \in S /\ Tail(s) \in Seq(S)
  <2>1. /\ Head(s) \in S /\ Tail(s) \in Seq(S) /\ Len(Tail(s)) = Len(s) - 1
        /\ Len(s) \in Nat \ {0} /\ Head(s) = s[1]
        /\ \A i \in 1..Len(s) - 1 : Tail(s)[i] = s[i + 1]
    OBVIOUS
  <2> DEFINE u == <<Head(s)>> \o Tail(s)
  <2>2. /\ u \in Seq(S) /\ Len(u) = Len(s)
        /\ \A i \in 1..Len(s) : u[i] = s[i]
    BY <2>1
  <2>3. s = u
    <3> HIDE DEF u
    <3>1. QED BY <2>2, SeqEqual
  <2>4. QED BY <2>1, <2>3
<1> DEFINE e == Head(s)
           r == Tail(s)
<1> HIDE DEF e, r
<1>2. s = <<e>> \o r /\ e \in S /\ r \in Seq(S)
  BY <1>1 DEF e, r
<1>3. Occurs(<<e>> \o r, B) = Occurs(r, B) + IF e \in B THEN 1 ELSE 0
  BY <1>2, OccursPush, Zenon
<1>4. QED
  BY <1>2, <1>3, Zenon DEF e, r

LEMMA OccursHalves ==
    ASSUME NEW S, NEW s \in Seq(S), NEW m \in 0..Len(s), NEW B
    PROVE  /\ SubSeq(s, 1, m) \in Seq(S) /\ SubSeq(s, m + 1, Len(s)) \in Seq(S)
           /\ Occurs(s, B) = Occurs(SubSeq(s, 1, m), B)
                             + Occurs(SubSeq(s, m + 1, Len(s)), B)
<1>1. SubSeq(s, 1, m) \in Seq(S) /\ SubSeq(s, m + 1, Len(s)) \in Seq(S)
  OBVIOUS
<1> DEFINE u == SubSeq(s, 1, m)
           v == SubSeq(s, m + 1, Len(s))
<1>2. s = u \o v
  <2>1. /\ 1 \in 1..Len(s) + 1 /\ m \in 1 - 1..Len(s) /\ Len(s) \in m..Len(s)
        /\ SubSeq(s, 1, Len(s)) = s
    OBVIOUS
  <2>2. SubSeq(s, 1, m) \o SubSeq(s, m + 1, Len(s)) = SubSeq(s, 1, Len(s))
    BY <2>1, ConcatAdjacentSubSeq, Zenon
  <2>3. QED BY <2>1, <2>2
<1> HIDE DEF u, v
<1>3. u \in Seq(S) /\ v \in Seq(S)
  BY <1>1 DEF u, v
<1>4. Occurs(u \o v, B) = Occurs(u, B) + Occurs(v, B)
  BY <1>3, OccursConcat, Zenon
<1>5. Occurs(s, B) = Occurs(u, B) + Occurs(v, B)
  BY <1>2, <1>4, Zenon
<1>6. QED
  BY <1>1, <1>5, Zenon DEF u, v

\* The places with an entry of B are those in U and those outside.
LEMMA OccursSplit ==
    ASSUME NEW S, NEW s \in Seq(S), NEW B, NEW U
    PROVE  Occurs(s, B) = Occurs(s, B \ U) + Occurs(s, B \cap U)
<1> DEFINE I == {i \in DOMAIN s : s[i] \in B}
           J == {i \in DOMAIN s : s[i] \in B \ U}
           K == {i \in DOMAIN s : s[i] \in B \cap U}
<1>1. IsFiniteSet(J) /\ IsFiniteSet(K)
  BY OccursType, Zenon
<1>2. I = J \cup K /\ J \cap K = {}
  OBVIOUS
<1> HIDE DEF I, J, K
<1>3. Cardinality(J \cup K) = Cardinality(J) + Cardinality(K)
  <2>1. Cardinality(J \cup K) = Cardinality(J) + Cardinality(K) - Cardinality(J \cap K)
    BY <1>1, FS_Union, Zenon
  <2>2. Cardinality(J \cap K) = 0 /\ Cardinality(J) \in Nat /\ Cardinality(K) \in Nat
    BY <1>1, <1>2, FS_EmptySet, FS_CardinalityType
  <2> QED BY <2>1, <2>2
<1> QED
  BY <1>2, <1>3, Zenon DEF Occurs, I, J, K

\* How many entries of the sequences of work are in B.
OccursIn(work, B) ==
    SumFunctionOnSet([k \in DOMAIN work |-> Occurs(work[k], B)], DOMAIN work)

LEMMA OccursInType ==
    ASSUME NEW S, NEW work \in Seq(Seq(S)), NEW B
    PROVE  /\ OccursIn(work, B) \in Nat
           /\ \A k \in DOMAIN work : Occurs(work[k], B) \in Nat
<1> DEFINE f == [k \in DOMAIN work |-> Occurs(work[k], B)]
<1>1. \A k \in DOMAIN work : f[k] \in Nat /\ Occurs(work[k], B) \in Nat
  <2> TAKE k \in DOMAIN work
  <2>1. work[k] \in Seq(S)
    OBVIOUS
  <2>2. Occurs(work[k], B) \in Nat
    BY <2>1, OccursType, Zenon
  <2> QED BY <2>2
<1>2. IsFiniteSet(DOMAIN work)
  BY PlacesOf, Zenon
<1> HIDE DEF f
<1>3. SumFunctionOnSet(f, DOMAIN work) \in Nat
  BY <1>1, <1>2, SumType, Zenon
<1> QED
  BY <1>1, <1>3 DEF OccursIn, f

LEMMA OccursInEmpty ==
    ASSUME NEW B PROVE OccursIn(<<>>, B) = 0
<1>1. DOMAIN <<>> = {}
  OBVIOUS
<1> QED
  BY <1>1, SumEmpty, Zenon DEF OccursIn

LEMMA OccursInOne ==
    ASSUME NEW S, NEW s \in Seq(S), NEW B
    PROVE  OccursIn(<<s>>, B) = Occurs(s, B)
<1> DEFINE f == [k \in DOMAIN <<s>> |-> Occurs(<<s>>[k], B)]
<1>1. DOMAIN <<s>> = {1} /\ f[1] = Occurs(s, B)
  OBVIOUS
<1>2. Occurs(s, B) \in Nat
  BY OccursType
<1>3. IsFiniteSet({1}) /\ 1 \in {1} /\ \A k \in {1} : f[k] \in Nat
  <2>1. IsFiniteSet({1})
    BY FS_Singleton, Zenon
  <2> QED BY <1>1, <1>2, <2>1
<1> HIDE DEF f
<1>4. SumFunctionOnSet(f, {1}) = f[1] + SumFunctionOnSet(f, {1} \ {1})
  BY <1>3, SumAdd
<1>5. {1} \ {1} = {}
  OBVIOUS
<1>6. SumFunctionOnSet(f, {1}) = f[1] + 0
  BY <1>4, <1>5, SumEmpty, Zenon
<1>7. OccursIn(<<s>>, B) = SumFunctionOnSet(f, DOMAIN <<s>>)
  BY DEF OccursIn, f
<1> QED
  BY <1>1, <1>2, <1>6, <1>7

LEMMA OccursInConcat ==
    ASSUME NEW S, NEW v \in Seq(Seq(S)), NEW w \in Seq(Seq(S)), NEW B
    PROVE  OccursIn(v \o w, B) = OccursIn(v, B) + OccursIn(w, B)
<1> DEFINE m == Len(v)
           n == Len(w)
           f == [k \in DOMAIN (v \o w) |-> Occurs((v \o w)[k], B)]
           g == [k \in DOMAIN v |-> Occurs(v[k], B)]
           h == [k \in DOMAIN w |-> Occurs(w[k], B)]
<1>1. /\ m \in Nat /\ n \in Nat
      /\ DOMAIN v = 1..m /\ DOMAIN w = 1..n /\ DOMAIN (v \o w) = 1..m + n
      /\ v \o w \in Seq(Seq(S))
      /\ \A k \in 1..m : (v \o w)[k] = v[k]
      /\ \A k \in 1..n : (v \o w)[k + m] = w[k]
  OBVIOUS
<1>2. /\ \A k \in 1..m + n : f[k] \in Nat
      /\ \A k \in 1..m : f[k] = g[k]
      /\ \A k \in 1..n : f[k + m] = h[k]
  <2>1. \A k \in DOMAIN (v \o w) : Occurs((v \o w)[k], B) \in Nat
    BY <1>1, OccursInType, Zenon
  <2>2. \A k \in 1..m : k \in 1..m + n
    BY <1>1
  <2>3. \A k \in 1..n : k + m \in 1..m + n
    BY <1>1
  <2> HIDE DEF m, n
  <2> QED BY <1>1, <2>1, <2>2, <2>3
<1> HIDE DEF m, n, f, g, h
<1>3. SumFunctionOnSet(f, 1..m + n)
          = SumFunctionOnSet(g, 1..m) + SumFunctionOnSet(h, 1..n)
  <2>1. m \in Nat /\ n \in Nat
    BY <1>1
  <2>2. /\ \A k \in 1..m + n : f[k] \in Nat
        /\ \A k \in 1..m : f[k] = g[k]
        /\ \A k \in 1..n : f[k + m] = h[k]
    BY <1>2
  <2> QED BY <2>1, <2>2, SumConcat
<1>4. /\ OccursIn(v \o w, B) = SumFunctionOnSet(f, 1..m + n)
      /\ OccursIn(v, B) = SumFunctionOnSet(g, 1..m)
      /\ OccursIn(w, B) = SumFunctionOnSet(h, 1..n)
  BY <1>1, Zenon DEF OccursIn, f, g, h
<1> QED
  BY <1>3, <1>4, Zenon

LEMMA OccursInTail ==
    ASSUME NEW S, NEW work \in Seq(Seq(S)), work # <<>>, NEW B
    PROVE  OccursIn(work, B) = Occurs(Head(work), B) + OccursIn(Tail(work), B)
<1> DEFINE s == Head(work)
           r == Tail(work)
<1>1. s \in Seq(S) /\ r \in Seq(Seq(S)) /\ <<s>> \in Seq(Seq(S)) /\ work = <<s>> \o r
  <2>1. /\ s \in Seq(S) /\ r \in Seq(Seq(S)) /\ Len(r) = Len(work) - 1
        /\ Len(work) \in Nat \ {0} /\ s = work[1]
        /\ \A i \in 1..Len(work) - 1 : r[i] = work[i + 1]
    OBVIOUS
  <2> DEFINE u == <<s>> \o r
  <2> HIDE DEF s, r
  <2>2. /\ <<s>> \in Seq(Seq(S)) /\ u \in Seq(Seq(S)) /\ Len(u) = Len(work)
        /\ \A i \in 1..Len(work) : u[i] = work[i]
    BY <2>1
  <2>3. work = u
    <3> HIDE DEF u
    <3> QED BY <2>2, SeqEqual
  <2> QED BY <2>1, <2>2, <2>3
<1> HIDE DEF s, r
<1>2. OccursIn(<<s>> \o r, B) = OccursIn(<<s>>, B) + OccursIn(r, B)
  BY <1>1, OccursInConcat, Zenon
<1>3. OccursIn(<<s>>, B) = Occurs(s, B)
  BY <1>1, OccursInOne, Zenon
<1>4. OccursIn(work, B) = Occurs(s, B) + OccursIn(r, B)
  BY <1>1, <1>2, <1>3, Zenon
<1> QED
  BY <1>4 DEF s, r

\* Bisecting the first sequence keeps what there is.
LEMMA OccursInHalves ==
    ASSUME NEW S, NEW work \in Seq(Seq(S)), work # <<>>,
           NEW m \in 0..Len(Head(work)), NEW B
    PROVE  LET s == Head(work)
               bisected == <<SubSeq(s, 1, m), SubSeq(s, m + 1, Len(s))>>
                           \o Tail(work)
           IN  /\ bisected \in Seq(Seq(S))
               /\ OccursIn(bisected, B) = OccursIn(work, B)
<1> DEFINE s == Head(work)
           r == Tail(work)
           u == SubSeq(s, 1, m)
           v == SubSeq(s, m + 1, Len(s))
<1>1. s \in Seq(S) /\ r \in Seq(Seq(S))
  OBVIOUS
<1>2. u \in Seq(S) /\ v \in Seq(S) /\ Occurs(s, B) = Occurs(u, B) + Occurs(v, B)
  <2>1. m \in 0..Len(s)
    OBVIOUS
  <2> HIDE DEF s
  <2> QED BY <1>1, <2>1, OccursHalves, Zenon
<1>3. OccursIn(work, B) = Occurs(s, B) + OccursIn(r, B)
  BY OccursInTail, Zenon
<1> HIDE DEF s, r, u, v
<1>4. /\ <<u>> \in Seq(Seq(S)) /\ <<v>> \in Seq(Seq(S)) /\ <<u, v>> \in Seq(Seq(S))
      /\ <<u, v>> = <<u>> \o <<v>>
  <2> DEFINE Z == Seq(S)
  <2>1. u \in Z /\ v \in Z
    BY <1>2
  <2> HIDE DEF Z
  <2>2. /\ <<u>> \in Seq(Z) /\ <<v>> \in Seq(Z) /\ <<u, v>> \in Seq(Z)
    BY <2>1
  <2>3. <<u, v>> = <<u>> \o <<v>>
    <3> DEFINE x == <<u, v>>
               y == <<u>> \o <<v>>
    <3>1. /\ x \in Seq(Z) /\ y \in Seq(Z) /\ Len(x) = Len(y)
          /\ \A i \in 1..Len(x) : x[i] = y[i]
      BY <2>1
    <3> HIDE DEF x, y
    <3> QED BY <3>1, SeqEqual DEF x, y
  <2> QED BY <2>2, <2>3 DEF Z
<1>5. OccursIn(<<u, v>> \o r, B) = OccursIn(<<u, v>>, B) + OccursIn(r, B)
  <2> DEFINE x == <<u, v>>
  <2>1. x \in Seq(Seq(S))
    BY <1>4
  <2> HIDE DEF x
  <2>2. OccursIn(x \o r, B) = OccursIn(x, B) + OccursIn(r, B)
    BY <1>1, <2>1, OccursInConcat
  <2> QED BY <2>2 DEF x
<1>6. OccursIn(<<u>> \o <<v>>, B) = Occurs(u, B) + Occurs(v, B)
  <2>1. OccursIn(<<u>> \o <<v>>, B) = OccursIn(<<u>>, B) + OccursIn(<<v>>, B)
    <3> DEFINE x == <<u>>
               y == <<v>>
    <3>1. x \in Seq(Seq(S)) /\ y \in Seq(Seq(S))
      BY <1>4
    <3> HIDE DEF x, y
    <3>2. OccursIn(x \o y, B) = OccursIn(x, B) + OccursIn(y, B)
      BY <3>1, OccursInConcat
    <3> QED BY <3>2 DEF x, y
  <2>2. OccursIn(<<u>>, B) = Occurs(u, B) /\ OccursIn(<<v>>, B) = Occurs(v, B)
    BY <1>2, OccursInOne, Zenon
  <2> QED BY <2>1, <2>2, Zenon
<1>7. <<u, v>> \o r \in Seq(Seq(S))
  BY <1>1, <1>4
<1>8. OccursIn(<<u, v>> \o r, B) = OccursIn(work, B)
  BY <1>2, <1>3, <1>4, <1>5, <1>6, Zenon
<1> QED
  BY <1>7, <1>8, Zenon DEF s, r, u, v

\* A sum of sums.
LEMMA SumPlus ==
    ASSUME NEW f, NEW g, NEW h, NEW S, IsFiniteSet(S),
           \A x \in S : g[x] \in Nat /\ h[x] \in Nat /\ f[x] = g[x] + h[x]
    PROVE  SumFunctionOnSet(f, S) = SumFunctionOnSet(g, S) + SumFunctionOnSet(h, S)
<1> DEFINE Right(T) ==
        SumFunctionOnSet(f, T) = SumFunctionOnSet(g, T) + SumFunctionOnSet(h, T)
<1> DEFINE D == {T \in SUBSET S : ~ Right(T)}
<1> HIDE DEF Right
<1> SUFFICES ASSUME D # {} PROVE FALSE
  <2>1. Right(S)
    OBVIOUS
  <2> QED BY <2>1 DEF Right
<1>1. D \in SUBSET (SUBSET S)
  OBVIOUS
<1>2. PICK T \in D : \A W \in D : W \subseteq T => W = T
  <2> HIDE DEF D
  <2> QED BY <1>1, SmallestSet
<1>3. T \in SUBSET S /\ ~ Right(T)
  OBVIOUS
<1>4. T # {}
  <2>1. /\ SumFunctionOnSet(f, {}) = 0 /\ SumFunctionOnSet(g, {}) = 0
        /\ SumFunctionOnSet(h, {}) = 0
    BY SumEmpty, Zenon
  <2>2. Right({})
    BY <2>1 DEF Right
  <2> QED BY <1>3, <2>2, Zenon
<1>5. PICK x \in T : TRUE
  BY <1>4
<1>6. IsFiniteSet(T)
  BY <1>3, FS_Subset
<1> DEFINE R == T \ {x}
<1>7. R \in SUBSET S /\ R \subseteq T /\ R # T /\ x \in S
  BY <1>3, <1>5
<1>8. Right(R)
  BY <1>2, <1>7
<1>9. \A y \in T : f[y] \in Nat /\ g[y] \in Nat /\ h[y] \in Nat
  BY <1>3
<1>10. /\ SumFunctionOnSet(f, T) = f[x] + SumFunctionOnSet(f, R)
       /\ SumFunctionOnSet(g, T) = g[x] + SumFunctionOnSet(g, R)
       /\ SumFunctionOnSet(h, T) = h[x] + SumFunctionOnSet(h, R)
  <2>1. (\A y \in T : f[y] \in Nat) /\ (\A y \in T : g[y] \in Nat)
        /\ (\A y \in T : h[y] \in Nat)
    BY <1>9, Zenon
  <2>2. SumFunctionOnSet(f, T) = f[x] + SumFunctionOnSet(f, T \ {x})
    BY <1>6, <2>1, SumAdd
  <2>3. SumFunctionOnSet(g, T) = g[x] + SumFunctionOnSet(g, T \ {x})
    BY <1>6, <2>1, SumAdd
  <2>4. SumFunctionOnSet(h, T) = h[x] + SumFunctionOnSet(h, T \ {x})
    BY <1>6, <2>1, SumAdd
  <2> QED BY <2>2, <2>3, <2>4, Zenon
<1>11. /\ SumFunctionOnSet(g, R) \in Nat /\ SumFunctionOnSet(h, R) \in Nat
  <2>1. IsFiniteSet(R) /\ (\A y \in R : g[y] \in Nat) /\ (\A y \in R : h[y] \in Nat)
    BY <1>6, <1>9, FS_Subset
  <2> HIDE DEF R
  <2> QED BY <2>1, SumType, Zenon
<1>12. Right(T)
  <2> DEFINE a == SumFunctionOnSet(f, R)
             b == SumFunctionOnSet(g, R)
             c == SumFunctionOnSet(h, R)
  <2>1. a = b + c
    BY <1>8 DEF Right
  <2>2. /\ b \in Nat /\ c \in Nat /\ g[x] \in Nat /\ h[x] \in Nat
        /\ f[x] = g[x] + h[x]
    BY <1>7, <1>11
  <2>3. f[x] + a = (g[x] + b) + (h[x] + c)
    <3> HIDE DEF a, b, c
    <3> QED BY <2>1, <2>2
  <2> HIDE DEF R
  <2> QED BY <1>10, <2>3, Zenon DEF Right
<1> QED
  BY <1>3, <1>12

LEMMA OccursInSplit ==
    ASSUME NEW S, NEW work \in Seq(Seq(S)), NEW B, NEW U
    PROVE  OccursIn(work, B) = OccursIn(work, B \ U) + OccursIn(work, B \cap U)
<1> DEFINE f == [k \in DOMAIN work |-> Occurs(work[k], B)]
           g == [k \in DOMAIN work |-> Occurs(work[k], B \ U)]
           h == [k \in DOMAIN work |-> Occurs(work[k], B \cap U)]
<1>1. \A k \in DOMAIN work :
          /\ g[k] \in Nat /\ h[k] \in Nat /\ f[k] = g[k] + h[k]
  <2> TAKE k \in DOMAIN work
  <2>1. work[k] \in Seq(S)
    OBVIOUS
  <2>2. Occurs(work[k], B \ U) \in Nat /\ Occurs(work[k], B \cap U) \in Nat
    BY <2>1, OccursType, Zenon
  <2>3. Occurs(work[k], B) = Occurs(work[k], B \ U) + Occurs(work[k], B \cap U)
    <3> DEFINE s == work[k]
    <3> HIDE DEF s, f, g, h
    <3>1. s \in Seq(S)
      BY <2>1 DEF s
    <3>2. \A A, V : Occurs(s, A) = Occurs(s, A \ V) + Occurs(s, A \cap V)
      BY <3>1, OccursSplit
    <3> QED BY <3>2, Zenon DEF s
  <2> QED BY <2>2, <2>3, Zenon
<1>2. IsFiniteSet(DOMAIN work)
  BY PlacesOf, Zenon
<1> HIDE DEF f, g, h
<1>3. SumFunctionOnSet(f, DOMAIN work)
        = SumFunctionOnSet(g, DOMAIN work) + SumFunctionOnSet(h, DOMAIN work)
  BY <1>1, <1>2, SumPlus
<1> QED
  BY <1>3, Zenon DEF OccursIn, f, g, h

\* A measure that is positive on the entries of every x of X is at least the size
\* of X: the entries of different x are different.
LEMMA Spread ==
    ASSUME NEW S, NEW nu, NEW X, NEW of, IsFiniteSet(X),
           \A B \in SUBSET S : nu[B] \in Nat,
           \A B, U \in SUBSET S : nu[B] = nu[B \ U] + nu[B \cap U],
           \A x \in X : of[x] \in SUBSET S /\ nu[of[x]] > 0,
           \A x, y \in X : x # y => of[x] \cap of[y] = {}
    PROVE  Cardinality(X) <= nu[S]
<1> DEFINE Of(T) == UNION {of[x] : x \in T}
           Fits(T) == Cardinality(T) <= nu[Of(T)]
<1> DEFINE D == {T \in SUBSET X : ~ Fits(T)}
<1>1. \A T \in SUBSET X : Of(T) \in SUBSET S
  OBVIOUS
<1>2. X \notin D
  <2> HIDE DEF Fits, Of
  <2> SUFFICES ASSUME X \in D PROVE FALSE
    OBVIOUS
  <2>1. D \in SUBSET (SUBSET X) /\ D # {}
    OBVIOUS
  <2>2. PICK T \in D : \A W \in D : W \subseteq T => W = T
    <3> HIDE DEF D
    <3> QED BY <2>1, SmallestSet
  <2>3. T \in SUBSET X /\ ~ Fits(T) /\ IsFiniteSet(T)
    BY FS_Subset
  <2>4. T # {}
    <3>1. Cardinality({}) = 0
      BY FS_EmptySet, Zenon
    <3>2. {} \in SUBSET X
      OBVIOUS
    <3>3. nu[Of({})] \in Nat
      BY <1>1, <3>2, Zenon
    <3>4. Fits({})
      BY <3>1, <3>3 DEF Fits
    <3> QED BY <2>3, <3>4, Zenon
  <2>5. PICK x \in T : TRUE
    BY <2>4
  <2> DEFINE R == T \ {x}
  <2>6. R \in SUBSET X /\ R \subseteq T /\ R # T /\ x \in X
    BY <2>3, <2>5
  <2>7. Fits(R)
    BY <2>2, <2>6
  <2>8. /\ Of(T) \ of[x] = Of(R) /\ Of(T) \cap of[x] = of[x]
        /\ Of(T) \in SUBSET S /\ Of(R) \in SUBSET S
    <3>1. \A y \in R : of[y] \cap of[x] = {}
      BY <2>3, <2>6
    <3>2. Of(T) \ of[x] = Of(R)
      BY <2>5, <3>1 DEF Of
    <3>3. Of(T) \cap of[x] = of[x]
      BY <2>5 DEF Of
    <3> QED BY <1>1, <2>3, <2>6, <3>2, <3>3, Zenon
  <2>9. nu[Of(T)] = nu[Of(R)] + nu[of[x]]
    <3>1. Of(T) \in SUBSET S /\ of[x] \in SUBSET S
      BY <2>6, <2>8, Zenon
    <3> HIDE DEF Of
    <3>2. nu[Of(T)] = nu[Of(T) \ of[x]] + nu[Of(T) \cap of[x]]
      BY <3>1
    <3> QED BY ONLY <2>8, <3>2, Zenon
  <2>10. Cardinality(T) = Cardinality(R) + 1 /\ Cardinality(R) \in Nat
    <3>1. Cardinality(R) = Cardinality(T) - 1 /\ IsFiniteSet(R)
      BY <2>3, <2>5, FS_RemoveElement, Zenon
    <3>2. Cardinality(R) \in Nat /\ Cardinality(T) \in Nat
      BY <2>3, <3>1, FS_CardinalityType, Zenon
    <3> QED BY <3>1, <3>2
  <2>11. nu[of[x]] \in Nat /\ nu[of[x]] > 0 /\ nu[Of(R)] \in Nat
    BY <2>6, <2>8
  <2>12. Cardinality(R) <= nu[Of(R)]
    BY <2>7 DEF Fits
  <2>13. Cardinality(T) <= nu[Of(T)]
    <3> DEFINE a == Cardinality(T)
               b == Cardinality(R)
               m == nu[Of(T)]
               n == nu[Of(R)]
               k == nu[of[x]]
    <3> HIDE DEF a, b, m, n, k
    <3>1. a = b + 1 /\ b \in Nat /\ b <= n /\ n \in Nat /\ k \in Nat /\ k > 0 /\ m = n + k
      BY <2>9, <2>10, <2>11, <2>12 DEF a, b, m, n, k
    <3>2. a <= m
      BY <3>1
    <3> QED BY <3>2 DEF a, m
  <2> QED BY <2>3, <2>13 DEF Fits
<1>3. Cardinality(X) <= nu[Of(X)]
  BY <1>2
<1>4. /\ nu[S] = nu[S \ Of(X)] + nu[S \cap Of(X)]
      /\ S \cap Of(X) = Of(X) /\ S \ Of(X) \in SUBSET S
  <2>1. Of(X) \in SUBSET S
    BY <1>1, Zenon
  <2> HIDE DEF Of
  <2> QED BY <2>1
<1>5. nu[S \ Of(X)] \in Nat /\ nu[Of(X)] \in Nat
  BY <1>1, <1>4
<1>6. Cardinality(X) \in Nat
  BY FS_CardinalityType
<1> DEFINE a == Cardinality(X)
           n == nu[Of(X)]
           r == nu[S \ Of(X)]
<1> HIDE DEF Of, D
<1>7. nu[S] = r + n /\ a <= n /\ a \in Nat /\ n \in Nat /\ r \in Nat
  BY <1>3, <1>4, <1>5, <1>6, Zenon
<1> HIDE DEF a, n, r
<1>8. a <= nu[S]
  BY <1>7
<1> QED
  BY <1>8 DEF a

\* What is added up is what has one of the keys, in a group for each of them.
Grouped(f, S, K, key, group, U, g) ==
    /\ IsFiniteSet(S) /\ \A x \in S : f[x] \in Nat
    /\ IsFiniteSet(K)
    /\ \A k \in K : /\ group[k] \in SUBSET S
                    /\ \A x \in S : x \in group[k] <=> key[x] = k
    /\ U \in SUBSET S /\ \A x \in S : x \in U <=> key[x] \in K
    /\ \A k \in K : g[k] = SumFunctionOnSet(f, group[k])

\* The sums of the groups add up to the sum of all that is in one.
LEMMA SumGroups ==
    ASSUME NEW f, NEW S, NEW K, NEW key, NEW group, NEW U, NEW g,
           Grouped(f, S, K, key, group, U, g)
    PROVE  SumFunctionOnSet(g, K) = SumFunctionOnSet(f, U)
<1> USE DEF Grouped
<1>a. \A k \in K : g[k] = SumFunctionOnSet(f, {x \in S : key[x] = k})
  <2> SUFFICES ASSUME NEW k \in K
               PROVE  g[k] = SumFunctionOnSet(f, {x \in S : key[x] = k})
    OBVIOUS
  <2>1. group[k] = {x \in S : key[x] = k}
    OBVIOUS
  <2> QED BY <2>1
<1>b. U = {x \in S : key[x] \in K}
  OBVIOUS
<1> DEFINE Of(T) == {x \in S : key[x] \in T}
           Right(T) == SumFunctionOnSet(g, T) = SumFunctionOnSet(f, Of(T))
           D == {T \in SUBSET K : ~ Right(T)}
<1> HIDE DEF Right
<1> SUFFICES ASSUME D # {} PROVE FALSE
  <2>1. Right(K)
    OBVIOUS
  <2> QED BY <1>b, <2>1 DEF Right
<1>1. D \in SUBSET (SUBSET K)
  OBVIOUS
<1>2. PICK T \in D : \A W \in D : W \subseteq T => W = T
  <2> HIDE DEF D
  <2> QED BY <1>1, SmallestSet
<1>3. T \in SUBSET K /\ ~ Right(T)
  OBVIOUS
<1>4. T # {}
  <2> SUFFICES ASSUME T = {} PROVE FALSE
    OBVIOUS
  <2>1. Of(T) = {}
    OBVIOUS
  <2> HIDE DEF Of
  <2> QED BY <1>3, <2>1, SumEmpty DEF Right
<1>5. PICK k \in T : TRUE
  BY <1>4
<1> DEFINE P == T \ {k}
           A == {x \in S : key[x] = k}
<1>6. Right(P)
  <2>1. P \in SUBSET K /\ P \subseteq T /\ P # T
    BY <1>3, <1>5
  <2> HIDE DEF P
  <2> QED BY <1>2, <2>1
<1>7. IsFiniteSet(T)
  BY <1>3, FS_Subset
<1>8. /\ A \in SUBSET Of(T) /\ Of(T) \ A = Of(P) /\ Of(T) \in SUBSET S
      /\ A \in SUBSET S
  BY <1>5
<1>9. \A j \in T : g[j] \in Nat
  <2> SUFFICES ASSUME NEW j \in T PROVE g[j] \in Nat
    OBVIOUS
  <2> DEFINE B == {x \in S : key[x] = j}
  <2>1. IsFiniteSet(B) /\ \A x \in B : f[x] \in Nat
    BY FS_Subset
  <2>2. g[j] = SumFunctionOnSet(f, B)
    BY <1>3, <1>a
  <2> HIDE DEF B
  <2> QED BY <2>1, <2>2, SumType
<1>10. g[k] = SumFunctionOnSet(f, A)
  BY <1>3, <1>5, <1>a
<1> HIDE DEF Of, A, P
<1>11. SumFunctionOnSet(g, T) = g[k] + SumFunctionOnSet(g, P)
  BY <1>5, <1>7, <1>9, SumAdd DEF P
<1>12. SumFunctionOnSet(f, Of(T)) = SumFunctionOnSet(f, A) + SumFunctionOnSet(f, Of(P))
  <2>1. IsFiniteSet(Of(T)) /\ \A x \in Of(T) : f[x] \in Nat
    BY <1>8, FS_Subset
  <2>2. SumFunctionOnSet(f, Of(T))
            = SumFunctionOnSet(f, A) + SumFunctionOnSet(f, Of(T) \ A)
    BY <1>8, <2>1, SumSplit
  <2> QED BY <1>8, <2>2, Zenon
<1>13. Right(T)
  BY <1>6, <1>10, <1>11, <1>12 DEF Right
<1> QED
  BY <1>3, <1>13

\* The size of a set is a sum of ones.
LEMMA SizeIsSum ==
    ASSUME NEW S, IsFiniteSet(S), NEW one, \A x \in S : one[x] = 1
    PROVE  SumFunctionOnSet(one, S) = Cardinality(S)
<1> DEFINE Right(T) == SumFunctionOnSet(one, T) = Cardinality(T)
           D == {T \in SUBSET S : ~ Right(T)}
<1> HIDE DEF Right
<1> SUFFICES ASSUME D # {} PROVE FALSE
  <2>1. Right(S)
    OBVIOUS
  <2> QED BY <2>1 DEF Right
<1>1. D \in SUBSET (SUBSET S)
  OBVIOUS
<1>2. PICK T \in D : \A W \in D : W \subseteq T => W = T
  <2> HIDE DEF D
  <2> QED BY <1>1, SmallestSet
<1>3. T \in SUBSET S /\ ~ Right(T)
  OBVIOUS
<1>4. T # {}
  BY <1>3, SumEmpty, FS_EmptySet DEF Right
<1>5. PICK x \in T : TRUE
  BY <1>4
<1>6. IsFiniteSet(T)
  BY <1>3, FS_Subset
<1>7. Right(T \ {x})
  <2>1. T \ {x} \in SUBSET S /\ T \ {x} \subseteq T /\ T \ {x} # T
    BY <1>3, <1>5
  <2> QED BY <1>2, <2>1
<1>8. \A y \in T : one[y] = 1 /\ one[y] \in Nat
  BY <1>3
<1>9. SumFunctionOnSet(one, T) = one[x] + SumFunctionOnSet(one, T \ {x})
  BY <1>5, <1>6, <1>8, SumAdd
<1>10. Cardinality(T \ {x}) = Cardinality(T) - 1 /\ Cardinality(T) \in Nat
  BY <1>5, <1>6, FS_RemoveElement, FS_CardinalityType
<1>11. Right(T)
  BY <1>5, <1>7, <1>8, <1>9, <1>10 DEF Right
<1> QED
  BY <1>3, <1>11

\* Of a larger number there are as many whole parts or more.
LEMMA WholeParts ==
    ASSUME NEW a \in Int, NEW b \in Int, a <= b, NEW d \in Nat \ {0}
    PROVE  a \div d \in Int /\ b \div d \in Int /\ a \div d <= b \div d
<1>1. a \div d \in Int /\ b \div d \in Int
  OBVIOUS
<1> QED BY <1>1
=============================================================================
