------------------------------ MODULE CodecLemmas ------------------------------
(***************************************************************************)
(* What the folds of the community modules compute, and from it how long   *)
(* what Codec writes is, where its parts are, and that they are read there *)
(* as they were written.                                                   *)
(***************************************************************************)
EXTENDS Codec, FiniteSetTheorems, WellFoundedInduction, TLAPS

\* A set of naturals that is not empty has a least element.
LEMMA LeastNatural ==
    ASSUME NEW T \in SUBSET Nat, T # {}
    PROVE  \E n \in T : \A m \in T : n <= m
<1>1. PICK n \in T : \A m \in T : <<m, n>> \notin OpToRel(<, Nat)
  BY NatLessThanWellFounded, WFMin, Zenon
<1>2. \A m \in T : ~ (m < n)
  BY <1>1 DEF OpToRel
<1> QED
  BY <1>2

\* A family of finite subsets of S that is not empty has a minimal element.
LEMMA MinimalSubset ==
    ASSUME NEW S, IsFiniteSet(S), NEW F \in SUBSET (SUBSET S), F # {}
    PROVE  \E U \in F : \A V \in F : V \subseteq U => V = U
<1>1. F \subseteq FiniteSubsetsOf(S)
  BY FS_FiniteSubsetsOfFinite
<1>2. PICK U \in F : \A V \in F : <<V, U>> \notin StrictSubsetOrdering(S)
  BY <1>1, FS_StrictSubsetOrderingWellFounded, WFMin
<1>3. \A V \in F : V \subseteq U => V = U
  BY <1>2 DEF StrictSubsetOrdering
<1> QED
  BY <1>3

-------------------------------------------------------------------------------
\* SumFunctionOnSet(fun, S) takes the value at S of the function that is defined
\* by this recursion over the subsets of S.
Picked(U) == CHOOSE x \in U : TRUE
SumRule(fun, g, S) ==
    g = [U \in SUBSET S |-> IF U = {} THEN 0
                            ELSE fun[Picked(U)] + g[U \ {Picked(U)}]]

LEMMA PickedIn == ASSUME NEW U, U # {} PROVE Picked(U) \in U
BY DEF Picked

LEMMA SumRuleAt ==
    ASSUME NEW fun, NEW g, NEW S, SumRule(fun, g, S)
    PROVE  /\ g[{}] = 0
           /\ \A U \in SUBSET S :
                U # {} => g[U] = fun[Picked(U)] + g[U \ {Picked(U)}]
BY DEF SumRule

\* Two functions that obey the rule agree where both are defined.
LEMMA SumRuleUnique ==
    ASSUME NEW fun, NEW S, NEW T, NEW g, NEW h, IsFiniteSet(S),
           SumRule(fun, g, S), SumRule(fun, h, T)
    PROVE  \A U \in SUBSET S : U \subseteq T => g[U] = h[U]
<1> DEFINE F == {U \in SUBSET S : U \subseteq T /\ g[U] # h[U]}
<1>1. SUFFICES ASSUME F # {} PROVE FALSE
  OBVIOUS
<1>2. PICK U \in F : \A V \in F : V \subseteq U => V = U
  <2>1. F \in SUBSET (SUBSET S)
    OBVIOUS
  <2> HIDE DEF F
  <2> QED
    BY <1>1, <2>1, MinimalSubset
<1>3. U # {} /\ U \in SUBSET S /\ U \in SUBSET T /\ g[U] # h[U]
  BY SumRuleAt
<1> DEFINE x == Picked(U)
<1>4. x \in U
  BY <1>3, PickedIn
<1>5. U \ {x} \notin F
  BY <1>2, <1>4
<1>6. g[U \ {x}] = h[U \ {x}]
  BY <1>3, <1>5
<1>7. g[U] = fun[x] + g[U \ {x}] /\ h[U] = fun[x] + h[U \ {x}]
  BY <1>3, SumRuleAt
<1> QED
  BY <1>3, <1>6, <1>7

\* The rule has a solution on each finite set: the values for the whole set are
\* put together from the solutions for its proper subsets.
LEMMA SumRuleExists ==
    ASSUME NEW fun, NEW S, IsFiniteSet(S)
    PROVE  \E g : SumRule(fun, g, S)
<1> DEFINE F == {U \in SUBSET S : ~ \E g : SumRule(fun, g, U)}
<1>1. SUFFICES ASSUME F # {} PROVE FALSE
  OBVIOUS
<1>2. PICK U \in F : \A V \in F : V \subseteq U => V = U
  <2>1. F \in SUBSET (SUBSET S)
    OBVIOUS
  <2> HIDE DEF F
  <2> QED
    BY <1>1, <2>1, MinimalSubset
<1>3. \A V \in SUBSET U : V # U => \E g : SumRule(fun, g, V)
  BY <1>2
<1> DEFINE sol(V) == CHOOSE g : SumRule(fun, g, V)
           g0 == [V \in SUBSET U |->
                    IF V = {} THEN 0
                    ELSE fun[Picked(V)] + sol(V \ {Picked(V)})[V \ {Picked(V)}]]
<1>4. \A V \in SUBSET U : V # U => SumRule(fun, sol(V), V)
  BY <1>3
<1>5. \A V \in SUBSET U : V # U => g0[V] = sol(V)[V]
  <2> SUFFICES ASSUME NEW V \in SUBSET U, V # U PROVE g0[V] = sol(V)[V]
    OBVIOUS
  <2>1. SumRule(fun, sol(V), V)
    BY <1>4
  <2>2. CASE V = {}
    BY <2>1, <2>2, SumRuleAt
  <2>3. CASE V # {}
    <3> DEFINE y == Picked(V)
               W == V \ {y}
    <3>1. y \in V /\ W \in SUBSET V /\ W \in SUBSET U /\ W # U
      BY <2>3, PickedIn
    <3>2. SumRule(fun, sol(W), W)
      BY <1>4, <3>1
    <3>3. IsFiniteSet(W)
      BY <3>1, FS_Subset
    <3>4. sol(W)[W] = sol(V)[W]
      <4> HIDE DEF sol, W
      <4> QED
        BY <2>1, <3>1, <3>2, <3>3, SumRuleUnique
    <3>5. g0[V] = fun[y] + sol(W)[W]
      BY <2>3
    <3>6. sol(V)[V] = fun[y] + sol(V)[W]
      <4> HIDE DEF sol
      <4> QED
        BY <2>1, <2>3, SumRuleAt
    <3> QED
      BY <3>4, <3>5, <3>6
  <2> QED
    BY <2>2, <2>3
<1>6. \A V \in SUBSET U : V # {} =>
        sol(V \ {Picked(V)})[V \ {Picked(V)}] = g0[V \ {Picked(V)}]
  <2> SUFFICES ASSUME NEW V \in SUBSET U, V # {}
               PROVE  sol(V \ {Picked(V)})[V \ {Picked(V)}] = g0[V \ {Picked(V)}]
    OBVIOUS
  <2>1. Picked(V) \in V
    BY PickedIn
  <2>2. V \ {Picked(V)} \in SUBSET U /\ V \ {Picked(V)} # U
    BY <2>1
  <2> HIDE DEF sol, g0
  <2> QED
    BY <2>2, <1>5
<1>7. SumRule(fun, g0, U)
  <2>1. g0 = [V \in SUBSET U |-> IF V = {} THEN 0
                 ELSE fun[Picked(V)] + g0[V \ {Picked(V)}]]
    <3> DEFINE r(V) == sol(V \ {Picked(V)})[V \ {Picked(V)}]
    <3>1. g0 = [V \in SUBSET U |-> IF V = {} THEN 0 ELSE fun[Picked(V)] + r(V)]
      OBVIOUS
    <3>2. \A V \in SUBSET U : V # {} => r(V) = g0[V \ {Picked(V)}]
      BY <1>6
    <3> HIDE DEF r, g0
    <3> QED
      BY <3>1, <3>2
  <2> HIDE DEF g0
  <2> QED
    BY <2>1 DEF SumRule
<1> QED
  BY <1>2, <1>7

-------------------------------------------------------------------------------
\* Sums of natural numbers.

LEMMA SumIsRule ==
    ASSUME NEW fun, NEW S, IsFiniteSet(S)
    PROVE  \E g : SumRule(fun, g, S) /\ SumFunctionOnSet(fun, S) = g[S]
<1> DEFINE g == CHOOSE h : SumRule(fun, h, S)
<1>1. SumRule(fun, g, S)
  BY SumRuleExists
<1>2. SumFunctionOnSet(fun, S) = g[S]
  BY DEF SumFunctionOnSet, FoldFunctionOnSet, MapThenFoldSet, SumRule, Picked
<1> QED
  BY <1>1, <1>2

LEMMA SumOfNone == ASSUME NEW fun PROVE SumFunctionOnSet(fun, {}) = 0
<1>1. IsFiniteSet({})
  BY FS_EmptySet
<1>2. PICK g : SumRule(fun, g, {}) /\ SumFunctionOnSet(fun, {}) = g[{}]
  BY <1>1, SumIsRule
<1> QED
  BY <1>2, SumRuleAt

LEMMA SumOfPicked ==
    ASSUME NEW fun, NEW S, IsFiniteSet(S), S # {}
    PROVE  SumFunctionOnSet(fun, S) = fun[Picked(S)] + SumFunctionOnSet(fun, S \ {Picked(S)})
<1> DEFINE x == Picked(S)
           T == S \ {x}
<1>1. PICK g : SumRule(fun, g, S) /\ SumFunctionOnSet(fun, S) = g[S]
  BY SumIsRule
<1>2. IsFiniteSet(T)
  BY FS_RemoveElement
<1>3. PICK h : SumRule(fun, h, T) /\ SumFunctionOnSet(fun, T) = h[T]
  BY <1>2, SumIsRule
<1>4. T \in SUBSET T /\ T \subseteq S
  OBVIOUS
<1>5. h[T] = g[T]
  <2> HIDE DEF T
  <2> QED
    BY <1>1, <1>2, <1>3, <1>4, SumRuleUnique
<1>6. g[S] = fun[x] + g[T]
  BY <1>1, SumRuleAt
<1> QED
  BY <1>1, <1>3, <1>5, <1>6

LEMMA SumIsNatural ==
    ASSUME NEW S, IsFiniteSet(S), NEW fun, \A x \in S : fun[x] \in Nat
    PROVE  SumFunctionOnSet(fun, S) \in Nat
<1> DEFINE F == {U \in SUBSET S : SumFunctionOnSet(fun, U) \notin Nat}
<1>1. SUFFICES ASSUME F # {} PROVE FALSE
  OBVIOUS
<1>2. PICK U \in F : \A V \in F : V \subseteq U => V = U
  <2>1. F \in SUBSET (SUBSET S)
    OBVIOUS
  <2> HIDE DEF F
  <2> QED
    BY <1>1, <2>1, MinimalSubset
<1>3. U # {} /\ IsFiniteSet(U)
  <2>1. IsFiniteSet(U)
    BY FS_Subset
  <2>2. CASE U = {}
    BY <2>2, SumOfNone
  <2> QED
    BY <2>1, <2>2
<1> DEFINE x == Picked(U)
           T == U \ {x}
<1>4. x \in U
  BY <1>3, PickedIn
<1>5. SumFunctionOnSet(fun, T) \in Nat
  BY <1>2, <1>4
<1>6. SumFunctionOnSet(fun, U) = fun[x] + SumFunctionOnSet(fun, T)
  BY <1>3, SumOfPicked
<1> HIDE DEF T, x
<1>7. SumFunctionOnSet(fun, U) \in Nat
  BY <1>4, <1>5, <1>6
<1> QED
  BY <1>7

\* It does not matter which element is taken first.
LEMMA SumOfOne ==
    ASSUME NEW S, IsFiniteSet(S), NEW fun, \A x \in S : fun[x] \in Nat,
           NEW e \in S
    PROVE  SumFunctionOnSet(fun, S) = fun[e] + SumFunctionOnSet(fun, S \ {e})
<1> DEFINE Splits(U, d) ==
               SumFunctionOnSet(fun, U) = fun[d] + SumFunctionOnSet(fun, U \ {d})
           F == {U \in SUBSET S : \E d \in U : ~ Splits(U, d)}
<1>1. SUFFICES ASSUME F # {} PROVE FALSE
  OBVIOUS
<1>2. PICK U \in F : \A V \in F : V \subseteq U => V = U
  <2>1. F \in SUBSET (SUBSET S)
    OBVIOUS
  <2> HIDE DEF F
  <2> QED
    BY <1>1, <2>1, MinimalSubset
<1>3. PICK d \in U : ~ Splits(U, d)
  OBVIOUS
<1>4. U \in SUBSET S /\ U # {} /\ IsFiniteSet(U)
  BY FS_Subset
<1> DEFINE x == Picked(U)
           T == U \ {x}
           R == U \ {d}
           W == T \ {d}
<1>5. x \in U /\ Splits(U, x)
  BY <1>4, PickedIn, SumOfPicked
<1>6. x # d
  BY <1>3, <1>5
<1>7. Splits(T, d)
  BY <1>2, <1>3, <1>5, <1>6
<1>8. Splits(R, x)
  BY <1>2, <1>3, <1>5, <1>6
<1>9. W = R \ {x} /\ W \in SUBSET S /\ IsFiniteSet(W)
  BY <1>4, FS_Subset
<1>10. SumFunctionOnSet(fun, W) \in Nat
  <2> HIDE DEF W
  <2> QED
    BY <1>9, SumIsNatural
<1>11. fun[x] \in Nat /\ fun[d] \in Nat
  BY <1>4, <1>5
<1>12. /\ SumFunctionOnSet(fun, U) = fun[x] + (fun[d] + SumFunctionOnSet(fun, W))
       /\ SumFunctionOnSet(fun, R) = fun[x] + SumFunctionOnSet(fun, W)
  BY <1>5, <1>7, <1>8, <1>9
<1> HIDE DEF W, R, x, T
<1>13. SumFunctionOnSet(fun, U) = fun[d] + SumFunctionOnSet(fun, R)
  BY <1>10, <1>11, <1>12
<1> QED
  BY <1>3, <1>13 DEF R

LEMMA SumIsMonotone ==
    ASSUME NEW S, IsFiniteSet(S), NEW f, NEW g,
           \A x \in S : f[x] \in Nat /\ g[x] \in Nat /\ f[x] <= g[x]
    PROVE  SumFunctionOnSet(f, S) <= SumFunctionOnSet(g, S)
<1> DEFINE F == {U \in SUBSET S :
                    ~ (SumFunctionOnSet(f, U) <= SumFunctionOnSet(g, U))}
<1>1. SUFFICES ASSUME F # {} PROVE FALSE
  OBVIOUS
<1>2. PICK U \in F : \A V \in F : V \subseteq U => V = U
  <2>1. F \in SUBSET (SUBSET S)
    OBVIOUS
  <2> HIDE DEF F
  <2> QED
    BY <1>1, <2>1, MinimalSubset
<1>3. U # {} /\ IsFiniteSet(U)
  <2>1. IsFiniteSet(U)
    BY FS_Subset
  <2>2. CASE U = {}
    BY <2>2, SumOfNone
  <2> QED
    BY <2>1, <2>2
<1> DEFINE x == Picked(U)
           T == U \ {x}
<1>4. x \in U /\ f[x] \in Nat /\ g[x] \in Nat /\ f[x] <= g[x]
  BY <1>3, PickedIn
<1>5. IsFiniteSet(T) /\ T \in SUBSET S
  BY <1>3, FS_Subset
<1>6. SumFunctionOnSet(f, T) <= SumFunctionOnSet(g, T)
  BY <1>2, <1>4
<1>7. SumFunctionOnSet(f, T) \in Nat /\ SumFunctionOnSet(g, T) \in Nat
  <2> HIDE DEF T
  <2> QED
    BY <1>5, SumIsNatural
<1>8. /\ SumFunctionOnSet(f, U) = f[x] + SumFunctionOnSet(f, T)
      /\ SumFunctionOnSet(g, U) = g[x] + SumFunctionOnSet(g, T)
  BY <1>3, SumOfPicked
<1> HIDE DEF T, x
<1>9. SumFunctionOnSet(f, U) <= SumFunctionOnSet(g, U)
  BY <1>4, <1>6, <1>7, <1>8
<1> QED
  BY <1>9

\* Functions that agree on a set have the same sum there.
LEMMA SumOfSame ==
    ASSUME NEW S, IsFiniteSet(S), NEW f, NEW g,
           \A x \in S : f[x] \in Nat /\ f[x] = g[x]
    PROVE  SumFunctionOnSet(f, S) = SumFunctionOnSet(g, S)
<1>1. /\ SumFunctionOnSet(f, S) <= SumFunctionOnSet(g, S)
      /\ SumFunctionOnSet(g, S) <= SumFunctionOnSet(f, S)
  BY SumIsMonotone
<1>2. SumFunctionOnSet(f, S) \in Nat /\ SumFunctionOnSet(g, S) \in Nat
  BY SumIsNatural
<1> QED
  BY <1>1, <1>2

-------------------------------------------------------------------------------
\* FlattenSeq(s) is the last value of the function that is defined by this
\* recursion over the indices of s.
FlattenRule(s, g, n) ==
    g = [i \in 1..n |-> IF i = 1 THEN s[i] ELSE g[i - 1] \o s[i]]

LEMMA FlattenRuleExists ==
    ASSUME NEW s
    PROVE  \A n \in Nat : \E g : FlattenRule(s, g, n)
<1> DEFINE F == {n \in Nat : ~ \E g : FlattenRule(s, g, n)}
<1>1. SUFFICES ASSUME F # {} PROVE FALSE
  OBVIOUS
<1>2. PICK n \in F : \A m \in F : n <= m
  <2>1. F \in SUBSET Nat
    OBVIOUS
  <2> HIDE DEF F
  <2> QED
    BY <1>1, <2>1, LeastNatural
<1>3. n \in Nat /\ ~ \E g : FlattenRule(s, g, n)
  OBVIOUS
<1>4. n # 0
  <2>1. 1..0 = {}
    OBVIOUS
  <2>2. FlattenRule(s, [i \in {} |-> s], 0)
    BY <2>1 DEF FlattenRule
  <2> QED
    BY <1>3, <2>2
<1>5. n - 1 \in Nat /\ n - 1 \notin F
  BY <1>2, <1>3, <1>4
<1>6. PICK g : FlattenRule(s, g, n - 1)
  BY <1>5
<1> DEFINE g0 == [i \in 1..n |-> IF i = n THEN IF i = 1 THEN s[i] ELSE g[i - 1] \o s[i]
                                ELSE g[i]]
<1>7. \A i \in 1..(n - 1) : g[i] = IF i = 1 THEN s[i] ELSE g[i - 1] \o s[i]
  BY <1>6 DEF FlattenRule
<1>8. \A i \in 1..n : g0[i] = IF i = 1 THEN s[i] ELSE g0[i - 1] \o s[i]
  <2> SUFFICES ASSUME NEW i \in 1..n
               PROVE  g0[i] = IF i = 1 THEN s[i] ELSE g0[i - 1] \o s[i]
    OBVIOUS
  <2>1. i # 1 => i - 1 \in 1..n /\ i - 1 # n
    BY <1>3
  <2>2. i # 1 => g0[i - 1] = g[i - 1]
    BY <2>1
  <2>3. CASE i = n
    BY <2>2, <2>3
  <2>4. CASE i # n
    <3>1. i \in 1..(n - 1)
      BY <1>3, <2>4
    <3>2. g0[i] = g[i]
      BY <2>4
    <3> QED
      BY <1>7, <2>2, <3>1, <3>2
  <2> QED
    BY <2>3, <2>4
<1>9. FlattenRule(s, g0, n)
  <2>1. g0 = [i \in 1..n |-> g0[i]]
    OBVIOUS
  <2> HIDE DEF g0
  <2> QED
    BY <1>8, <2>1 DEF FlattenRule
<1> QED
  BY <1>3, <1>9

LEMMA FlattenIsRule ==
    ASSUME NEW s, Len(s) \in Nat, Len(s) # 0
    PROVE  \E g : FlattenRule(s, g, Len(s)) /\ FlattenSeq(s) = g[Len(s)]
<1> DEFINE g == CHOOSE h : FlattenRule(s, h, Len(s))
<1>1. FlattenRule(s, g, Len(s))
  BY FlattenRuleExists
<1>2. FlattenSeq(s) = g[Len(s)]
  BY DEF FlattenSeq, FlattenRule
<1> QED
  BY <1>1, <1>2

LEMMA ConcatFacts ==
    ASSUME NEW T, NEW a \in Seq(T), NEW b \in Seq(T)
    PROVE  a \o b \in Seq(T) /\ Len(a \o b) = Len(a) + Len(b)
OBVIOUS

\* Concatenating sequences gives a sequence, as long as all of them together.
LEMMA FlattenIsSequence ==
    ASSUME NEW T, NEW s \in Seq(Seq(T))
    PROVE  /\ FlattenSeq(s) \in Seq(T)
           /\ Len(FlattenSeq(s)) =
                SumFunctionOnSet([i \in 1..Len(s) |-> Len(s[i])], 1..Len(s))
<1> DEFINE lens == [i \in 1..Len(s) |-> Len(s[i])]
<1>1. Len(s) \in Nat /\ \A i \in 1..Len(s) : s[i] \in Seq(T) /\ lens[i] \in Nat
  OBVIOUS
<1>2. CASE Len(s) = 0
  <2>1. FlattenSeq(s) = s /\ s = <<>>
    BY <1>2 DEF FlattenSeq
  <2>2. 1..Len(s) = {}
    BY <1>2
  <2> QED
    BY <1>2, <2>1, <2>2, SumOfNone
<1>3. CASE Len(s) # 0
  <2>1. PICK g : FlattenRule(s, g, Len(s)) /\ FlattenSeq(s) = g[Len(s)]
    BY <1>1, <1>3, FlattenIsRule
  <2>2. \A i \in 1..Len(s) : g[i] = IF i = 1 THEN s[i] ELSE g[i - 1] \o s[i]
    BY <2>1 DEF FlattenRule
  <2> DEFINE Right(i) == /\ g[i] \in Seq(T)
                         /\ Len(g[i]) = SumFunctionOnSet(lens, 1..i)
             F == {i \in Nat : i \in 1..Len(s) /\ ~ Right(i)}
  <2>3. F = {}
    <3>1. SUFFICES ASSUME F # {} PROVE FALSE
      OBVIOUS
    <3>2. PICK n \in F : \A m \in F : n <= m
      <4>1. F \in SUBSET Nat
        OBVIOUS
      <4> HIDE DEF F
      <4> QED
        BY <3>1, <4>1, LeastNatural
    <3>3. n \in 1..Len(s) /\ n \in Nat /\ s[n] \in Seq(T)
      BY <1>1
    <3>4. SumFunctionOnSet(lens, 1..n) = lens[n] + SumFunctionOnSet(lens, 1..(n - 1))
      <4>1. n \in 1..n /\ 1..n \subseteq 1..Len(s)
        BY <1>1, <3>3
      <4>2. (1..n) \ {n} = 1..(n - 1)
        BY <3>3
      <4>3. IsFiniteSet(1..n)
        BY <3>3, FS_Interval
      <4>4. \A i \in 1..n : lens[i] \in Nat
        BY <1>1, <4>1
      <4> DEFINE I == 1..n
      <4> HIDE DEF lens, I
      <4>5. SumFunctionOnSet(lens, I) = lens[n] + SumFunctionOnSet(lens, I \ {n})
        BY <4>1, <4>3, <4>4, SumOfOne DEF I
      <4> QED
        BY <4>2, <4>5 DEF I
    <3>5. lens[n] = Len(s[n])
      BY <3>3
    <3>6. CASE n = 1
      <4>1. 1..(n - 1) = {}
        BY <3>6
      <4>2. g[n] = s[n]
        BY <2>2, <3>3, <3>6
      <4>3. SumFunctionOnSet(lens, 1..(n - 1)) = 0
        BY <4>1, SumOfNone
      <4> HIDE DEF lens
      <4> QED
        BY <3>2, <3>3, <3>4, <3>5, <4>2, <4>3
    <3>7. CASE n # 1
      <4>1. n - 1 \in 1..Len(s) /\ n - 1 \in Nat /\ ~ (n <= n - 1)
        BY <1>1, <3>3, <3>7
      <4>2. Right(n - 1)
        <5>1. n - 1 \notin F
          <6> HIDE DEF F
          <6> QED
            BY <3>2, <4>1
        <5> QED
          BY <4>1, <5>1
      <4>3. g[n] = g[n - 1] \o s[n]
        BY <2>2, <3>3, <3>7
      <4> HIDE DEF lens
      <4>4. g[n] \in Seq(T) /\ Len(g[n]) = Len(g[n - 1]) + Len(s[n])
        BY <3>3, <4>2, <4>3, ConcatFacts, Zenon
      <4>5. Len(s[n]) \in Nat /\ Len(g[n - 1]) \in Nat
        BY <3>3, <4>2
      <4> QED
        BY <3>2, <3>4, <3>5, <4>2, <4>4, <4>5
    <3> QED
      BY <3>6, <3>7
  <2>4. Len(s) \in 1..Len(s)
    BY <1>1, <1>3
  <2>5. Right(Len(s))
    BY <1>1, <2>3, <2>4
  <2> QED
    BY <2>1, <2>5
<1> QED
  BY <1>2, <1>3

-------------------------------------------------------------------------------
\* Where the parts of a concatenation are.

\* How long the first i sequences of s are together.
Start(s, i) == SumFunctionOnSet([j \in 1..Len(s) |-> Len(s[j])], 1..i)

LEMMA ConcatAt ==
    ASSUME NEW T, NEW a \in Seq(T), NEW b \in Seq(T)
    PROVE  /\ a \o b \in Seq(T) /\ Len(a \o b) = Len(a) + Len(b)
           /\ Len(a) \in Nat /\ Len(b) \in Nat
           /\ \A k \in 1..Len(a) : (a \o b)[k] = a[k]
           /\ \A k \in 1..Len(b) : (a \o b)[Len(a) + k] = b[k]
OBVIOUS

LEMMA StartFacts ==
    ASSUME NEW T, NEW s \in Seq(Seq(T))
    PROVE  /\ Start(s, 0) = 0
           /\ \A i \in 0..Len(s) : Start(s, i) \in Nat
           /\ \A i \in 1..Len(s) : Start(s, i) = Start(s, i - 1) + Len(s[i])
<1> DEFINE lens == [i \in 1..Len(s) |-> Len(s[i])]
<1>1. Len(s) \in Nat /\ \A i \in 1..Len(s) : s[i] \in Seq(T) /\ lens[i] \in Nat
  OBVIOUS
<1>2. Start(s, 0) = 0
  <2>1. 1..0 = {}
    OBVIOUS
  <2> QED
    BY <2>1, SumOfNone DEF Start
<1>3. ASSUME NEW i \in 0..Len(s) PROVE Start(s, i) \in Nat
  <2>1. IsFiniteSet(1..i)
    BY <1>1, FS_Interval
  <2>2. \A j \in 1..i : lens[j] \in Nat
    <3> HIDE DEF lens
    <3> QED
      BY <1>1
  <2> DEFINE I == 1..i
  <2>3. Start(s, i) = SumFunctionOnSet(lens, I)
    BY DEF Start
  <2> HIDE DEF lens, I
  <2> QED
    BY <2>1, <2>2, <2>3, SumIsNatural DEF I
<1>4. ASSUME NEW i \in 1..Len(s) PROVE Start(s, i) = Start(s, i - 1) + Len(s[i])
  <2>1. IsFiniteSet(1..i) /\ i \in 1..i
    BY <1>1, FS_Interval
  <2>7. \A j \in 1..i : lens[j] \in Nat
    <3> HIDE DEF lens
    <3> QED
      BY <1>1
  <2>2. (1..i) \ {i} = 1..(i - 1) /\ i - 1 \in 0..Len(s)
    BY <1>1
  <2>3. lens[i] = Len(s[i]) /\ lens[i] \in Nat
    BY <1>1
  <2> DEFINE I == 1..i
  <2>4. /\ Start(s, i) = SumFunctionOnSet(lens, I)
        /\ Start(s, i - 1) = SumFunctionOnSet(lens, I \ {i})
    BY <2>2 DEF Start
  <2>5. Start(s, i - 1) \in Nat
    BY <1>3, <2>2
  <2> HIDE DEF lens, I
  <2>6. SumFunctionOnSet(lens, I) = lens[i] + SumFunctionOnSet(lens, I \ {i})
    BY <2>1, <2>7, SumOfOne DEF I
  <2> QED
    BY <2>3, <2>4, <2>5, <2>6
<1> QED
  BY <1>2, <1>3, <1>4

\* Each part is found where it starts.
LEMMA FlattenAt ==
    ASSUME NEW T, NEW s \in Seq(Seq(T))
    PROVE  /\ FlattenSeq(s) \in Seq(T) /\ Len(FlattenSeq(s)) = Start(s, Len(s))
           /\ \A i \in 1..Len(s) :
                /\ Start(s, i) <= Start(s, Len(s))
                /\ \A k \in 1..Len(s[i]) :
                     FlattenSeq(s)[Start(s, i - 1) + k] = s[i][k]
<1>1. Len(s) \in Nat /\ \A i \in 1..Len(s) : s[i] \in Seq(T) /\ Len(s[i]) \in Nat
  OBVIOUS
<1>2. FlattenSeq(s) \in Seq(T) /\ Len(FlattenSeq(s)) = Start(s, Len(s))
  BY FlattenIsSequence DEF Start
<1>3. CASE Len(s) = 0
  BY <1>2, <1>3
<1>4. CASE Len(s) # 0
  <2>1. PICK g : FlattenRule(s, g, Len(s)) /\ FlattenSeq(s) = g[Len(s)]
    BY <1>1, <1>4, FlattenIsRule
  <2>2. \A j \in 1..Len(s) : g[j] = IF j = 1 THEN s[j] ELSE g[j - 1] \o s[j]
    BY <2>1 DEF FlattenRule
  <2> DEFINE Right(j) ==
               /\ g[j] \in Seq(T) /\ Len(g[j]) = Start(s, j)
               /\ \A i \in 1..j :
                    /\ Start(s, i) <= Start(s, j)
                    /\ \A k \in 1..Len(s[i]) : g[j][Start(s, i - 1) + k] = s[i][k]
             F == {j \in Nat : j \in 1..Len(s) /\ ~ Right(j)}
  <2>3. F = {}
    <3>1. SUFFICES ASSUME F # {} PROVE FALSE
      OBVIOUS
    <3>2. PICK n \in F : \A m \in F : n <= m
      <4>1. F \in SUBSET Nat
        OBVIOUS
      <4> HIDE DEF F
      <4> QED
        BY <3>1, <4>1, LeastNatural
    <3>3. n \in 1..Len(s) /\ n \in Nat /\ s[n] \in Seq(T) /\ Len(s[n]) \in Nat
      BY <1>1
    <3>4. /\ Start(s, n) = Start(s, n - 1) + Len(s[n])
          /\ Start(s, n) \in Nat /\ Start(s, n - 1) \in Nat /\ Start(s, 0) = 0
      BY <1>1, <3>3, StartFacts
    <3>5. CASE n = 1
      <4>1. g[n] = s[n] /\ \A i \in 1..n : i = n
        BY <2>2, <3>3, <3>5
      <4>2. Right(n)
        BY <3>3, <3>4, <3>5, <4>1
      <4> QED
        BY <3>2, <4>2
    <3>6. CASE n # 1
      <4>1. n - 1 \in 1..Len(s) /\ n - 1 \in Nat /\ ~ (n <= n - 1)
        BY <1>1, <3>3, <3>6
      <4>2. Right(n - 1)
        <5>1. n - 1 \notin F
          <6> HIDE DEF F
          <6> QED
            BY <3>2, <4>1
        <5> QED
          BY <4>1, <5>1
      <4>3. g[n] = g[n - 1] \o s[n]
        BY <2>2, <3>3, <3>6
      <4>4. /\ g[n] \in Seq(T) /\ Len(g[n]) = Start(s, n)
            /\ \A k \in 1..Start(s, n - 1) : g[n][k] = g[n - 1][k]
            /\ \A k \in 1..Len(s[n]) : g[n][Start(s, n - 1) + k] = s[n][k]
        <5>1. g[n - 1] \in Seq(T) /\ Len(g[n - 1]) = Start(s, n - 1)
          BY <4>2
        <5>2. PICK a \in Seq(T), b \in Seq(T) : a = g[n - 1] /\ b = s[n]
          BY <3>3, <5>1
        <5>3. g[n] = a \o b
          BY <4>3, <5>2
        <5>4. /\ g[n] \in Seq(T) /\ Len(g[n]) = Len(a) + Len(b)
              /\ \A k \in 1..Len(a) : g[n][k] = a[k]
              /\ \A k \in 1..Len(b) : g[n][Len(a) + k] = b[k]
          BY <5>3, ConcatAt
        <5>5. Len(a) = Start(s, n - 1) /\ Len(b) = Len(s[n])
          BY <5>1, <5>2
        <5> QED
          BY <3>4, <5>2, <5>4, <5>5
      <4>5. ASSUME NEW i \in 1..n
            PROVE  /\ Start(s, i) <= Start(s, n)
                   /\ \A k \in 1..Len(s[i]) : g[n][Start(s, i - 1) + k] = s[i][k]
        <5>1. CASE i = n
          BY <3>3, <3>4, <4>4, <5>1
        <5>2. CASE i # n
          <6>1. i \in 1..(n - 1) /\ i \in 1..Len(s) /\ i - 1 \in 0..Len(s)
            BY <1>1, <3>3, <5>2
          <6>2. /\ Start(s, i) = Start(s, i - 1) + Len(s[i])
                /\ Start(s, i - 1) \in Nat /\ Start(s, i) \in Nat /\ Len(s[i]) \in Nat
            BY <1>1, <6>1, StartFacts, SMTT(30)
          <6>3. /\ Start(s, i) <= Start(s, n - 1)
                /\ \A k \in 1..Len(s[i]) : g[n - 1][Start(s, i - 1) + k] = s[i][k]
            BY <4>2, <6>1
          <6> DEFINE p == Start(s, i - 1)
                     e == Start(s, n - 1)
                     l == Len(s[i])
          <6>4. p \in Nat /\ e \in Nat /\ l \in Nat /\ p + l <= e
            BY <3>4, <6>2, <6>3
          <6>5. \A k \in 1..l : p + k \in 1..e
            <7> HIDE DEF p, e, l
            <7> QED
              BY <6>4
          <6>6. \A k \in 1..l : g[n][p + k] = s[i][k]
            <7>1. \A k \in 1..l : g[n][p + k] = g[n - 1][p + k]
              BY <4>4, <6>5
            <7> QED
              BY <6>3, <7>1
          <6>7. Start(s, i) <= Start(s, n)
            BY <3>3, <3>4, <6>2, <6>3, SMTT(30)
          <6> QED
            BY <6>6, <6>7
        <5> QED
          BY <5>1, <5>2
      <4>6. Right(n)
        BY <4>4, <4>5
      <4> QED
        BY <3>2, <4>6
    <3> QED
      BY <3>5, <3>6
  <2>4. Right(Len(s))
    <3>1. Len(s) \in 1..Len(s)
      BY <1>1, <1>4
    <3> QED
      BY <1>1, <2>3, <3>1
  <2> QED
    BY <1>2, <2>1, <2>4
<1> QED
  BY <1>3, <1>4

-------------------------------------------------------------------------------
\* How long what is written for a value is.

Pairs == Seq(String \X String)

LEMMA SumOverSequence ==
    ASSUME NEW n \in Nat, NEW f, NEW g,
           \A i \in 1..n : f[i] \in Nat /\ g[i] \in Nat /\ f[i] <= g[i]
    PROVE  /\ SumFunctionOnSet(f, 1..n) \in Nat
           /\ SumFunctionOnSet(g, 1..n) \in Nat
           /\ SumFunctionOnSet(f, 1..n) <= SumFunctionOnSet(g, 1..n)
<1>1. IsFiniteSet(1..n)
  BY FS_Interval
<1> DEFINE I == 1..n
<1> HIDE DEF I
<1> QED
  BY <1>1, SumIsNatural, SumIsMonotone DEF I

LEMMA PutText ==
    ASSUME NEW s \in String
    PROVE  /\ PutLong(s) \in String /\ Len(PutLong(s)) = LongSize(s)
           /\ PutString(s) \in String /\ Len(PutString(s)) = LongSize(s)
           /\ LongSize(s) \in Nat
<1>1. Len(s) \in Nat /\ Len(s) % Byte \in Nat
  BY CodecConstants DEF String
<1>2. /\ <<Len(s)>> \in Seq(Nat) /\ Len(<<Len(s)>>) = 1
      /\ <<Len(s) % Byte>> \in Seq(Nat) /\ Len(<<Len(s) % Byte>>) = 1
  BY <1>1
<1>3. s \in Seq(Nat)
  BY DEF String
<1> QED
  BY <1>1, <1>2, <1>3, ConcatFacts DEF String, PutLong, PutString, LongSize

LEMMA PutPair ==
    ASSUME NEW kv \in String \X String
    PROVE  /\ PutItem(kv) \in String /\ Len(PutItem(kv)) = ItemSize(kv)
           /\ ItemSize(kv) \in Nat
<1>1. kv[1] \in String /\ kv[2] \in String
  OBVIOUS
<1>2. /\ PutString(kv[1]) \in Seq(Nat) /\ PutLong(kv[2]) \in Seq(Nat)
      /\ Len(PutString(kv[1])) = 1 + Len(kv[1])
      /\ Len(PutLong(kv[2])) = 1 + Len(kv[2])
  BY <1>1, PutText DEF String, LongSize
<1>3. Len(kv[1]) \in Nat /\ Len(kv[2]) \in Nat
  BY <1>1 DEF String
<1>4. /\ PutItem(kv) \in Seq(Nat)
      /\ Len(PutItem(kv)) = Len(PutString(kv[1])) + Len(PutLong(kv[2]))
  BY <1>2, ConcatFacts DEF PutItem
<1> QED
  BY <1>2, <1>3, <1>4 DEF String, ItemSize

\* Sequences of octets one after the other, with their number before them.
LEMMA Counting ==
    ASSUME NEW n \in Nat, NEW s, DOMAIN s = 1..n, s \in Seq(String),
           NEW size, DOMAIN size = 1..n,
           \A i \in 1..n : Len(s[i]) = size[i] /\ size[i] \in Nat
    PROVE  /\ <<n>> \o FlattenSeq(s) \in String
           /\ Len(<<n>> \o FlattenSeq(s)) = 1 + SumFunction(size)
           /\ SumFunction(size) \in Nat
<1> DEFINE lens == [i \in 1..Len(s) |-> Len(s[i])]
<1>1. Len(s) = n
  BY DEF String
<1>2. FlattenSeq(s) \in Seq(Nat) /\ Len(FlattenSeq(s)) = SumFunctionOnSet(lens, 1..n)
  BY <1>1, FlattenIsSequence DEF String
<1>3. \A i \in 1..n : lens[i] = size[i] /\ lens[i] \in Nat
  BY <1>1
<1>4. IsFiniteSet(1..n)
  BY FS_Interval
<1>5. SumFunctionOnSet(lens, 1..n) = SumFunctionOnSet(size, 1..n)
  <2> DEFINE I == 1..n
  <2> HIDE DEF lens, I
  <2> QED
    BY <1>3, <1>4, SumOfSame, SMTT(30) DEF I
<1>6. SumFunctionOnSet(size, 1..n) \in Nat
  BY SumOverSequence
<1>7. SumFunction(size) = SumFunctionOnSet(size, 1..n)
  BY DEF SumFunction
<1>8. <<n>> \in Seq(Nat) /\ Len(<<n>>) = 1
  OBVIOUS
<1> HIDE DEF lens
<1>9. /\ <<n>> \o FlattenSeq(s) \in Seq(Nat)
      /\ Len(<<n>> \o FlattenSeq(s)) = 1 + Len(FlattenSeq(s))
  BY <1>2, <1>8, ConcatFacts
<1> QED
  BY <1>2, <1>5, <1>6, <1>7, <1>9 DEF String

LEMMA PutStrings ==
    ASSUME NEW v \in Seq(String)
    PROVE  /\ PutEach(PutLong, v) \in String
           /\ Len(PutEach(PutLong, v)) = 1 + Total(LongSize, v)
           /\ Total(LongSize, v) \in Nat
<1> DEFINE n == Len(v)
           s == [i \in DOMAIN v |-> PutLong(v[i])]
           size == [i \in DOMAIN v |-> LongSize(v[i])]
<1>1. n \in Nat /\ DOMAIN v = 1..n /\ \A i \in 1..n : v[i] \in String
  OBVIOUS
<1>2. \A i \in 1..n : PutLong(v[i]) \in String
                      /\ Len(PutLong(v[i])) = LongSize(v[i]) /\ LongSize(v[i]) \in Nat
  BY <1>1, PutText
<1>3. /\ DOMAIN s = 1..n /\ DOMAIN size = 1..n /\ s \in Seq(String)
      /\ \A i \in 1..n : Len(s[i]) = size[i] /\ size[i] \in Nat
  BY <1>1, <1>2
<1>4. /\ PutEach(PutLong, v) = <<n>> \o FlattenSeq(s)
      /\ Total(LongSize, v) = SumFunction(size)
  BY DEF PutEach, Total
<1> HIDE DEF s, size, n
<1>5. n \in Nat
  BY <1>1
<1>6. /\ <<n>> \o FlattenSeq(s) \in String
      /\ Len(<<n>> \o FlattenSeq(s)) = 1 + SumFunction(size)
      /\ SumFunction(size) \in Nat
  BY <1>3, <1>5, Counting
<1> QED
  BY <1>4, <1>6, Zenon

LEMMA PutPairs ==
    ASSUME NEW v \in Pairs
    PROVE  /\ PutEach(PutItem, v) \in String
           /\ Len(PutEach(PutItem, v)) = 1 + Total(ItemSize, v)
           /\ Total(ItemSize, v) \in Nat
<1> DEFINE n == Len(v)
           s == [i \in DOMAIN v |-> PutItem(v[i])]
           size == [i \in DOMAIN v |-> ItemSize(v[i])]
<1>1. n \in Nat /\ DOMAIN v = 1..n /\ \A i \in 1..n : v[i] \in String \X String
  BY DEF Pairs
<1>2. \A i \in 1..n : PutItem(v[i]) \in String
                      /\ Len(PutItem(v[i])) = ItemSize(v[i]) /\ ItemSize(v[i]) \in Nat
  BY <1>1, PutPair
<1>3. /\ DOMAIN s = 1..n /\ DOMAIN size = 1..n /\ s \in Seq(String)
      /\ \A i \in 1..n : Len(s[i]) = size[i] /\ size[i] \in Nat
  BY <1>1, <1>2
<1>4. /\ PutEach(PutItem, v) = <<n>> \o FlattenSeq(s)
      /\ Total(ItemSize, v) = SumFunction(size)
  BY DEF PutEach, Total
<1> HIDE DEF s, size, n
<1>5. n \in Nat
  BY <1>1
<1>6. /\ <<n>> \o FlattenSeq(s) \in String
      /\ Len(<<n>> \o FlattenSeq(s)) = 1 + SumFunction(size)
      /\ SumFunction(size) \in Nat
  BY <1>3, <1>5, Counting
<1> QED
  BY <1>4, <1>6, Zenon

\* A field definition of some message.
Known(d) == d \in [name : STRING, type : Types, arg : Nat]

LEMMA TypesAre ==
    Types = {"number", "value", "octets", "uuid", "string", "longstr", "chunk",
             "strings", "hash", "frame", "msg"}
BY DEF Types, Plain, Fixed, Texts, Lists

\* One field: what is written for it are octets, and no more of them than are
\* counted, if the contents of a hash have been counted.
LEMMA PutField ==
    ASSUME NEW d, Known(d), NEW v \in Value(d), NEW counted,
           d.type = "hash" => /\ counted[d.name] \in Nat
                              /\ v # Null => counted[d.name] = Total(ItemSize, v)
    PROVE  /\ Put(d, v) \in String
           /\ SizeOf(d, v, counted) \in Nat
           /\ Len(Put(d, v)) <= SizeOf(d, v, counted)
<1>0. d.arg \in Nat /\ d.type \in Types
  BY DEF Known
<1>1. \A n \in Nat : <<n>> \in String /\ Len(<<n>>) = 1
  BY DEF String
<1>2. CASE d.type \in {"number", "value"}
  <2>1. SizeOf(d, v, counted) = 1
    BY <1>2 DEF SizeOf, Fixed, Texts
  <2>2. CASE d.type = "number"
    <3>1. Put(d, v) = <<v>> /\ v \in Nat
      BY <2>2 DEF Put, Value, Fixed
    <3> QED
      BY <1>1, <2>1, <3>1
  <2>3. CASE d.type = "value"
    <3>1. Put(d, v) = <<d.arg>>
      BY <2>3 DEF Put, Fixed
    <3> QED
      BY <1>0, <1>1, <2>1, <3>1
  <2> QED
    BY <1>2, <2>2, <2>3
<1>3. CASE d.type \in Fixed
  <2>1. SizeOf(d, v, counted) = d.arg
    BY <1>3 DEF SizeOf, Fixed, Texts
  <2>2. Put(d, v) = IF v = Null THEN [i \in 1..d.arg |-> 0] ELSE v
    BY <1>3 DEF Put, Fixed
  <2>3. v \in [1..d.arg -> Nat] \cup {Null}
    BY <1>3 DEF Value, Fixed
  <2>4. Put(d, v) \in [1..d.arg -> Nat]
    BY <2>2, <2>3
  <2>5. \A w \in [1..d.arg -> Nat] : w \in Seq(Nat) /\ Len(w) = d.arg
    BY <1>0
  <2> QED
    BY <1>0, <2>1, <2>4, <2>5 DEF String
<1>4. CASE d.type = "string"
  <2>1. v \in String /\ v # Null
    BY <1>4, CodecConstants DEF Value, Fixed
  <2>2. SizeOf(d, v, counted) = LongSize(v) /\ Put(d, v) = PutString(v)
    BY <1>4, <2>1 DEF SizeOf, Put, Fixed, Texts
  <2> QED
    BY <2>1, <2>2, PutText DEF String
<1>5. CASE d.type \in {"longstr", "chunk"}
  <2>1. v \in String \cup {Null}
    BY <1>5 DEF Value, Fixed
  <2>2. /\ SizeOf(d, v, counted) = IF v = Null THEN 1 ELSE LongSize(v)
        /\ Put(d, v) = IF v = Null THEN <<0>> ELSE PutLong(v)
    BY <1>5 DEF SizeOf, Put, Fixed, Texts
  <2>3. CASE v = Null
    BY <1>1, <2>2, <2>3
  <2>4. CASE v # Null
    BY <2>1, <2>2, <2>4, PutText DEF String
  <2> QED
    BY <2>3, <2>4
<1>6. CASE d.type = "strings"
  <2>1. v \in Seq(String) \cup {Null}
    BY <1>6 DEF Value, Fixed
  <2>2. /\ SizeOf(d, v, counted) = IF v = Null THEN 1 ELSE 1 + Total(LongSize, v)
        /\ Put(d, v) = IF v = Null THEN <<0>> ELSE PutEach(PutLong, v)
    BY <1>6 DEF SizeOf, Put, Fixed, Texts
  <2>3. CASE v = Null
    BY <1>1, <2>2, <2>3
  <2>4. CASE v # Null
    BY <2>1, <2>2, <2>4, PutStrings
  <2> QED
    BY <2>3, <2>4
<1>7. CASE d.type = "hash"
  <2>1. v \in Pairs \cup {Null}
    BY <1>7 DEF Value, Fixed, Pairs
  <2>2. /\ SizeOf(d, v, counted) = 1 + counted[d.name]
        /\ Put(d, v) = IF v = Null THEN <<0>> ELSE PutEach(PutItem, v)
    BY <1>7 DEF SizeOf, Put, Fixed, Texts
  <2>3. CASE v = Null
    BY <1>1, <1>7, <2>2, <2>3
  <2>4. CASE v # Null
    BY <1>7, <2>1, <2>2, <2>4, PutPairs
  <2> QED
    BY <2>3, <2>4
<1>8. CASE d.type \in {"frame", "msg"}
  <2>1. SizeOf(d, v, counted) = 0 /\ Put(d, v) = <<>>
    BY <1>8 DEF SizeOf, Put, Fixed, Texts
  <2> QED
    BY <2>1 DEF String
<1> QED
  BY <1>0, <1>2, <1>3, <1>4, <1>5, <1>6, <1>7, <1>8, TypesAre DEF Fixed

LEMMA FramesOfField ==
    ASSUME NEW d, Known(d), NEW v \in Value(d)
    PROVE  Frames(d, v) \in Seq(String)
<1>1. CASE d.type = "frame"
  <2>1. v \in String \cup {Null}
    BY <1>1 DEF Value, Fixed
  <2>2. Frames(d, v) = IF v = Null THEN <<<<>>>> ELSE <<v>>
    BY <1>1 DEF Frames
  <2>3. <<>> \in String
    BY DEF String
  <2> QED
    BY <2>1, <2>2, <2>3
<1>2. CASE d.type = "msg"
  <2>1. v \in Seq(String) \cup {Null}
    BY <1>2 DEF Value, Fixed
  <2>2. Frames(d, v) = IF v = Null THEN <<<<>>>> ELSE v
    BY <1>2 DEF Frames
  <2>3. <<>> \in String
    BY DEF String
  <2> QED
    BY <2>1, <2>2, <2>3
<1>3. CASE d.type \notin {"frame", "msg"}
  <2>1. Frames(d, v) = <<>>
    BY <1>3 DEF Frames
  <2> QED
    BY <2>1
<1> QED
  BY <1>1, <1>2, <1>3

-------------------------------------------------------------------------------
\* Whole messages.

WellTyped(f) == \A n \in Names : f[n] \in Values[n]

LEMMA FieldFacts ==
    ASSUME NEW id \in Ids, NEW i \in DOMAIN Fields[id]
    PROVE  /\ Known(Fields[id][i])
           /\ Fields[id][i].name \in FieldNames(id)
           /\ Fields[id][i].name \in Names
           /\ Values[Fields[id][i].name] = Value(Fields[id][i])
           /\ Fields[id][i].type = "hash" => Fields[id][i].name \in Hashes
<1> DEFINE d == Fields[id][i]
           e == FieldOf(d.name)
<1>1. Known(d)
  <2>1. Fields[id] \in Seq([name : STRING, type : Types, arg : Nat])
    BY CodecConstants
  <2> DEFINE R == [name : STRING, type : Types, arg : Nat]
             t == Fields[id]
  <2>2. \A k \in DOMAIN t : t[k] \in R
    <3> HIDE DEF R, t
    <3>1. t \in Seq(R)
      BY <2>1 DEF R, t
    <3> QED
      BY <3>1
  <2> QED
    BY <2>2 DEF Known
<1>2. FieldsOf(id) = Fields[id]
  BY DEF FieldsOf
<1>3. d.name \in FieldNames(id)
  BY <1>2 DEF FieldNames
<1>4. d.name \in Names
  BY <1>3 DEF Names
<1>5. d.type = e.type /\ (d.type \in Fixed => d.arg = e.arg)
  BY CodecConstants
<1>6. Value(e) = Value(d)
  <2> HIDE DEF d, e
  <2>1. CASE d.type \in Fixed
    <3>1. /\ Value(d) = [1..d.arg -> Nat] \cup {Null}
          /\ Value(e) = [1..e.arg -> Nat] \cup {Null}
      BY <1>5, <2>1 DEF Value, Fixed
    <3> QED
      BY <1>5, <2>1, <3>1
  <2>2. CASE d.type \notin Fixed
    BY <1>5, <2>2 DEF Value
  <2> QED
    BY <2>1, <2>2
<1>7. Values[d.name] = Value(e)
  BY <1>4 DEF Values
<1>8. d.type = "hash" => d.name \in Hashes
  BY <1>4, <1>5 DEF Hashes
<1> HIDE DEF e
<1> QED
  BY <1>1, <1>3, <1>4, <1>6, <1>7, <1>8

\* The fields of an object's message and their values; an id that is not known
\* has none.
LEMMA FieldsFacts ==
    ASSUME NEW id, NEW f, WellTyped(f)
    PROVE  /\ Len(FieldsOf(id)) \in Nat
           /\ DOMAIN FieldsOf(id) = 1..Len(FieldsOf(id))
           /\ \A i \in DOMAIN FieldsOf(id) :
                LET d == FieldsOf(id)[i]
                IN /\ Known(d) /\ f[d.name] \in Value(d)
                   /\ d.name \in FieldNames(id)
                   /\ d.type = "hash" => d.name \in Hashes
<1>1. CASE id \in Ids
  <2>1. FieldsOf(id) = Fields[id]
    BY <1>1 DEF FieldsOf
  <2>2. Fields[id] \in Seq([name : STRING, type : Types, arg : Nat])
    BY <1>1, CodecConstants
  <2>3. Len(Fields[id]) \in Nat /\ DOMAIN Fields[id] = 1..Len(Fields[id])
    BY <2>2
  <2>4. ASSUME NEW i \in DOMAIN Fields[id]
        PROVE  LET d == Fields[id][i]
               IN /\ Known(d) /\ f[d.name] \in Value(d)
                  /\ d.name \in FieldNames(id)
                  /\ d.type = "hash" => d.name \in Hashes
    BY <1>1, FieldFacts DEF WellTyped
  <2> QED
    BY <2>1, <2>3, <2>4
<1>2. CASE id \notin Ids
  <2>1. FieldsOf(id) = <<>>
    BY <1>2 DEF FieldsOf
  <2> QED
    BY <2>1
<1> QED
  BY <1>1, <1>2

\* counted is right for the hashes that the message of object o has.
CountsOf(o, counted) ==
    /\ \A n \in Hashes : counted[n] \in Nat
    /\ \A n \in Hashes : n \in FieldNames(o.id) /\ o.f[n] # Null
                            => counted[n] = Total(ItemSize, o.f[n])

LEMMA FirstFrameFits ==
    ASSUME NEW o, WellTyped(o.f), o.id \in Nat, NEW counted, CountsOf(o, counted)
    PROVE  /\ FirstFrame(o) \in String
           /\ FrameSize(o, counted) \in Nat
           /\ Len(FirstFrame(o)) <= FrameSize(o, counted)
<1> DEFINE fields == FieldsOf(o.id)
           n == Len(fields)
           s == [i \in DOMAIN fields |-> Put(fields[i], o.f[fields[i].name])]
           size == [i \in DOMAIN fields |->
                        SizeOf(fields[i], o.f[fields[i].name], counted)]
           lens == [i \in 1..Len(s) |-> Len(s[i])]
<1>1. n \in Nat /\ DOMAIN fields = 1..n
  BY FieldsFacts
<1>2. ASSUME NEW i \in 1..n
      PROVE  /\ s[i] \in String /\ size[i] \in Nat /\ Len(s[i]) <= size[i]
  <2> DEFINE d == fields[i]
             v == o.f[d.name]
  <2>1. /\ Known(d) /\ v \in Value(d)
        /\ d.name \in FieldNames(o.id)
        /\ d.type = "hash" => d.name \in Hashes
    BY <1>1, <1>2, FieldsFacts
  <2>2. d.type = "hash" => /\ counted[d.name] \in Nat
                           /\ v # Null => counted[d.name] = Total(ItemSize, v)
    BY <2>1 DEF CountsOf
  <2>3. s[i] = Put(d, v) /\ size[i] = SizeOf(d, v, counted)
    BY <1>1, <1>2
  <2> HIDE DEF d, v, s, size
  <2> QED
    BY <2>1, <2>2, <2>3, PutField
<1>3. DOMAIN s = 1..n /\ DOMAIN size = 1..n /\ s \in Seq(String) /\ Len(s) = n
  <2>1. DOMAIN s = 1..n /\ DOMAIN size = 1..n /\ s = [i \in 1..n |-> s[i]]
    BY <1>1
  <2> HIDE DEF s, n
  <2> QED
    BY <1>1, <1>2, <2>1
<1>4. OverFields(Put, o) = FlattenSeq(s) /\ FrameSize(o, counted) = 2 + SumFunction(size)
  BY DEF OverFields, FrameSize
<1>5. SumFunction(size) = SumFunctionOnSet(size, 1..n)
  BY <1>3 DEF SumFunction
<1>6. FlattenSeq(s) \in Seq(Nat) /\ Len(FlattenSeq(s)) = SumFunctionOnSet(lens, 1..n)
  <2> HIDE DEF s
  <2> QED
    BY <1>3, FlattenIsSequence DEF String
<1>7. \A i \in 1..n : lens[i] \in Nat /\ size[i] \in Nat /\ lens[i] <= size[i]
  <2> HIDE DEF s, size, n
  <2> QED
    BY <1>2, <1>3 DEF String
<1>8. /\ SumFunctionOnSet(lens, 1..n) \in Nat
      /\ SumFunctionOnSet(size, 1..n) \in Nat
      /\ SumFunctionOnSet(lens, 1..n) <= SumFunctionOnSet(size, 1..n)
  <2> HIDE DEF lens, size, n
  <2> QED
    BY <1>1, <1>7, SumOverSequence
<1>9. <<Signature, o.id>> \in Seq(Nat) /\ Len(<<Signature, o.id>>) = 2
  BY CodecConstants
<1> HIDE DEF s, lens, size, n, fields
<1>10. /\ FirstFrame(o) \in Seq(Nat)
       /\ Len(FirstFrame(o)) = 2 + Len(FlattenSeq(s))
  BY <1>4, <1>6, <1>9, ConcatFacts DEF FirstFrame
<1> QED
  BY <1>4, <1>5, <1>6, <1>8, <1>10 DEF String

LEMMA MessageIsFrames ==
    ASSUME NEW o, WellTyped(o.f), o.id \in Nat
    PROVE  /\ Message(o) \in Seq(String) /\ Message(o) # <<>>
           /\ Tail(Message(o)) \in Seq(String)
<1> DEFINE fields == FieldsOf(o.id)
           n == Len(fields)
           s == [i \in DOMAIN fields |-> Frames(fields[i], o.f[fields[i].name])]
           zero == [m \in Hashes |-> IF o.f[m] = Null THEN 0 ELSE Total(ItemSize, o.f[m])]
<1>1. n \in Nat /\ DOMAIN fields = 1..n
  BY FieldsFacts
<1>2. ASSUME NEW i \in 1..n PROVE s[i] \in Seq(String)
  BY <1>1, FieldsFacts, FramesOfField
<1>3. s \in Seq(Seq(String))
  <2>1. s = [i \in 1..n |-> s[i]]
    BY <1>1
  <2> HIDE DEF s, n
  <2> QED
    BY <1>1, <1>2, <2>1
<1>4. OverFields(Frames, o) = FlattenSeq(s)
  BY DEF OverFields
<1>5. OverFields(Frames, o) \in Seq(String)
  <2> HIDE DEF s
  <2> QED
    BY <1>3, <1>4, FlattenIsSequence
<1>6. CountsOf(o, zero)
  <2>1. ASSUME NEW m \in Hashes, o.f[m] # Null PROVE Total(ItemSize, o.f[m]) \in Nat
    <3>1. m \in Names /\ FieldOf(m).type = "hash"
      BY DEF Hashes
    <3>2. o.f[m] \in Values[m] /\ Values[m] = Pairs \cup {Null}
      BY <3>1 DEF WellTyped, Values, Value, Pairs, Fixed
    <3> QED
      BY <2>1, <3>2, PutPairs
  <2> QED
    BY <2>1 DEF CountsOf
<1>7. FirstFrame(o) \in String
  <2> HIDE DEF zero
  <2> QED
    BY <1>6, FirstFrameFits
<1>8. <<FirstFrame(o)>> \in Seq(String) /\ Len(<<FirstFrame(o)>>) = 1
  BY <1>7
<1>9. Message(o) \in Seq(String) /\ Len(Message(o)) = 1 + Len(OverFields(Frames, o))
  BY <1>5, <1>8, ConcatFacts DEF Message
<1> HIDE DEF s
<1>10. Len(Message(o)) > 0
  BY <1>5, <1>9
<1> QED
  BY <1>9, <1>10

LEMMA CountedCounts ==
    ASSUME NEW o, WellTyped(o.f), NEW before, \A n \in Hashes : before[n] \in Nat
    PROVE  CountsOf(o, Counted(o, before)) /\ Counted(o, before) \in [Hashes -> Nat]
<1>1. ASSUME NEW n \in Hashes, o.f[n] # Null PROVE Total(ItemSize, o.f[n]) \in Nat
  <2>1. n \in Names /\ FieldOf(n).type = "hash"
    BY DEF Hashes
  <2>2. o.f[n] \in Values[n] /\ Values[n] = Pairs \cup {Null}
    BY <2>1 DEF WellTyped, Values, Value, Pairs, Fixed
  <2> QED
    BY <1>1, <2>2, PutPairs
<1> QED
  BY <1>1 DEF CountsOf, Counted

LEMMA EncodingFits ==
    ASSUME NEW o, WellTyped(o.f), o.id \in Nat, NEW counted, CountsOf(o, counted)
    PROVE  /\ Encoding(o, counted) \in [wrote : Nat, size : Nat]
           /\ Encoding(o, counted).wrote <= Encoding(o, counted).size
<1>1. /\ FirstFrame(o) \in Seq(Nat) /\ FrameSize(o, counted) \in Nat
      /\ Len(FirstFrame(o)) <= FrameSize(o, counted)
  BY FirstFrameFits DEF String
<1>2. Len(FirstFrame(o)) \in Nat
  BY <1>1
<1> QED
  BY <1>1, <1>2 DEF Encoding

-------------------------------------------------------------------------------
\* Writing and reading.

\* What is written for the fields of an object's message, the frames that follow
\* for them, and what is written for the items of a list.
Writes(o) == [i \in DOMAIN FieldsOf(o.id) |->
                Put(FieldsOf(o.id)[i], o.f[FieldsOf(o.id)[i].name])]
Follows(o) == [i \in DOMAIN FieldsOf(o.id) |->
                Frames(FieldsOf(o.id)[i], o.f[FieldsOf(o.id)[i].name])]
ItemsOf(d, v) == [i \in DOMAIN v |-> IF d.type = "strings" THEN PutLong(v[i])
                                                          ELSE PutItem(v[i])]

\* An object of which all values can be sent.
SendableObject(o) ==
    /\ o.id \in Ids
    /\ WellTyped(o.f)
    /\ \A n \in Names : Sendable(FieldOf(n), o.f[n])

\* w has x at p.
Part(w, p, x) == p + Len(x) <= Len(w) /\ \A k \in 1..Len(x) : w[p + k] = x[k]

LEMMA PartOfConcat ==
    ASSUME NEW T, NEW w \in Seq(T), NEW p \in Nat, NEW a \in Seq(T), NEW b \in Seq(T),
           Part(w, p, a \o b)
    PROVE  Part(w, p, a) /\ Part(w, p + Len(a), b)
<1> DEFINE ab == a \o b
<1>1. /\ Len(ab) = Len(a) + Len(b) /\ Len(a) \in Nat /\ Len(b) \in Nat
      /\ \A k \in 1..Len(a) : ab[k] = a[k]
      /\ \A k \in 1..Len(b) : ab[Len(a) + k] = b[k]
  BY ConcatAt
<1>2. p + Len(ab) <= Len(w) /\ \A k \in 1..Len(ab) : w[p + k] = ab[k]
  BY DEF Part
<1>3. Len(w) \in Nat
  OBVIOUS
<1> HIDE DEF ab
<1>4. Part(w, p, a)
  BY <1>1, <1>2, <1>3 DEF Part
<1>5. ASSUME NEW k \in 1..Len(b) PROVE w[(p + Len(a)) + k] = b[k]
  <2>1. Len(a) + k \in 1..Len(ab) /\ p + (Len(a) + k) = (p + Len(a)) + k
    BY <1>1
  <2> QED
    BY <1>1, <1>2, <2>1
<1> QED
  BY <1>1, <1>2, <1>3, <1>4, <1>5 DEF Part

LEMMA PartOfFlatten ==
    ASSUME NEW T, NEW w \in Seq(T), NEW p \in Nat, NEW s \in Seq(Seq(T)),
           Part(w, p, FlattenSeq(s)), NEW i \in 1..Len(s)
    PROVE  Part(w, p + Start(s, i - 1), s[i])
<1> DEFINE fl == FlattenSeq(s)
           st == Start(s, i - 1)
           l == Len(s[i])
<1>1. /\ Len(fl) = Start(s, Len(s)) /\ fl \in Seq(T)
      /\ Start(s, i) <= Start(s, Len(s))
      /\ \A k \in 1..l : fl[st + k] = s[i][k]
  BY FlattenAt
<1>2. s[i] \in Seq(T) /\ i - 1 \in 0..Len(s) /\ Len(s) \in Nat
  OBVIOUS
<1>3. l \in Nat /\ st \in Nat /\ Start(s, i) = st + l
  BY <1>2, StartFacts
<1>4. p + Len(fl) <= Len(w) /\ \A k \in 1..Len(fl) : w[p + k] = fl[k]
  BY DEF Part
<1>5. Len(fl) \in Nat /\ Len(w) \in Nat
  BY <1>1
<1> HIDE DEF fl, st
<1>6. p + st + l <= Len(w)
  <2>1. st + l <= Len(fl)
    BY <1>1, <1>3
  <2> HIDE DEF l
  <2> QED
    BY <1>3, <1>4, <1>5, <2>1
<1>7. ASSUME NEW k \in 1..l PROVE w[(p + st) + k] = s[i][k]
  <2>1. st + k \in 1..Len(fl) /\ p + (st + k) = (p + st) + k
    BY <1>1, <1>3, <1>5
  <2> QED
    BY <1>1, <1>4, <2>1
<1> QED
  BY <1>6, <1>7 DEF Part, st

\* GET_ macros: what was put at the needle is read there.
LEMMA NumberAt ==
    ASSUME data \in String, needle \in Nat, NEW n, Part(data, needle, <<n>>)
    PROVE  Has(1) /\ Cell(1) = n
<1>1. needle + 1 <= Len(data) /\ data[needle + 1] = n
  BY DEF Part
<1>2. needle + 1 \in DOMAIN data
  BY <1>1 DEF String
<1> QED
  BY <1>1, <1>2 DEF Has, Cell

LEMMA CellsAt ==
    ASSUME data \in String, needle \in Nat, NEW i \in Nat, NEW s \in String,
           Part(data, needle + i, s)
    PROVE  Has(i + Len(s)) /\ Cells(i + 1, i + Len(s)) = s
<1> DEFINE l == Len(s)
<1>1. l \in Nat /\ s = [k \in 1..l |-> s[k]] /\ Len(data) \in Nat
  BY DEF String
<1>2. needle + i + l <= Len(data) /\ \A k \in 1..l : data[needle + i + k] = s[k]
  BY DEF Part
<1>3. DOMAIN data = 1..Len(data)
  BY DEF String
<1>4. Has(i + l)
  BY <1>1, <1>2 DEF Has
<1>5. i + l - (i + 1) + 1 = l
  BY <1>1
<1>6. Cells(i + 1, i + l) = [k \in 1..l |-> Cell(i + 1 + k - 1)]
  BY <1>5 DEF Cells
<1> HIDE DEF l
<1>7. ASSUME NEW k \in 1..l PROVE Cell(i + 1 + k - 1) = s[k]
  <2>1. needle + (i + 1 + k - 1) = needle + i + k /\ needle + i + k \in 1..Len(data)
    BY <1>1, <1>2
  <2> QED
    BY <1>2, <1>3, <2>1 DEF Cell
<1>8. Cells(i + 1, i + l) = s
  BY <1>1, <1>6, <1>7
<1> QED
  BY <1>4, <1>8 DEF l

LEMMA TextAt ==
    ASSUME data \in String, needle \in Nat, NEW i \in Nat, NEW s \in String,
           Part(data, needle + i, PutLong(s))
    PROVE  /\ HasText(i) /\ Text(i) = s
           /\ After(i) = i + Len(PutLong(s))
<1> DEFINE h == <<Len(s)>>
<1>1. Len(s) \in Nat /\ s \in Seq(Nat) /\ h \in Seq(Nat) /\ Len(h) = 1
  BY DEF String
<1>2. PutLong(s) = h \o s /\ Len(h \o s) = 1 + Len(s) /\ needle + i \in Nat
  BY <1>1, ConcatAt DEF PutLong
<1>3. Part(data, needle + i, h) /\ Part(data, needle + i + 1, s)
  <2>1. data \in Seq(Nat) /\ Part(data, needle + i, h \o s)
    BY <1>2 DEF String
  <2> QED
    BY <1>1, <1>2, <2>1, PartOfConcat
<1>4. needle + i + 1 <= Len(data) /\ data[needle + i + 1] = Len(s)
  BY <1>1, <1>3 DEF Part
<1>5. needle + (i + 1) \in DOMAIN data /\ needle + (i + 1) = needle + i + 1
  BY <1>4 DEF String
<1>6. Has(i + 1) /\ Cell(i + 1) = Len(s)
  BY <1>4, <1>5 DEF Has, Cell
<1> DEFINE j == i + 1
<1>7. Part(data, needle + j, s) /\ j \in Nat
  BY <1>3
<1>8. Has(j + Len(s)) /\ Cells(j + 1, j + Len(s)) = s
  <2> HIDE DEF j
  <2> QED
    BY <1>7, CellsAt
<1>9. i + 1 + 1 = i + 2
  OBVIOUS
<1>10. HasText(i) /\ Text(i) = s
  BY <1>6, <1>8, <1>9 DEF HasText, Text
<1>11. After(i) = i + Len(PutLong(s))
  <2>1. Len(PutLong(s)) = 1 + Len(s)
    BY <1>2
  <2>2. After(i) = i + 1 + Len(s)
    BY <1>6 DEF After
  <2> QED
    BY <1>1, <2>1, <2>2
<1> QED
  BY <1>10, <1>11

\* A length that fits into its octet is stored as it is.
LEMMA ShortPut ==
    ASSUME NEW s \in String, Len(s) < Byte
    PROVE  PutString(s) = PutLong(s)
<1>1. Len(s) \in Nat /\ Byte \in Nat \ {0}
  BY CodecConstants DEF String
<1>2. Len(s) % Byte = Len(s)
  BY <1>1
<1> QED
  BY <1>2 DEF PutString, PutLong

LEMMA PutEmpty == ASSUME NEW s, s = <<>> PROVE FlattenSeq(s) = <<>>
BY DEF FlattenSeq

\* A value and what is seen of it are written in the same way.
LEMMA PutSeen ==
    ASSUME NEW d, Known(d), NEW v \in Value(d)
    PROVE  d.type # "value" => /\ Put(d, Seen(d, v)) = Put(d, v)
                               /\ Frames(d, Seen(d, v)) = Frames(d, v)
<1>1. CASE v # Null
  BY <1>1 DEF Seen
<1>2. CASE v = Null /\ d.type \in Fixed
  <2>1. Seen(d, v) = [i \in 1..d.arg |-> 0]
    BY <1>2 DEF Seen, Fixed
  <2>2. Put(d, v) = [i \in 1..d.arg |-> 0]
    BY <1>2 DEF Put, Fixed
  <2>3. Put(d, Seen(d, v)) = [i \in 1..d.arg |-> 0]
    BY <1>2, <2>1 DEF Put, Fixed
  <2>4. Frames(d, v) = <<>> /\ Frames(d, Seen(d, v)) = <<>>
    BY <1>2 DEF Frames, Fixed
  <2> QED
    BY <2>2, <2>3, <2>4
<1>3. CASE v = Null /\ d.type = "msg"
  <2>1. Seen(d, v) = <<<<>>>>
    BY <1>3 DEF Seen, Fixed
  <2>2. Put(d, v) = <<>> /\ Put(d, Seen(d, v)) = <<>>
    BY <1>3 DEF Put, Fixed
  <2>3. Frames(d, v) = <<<<>>>> /\ Frames(d, Seen(d, v)) = <<<<>>>>
    BY <1>3, <2>1 DEF Frames
  <2> QED
    BY <2>2, <2>3
<1>4. CASE v = Null /\ d.type \notin Fixed \cup {"msg", "value"}
  <2>1. Seen(d, v) = <<>>
    BY <1>4 DEF Seen
  <2>2. d.type \notin {"number", "string"}
    <3>1. Null \notin Nat
      BY CodecConstants
    <3> QED
      BY <1>4, <3>1, CodecConstants DEF Value, Fixed
  <2>3. d.type \in {"longstr", "chunk", "strings", "hash", "frame"}
    BY <1>4, <2>2, TypesAre DEF Known, Fixed
  <2>4. Put(d, v) = IF d.type = "frame" THEN <<>> ELSE <<0>>
    BY <1>4, <2>3 DEF Put, Fixed
  <2>5. Put(d, <<>>) = IF d.type = "frame" THEN <<>> ELSE <<0>>
    <3>1. Len(<<>>) = 0 /\ <<0>> \o <<>> = <<0>> /\ <<>> # Null
      <4>1. <<>> \in String
        BY DEF String
      <4>2. <<0>> \o <<>> = <<0>>
        OBVIOUS
      <4> QED
        BY <4>1, <4>2, CodecConstants
    <3>2. PutLong(<<>>) = <<0>>
      BY <3>1 DEF PutLong
    <3>3. PutEach(PutLong, <<>>) = <<0>>
      <4>1. FlattenSeq([i \in DOMAIN <<>> |-> PutLong(<<>>[i])]) = <<>>
        BY PutEmpty
      <4> QED
        BY <3>1, <4>1 DEF PutEach
    <3>4. PutEach(PutItem, <<>>) = <<0>>
      <4>1. FlattenSeq([i \in DOMAIN <<>> |-> PutItem(<<>>[i])]) = <<>>
        BY PutEmpty
      <4> QED
        BY <3>1, <4>1 DEF PutEach
    <3> QED
      BY <2>3, <3>1, <3>2, <3>3, <3>4 DEF Put, Fixed
  <2>6. Frames(d, v) = Frames(d, <<>>)
    BY <1>4, <2>3 DEF Frames
  <2> QED
    BY <2>1, <2>4, <2>5, <2>6
<1> QED
  BY <1>1, <1>2, <1>3, <1>4

-------------------------------------------------------------------------------
\* A message that is sent, field by field.

LEMMA PutIsString ==
    ASSUME NEW d, Known(d), NEW v \in Value(d)
    PROVE  Put(d, v) \in String
<1> DEFINE counted == [n \in {d.name} |-> IF v = Null THEN 0 ELSE Total(ItemSize, v)]
<1>1. ASSUME d.type = "hash", v # Null PROVE Total(ItemSize, v) \in Nat
  <2>1. v \in Pairs
    BY <1>1 DEF Value, Fixed, Pairs
  <2> QED
    BY <2>1, PutPairs
<1>2. d.type = "hash" => /\ counted[d.name] \in Nat
                         /\ v # Null => counted[d.name] = Total(ItemSize, v)
  BY <1>1
<1> HIDE DEF counted
<1> QED
  BY <1>2, PutField

LEMMA WritesFacts ==
    ASSUME NEW o, SendableObject(o)
    PROVE  /\ o.id \in Ids /\ o.id \in Nat
           /\ FieldsOf(o.id) = Fields[o.id]
           /\ Len(Fields[o.id]) \in Nat
           /\ DOMAIN Fields[o.id] = 1..Len(Fields[o.id])
           /\ Writes(o) \in Seq(String) /\ Len(Writes(o)) = Len(Fields[o.id])
           /\ OverFields(Put, o) = FlattenSeq(Writes(o))
           /\ Follows(o) \in Seq(Seq(String)) /\ Len(Follows(o)) = Len(Fields[o.id])
           /\ OverFields(Frames, o) = FlattenSeq(Follows(o))
<1> DEFINE fields == Fields[o.id]
           n == Len(fields)
<1>1. o.id \in Ids /\ o.id \in Nat /\ FieldsOf(o.id) = fields /\ WellTyped(o.f)
  BY CodecConstants DEF SendableObject, FieldsOf
<1>2. n \in Nat /\ DOMAIN fields = 1..n
  BY <1>1, FieldsFacts
<1>3. ASSUME NEW i \in 1..n
      PROVE  /\ Put(fields[i], o.f[fields[i].name]) \in String
             /\ Frames(fields[i], o.f[fields[i].name]) \in Seq(String)
  <2>1. Known(fields[i]) /\ o.f[fields[i].name] \in Value(fields[i])
    BY <1>1, <1>2, FieldsFacts
  <2> QED
    BY <2>1, PutIsString, FramesOfField
<1>4. /\ Writes(o) = [i \in 1..n |-> Put(fields[i], o.f[fields[i].name])]
      /\ Follows(o) = [i \in 1..n |-> Frames(fields[i], o.f[fields[i].name])]
  BY <1>1, <1>2 DEF Writes, Follows
<1>5. /\ OverFields(Put, o) = FlattenSeq(Writes(o))
      /\ OverFields(Frames, o) = FlattenSeq(Follows(o))
  BY DEF OverFields, Writes, Follows
<1> HIDE DEF n, fields
<1>6. /\ Writes(o) \in Seq(String) /\ Len(Writes(o)) = n
      /\ Follows(o) \in Seq(Seq(String)) /\ Len(Follows(o)) = n
  BY <1>2, <1>3, <1>4, SMTT(30)
<1> QED
  BY <1>1, <1>2, <1>5, <1>6 DEF n, fields

\* One field of it.
LEMMA FieldOfObject ==
    ASSUME NEW o, SendableObject(o), NEW i \in DOMAIN Fields[o.id], NEW d, NEW v,
           d = Fields[o.id][i], v = o.f[d.name]
    PROVE  /\ Known(d) /\ v \in Value(d) /\ Sendable(d, v)
           /\ d.name \in Names /\ Value(d) = Values[d.name]
           /\ Writes(o)[i] = Put(d, v) /\ Put(d, v) \in String
           /\ Follows(o)[i] = Frames(d, v) /\ Frames(d, v) \in Seq(String)
<1>1. o.id \in Ids /\ FieldsOf(o.id) = Fields[o.id]
  BY WritesFacts
<1>2. Known(d) /\ d.name \in Names /\ Value(d) = Values[d.name]
  BY <1>1, FieldFacts
<1>3. v \in Value(d)
  BY <1>2 DEF SendableObject, WellTyped
<1>4. d.type = FieldOf(d.name).type
  BY <1>1, CodecConstants
<1>5. Sendable(FieldOf(d.name), v)
  BY <1>2 DEF SendableObject
<1>6. Sendable(d, v)
  BY <1>4, <1>5, Zenon DEF Sendable
<1>7. Writes(o)[i] = Put(d, v) /\ Follows(o)[i] = Frames(d, v)
  BY <1>1 DEF Writes, Follows
<1>8. Put(d, v) \in String
  BY <1>2, <1>3, PutIsString, Zenon
<1>9. Frames(d, v) \in Seq(String)
  BY <1>2, <1>3, FramesOfField, Zenon
<1> QED
  BY <1>2, <1>3, <1>6, <1>7, <1>8, <1>9, Zenon

\* Fields of one name are of one type.
LEMMA SameName ==
    ASSUME NEW id \in Ids, NEW i \in DOMAIN Fields[id], NEW j \in DOMAIN Fields[id],
           Fields[id][i].name = Fields[id][j].name, NEW v
    PROVE  /\ Fields[id][i].type = Fields[id][j].type
           /\ Seen(Fields[id][i], v) = Seen(Fields[id][j], v)
<1> DEFINE d == Fields[id][i]
           e == Fields[id][j]
<1>1. d.type = e.type /\ (d.type \in Fixed => d.arg = e.arg)
  BY CodecConstants, SMTT(30)
<1> HIDE DEF d, e
<1>2. Seen(d, v) = Seen(e, v)
  <2>1. CASE v # Null
    BY <2>1 DEF Seen
  <2>2. CASE v = Null /\ d.type \in Fixed
    BY <1>1, <2>2 DEF Seen, Fixed
  <2>3. CASE v = Null /\ d.type \notin Fixed
    BY <1>1, <2>3 DEF Seen
  <2> QED
    BY <2>1, <2>2, <2>3
<1> QED
  BY <1>1, <1>2 DEF d, e

\* What a list is.
ListOf(d) == IF d.type = "strings" THEN Seq(String) ELSE Pairs

LEMMA ListValue ==
    ASSUME NEW d, d.type \in Lists
    PROVE  /\ <<>> \in ListOf(d)
           /\ ListOf(d) \subseteq Value(d)
           /\ Value(d) = ListOf(d) \cup {Null}
<1>1. CASE d.type = "strings"
  BY <1>1 DEF ListOf, Value, Fixed
<1>2. CASE d.type = "hash"
  BY <1>2 DEF ListOf, Value, Fixed, Pairs
<1> QED
  BY <1>1, <1>2 DEF Lists

\* A list is written as its length and its items, one after the other.
LEMMA ListWritten ==
    ASSUME NEW d, d.type \in Lists, NEW v \in Value(d), Sendable(d, v)
    PROVE  /\ v = Null => Put(d, v) = <<0>>
           /\ v # Null =>
                /\ v \in ListOf(d) /\ Len(v) \in Nat /\ DOMAIN v = 1..Len(v)
                /\ ItemsOf(d, v) \in Seq(String) /\ Len(ItemsOf(d, v)) = Len(v)
                /\ Put(d, v) = <<Len(v)>> \o FlattenSeq(ItemsOf(d, v))
<1>1. v = Null => Put(d, v) = <<0>>
  BY DEF Put, Fixed, Lists
<1>2. ASSUME v # Null
      PROVE  /\ v \in ListOf(d) /\ Len(v) \in Nat /\ DOMAIN v = 1..Len(v)
             /\ ItemsOf(d, v) \in Seq(String) /\ Len(ItemsOf(d, v)) = Len(v)
             /\ Put(d, v) = <<Len(v)>> \o FlattenSeq(ItemsOf(d, v))
  <2> DEFINE n == Len(v)
  <2>1. v \in ListOf(d)
    BY <1>2, ListValue
  <2>2. CASE d.type = "strings"
    <3>1. v \in Seq(String)
      BY <2>1, <2>2 DEF ListOf
    <3>2. n \in Nat /\ DOMAIN v = 1..n /\ \A i \in 1..n : v[i] \in String
      BY <3>1
    <3>3. ItemsOf(d, v) = [i \in DOMAIN v |-> PutLong(v[i])]
      BY <2>2 DEF ItemsOf
    <3>4. \A i \in 1..n : PutLong(v[i]) \in String
      BY <3>2, PutText
    <3>5. Put(d, v) = PutEach(PutLong, v)
      BY <1>2, <2>2 DEF Put, Fixed
    <3>6. Put(d, v) = <<n>> \o FlattenSeq(ItemsOf(d, v))
      BY <3>3, <3>5 DEF PutEach
    <3> HIDE DEF n
    <3>7. ItemsOf(d, v) \in Seq(String) /\ Len(ItemsOf(d, v)) = n
      BY <3>2, <3>3, <3>4
    <3> QED
      BY <2>1, <3>2, <3>6, <3>7 DEF n
  <2>3. CASE d.type = "hash"
    <3>1. v \in Seq(String \X String)
      BY <2>1, <2>3 DEF ListOf, Pairs
    <3>2. n \in Nat /\ DOMAIN v = 1..n /\ \A i \in 1..n : v[i] \in String \X String
      BY <3>1
    <3>3. ItemsOf(d, v) = [i \in DOMAIN v |-> PutItem(v[i])]
      BY <2>3 DEF ItemsOf
    <3>4. \A i \in 1..n : PutItem(v[i]) \in String
      BY <3>2, PutPair
    <3>5. Put(d, v) = PutEach(PutItem, v)
      BY <1>2, <2>3 DEF Put, Fixed
    <3>6. Put(d, v) = <<n>> \o FlattenSeq(ItemsOf(d, v))
      BY <3>3, <3>5 DEF PutEach
    <3> HIDE DEF n
    <3>7. ItemsOf(d, v) \in Seq(String) /\ Len(ItemsOf(d, v)) = n
      BY <3>2, <3>3, <3>4
    <3> QED
      BY <2>1, <3>2, <3>6, <3>7 DEF n
  <2> QED
    BY <2>2, <2>3 DEF Lists
<1> QED
  BY <1>1, <1>2

\* One item of it.
LEMMA ItemWritten ==
    ASSUME NEW d, d.type \in Lists, NEW v \in Value(d), Sendable(d, v), v # Null,
           NEW i \in 1..Len(v)
    PROVE  /\ d.type = "strings" =>
                v[i] \in String /\ ItemsOf(d, v)[i] = PutLong(v[i])
           /\ d.type = "hash" =>
                /\ v[i][1] \in String /\ v[i][2] \in String
                /\ v[i] = <<v[i][1], v[i][2]>>
                /\ ItemsOf(d, v)[i] = PutLong(v[i][1]) \o PutLong(v[i][2])
<1>1. v \in ListOf(d) /\ DOMAIN v = 1..Len(v)
  BY ListWritten
<1>2. CASE d.type = "strings"
  BY <1>1, <1>2 DEF ListOf, ItemsOf
<1>3. CASE d.type = "hash"
  <2>1. v[i] \in String \X String
    BY <1>1, <1>3 DEF ListOf, Pairs
  <2>2. v[i][1] \in String /\ v[i][2] \in String /\ v[i] = <<v[i][1], v[i][2]>>
    BY <2>1
  <2>3. Len(v[i][1]) < Byte
    BY <1>3 DEF Sendable
  <2>4. PutString(v[i][1]) = PutLong(v[i][1])
    BY <2>2, <2>3, ShortPut
  <2>5. ItemsOf(d, v)[i] = PutItem(v[i])
    BY <1>1, <1>3 DEF ItemsOf
  <2> QED
    BY <1>3, <2>2, <2>4, <2>5 DEF PutItem
<1> QED
  BY <1>2, <1>3 DEF Lists

\* The first frame has each field's part, and the frames that follow each field's
\* frames.
LEMMA FirstFrameParts ==
    ASSUME NEW o, SendableObject(o), NEW size \in Nat, NEW w,
           w = Padded(FirstFrame(o), size)
    PROVE  /\ w \in String
           /\ Part(w, 0, <<Signature, o.id>>)
           /\ \A i \in DOMAIN Fields[o.id] :
                Part(w, 2 + Start(Writes(o), i - 1), Writes(o)[i])
<1> DEFINE h == <<Signature, o.id>>
           fl == FlattenSeq(Writes(o))
           first == FirstFrame(o)
           pad == [i \in 1..(size - Len(first)) |-> 0]
<1>1. /\ o.id \in Nat /\ Writes(o) \in Seq(Seq(Nat))
      /\ DOMAIN Fields[o.id] = 1..Len(Writes(o))
  BY WritesFacts DEF String
<1>2. h \in Seq(Nat) /\ Len(h) = 2 /\ first = h \o fl
  BY <1>1, WritesFacts, CodecConstants DEF FirstFrame
<1>3. fl \in Seq(Nat)
  BY <1>1, FlattenIsSequence
<1> HIDE DEF h, fl
<1>4. first \in Seq(Nat) /\ Len(first) \in Nat
  BY <1>2, <1>3, ConcatAt
<1>5. w = first \o pad /\ pad \in Seq(Nat)
  <2>1. w = first \o pad
    BY DEF Padded
  <2>2. CASE size - Len(first) \in Nat
    BY <2>1, <2>2
  <2>3. CASE size - Len(first) \notin Nat
    <3>1. 1..(size - Len(first)) = {}
      BY <1>4, <2>3
    <3>2. [i \in 1..0 |-> 0] \in Seq(Nat) /\ 1..0 = {}
      OBVIOUS
    <3> QED
      BY <2>1, <3>1, <3>2
  <2> QED
    BY <2>2, <2>3
<1> HIDE DEF first, pad
<1>6. w \in Seq(Nat) /\ Len(w) = Len(first) + Len(pad) /\ Len(pad) \in Nat
      /\ \A k \in 1..Len(first) : w[k] = first[k]
  BY <1>4, <1>5, ConcatAt
<1>7. Part(w, 0, first)
  BY <1>4, <1>6 DEF Part
<1>8. Part(w, 0, h) /\ Part(w, 2, fl)
  <2>1. Part(w, 0, h \o fl)
    BY <1>2, <1>7
  <2>2. Part(w, 0, h) /\ Part(w, 0 + Len(h), fl)
    BY <1>2, <1>3, <1>6, <2>1, PartOfConcat
  <2> QED
    BY <1>2, <2>2
<1>9. \A i \in 1..Len(Writes(o)) : Part(w, 2 + Start(Writes(o), i - 1), Writes(o)[i])
  BY <1>1, <1>6, <1>8, PartOfFlatten DEF fl
<1> QED
  BY <1>1, <1>6, <1>8, <1>9 DEF h, String
===============================================================================
