--------------------------- MODULE FiniteInduction ---------------------------
(***************************************************************************)
(* Induction over finite sets, in a form whose hypothesis is a set and not *)
(* a predicate, and what follows from it: recursive functions on subsets   *)
(* and on intervals exist, finite sets of integers have their bounds, and  *)
(* sums over finite sets (SumFunctionOnSet) can be taken apart.            *)
(***************************************************************************)
EXTENDS Functions, FiniteSetsExt, FiniteSetTheorems, TLAPS

\* Induction on finite sets: a set of subsets of S that holds a subset whenever
\* it holds the smaller ones holds S.
LEMMA SubsetInduction ==
    ASSUME NEW S, IsFiniteSet(S), NEW Good,
           \A T \in SUBSET S : (\A U \in SUBSET T : U # T => U \in Good) => T \in Good
    PROVE  S \in Good
<1> DEFINE Bad == {T \in SUBSET S : T \notin Good}
<1>1. IsWellFoundedOn(StrictSubsetOrdering(S), SUBSET S)
  BY FS_StrictSubsetOrderingWellFounded, FS_FiniteSubsetsOfFinite
<1>2. ASSUME Bad # {} PROVE FALSE
  <2>1. PICK T \in Bad : \A U \in Bad : <<U, T>> \notin StrictSubsetOrdering(S)
    <3> HIDE DEF Bad
    <3>1. Bad \subseteq SUBSET S BY DEF Bad
    <3> QED BY <1>1, <1>2, <3>1, WFMin
  <2>2. \A U \in SUBSET T : U # T => U \in Good
    BY <2>1 DEF StrictSubsetOrdering
  <2> QED BY <2>1, <2>2
<1> QED BY <1>2

-----------------------------------------------------------------------------
(* Bounds and intervals. *)

\* A finite set of integers has a greatest element.
LEMMA MaxIn ==
    ASSUME NEW S, IsFiniteSet(S), S \subseteq Int, S # {}
    PROVE  Max(S) \in S /\ \A y \in S : Max(S) >= y
<1> DEFINE Good == {T \in SUBSET S : T # {} => \E x \in T : \A y \in T : x >= y}
<1>1. ASSUME NEW T \in SUBSET S, \A W \in SUBSET T : W # T => W \in Good
      PROVE  T \in Good
  <2> SUFFICES ASSUME NEW a \in T PROVE \E x \in T : \A y \in T : x >= y
    OBVIOUS
  <2>1. T \ {a} \in Good BY <1>1
  <2>2. CASE T \ {a} = {}
    BY <2>2
  <2>3. CASE T \ {a} # {}
    <3>1. PICK m \in T \ {a} : \A y \in T \ {a} : m >= y BY <2>1, <2>3
    <3>2. a \in Int /\ m \in Int /\ T \subseteq Int OBVIOUS
    <3>3. CASE m >= a BY <3>1, <3>2, <3>3
    <3>4. CASE a >= m BY <3>1, <3>2, <3>4
    <3> QED BY <3>2, <3>3, <3>4
  <2> QED BY <2>2, <2>3
<1> HIDE DEF Good
<1>2. S \in Good BY <1>1, SubsetInduction
<1>3. \E x \in S : \A y \in S : x >= y BY <1>2 DEF Good
<1> QED BY <1>3 DEF Max

\* What holds at 0 and is handed on up to n holds at n.
LEMMA IntervalInduction ==
    ASSUME NEW n \in Nat, NEW Good, 0 \in Good,
           \A i \in 0..(n - 1) : i \in Good => i + 1 \in Good
    PROVE  n \in Good
<1> DEFINE Upto == {i \in 0..n : \A j \in 0..i : j \in Good}
<1>1. IsFiniteSet(Upto)
  <2>1. IsFiniteSet(0..n) /\ Upto \in SUBSET (0..n) BY FS_Interval
  <2> QED BY <2>1, FS_Subset
<1>2. 0 \in Upto /\ Upto \subseteq Int OBVIOUS
<1>3. PICK m \in Upto : \A i \in Upto : m >= i
  <2> HIDE DEF Upto
  <2> QED BY <1>1, <1>2, MaxIn
<1>4. ASSUME m # n PROVE FALSE
  <2>1. m \in 0..(n - 1) /\ m \in Good BY <1>4
  <2>2. m + 1 \in Good BY <2>1
  <2>3. m + 1 \in Upto BY <2>1, <2>2
  <2> QED BY <1>3, <2>3
<1> QED BY <1>3, <1>4
-----------------------------------------------------------------------------
(* Recursive functions: F is the step, of a state and of what is read next. *)

\* g is defined by recursion on 0..n.
Chain(g, n, base, F) ==
    \A i \in 0..n : g[i] = IF i = 0 THEN base ELSE F[<<g[i - 1], i>>]

LEMMA ChainExists ==
    ASSUME NEW n \in Nat, NEW States, NEW base \in States, NEW F \in [States \X Nat -> States]
    PROVE  \E g \in [0..n -> States] : Chain(g, n, base, F)
<1> DEFINE Good == {m \in Nat : \E g \in [0..m -> States] : Chain(g, m, base, F)}
<1>1. 0 \in Good
  <2> DEFINE g == [i \in 0..0 |-> base]
  <2>1. g \in [0..0 -> States] /\ Chain(g, 0, base, F) BY DEF Chain
  <2> QED BY <2>1
<1>2. ASSUME NEW m \in 0..(n - 1), m \in Good PROVE m + 1 \in Good
  <2>1. PICK h \in [0..m -> States] : Chain(h, m, base, F) BY <1>2
  <2> DEFINE g == [i \in 0..(m + 1) |-> IF i = m + 1 THEN F[<<h[m], m + 1>>] ELSE h[i]]
  <2>2. \A i \in 0..m : g[i] = h[i] /\ g[i] \in States OBVIOUS
  <2>3. g[m + 1] = F[<<g[m], m + 1>>] /\ g[m + 1] \in States
    <3>1. m \in 0..m /\ m + 1 \in 0..(m + 1) /\ m + 1 \in Nat OBVIOUS
    <3>2. h[m] \in States /\ g[m] = h[m] BY <2>2, <3>1
    <3>3. <<h[m], m + 1>> \in States \X Nat BY <3>1, <3>2
    <3>4. F[<<h[m], m + 1>>] \in States BY <3>3
    <3>5. g[m + 1] = F[<<h[m], m + 1>>] BY <3>1
    <3> QED BY <3>2, <3>4, <3>5
  <2>4. g \in [0..(m + 1) -> States]
    <3>1. \A i \in 0..(m + 1) : i \in 0..m \/ i = m + 1 OBVIOUS
    <3>2. \A i \in 0..(m + 1) : g[i] \in States BY <2>2, <2>3, <3>1
    <3> QED BY <3>2
  <2>5. Chain(g, m + 1, base, F)
    <3> SUFFICES ASSUME NEW i \in 0..(m + 1)
                 PROVE  g[i] = IF i = 0 THEN base ELSE F[<<g[i - 1], i>>]
      BY DEF Chain
    <3> HIDE DEF g
    <3>1. CASE i = m + 1
      <4>1. i # 0 /\ i - 1 = m BY <3>1
      <4> QED BY <2>3, <3>1, <4>1
    <3>2. CASE i = 0
      <4>1. 0 \in 0..m OBVIOUS
      <4>2. g[0] = h[0] /\ h[0] = base BY <2>1, <2>2, <4>1 DEF Chain
      <4> QED BY <3>2, <4>2
    <3>3. CASE i # 0 /\ i \in 0..m
      <4>1. i - 1 \in 0..m /\ g[i] = h[i] BY <2>2, <3>3
      <4>2. g[i - 1] = h[i - 1] BY <2>2, <4>1
      <4>3. h[i] = F[<<h[i - 1], i>>] BY <2>1, <3>3 DEF Chain
      <4> QED BY <3>3, <4>1, <4>2, <4>3
    <3> QED BY <3>1, <3>2, <3>3
  <2> HIDE DEF g
  <2> QED BY <2>4, <2>5
<1> HIDE DEF Good
<1>3. n \in Good BY <1>1, <1>2, IntervalInduction
<1> QED BY <1>3 DEF Good

\* g is defined by recursion on the subsets of S, which c takes an element from.
Fold(g, S, base, F, c) ==
    \A T \in SUBSET S : g[T] = IF T = {} THEN base ELSE F[<<g[T \ {c[T]}], c[T]>>]

LEMMA FoldsAgree ==
    ASSUME NEW S, IsFiniteSet(S), NEW U, NEW V, S \subseteq U, S \subseteq V,
           NEW base, NEW F, NEW c, \A T \in SUBSET S : T # {} => c[T] \in T,
           NEW g, NEW h, Fold(g, U, base, F, c), Fold(h, V, base, F, c)
    PROVE  g[S] = h[S]
<1> DEFINE Good == {T \in SUBSET S : g[T] = h[T]}
<1>1. ASSUME NEW T \in SUBSET S, \A W \in SUBSET T : W # T => W \in Good
      PROVE  T \in Good
  <2>1. /\ g[T] = IF T = {} THEN base ELSE F[<<g[T \ {c[T]}], c[T]>>]
        /\ h[T] = IF T = {} THEN base ELSE F[<<h[T \ {c[T]}], c[T]>>]
    <3>1. T \in SUBSET U /\ T \in SUBSET V OBVIOUS
    <3> QED BY <3>1 DEF Fold
  <2>2. CASE T = {} BY <2>1, <2>2
  <2>3. CASE T # {}
    <3>1. c[T] \in T BY <2>3
    <3>2. g[T \ {c[T]}] = h[T \ {c[T]}] BY <1>1, <3>1
    <3> QED BY <2>1, <2>3, <3>2
  <2> QED BY <2>2, <2>3
<1> HIDE DEF Good
<1>2. S \in Good BY <1>1, SubsetInduction
<1> QED BY <1>2 DEF Good

LEMMA FoldExists ==
    ASSUME NEW S, IsFiniteSet(S), NEW States, NEW base \in States, NEW F \in [States \X S -> States],
           NEW c, \A T \in SUBSET S : T # {} => c[T] \in T
    PROVE  \E g \in [SUBSET S -> States] : Fold(g, S, base, F, c)
<1> DEFINE Good == {T \in SUBSET S : \E g \in [SUBSET T -> States] : Fold(g, T, base, F, c)}
           Attempt(T) == CHOOSE g \in [SUBSET T -> States] : Fold(g, T, base, F, c)
           Rest(T) == T \ {c[T]}
<1>1. ASSUME NEW T \in SUBSET S, \A W \in SUBSET T : W # T => W \in Good
      PROVE  T \in Good
  <2> DEFINE G == [W \in SUBSET T |->
                     IF W = {} THEN base ELSE F[<<Attempt(Rest(W))[Rest(W)], c[W]>>]]
  <2>1. ASSUME NEW W \in SUBSET T, W # T
        PROVE  Attempt(W) \in [SUBSET W -> States] /\ Fold(Attempt(W), W, base, F, c)
    <3>1. \E g \in [SUBSET W -> States] : Fold(g, W, base, F, c) BY <1>1, <2>1
    <3> QED BY <3>1
  <2>2. ASSUME NEW W \in SUBSET T, W # {}
        PROVE  c[W] \in W /\ Rest(W) \in SUBSET T /\ Rest(W) # T /\ Rest(W) \subseteq W
    BY <2>2
  <2>3. ASSUME NEW W \in SUBSET T, W # T
        PROVE  Attempt(W)[W] = G[W]
    <3>1. Attempt(W)[W] = IF W = {} THEN base ELSE F[<<Attempt(W)[Rest(W)], c[W]>>]
      <4>1. Fold(Attempt(W), W, base, F, c) BY <2>1, <2>3
      <4> HIDE DEF Attempt
      <4> QED BY <4>1 DEF Fold
    <3>2. ASSUME W # {} PROVE Attempt(W)[Rest(W)] = Attempt(Rest(W))[Rest(W)]
      <4>1. /\ Fold(Attempt(W), W, base, F, c)
            /\ Fold(Attempt(Rest(W)), Rest(W), base, F, c)
        BY <2>1, <2>2, <2>3, <3>2
      <4>2. IsFiniteSet(Rest(W)) /\ \A T_ \in SUBSET Rest(W) : T_ # {} => c[T_] \in T_
        BY <2>2, <3>2, FS_Subset
      <4>3. Rest(W) \subseteq W BY <2>2, <3>2
      <4> HIDE DEF Attempt, Rest
      <4> QED BY <4>1, <4>2, <4>3, FoldsAgree
    <3>3. G[W] = IF W = {} THEN base ELSE F[<<Attempt(Rest(W))[Rest(W)], c[W]>>]
      OBVIOUS
    <3> HIDE DEF G, Attempt, Rest
    <3> QED BY <3>1, <3>2, <3>3
  <2>4. G \in [SUBSET T -> States]
    <3> SUFFICES ASSUME NEW W \in SUBSET T, W # {}
                 PROVE  F[<<Attempt(Rest(W))[Rest(W)], c[W]>>] \in States
      OBVIOUS
    <3>1. Attempt(Rest(W)) \in [SUBSET Rest(W) -> States] /\ c[W] \in S
      BY <2>1, <2>2
    <3>2. Attempt(Rest(W))[Rest(W)] \in States
      <4> HIDE DEF Attempt, Rest
      <4> QED BY <3>1
    <3> HIDE DEF Attempt, Rest
    <3> QED BY <3>1, <3>2
  <2>5. Fold(G, T, base, F, c)
    <3> SUFFICES ASSUME NEW W \in SUBSET T
                 PROVE  G[W] = IF W = {} THEN base ELSE F[<<G[Rest(W)], c[W]>>]
      <4> HIDE DEF G
      <4> QED BY DEF Fold
    <3>1. CASE W = {}
      <4>1. G[W] = base BY <3>1
      <4> HIDE DEF G
      <4> QED BY <3>1, <4>1
    <3>2. CASE W # {}
      <4>1. G[W] = F[<<Attempt(Rest(W))[Rest(W)], c[W]>>] BY <3>2
      <4>2. Attempt(Rest(W))[Rest(W)] = G[Rest(W)]
        <5>1. Rest(W) \in SUBSET T /\ Rest(W) # T BY <2>2, <3>2
        <5> HIDE DEF Attempt, Rest, G
        <5> QED BY <2>3, <5>1
      <4> HIDE DEF G, Attempt, Rest
      <4> QED BY <3>2, <4>1, <4>2
    <3> QED BY <3>1, <3>2
  <2> HIDE DEF G
  <2> QED BY <2>4, <2>5
<1> HIDE DEF Good
<1>2. S \in Good BY <1>1, SubsetInduction
<1> QED BY <1>2 DEF Good
-----------------------------------------------------------------------------
(* The sums of a function: their recursion exists. *)

\* The element of T that the sum takes next.
Some(T) == CHOOSE x \in T : TRUE

\* g attempts the recursion SumFunctionOnSet makes on the subsets of S.
Sums(f, g, S) ==
    g = [T \in SUBSET S |-> IF T = {} THEN 0 ELSE f[Some(T)] + g[T \ {Some(T)}]]

LEMMA SumIsChoice ==
    ASSUME NEW f, NEW S
    PROVE  SumFunctionOnSet(f, S) = (CHOOSE g : Sums(f, g, S))[S]
BY DEF SumFunctionOnSet, FoldFunctionOnSet, MapThenFoldSet, Sums, Some

LEMMA SomeIn == \A T : T # {} => Some(T) \in T
BY DEF Some

LEMMA SumsStep ==
    ASSUME NEW f, NEW g, NEW S, Sums(f, g, S), NEW T \in SUBSET S, T # {}
    PROVE  g[T] = f[Some(T)] + g[T \ {Some(T)}]
BY DEF Sums

\* Attempts agree where both are defined.
LEMMA SumsAgree ==
    ASSUME NEW f, NEW S, IsFiniteSet(S), NEW g, NEW h, NEW U, NEW V,
           Sums(f, g, U), Sums(f, h, V), S \subseteq U, S \subseteq V
    PROVE  g[S] = h[S]
<1> DEFINE Good == {T \in SUBSET S : g[T] = h[T]}
<1>1. ASSUME NEW T \in SUBSET S, \A W \in SUBSET T : W # T => W \in Good
      PROVE  T \in Good
  <2>1. CASE T = {}
    BY <2>1 DEF Sums
  <2>2. CASE T # {}
    <3>1. g[T] = f[Some(T)] + g[T \ {Some(T)}]
      BY <2>2, SumsStep, T \in SUBSET U
    <3>2. h[T] = f[Some(T)] + h[T \ {Some(T)}]
      BY <2>2, SumsStep, T \in SUBSET V
    <3>3. g[T \ {Some(T)}] = h[T \ {Some(T)}]
      BY <1>1, <2>2, SomeIn
    <3> QED BY <3>1, <3>2, <3>3
  <2> QED BY <2>1, <2>2
<1> HIDE DEF Good
<1>2. S \in Good BY <1>1, SubsetInduction
<1> QED BY <1>2 DEF Good

\* There is one on every finite set.
LEMMA SumsExist ==
    ASSUME NEW f, NEW S, IsFiniteSet(S)
    PROVE  \E g : Sums(f, g, S)
<1> DEFINE Good == {T \in SUBSET S : \E g : Sums(f, g, T)}
           Attempt(T) == CHOOSE g : Sums(f, g, T)
           Rest(T) == T \ {Some(T)}
<1>1. ASSUME NEW T \in SUBSET S, \A W \in SUBSET T : W # T => W \in Good
      PROVE  T \in Good
  <2> DEFINE G == [W \in SUBSET T |->
                     IF W = {} THEN 0 ELSE f[Some(W)] + Attempt(Rest(W))[Rest(W)]]
  <2>1. ASSUME NEW W \in SUBSET T, W # T
        PROVE  Sums(f, Attempt(W), W)
    BY <1>1, <2>1
  <2>2. ASSUME NEW W \in SUBSET T, W # T
        PROVE  Attempt(W)[W] = G[W]
    <3>1. CASE W = {}
      <4>1. Sums(f, Attempt(W), W) BY <2>1, <2>2
      <4> HIDE DEF Attempt
      <4>2. Attempt(W)[W] = 0 BY <3>1, <4>1 DEF Sums
      <4> QED BY <3>1, <4>2
    <3>2. CASE W # {}
      <4>1. Some(W) \in W BY <3>2, SomeIn
      <4>2. Rest(W) \in SUBSET T /\ Rest(W) # T /\ Rest(W) \in SUBSET W
        BY <4>1
      <4>3. Sums(f, Attempt(W), W) /\ Sums(f, Attempt(Rest(W)), Rest(W))
        BY <2>1, <2>2, <4>2
      <4>4. IsFiniteSet(Rest(W)) BY FS_Subset
      <4> HIDE DEF Attempt
      <4>5. Attempt(W)[W] = f[Some(W)] + Attempt(W)[Rest(W)]
        BY <3>2, <4>3, SumsStep
      <4>6. Attempt(W)[Rest(W)] = Attempt(Rest(W))[Rest(W)]
        <5> HIDE DEF Rest
        <5> QED BY <4>2, <4>3, <4>4, SumsAgree
      <4> QED BY <3>2, <4>5, <4>6
    <3> QED BY <3>1, <3>2
  <2>3. Sums(f, G, T)
    <3>1. ASSUME NEW W \in SUBSET T, W # {}
          PROVE  Attempt(Rest(W))[Rest(W)] = G[Rest(W)]
      <4>1. Rest(W) \in SUBSET T /\ Rest(W) # T BY <3>1, SomeIn
      <4> HIDE DEF Attempt, Rest, G
      <4> QED BY <2>2, <4>1
    <3>2. \A W \in SUBSET T :
            G[W] = IF W = {} THEN 0 ELSE f[Some(W)] + G[W \ {Some(W)}]
      <4> SUFFICES ASSUME NEW W \in SUBSET T
                   PROVE  G[W] = IF W = {} THEN 0 ELSE f[Some(W)] + G[Rest(W)]
        OBVIOUS
      <4>1. G[W] = IF W = {} THEN 0 ELSE f[Some(W)] + Attempt(Rest(W))[Rest(W)]
        OBVIOUS
      <4> HIDE DEF Attempt, Rest, G
      <4> QED BY <3>1, <4>1
    <3>3. G = [W \in SUBSET T |-> G[W]]
      OBVIOUS
    <3> HIDE DEF G
    <3>4. G = [W \in SUBSET T |->
                 IF W = {} THEN 0 ELSE f[Some(W)] + G[W \ {Some(W)}]]
      BY <3>2, <3>3, Zenon
    <3> QED BY <3>4 DEF Sums
  <2> HIDE DEF G
  <2> QED BY <2>3
<1> HIDE DEF Good
<1>2. S \in Good BY <1>1, SubsetInduction
<1> QED BY <1>2 DEF Good
-----------------------------------------------------------------------------
(* Sums over finite sets. *)

\* Nothing sums to nothing.
LEMMA SumEmpty ==
    ASSUME NEW f
    PROVE  SumFunctionOnSet(f, {}) = 0
<1>1. \E g : Sums(f, g, {}) BY SumsExist, FS_EmptySet
<1>2. Sums(f, CHOOSE g : Sums(f, g, {}), {}) BY <1>1
<1>3. (CHOOSE g : Sums(f, g, {}))[{}] = 0 BY <1>2 DEF Sums
<1> QED BY <1>3, SumIsChoice

\* The recursion, with the element it chooses.
LEMMA SumChosen ==
    ASSUME NEW f, NEW S, IsFiniteSet(S), S # {}
    PROVE  SumFunctionOnSet(f, S) = f[Some(S)] + SumFunctionOnSet(f, S \ {Some(S)})
<1> DEFINE g(T) == CHOOSE g : Sums(f, g, T)
           R == S \ {Some(S)}
<1>1. IsFiniteSet(R) BY FS_Subset
<1>2. Sums(f, g(S), S) /\ Sums(f, g(R), R)
  BY <1>1, SumsExist
<1>3. g(S)[S] = f[Some(S)] + g(S)[R]
  BY <1>2, SumsStep
<1>4. g(S)[R] = g(R)[R]
  <2>1. R \subseteq S OBVIOUS
  <2> HIDE DEF g, R
  <2> QED BY <1>1, <1>2, <2>1, SumsAgree
<1> QED BY <1>3, <1>4, SumIsChoice

\* A sum of naturals is a natural.
LEMMA SumType ==
    ASSUME NEW S, IsFiniteSet(S), NEW f, \A x \in S : f[x] \in Nat
    PROVE  SumFunctionOnSet(f, S) \in Nat
<1> DEFINE Good == {T \in SUBSET S : SumFunctionOnSet(f, T) \in Nat}
<1>1. ASSUME NEW T \in SUBSET S, \A W \in SUBSET T : W # T => W \in Good
      PROVE  T \in Good
  <2>1. CASE T = {}
    BY <2>1, SumEmpty
  <2>2. CASE T # {}
    <3>1. IsFiniteSet(T) BY FS_Subset
    <3>2. Some(T) \in T BY <2>2, SomeIn
    <3>3. SumFunctionOnSet(f, T \ {Some(T)}) \in Nat
      BY <1>1, <3>2
    <3>4. f[Some(T)] \in Nat BY <3>2
    <3> QED BY <2>2, <3>1, <3>3, <3>4, SumChosen
  <2> QED BY <2>1, <2>2
<1> HIDE DEF Good
<1>2. S \in Good BY <1>1, SubsetInduction
<1> QED BY <1>2 DEF Good

\* Any element may be taken first.
LEMMA SumRemove ==
    ASSUME NEW S, IsFiniteSet(S), NEW f, \A x \in S : f[x] \in Nat, NEW e \in S
    PROVE  SumFunctionOnSet(f, S) = f[e] + SumFunctionOnSet(f, S \ {e})
<1> DEFINE Sum(T) == SumFunctionOnSet(f, T)
           Good == {T \in SUBSET S : \A x \in T : Sum(T) = f[x] + Sum(T \ {x})}
<1>1. ASSUME NEW T \in SUBSET S, \A W \in SUBSET T : W # T => W \in Good
      PROVE  T \in Good
  <2> SUFFICES ASSUME NEW x \in T PROVE Sum(T) = f[x] + Sum(T \ {x})
    OBVIOUS
  <2> DEFINE c == Some(T)
  <2>1. c \in T BY SomeIn
  <2>2. IsFiniteSet(T) BY FS_Subset
  <2>3. Sum(T) = f[c] + Sum(T \ {c}) BY <2>2, SumChosen
  <2>4. CASE x = c BY <2>3, <2>4
  <2>5. CASE x # c
    <3> DEFINE B == (T \ {c}) \ {x}
    <3>1. Sum(T \ {c}) = f[x] + Sum(B)
      BY <1>1, <2>1, <2>5
    <3>2. Sum(T \ {x}) = f[c] + Sum(B)
      <4>1. B = (T \ {x}) \ {c} OBVIOUS
      <4> QED BY <1>1, <2>1, <2>5, <4>1
    <3>3. f[c] \in Nat /\ f[x] \in Nat BY <2>1
    <3>4. Sum(B) \in Nat
      <4>1. IsFiniteSet(B) BY <2>2, FS_Subset
      <4>2. \A y \in B : f[y] \in Nat OBVIOUS
      <4> HIDE DEF B
      <4> QED BY <4>1, <4>2, SumType
    <3> HIDE DEF Sum, B, c
    <3> QED BY <2>3, <3>1, <3>2, <3>3, <3>4
  <2> QED BY <2>4, <2>5
<1> HIDE DEF Good
<1>2. S \in Good BY <1>1, SubsetInduction
<1> QED BY <1>2 DEF Good

\* What a function is outside the set does not matter.
LEMMA SumSame ==
    ASSUME NEW S, IsFiniteSet(S), NEW f, NEW g, \A x \in S : f[x] = g[x]
    PROVE  SumFunctionOnSet(f, S) = SumFunctionOnSet(g, S)
<1> DEFINE Good == {T \in SUBSET S : SumFunctionOnSet(f, T) = SumFunctionOnSet(g, T)}
<1>1. ASSUME NEW T \in SUBSET S, \A W \in SUBSET T : W # T => W \in Good
      PROVE  T \in Good
  <2>1. CASE T = {}
    BY <2>1, SumEmpty
  <2>2. CASE T # {}
    <3>1. IsFiniteSet(T) BY FS_Subset
    <3>2. Some(T) \in T BY <2>2, SomeIn
    <3>3. SumFunctionOnSet(f, T \ {Some(T)}) = SumFunctionOnSet(g, T \ {Some(T)})
      BY <1>1, <3>2
    <3>4. f[Some(T)] = g[Some(T)] BY <3>2
    <3>5. /\ SumFunctionOnSet(f, T) = f[Some(T)] + SumFunctionOnSet(f, T \ {Some(T)})
          /\ SumFunctionOnSet(g, T) = g[Some(T)] + SumFunctionOnSet(g, T \ {Some(T)})
      BY <2>2, <3>1, SumChosen
    <3> QED BY <3>3, <3>4, <3>5
  <2> QED BY <2>1, <2>2
<1> HIDE DEF Good
<1>2. S \in Good BY <1>1, SubsetInduction
<1> QED BY <1>2 DEF Good

\* A new element adds its value.
LEMMA SumAdd ==
    ASSUME NEW S, IsFiniteSet(S), NEW e, e \notin S, NEW f, NEW g,
           \A x \in S : g[x] = f[x] /\ f[x] \in Nat, g[e] \in Nat
    PROVE  SumFunctionOnSet(g, S \cup {e}) = g[e] + SumFunctionOnSet(f, S)
<1> DEFINE T == S \cup {e}
<1>1. IsFiniteSet(T) BY FS_AddElement
<1>2. \A x \in T : g[x] \in Nat OBVIOUS
<1>3. e \in T /\ T \ {e} = S OBVIOUS
<1> HIDE DEF T
<1>4. SumFunctionOnSet(g, T) = g[e] + SumFunctionOnSet(g, S)
  BY <1>1, <1>2, <1>3, SumRemove
<1>5. SumFunctionOnSet(g, S) = SumFunctionOnSet(f, S)
  BY SumSame
<1> QED BY <1>4, <1>5 DEF T

\* An element that changes its value changes the sum by as much.
LEMMA SumChange ==
    ASSUME NEW S, IsFiniteSet(S), NEW e \in S, NEW f, NEW g,
           \A x \in S : f[x] \in Nat /\ g[x] \in Nat /\ (x # e => g[x] = f[x])
    PROVE  SumFunctionOnSet(g, S) = SumFunctionOnSet(f, S) + g[e] - f[e]
<1> DEFINE R == S \ {e}
<1>1. IsFiniteSet(R) /\ \A x \in R : f[x] \in Nat /\ g[x] = f[x]
  BY FS_Subset
<1>2. /\ SumFunctionOnSet(f, S) = f[e] + SumFunctionOnSet(f, R)
      /\ SumFunctionOnSet(g, S) = g[e] + SumFunctionOnSet(g, R)
  BY SumRemove
<1> HIDE DEF R
<1>3. SumFunctionOnSet(g, R) = SumFunctionOnSet(f, R) /\ SumFunctionOnSet(f, R) \in Nat
  BY <1>1, SumSame, SumType
<1>4. f[e] \in Nat /\ g[e] \in Nat OBVIOUS
<1> QED BY <1>2, <1>3, <1>4

\* Fewer and smaller summands make no greater sum.
LEMMA SumBelow ==
    ASSUME NEW S, IsFiniteSet(S), NEW T \in SUBSET S, NEW f, NEW g,
           \A x \in S : g[x] \in Nat, \A x \in T : f[x] \in Nat /\ f[x] <= g[x]
    PROVE  SumFunctionOnSet(f, T) <= SumFunctionOnSet(g, S)
<1> DEFINE Sf(W) == SumFunctionOnSet(f, W \cap T)
           Sg(W) == SumFunctionOnSet(g, W)
           Good == {W \in SUBSET S : Sf(W) <= Sg(W)}
<1>1. ASSUME NEW W \in SUBSET S, \A V \in SUBSET W : V # W => V \in Good
      PROVE  W \in Good
  <2>1. CASE W = {}
    <3>1. W \cap T = {} BY <2>1
    <3>2. SumFunctionOnSet(f, {}) = 0 /\ SumFunctionOnSet(g, {}) = 0 BY SumEmpty
    <3> QED BY <2>1, <3>1, <3>2
  <2>2. ASSUME NEW e \in W
        PROVE  W \in Good
    <3> DEFINE R == W \ {e}
    <3>1. R \in Good BY <1>1, <2>2
    <3>2. IsFiniteSet(W) /\ IsFiniteSet(R) /\ IsFiniteSet(W \cap T) /\ IsFiniteSet(R \cap T)
      BY FS_Subset
    <3>3. (\A x \in W : g[x] \in Nat) /\ (\A x \in W \cap T : f[x] \in Nat) /\ g[e] \in Nat
      OBVIOUS
    <3>4. Sg(W) = g[e] + Sg(R) BY <3>2, <3>3, SumRemove
    <3>5. Sg(R) \in Nat /\ Sf(R) \in Nat
      <4>1. (\A x \in R : g[x] \in Nat) /\ (\A x \in R \cap T : f[x] \in Nat) BY <3>3
      <4> HIDE DEF R
      <4> QED BY <3>2, <4>1, SumType
    <3>6. CASE e \notin T
      <4>1. W \cap T = R \cap T BY <3>6
      <4>2. Sf(W) = Sf(R) BY <4>1
      <4>3. Sf(R) <= Sg(R) BY <3>1
      <4> HIDE DEF R, Sf, Sg
      <4>4. Sf(W) <= Sg(W) BY <3>3, <3>4, <3>5, <4>2, <4>3
      <4> QED BY <4>4
    <3>7. CASE e \in T
      <4> DEFINE V == W \cap T
      <4>1. e \in V /\ V \ {e} = R \cap T BY <3>7
      <4>2. SumFunctionOnSet(f, V) = f[e] + SumFunctionOnSet(f, V \ {e})
        <5>1. IsFiniteSet(V) /\ (\A x \in V : f[x] \in Nat) BY <3>2, <3>3
        <5> HIDE DEF V
        <5> QED BY <4>1, <5>1, SumRemove
      <4>3. Sf(W) = f[e] + Sf(R) BY <4>1, <4>2
      <4>4. Sf(R) <= Sg(R) /\ f[e] \in Nat /\ f[e] <= g[e] BY <3>1, <3>7
      <4> HIDE DEF R, Sf, Sg, V
      <4>5. Sf(W) <= Sg(W) BY <3>3, <3>4, <3>5, <4>3, <4>4
      <4> QED BY <4>5
    <3> QED BY <3>6, <3>7
  <2> QED BY <2>1, <2>2
<1> HIDE DEF Good
<1>2. S \in Good BY <1>1, SubsetInduction
<1>3. S \cap T = T OBVIOUS
<1> QED BY <1>2, <1>3 DEF Good

\* The sum of sums of two functions.
LEMMA SumPlus ==
    ASSUME NEW S, IsFiniteSet(S), NEW f, NEW g, NEW h,
           \A x \in S : f[x] \in Nat /\ g[x] \in Nat /\ h[x] = f[x] + g[x]
    PROVE  SumFunctionOnSet(h, S) = SumFunctionOnSet(f, S) + SumFunctionOnSet(g, S)
<1> DEFINE Sf(W) == SumFunctionOnSet(f, W)
           Sg(W) == SumFunctionOnSet(g, W)
           Sh(W) == SumFunctionOnSet(h, W)
           Good == {W \in SUBSET S : Sh(W) = Sf(W) + Sg(W)}
<1>1. ASSUME NEW W \in SUBSET S, \A V \in SUBSET W : V # W => V \in Good
      PROVE  W \in Good
  <2>1. CASE W = {}
    <3>1. Sf({}) = 0 /\ Sg({}) = 0 /\ Sh({}) = 0 BY SumEmpty
    <3> HIDE DEF Sf, Sg, Sh
    <3> QED BY <2>1, <3>1
  <2>2. ASSUME NEW e \in W
        PROVE  W \in Good
    <3> DEFINE R == W \ {e}
    <3>1. R \in Good BY <1>1, <2>2
    <3>2. IsFiniteSet(W) /\ IsFiniteSet(R) BY FS_Subset
    <3>3. \A x \in W : f[x] \in Nat /\ g[x] \in Nat /\ h[x] \in Nat /\ h[x] = f[x] + g[x] OBVIOUS
    <3>4. Sf(W) = f[e] + Sf(R) /\ Sg(W) = g[e] + Sg(R) /\ Sh(W) = h[e] + Sh(R)
      BY <3>2, <3>3, SumRemove
    <3>5. Sf(R) \in Nat /\ Sg(R) \in Nat
      <4>1. \A x \in R : f[x] \in Nat /\ g[x] \in Nat BY <3>3
      <4> HIDE DEF R
      <4> QED BY <3>2, <4>1, SumType
    <3>6. Sh(R) = Sf(R) + Sg(R) BY <3>1
    <3> HIDE DEF R, Sf, Sg, Sh
    <3>7. Sh(W) = Sf(W) + Sg(W) BY <3>3, <3>4, <3>5, <3>6
    <3> QED BY <3>7
  <2> QED BY <2>1, <2>2
<1> HIDE DEF Good
<1>2. S \in Good BY <1>1, SubsetInduction
<1> QED BY <1>2 DEF Good
=============================================================================
