----------------------------- MODULE FiniteFacts -----------------------------
(***************************************************************************)
(* Facts about finite sets that the proofs of several modules rest on:     *)
(* extreme elements, induction over the subsets of a finite set, what a    *)
(* fold over a finite set computes, and sums.  Induction is stated with    *)
(* the set of the good cases instead of a predicate, so that the lemmas    *)
(* are first-order and can be cited like any other fact.                   *)
(***************************************************************************)
EXTENDS Integers, FiniteSetsExt, Functions, FiniteSetTheorems, WellFoundedInduction, TLAPS

\* A nonempty set of naturals has a least element.
LEMMA LeastElement ==
    ASSUME NEW T, T \subseteq Nat, T # {}
    PROVE  \E x \in T : \A y \in T : x <= y
<1>1. PICK x \in T : \A y \in T : ~ (<<y, x>> \in OpToRel(<, Nat))
  BY NatLessThanWellFounded, WFMin
<1>2. ASSUME NEW y \in T PROVE x <= y
  <2>1. x \in Nat /\ y \in Nat
    OBVIOUS
  <2>2. y < x => <<y, x>> \in OpToRel(<, Nat)
    BY <2>1, Zenon DEF OpToRel
  <2>3. ~(y < x)
    BY <1>1, <2>2, Zenon
  <2> QED BY <2>1, <2>3
<1> QED BY <1>2

\* A nonempty set of naturals below a bound has a greatest element, and Max
\* is that element.
LEMMA GreatestElement ==
    ASSUME NEW T, T \subseteq Nat, T # {}, NEW n \in Nat, \A x \in T : x <= n
    PROVE  Max(T) \in T /\ \A y \in T : y <= Max(T)
<1> DEFINE D == {n - x : x \in T}
<1>1. D \subseteq Nat /\ D # {}
  <2>1. \A x \in T : x \in Nat /\ n - x \in Nat
    OBVIOUS
  <2>2. D \subseteq Nat
    BY <2>1
  <2>3. PICK x \in T : TRUE
    OBVIOUS
  <2>4. n - x \in D
    OBVIOUS
  <2> QED BY <2>2, <2>4
<1>2. PICK d \in D : \A y \in D : d <= y
  <2> HIDE DEF D
  <2> QED BY <1>1, LeastElement
<1>3. PICK x \in T : d = n - x
  OBVIOUS
<1>4. ASSUME NEW y \in T PROVE x >= y
  <2>1. n - y \in D /\ x \in Nat /\ y \in Nat
    OBVIOUS
  <2>2. d <= n - y
    BY <1>2, <2>1
  <2> QED BY <1>3, <2>1, <2>2
<1>5. Max(T) \in T /\ \A y \in T : Max(T) >= y
  <2> \E z \in T : \A y \in T : z >= y
    BY <1>4
  <2> QED BY Zenon DEF Max
<1> QED BY <1>5

\* A subset of S is good whenever all its proper subsets are.
Hereditary(Good, S) ==
    \A T \in SUBSET S : (\A U \in SUBSET T : U # T => U \in Good) => T \in Good

\* Induction over the subsets of a finite set.
LEMMA SubsetInduction ==
    ASSUME NEW S, IsFiniteSet(S), NEW Good, Hereditary(Good, S)
    PROVE  SUBSET S \subseteq Good
<1> SUFFICES ASSUME NEW B \in SUBSET S, B \notin Good PROVE FALSE
  OBVIOUS
<1> DEFINE Bad == {T \in SUBSET S : T \notin Good}
           Sizes == {Cardinality(T) : T \in Bad}
<1>1. \A T \in SUBSET S : IsFiniteSet(T) /\ Cardinality(T) \in Nat
  BY FS_Subset, FS_CardinalityType
<1>2. Sizes \subseteq Nat /\ Sizes # {}
  BY <1>1
<1>3. PICK n \in Sizes : \A m \in Sizes : n <= m
  <2> HIDE DEF Sizes
  <2> QED BY <1>2, LeastElement
<1>4. PICK T \in Bad : n = Cardinality(T)
  BY <1>3
<1>5. ASSUME NEW U \in SUBSET T, U # T PROVE U \in Good
  <2>1. Cardinality(U) < Cardinality(T)
    BY <1>1, <1>5, FS_Subset
  <2>2. U \in Bad => n <= Cardinality(U)
    BY <1>3
  <2>3. U \in SUBSET S
    OBVIOUS
  <2>4. Cardinality(U) \in Nat /\ Cardinality(T) \in Nat
    BY <1>1, <2>3
  <2> QED BY <1>4, <2>1, <2>2, <2>3, <2>4
<1> QED BY <1>4, <1>5 DEF Hereditary

\* pick names an element of every nonempty subset of S.
Picks(pick, S) == \A T \in SUBSET S : T # {} => pick[T] \in T

\* G folds F over the subsets of S, taking off the picked element first.
FoldsUp(G, F, base, pick, S) ==
    /\ G[{}] = base
    /\ \A T \in SUBSET S : T # {} => G[T] = F[<<G[T \ {pick[T]}], pick[T]>>]

\* A recursion that takes one element away at a time has a solution.
LEMMA FoldExists ==
    ASSUME NEW S, IsFiniteSet(S), NEW A, NEW base \in A, NEW F \in [A \X S -> A],
           NEW pick, Picks(pick, S)
    PROVE  \E G \in [SUBSET S -> A] : FoldsUp(G, F, base, pick, S)
<1> USE DEF Picks
<1> DEFINE Level(n) == {T \in SUBSET S : Cardinality(T) <= n}
           IsSolution(G, D) == /\ G \in [D -> A] /\ G[{}] = base
                           /\ \A T \in D : T # {} => G[T] = F[<<G[T \ {pick[T]}], pick[T]>>]
           Without == {n \in Nat : ~ \E G : IsSolution(G, Level(n))}
<1>1. \A T \in SUBSET S : IsFiniteSet(T) /\ Cardinality(T) \in Nat
  BY FS_Subset, FS_CardinalityType
<1>2. \A T \in SUBSET S : T # {} =>
         T \ {pick[T]} \in SUBSET S /\ Cardinality(T \ {pick[T]}) = Cardinality(T) - 1
  BY <1>1, FS_RemoveElement
<1>3. \A T \in SUBSET S : Cardinality(T) = 0 <=> T = {}
  BY <1>1, FS_EmptySet
<1>4. Without = {}
  <2> SUFFICES ASSUME Without # {} PROVE FALSE
    OBVIOUS
  <2>1. PICK n \in Without : \A m \in Without : n <= m
    <3>1. Without \subseteq Nat
      OBVIOUS
    <3> HIDE DEF Without
    <3> QED BY <3>1, LeastElement
  <2>2. CASE n = 0
    <3>1. Level(0) = {{}}
      BY <1>1, <1>3
    <3>2. IsSolution([T \in {{}} |-> base], {{}})
      OBVIOUS
    <3> QED BY <2>1, <2>2, <3>1, <3>2
  <2>3. CASE n # 0
    <3>1. n - 1 \in Nat /\ n \in Nat /\ ~(n <= n - 1)
      BY <2>3
    <3>2. n - 1 \notin Without
      BY <2>1, <3>1
    <3>3. PICK G : IsSolution(G, Level(n - 1))
      BY <3>1, <3>2
    <3> DEFINE H == [T \in Level(n) |->
                        IF T = {} THEN base ELSE F[<<G[T \ {pick[T]}], pick[T]>>]]
    <3>4. ASSUME NEW T \in Level(n), T # {}
          PROVE  T \ {pick[T]} \in Level(n - 1) /\ pick[T] \in S
      BY <1>1, <1>2, <3>1, <3>4
    <3>5. H \in [Level(n) -> A]
      <4>1. ASSUME NEW T \in Level(n), T # {} PROVE F[<<G[T \ {pick[T]}], pick[T]>>] \in A
        <5> HIDE DEF Level
        <5> QED BY <3>3, <3>4, <4>1
      <4> HIDE DEF Level
      <4> QED BY <4>1
    <3>6. ASSUME NEW T \in Level(n - 1) PROVE T \in Level(n) /\ H[T] = G[T]
      <4>1. T \in Level(n)
        BY <1>1, <3>1
      <4> HIDE DEF Level
      <4> QED BY <3>3, <3>6, <4>1
    <3>7. {} \in Level(n)
      BY <1>3, <3>1
    <3>8. IsSolution(H, Level(n))
      <4>1. ASSUME NEW T \in Level(n), T # {} PROVE H[T] = F[<<H[T \ {pick[T]}], pick[T]>>]
        <5> HIDE DEF Level
        <5> QED BY <3>4, <3>6, <4>1
      <4>2. H[{}] = base
        BY <3>7
      <4> HIDE DEF H, Level
      <4> QED BY <3>5, <4>1, <4>2
    <3> HIDE DEF H
    <3> QED BY <2>1, <3>8
  <2> QED BY <2>2, <2>3
<1>5. Cardinality(S) \in Nat /\ Level(Cardinality(S)) = SUBSET S
  BY <1>1, FS_Subset
<1>6. \E G : IsSolution(G, Level(Cardinality(S)))
  BY <1>4, <1>5
<1>7. PICK G : IsSolution(G, SUBSET S)
  <2> HIDE DEF IsSolution, Level
  <2> QED BY <1>5, <1>6
<1> QED BY <1>7 DEF FoldsUp

\* G and H start alike and take equal values to equal values.
InStep(G, H, pick, S) ==
    /\ G[{}] = H[{}]
    /\ \A T \in SUBSET S :
          T # {} /\ G[T \ {pick[T]}] = H[T \ {pick[T]}] => G[T] = H[T]

\* Two solutions of such a recursion agree.
LEMMA FoldUnique ==
    ASSUME NEW S, IsFiniteSet(S), NEW pick, Picks(pick, S),
           NEW G, NEW H, InStep(G, H, pick, S)
    PROVE  \A T \in SUBSET S : G[T] = H[T]
<1> USE DEF InStep
<1> DEFINE Good == {T \in SUBSET S : G[T] = H[T]}
<1>1. ASSUME NEW T \in SUBSET S, \A U \in SUBSET T : U # T => U \in Good
      PROVE  T \in Good
  <2>1. CASE T = {}
    BY <2>1
  <2>2. CASE T # {}
    <3>1. T \ {pick[T]} \in SUBSET T /\ T \ {pick[T]} # T
      BY <2>2 DEF Picks
    <3> QED BY <1>1, <2>2, <3>1
  <2> QED BY <2>1, <2>2
<1>2. SUBSET S \subseteq Good
  <2> HIDE DEF Good
  <2>1. Hereditary(Good, S)
    BY <1>1 DEF Hereditary
  <2> QED BY <2>1, SubsetInduction
<1> QED BY <1>2

-------------------------------------------------------------------------------
(* Sums.                                                                   *)

\* A sum over a finite set: nothing for the empty set, and one element more
\* than the sum over the others, whichever that element is.
LEMMA SumSteps ==
    ASSUME NEW S, IsFiniteSet(S), NEW f \in [S -> Nat]
    PROVE  /\ SumFunctionOnSet(f, {}) = 0
           /\ \A T \in SUBSET S : SumFunctionOnSet(f, T) \in Nat
           /\ \A T \in SUBSET S : \A x \in T :
                 SumFunctionOnSet(f, T) = f[x] + SumFunctionOnSet(f, T \ {x})
<1> DEFINE choice(T) == CHOOSE x \in T : TRUE
           pick == [T \in SUBSET S |-> choice(T)]
           F == [p \in Nat \X S |-> f[p[2]] + p[1]]
<1>1. \A T \in SUBSET S : T # {} => pick[T] \in T /\ pick[T] = choice(T)
  OBVIOUS
<1>2. F \in [Nat \X S -> Nat]
  OBVIOUS
<1>3. PICK G \in [SUBSET S -> Nat] :
         FoldsUp(G, F, 0, pick, S)
  <2>1. Picks(pick, S)
    BY <1>1 DEF Picks
  <2>2. 0 \in Nat
    OBVIOUS
  <2> HIDE DEF pick, F
  <2> QED BY <1>2, <2>1, <2>2, FoldExists, Zenon
<1>4. \A T \in SUBSET S : T # {} => G[T] = f[choice(T)] + G[T \ {choice(T)}]
  <2> SUFFICES ASSUME NEW T \in SUBSET S, T # {} PROVE G[T] = f[choice(T)] + G[T \ {choice(T)}]
    OBVIOUS
  <2>1. choice(T) \in S /\ T \ {choice(T)} \in SUBSET S /\ pick[T] = choice(T)
    BY <1>1
  <2> HIDE DEF pick, choice
  <2> QED BY <1>3, <2>1 DEF FoldsUp
<1> DEFINE Iterates(iter, T) ==
              iter = [U \in SUBSET T |-> IF U = {} THEN 0
                                        ELSE f[choice(U)] + iter[U \ {choice(U)}]]
<1>5. ASSUME NEW T \in SUBSET S PROVE SumFunctionOnSet(f, T) = G[T]
  <2>1. SumFunctionOnSet(f, T) = (CHOOSE iter : Iterates(iter, T))[T]
    BY DEF SumFunctionOnSet, FoldFunctionOnSet, MapThenFoldSet
  <2> DEFINE G0 == [U \in SUBSET T |-> G[U]]
  <2>2. Iterates(G0, T)
    <3>1. ASSUME NEW U \in SUBSET T
          PROVE  G0[U] = IF U = {} THEN 0 ELSE f[choice(U)] + G0[U \ {choice(U)}]
      <4>1. U \in SUBSET S /\ U \ {choice(U)} \in SUBSET T
        OBVIOUS
      <4> HIDE DEF choice
      <4> QED BY <1>3, <1>4, <4>1 DEF FoldsUp
    <3> HIDE DEF choice
    <3> QED BY <3>1
  <2> DEFINE I == CHOOSE iter : Iterates(iter, T)
  <2>3. Iterates(I, T)
    <3> HIDE DEF Iterates, G0
    <3> QED BY <2>2
  <2> HIDE DEF I
  <2>4. \A U \in SUBSET T : I[U] = G0[U]
    <3>1. IsFiniteSet(T)
      BY FS_Subset
    <3>2. Picks(pick, T)
      BY <1>1 DEF Picks
    <3>3. I[{}] = G0[{}]
      BY <1>3, <2>3 DEF FoldsUp
    <3>4. ASSUME NEW U \in SUBSET T, U # {}, I[U \ {pick[U]}] = G0[U \ {pick[U]}]
          PROVE  I[U] = G0[U]
      <4>1. U \in SUBSET S /\ pick[U] = choice(U)
        BY <1>1
      <4> HIDE DEF pick, choice, G0
      <4>2. G0[U] = f[choice(U)] + G0[U \ {choice(U)}]
        BY <2>2, <3>4
      <4>3. I[U] = f[choice(U)] + I[U \ {choice(U)}]
        BY <2>3, <3>4
      <4> QED BY <3>4, <4>1, <4>2, <4>3, Zenon
    <3> HIDE DEF pick, G0, Iterates
    <3>5. InStep(I, G0, pick, T)
      BY <3>3, <3>4, Zenon DEF InStep
    <3> QED BY <3>1, <3>2, <3>5, FoldUnique
  <2> QED BY <2>1, <2>4 DEF I
<1>6. ASSUME NEW T \in SUBSET S, NEW x \in T PROVE G[T] = f[x] + G[T \ {x}]
  <2> DEFINE Good == {U \in SUBSET S : \A y \in U : G[U] = f[y] + G[U \ {y}]}
  <2>1. ASSUME NEW U \in SUBSET S, \A V \in SUBSET U : V # U => V \in Good
        PROVE  U \in Good
    <3> SUFFICES ASSUME NEW y \in U PROVE G[U] = f[y] + G[U \ {y}]
      OBVIOUS
    <3> DEFINE c == choice(U)
    <3>1. c \in U /\ G[U] = f[c] + G[U \ {c}]
      BY <1>4
    <3> HIDE DEF c, choice
    <3>2. CASE c = y
      BY <3>1, <3>2
    <3>3. CASE c # y
      <4>1. U \ {c} \in Good /\ U \ {y} \in Good
        BY <2>1, <3>1
      <4>2. G[U \ {c}] = f[y] + G[(U \ {c}) \ {y}]
        BY <3>3, <4>1
      <4>3. G[U \ {y}] = f[c] + G[(U \ {y}) \ {c}]
        BY <3>1, <3>3, <4>1
      <4> DEFINE rest == G[(U \ {y}) \ {c}]
      <4>4. (U \ {c}) \ {y} = (U \ {y}) \ {c}
        OBVIOUS
      <4>5. f[y] \in Nat /\ f[c] \in Nat /\ rest \in Nat
        BY <3>1
      <4>6. G[U] = f[c] + (f[y] + rest) /\ G[U \ {y}] = f[c] + rest
        BY <3>1, <4>2, <4>3, <4>4, Zenon
      <4> HIDE DEF rest
      <4> QED BY <4>5, <4>6
    <3> QED BY <3>2, <3>3
  <2>2. SUBSET S \subseteq Good
    <3> HIDE DEF Good
    <3>1. Hereditary(Good, S)
      BY <2>1 DEF Hereditary
    <3> QED BY <3>1, SubsetInduction
  <2> QED BY <2>2
<1>7. {} \in SUBSET S /\ \A T \in SUBSET S : \A x \in T : T \ {x} \in SUBSET S
  OBVIOUS
<1> HIDE DEF choice
<1> QED BY <1>3, <1>5, <1>6, <1>7 DEF FoldsUp

\* A sum grows with its set.
LEMMA SumMonotone ==
    ASSUME NEW S, IsFiniteSet(S), NEW f \in [S -> Nat], NEW R \in SUBSET S, NEW T \in SUBSET R
    PROVE  SumFunctionOnSet(f, T) <= SumFunctionOnSet(f, R)
<1> DEFINE Good == {U \in SUBSET S :
                       T \subseteq U => SumFunctionOnSet(f, T) <= SumFunctionOnSet(f, U)}
<1>1. ASSUME NEW U \in SUBSET S, \A V \in SUBSET U : V # U => V \in Good
      PROVE  U \in Good
  <2> SUFFICES ASSUME T \subseteq U PROVE SumFunctionOnSet(f, T) <= SumFunctionOnSet(f, U)
    OBVIOUS
  <2>1. CASE T = U
    BY <2>1, SumSteps
  <2>2. CASE T # U
    <3>1. PICK x \in U \ T : TRUE
      BY <2>2
    <3>2. SumFunctionOnSet(f, T) <= SumFunctionOnSet(f, U \ {x})
      BY <1>1, <3>1
    <3>3. SumFunctionOnSet(f, U) = f[x] + SumFunctionOnSet(f, U \ {x})
      BY <3>1, SumSteps
    <3>4. SumFunctionOnSet(f, T) \in Nat /\ SumFunctionOnSet(f, U \ {x}) \in Nat /\ f[x] \in Nat
      BY <3>1, SumSteps
    <3> QED BY <3>2, <3>3, <3>4
  <2> QED BY <2>1, <2>2
<1>2. SUBSET S \subseteq Good
  <2> HIDE DEF Good
  <2>1. Hereditary(Good, S)
    BY <1>1 DEF Hereditary
  <2> QED BY <2>1, SubsetInduction
<1> QED BY <1>2

\* A sum depends on the function's values on its set only.
LEMMA SumCongruent ==
    ASSUME NEW S, IsFiniteSet(S), NEW f \in [S -> Nat], NEW g \in [S -> Nat],
           NEW R \in SUBSET S, \A x \in R : f[x] = g[x]
    PROVE  SumFunctionOnSet(f, R) = SumFunctionOnSet(g, R)
<1> DEFINE Good == {U \in SUBSET S :
                       U \subseteq R => SumFunctionOnSet(f, U) = SumFunctionOnSet(g, U)}
<1>1. ASSUME NEW U \in SUBSET S, \A V \in SUBSET U : V # U => V \in Good
      PROVE  U \in Good
  <2> SUFFICES ASSUME U \subseteq R PROVE SumFunctionOnSet(f, U) = SumFunctionOnSet(g, U)
    OBVIOUS
  <2>1. CASE U = {}
    BY <2>1, SumSteps
  <2>2. CASE U # {}
    <3>1. PICK x \in U : TRUE
      BY <2>2
    <3>2. SumFunctionOnSet(f, U \ {x}) = SumFunctionOnSet(g, U \ {x})
      BY <1>1, <3>1
    <3>3. /\ SumFunctionOnSet(f, U) = f[x] + SumFunctionOnSet(f, U \ {x})
          /\ SumFunctionOnSet(g, U) = g[x] + SumFunctionOnSet(g, U \ {x})
      BY <3>1, SumSteps
    <3>4. f[x] = g[x]
      BY <3>1
    <3> QED BY <3>2, <3>3, <3>4
  <2> QED BY <2>1, <2>2
<1>2. SUBSET S \subseteq Good
  <2> HIDE DEF Good
  <2>1. Hereditary(Good, S)
    BY <1>1 DEF Hereditary
  <2> QED BY <2>1, SubsetInduction
<1> QED BY <1>2

\* Where two functions together stay below a third, so do their sums.
LEMMA SumDominates ==
    ASSUME NEW S, IsFiniteSet(S), NEW f \in [S -> Nat], NEW g \in [S -> Nat],
           NEW h \in [S -> Nat], NEW R \in SUBSET S, \A x \in R : f[x] + g[x] <= h[x]
    PROVE  SumFunctionOnSet(f, R) + SumFunctionOnSet(g, R) <= SumFunctionOnSet(h, R)
<1> DEFINE Good == {U \in SUBSET S : U \subseteq R =>
                       SumFunctionOnSet(f, U) + SumFunctionOnSet(g, U)
                          <= SumFunctionOnSet(h, U)}
<1>1. ASSUME NEW U \in SUBSET S, \A V \in SUBSET U : V # U => V \in Good
      PROVE  U \in Good
  <2> SUFFICES ASSUME U \subseteq R
               PROVE  SumFunctionOnSet(f, U) + SumFunctionOnSet(g, U)
                         <= SumFunctionOnSet(h, U)
    OBVIOUS
  <2>1. CASE U = {}
    BY <2>1, SumSteps
  <2>2. CASE U # {}
    <3>1. PICK x \in U : TRUE
      BY <2>2
    <3> DEFINE sf == SumFunctionOnSet(f, U \ {x})
               sg == SumFunctionOnSet(g, U \ {x})
               sh == SumFunctionOnSet(h, U \ {x})
    <3>2. sf + sg <= sh
      BY <1>1, <3>1
    <3>3. /\ SumFunctionOnSet(f, U) = f[x] + sf
          /\ SumFunctionOnSet(g, U) = g[x] + sg
          /\ SumFunctionOnSet(h, U) = h[x] + sh
      BY <3>1, SumSteps
    <3>4. sf \in Nat /\ sg \in Nat /\ sh \in Nat
      BY <3>1, SumSteps
    <3>5. f[x] + g[x] <= h[x] /\ f[x] \in Nat /\ g[x] \in Nat /\ h[x] \in Nat
      BY <3>1
    <3> HIDE DEF sf, sg, sh
    <3> QED BY <3>2, <3>3, <3>4, <3>5
  <2> QED BY <2>1, <2>2
<1>2. SUBSET S \subseteq Good
  <2> HIDE DEF Good
  <2>1. Hereditary(Good, S)
    BY <1>1 DEF Hereditary
  <2> QED BY <2>1, SubsetInduction
<1> QED BY <1>2
-------------------------------------------------------------------------------
(* Orders.                                                                 *)

\* The pairs of R order S totally.
Orders(R, S) ==
    /\ \A x, y \in S : x = y \/ <<x, y>> \in R \/ <<y, x>> \in R
    /\ \A x, y, z \in S : <<x, y>> \in R /\ <<y, z>> \in R => <<x, z>> \in R

\* A nonempty finite set has a last element.
LEMMA LastElement ==
    ASSUME NEW S, IsFiniteSet(S), NEW R, Orders(R, S), NEW T \in SUBSET S, T # {}
    PROVE  \E x \in T : \A y \in T \ {x} : <<y, x>> \in R
<1> DEFINE Good == {U \in SUBSET S :
                       U # {} => \E x \in U : \A y \in U \ {x} : <<y, x>> \in R}
<1>1. ASSUME NEW U \in SUBSET S, \A V \in SUBSET U : V # U => V \in Good
      PROVE  U \in Good
  <2> SUFFICES ASSUME U # {} PROVE \E x \in U : \A y \in U \ {x} : <<y, x>> \in R
    OBVIOUS
  <2>1. PICK a \in U : TRUE
    OBVIOUS
  <2>2. CASE U \ {a} = {}
    BY <2>2
  <2>3. CASE U \ {a} # {}
    <3>1. PICK x \in U \ {a} : \A y \in (U \ {a}) \ {x} : <<y, x>> \in R
      <4> DEFINE V == U \ {a}
      <4>1. V \in SUBSET U /\ V # U /\ V # {}
        BY <2>1, <2>3
      <4>2. V \in Good
        BY <1>1, <4>1
      <4> HIDE DEF V
      <4>3. \E x \in V : \A y \in V \ {x} : <<y, x>> \in R
        BY <4>1, <4>2
      <4> QED BY <4>3 DEF V
    <3>2. CASE <<a, x>> \in R
      BY <3>1, <3>2
    <3>3. CASE <<x, a>> \in R
      <4>1. \A y \in U \ {a} : <<y, a>> \in R
        BY <3>1, <3>3 DEF Orders
      <4> QED BY <4>1
    <3> QED BY <3>1, <3>2, <3>3 DEF Orders
  <2> QED BY <2>2, <2>3
<1>2. SUBSET S \subseteq Good
  <2> HIDE DEF Good
  <2>1. Hereditary(Good, S)
    BY <1>1 DEF Hereditary
  <2> QED BY <2>1, SubsetInduction
<1> QED BY <1>2
===============================================================================
