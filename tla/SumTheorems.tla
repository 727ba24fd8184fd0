---------------------------- MODULE SumTheorems ----------------------------
(***************************************************************************)
(* Facts about SumFunctionOnSet, the sum of a function's values over a     *)
(* finite set.                                                             *)
(***************************************************************************)
EXTENDS Integers, FiniteSets, Functions, FiniteSetTheorems, TLAPS

Chosen(S) == CHOOSE x \in S : TRUE

\* One turn of the fold, given the sums g of the smaller sets.
Turn(f, S, g) == IF S = {} THEN 0 ELSE f[Chosen(S)] + g[S \ {Chosen(S)}]

Sums(f, Z) == CHOOSE g : g = [S \in SUBSET Z |-> Turn(f, S, g)]

\* The library's sum is the value of this fold at the whole set.
LEMMA SumIsFold ==
  ASSUME NEW f, NEW S
  PROVE  SumFunctionOnSet(f, S) = Sums(f, S)[S]
BY DEF SumFunctionOnSet, FoldFunctionOnSet, MapThenFoldSet, Sums, Turn, Chosen

\* Induction with a set in place of a predicate.
LEMMA NatInduction1 ==
  ASSUME NEW D, 0 \in D, \A n \in Nat : n \in D => n + 1 \in D
  PROVE  Nat \subseteq D
<1> SUFFICES ASSUME Nat \ D # {}  PROVE FALSE
  OBVIOUS
<1>1. PICK n \in Nat \ D : \A m \in Nat \ D : ~ (<<m, n>> \in OpToRel(<, Nat))
  <2>1. Nat \ D \subseteq Nat  OBVIOUS
  <2>2. QED  BY <2>1, NatLessThanWellFounded, WFMin
<1>2. \A m \in Nat \ D : ~ (m < n)
  BY <1>1 DEF OpToRel
<1>3. n # 0 /\ n - 1 \in Nat /\ n - 1 < n
  OBVIOUS
<1>4. n - 1 \in D
  BY <1>2, <1>3
<1>5. (n - 1) + 1 \in D
  BY <1>3, <1>4
<1>6. QED  BY <1>5

\* A set of subsets that lacks a finite set lacks a smallest one.
LEMMA SmallestSet ==
  ASSUME NEW Z, IsFiniteSet(Z), NEW B \in SUBSET (SUBSET Z), B # {}
  PROVE  \E S \in B : \A T \in B : T \subseteq S => T = S
<1>1. B \subseteq FiniteSubsetsOf(Z)
  BY FS_Subset DEF FiniteSubsetsOf
<1>2. PICK S \in B : \A T \in B : ~ (<<T, S>> \in StrictSubsetOrdering(Z))
  BY <1>1, FS_StrictSubsetOrderingWellFounded, WFMin
<1>3. QED  BY <1>2 DEF StrictSubsetOrdering

\* The sums of a function over the subsets of a finite set exist: for the
\* subsets of at most n elements, by induction on n.
LEMMA SumsExist ==
  ASSUME NEW Z, IsFiniteSet(Z), NEW f, \A z \in Z : f[z] \in Int
  PROVE  \E g \in [SUBSET Z -> Int] : \A S \in SUBSET Z : g[S] = Turn(f, S, g)
<1> DEFINE Small(n) == {S \in SUBSET Z : Cardinality(S) <= n}
           IsSums(g, n) == \A S \in Small(n) : g[S] = Turn(f, S, g)
           D == {n \in Nat : \E g \in [Small(n) -> Int] : IsSums(g, n)}
<1>1. \A S \in SUBSET Z : IsFiniteSet(S) /\ Cardinality(S) \in Nat
  BY FS_Subset, FS_CardinalityType
<1>2. \A S \in SUBSET Z : S # {} => /\ Chosen(S) \in S
                                    /\ S \ {Chosen(S)} \in SUBSET Z
                                    /\ Cardinality(S \ {Chosen(S)}) = Cardinality(S) - 1
  <2> SUFFICES ASSUME NEW S \in SUBSET Z, S # {}
               PROVE  /\ Chosen(S) \in S
                      /\ S \ {Chosen(S)} \in SUBSET Z
                      /\ Cardinality(S \ {Chosen(S)}) = Cardinality(S) - 1
    OBVIOUS
  <2>1. Chosen(S) \in S  BY DEF Chosen
  <2>2. QED  BY <2>1, <1>1, FS_RemoveElement
<1>3. 0 \in D
  <2>1. \A S \in Small(0) : S = {}
    BY <1>1, FS_EmptySet
  <2>2. IsSums([S \in Small(0) |-> 0], 0)
    BY <2>1 DEF Turn
  <2>3. [S \in Small(0) |-> 0] \in [Small(0) -> Int]
    OBVIOUS
  <2> HIDE DEF IsSums, Small
  <2>4. QED  BY <2>2, <2>3
<1>4. \A n \in Nat : n \in D => n + 1 \in D
  <2> SUFFICES ASSUME NEW n \in Nat, NEW g \in [Small(n) -> Int], IsSums(g, n)
               PROVE  n + 1 \in D
    OBVIOUS
  <2> DEFINE h == [S \in Small(n + 1) |-> Turn(f, S, g)]
  <2>1. \A S \in Small(n + 1) : S # {} => S \ {Chosen(S)} \in Small(n)
    BY <1>1, <1>2
  <2>2. h \in [Small(n + 1) -> Int]
    <3> SUFFICES ASSUME NEW S \in Small(n + 1)  PROVE Turn(f, S, g) \in Int
      OBVIOUS
    <3>1. CASE S = {}  BY <3>1 DEF Turn
    <3>2. CASE S # {}
      <4>1. f[Chosen(S)] \in Int  BY <3>2, <1>2
      <4>2. g[S \ {Chosen(S)}] \in Int  BY <3>2, <2>1
      <4>3. QED  BY <3>2, <4>1, <4>2 DEF Turn
    <3>3. QED  BY <3>1, <3>2
  <2>3. \A S \in Small(n) : h[S] = g[S]
    <3>1. \A S \in Small(n) : S \in Small(n + 1)  BY <1>1
    <3>2. QED  BY <3>1
  <2>4. IsSums(h, n + 1)
    <3> SUFFICES ASSUME NEW S \in Small(n + 1)  PROVE h[S] = Turn(f, S, h)
      OBVIOUS
    <3>1. h[S] = Turn(f, S, g)  OBVIOUS
    <3>2. Turn(f, S, g) = Turn(f, S, h)
      <4> HIDE DEF h
      <4> QED  BY <2>1, <2>3 DEF Turn
    <3>3. QED  BY <3>1, <3>2
  <2> HIDE DEF IsSums, Small, h
  <2>5. QED  BY <2>2, <2>4
<1>5. Cardinality(Z) \in D
  <2> HIDE DEF D
  <2>1. Nat \subseteq D  BY <1>3, <1>4, NatInduction1
  <2>2. QED  BY <2>1, FS_CardinalityType
<1>6. Small(Cardinality(Z)) = SUBSET Z
  BY FS_Subset
<1>7. PICK g \in [Small(Cardinality(Z)) -> Int] : IsSums(g, Cardinality(Z))
  <2> HIDE DEF IsSums, Small
  <2> QED  BY <1>5
<1>8. QED
  <2> HIDE DEF Small
  <2> QED  BY <1>6, <1>7

\* The sums are what the fold's equation says.
LEMMA SumsDefined ==
  ASSUME NEW Z, IsFiniteSet(Z), NEW f, \A z \in Z : f[z] \in Int
  PROVE  /\ Sums(f, Z) \in [SUBSET Z -> Int]
         /\ \A S \in SUBSET Z : Sums(f, Z)[S] = Turn(f, S, Sums(f, Z))
<1>1. PICK g \in [SUBSET Z -> Int] : \A S \in SUBSET Z : g[S] = Turn(f, S, g)
  BY SumsExist
<1>2. g = [S \in SUBSET Z |-> Turn(f, S, g)]
  BY <1>1
<1>3. Sums(f, Z) = [S \in SUBSET Z |-> Turn(f, S, Sums(f, Z))]
  BY <1>2 DEF Sums
<1> DEFINE G == Sums(f, Z)
<1> HIDE DEF G
<1>4. G = [S \in SUBSET Z |-> Turn(f, S, G)]
  BY <1>3 DEF G
<1>5. \A S \in SUBSET Z : G[S] = Turn(f, S, G)
  BY <1>4
<1>6. \A S \in SUBSET Z : G[S] = g[S]
  <2> DEFINE B == {S \in SUBSET Z : G[S] # g[S]}
  <2> SUFFICES ASSUME B # {}  PROVE FALSE
    OBVIOUS
  <2>1. PICK S \in B : \A T \in B : T \subseteq S => T = S
    <3> HIDE DEF B
    <3>1. B \in SUBSET (SUBSET Z)  BY DEF B
    <3> QED  BY <3>1, SmallestSet
  <2>2. S # {} => Chosen(S) \in S
    BY DEF Chosen
  <2>3. S # {} => G[S \ {Chosen(S)}] = g[S \ {Chosen(S)}]
    BY <2>1, <2>2
  <2>4. G[S] = g[S]
    BY <2>3, <1>1, <1>5 DEF Turn
  <2>5. QED  BY <2>4
<1>7. G \in [SUBSET Z -> Int]
  BY <1>4, <1>6
<1>8. QED  BY <1>5, <1>7 DEF G

\* What the sums over the subsets of Z give a set does not depend on Z.
LEMMA SumIsLocal ==
  ASSUME NEW Z, IsFiniteSet(Z), NEW f, \A z \in Z : f[z] \in Int,
         NEW U \in SUBSET Z
  PROVE  SumFunctionOnSet(f, U) = Sums(f, Z)[U]
<1> DEFINE G == Sums(f, Z)
           H == Sums(f, U)
           B == {S \in SUBSET U : G[S] # H[S]}
<1>1. IsFiniteSet(U)  BY FS_Subset
<1>2. \A S \in SUBSET Z : G[S] = Turn(f, S, G)  BY SumsDefined
<1>3. \A S \in SUBSET U : H[S] = Turn(f, S, H)  BY <1>1, SumsDefined
<1> HIDE DEF G, H
<1>4. B = {}
  <2> SUFFICES ASSUME B # {}  PROVE FALSE
    OBVIOUS
  <2>1. PICK S \in B : \A T \in B : T \subseteq S => T = S
    <3> HIDE DEF B
    <3>1. B \in SUBSET (SUBSET U)  BY DEF B
    <3> QED  BY <3>1, <1>1, SmallestSet
  <2>2. S # {} => Chosen(S) \in S
    BY DEF Chosen
  <2>3. S # {} => G[S \ {Chosen(S)}] = H[S \ {Chosen(S)}]
    BY <2>1, <2>2
  <2>4. G[S] = H[S]
    BY <2>3, <1>2, <1>3 DEF Turn
  <2>5. QED  BY <2>4
<1>5. G[U] = H[U]  BY <1>4
<1>6. QED  BY <1>5, SumIsFold DEF G, H

\* Nothing adds up to zero.
LEMMA SumEmpty ==
  ASSUME NEW f
  PROVE  SumFunctionOnSet(f, {}) = 0
<1>1. \A z \in {} : f[z] \in Int  OBVIOUS
<1>2. Sums(f, {})[{}] = Turn(f, {}, Sums(f, {}))
  BY <1>1, FS_EmptySet, SumsDefined
<1>3. QED  BY <1>2, SumIsFold DEF Turn

\* Integers add up to an integer.
LEMMA SumType ==
  ASSUME NEW S, IsFiniteSet(S), NEW f, \A z \in S : f[z] \in Int
  PROVE  SumFunctionOnSet(f, S) \in Int
BY SumsDefined, SumIsFold

\* Whatever element the fold begins with, the sum is that of the others and
\* its value.  For a smallest set S that fails this with x, the element c it
\* begins with is not x, and S without c has x.
LEMMA SumRemove ==
  ASSUME NEW Z, IsFiniteSet(Z), NEW f, \A z \in Z : f[z] \in Int, NEW x \in Z
  PROVE  SumFunctionOnSet(f, Z) = SumFunctionOnSet(f, Z \ {x}) + f[x]
<1> DEFINE G == Sums(f, Z)
           B == {S \in SUBSET Z : \E y \in S : G[S] # G[S \ {y}] + f[y]}
<1>1. /\ G \in [SUBSET Z -> Int]
      /\ \A S \in SUBSET Z : G[S] = Turn(f, S, G)
  BY SumsDefined
<1>2. /\ SumFunctionOnSet(f, Z) = G[Z]
      /\ SumFunctionOnSet(f, Z \ {x}) = G[Z \ {x}]
  BY SumIsLocal
<1> HIDE DEF G
<1>3. B = {}
  <2> SUFFICES ASSUME B # {}  PROVE FALSE
    OBVIOUS
  <2>1. PICK S \in B : \A T \in B : T \subseteq S => T = S
    <3> HIDE DEF B
    <3>1. B \in SUBSET (SUBSET Z)  BY DEF B
    <3> QED  BY <3>1, SmallestSet
  <2>2. PICK y \in S : G[S] # G[S \ {y}] + f[y]
    OBVIOUS
  <2>3. PICK c \in S : G[S] = f[c] + G[S \ {c}]
    <3>1. Chosen(S) \in S  BY <2>2 DEF Chosen
    <3>2. QED  BY <3>1, <1>1 DEF Turn
  <2>4. \A T \in SUBSET Z : G[T] \in Int
    BY <1>1
  <2>5. f[c] \in Int /\ f[y] \in Int
    OBVIOUS
  <2>6. c # y
    <3>1. G[S \ {c}] \in Int  BY <2>4
    <3>2. \A p, q \in Int : p + q = q + p  OBVIOUS
    <3>3. f[c] + G[S \ {c}] = G[S \ {c}] + f[c]  BY <3>1, <3>2, <2>5
    <3> HIDE DEF B
    <3>4. QED  BY <3>3, <2>2, <2>3
  <2>7. S \ {c} \notin B /\ S \ {y} \notin B
    BY <2>1
  <2>8. G[S \ {c}] = G[(S \ {c}) \ {y}] + f[y]
    BY <2>6, <2>7
  <2>9. G[S \ {y}] = G[(S \ {y}) \ {c}] + f[c]
    BY <2>6, <2>7
  <2>10. (S \ {c}) \ {y} = (S \ {y}) \ {c}
    OBVIOUS
  <2>11. G[(S \ {y}) \ {c}] \in Int
    BY <2>4
  <2> HIDE DEF B
  <2>12. \A p, q, k \in Int : p + (k + q) = (k + p) + q
    OBVIOUS
  <2>13. f[c] + (G[(S \ {y}) \ {c}] + f[y]) = (G[(S \ {y}) \ {c}] + f[c]) + f[y]
    BY <2>5, <2>11, <2>12
  <2>14. QED  BY <2>2, <2>3, <2>8, <2>9, <2>10, <2>13
<1>4. Z \notin B  BY <1>3
<1>5. QED  BY <1>2, <1>4

\* One element more.
LEMMA SumAdd ==
  ASSUME NEW S, IsFiniteSet(S), NEW x, x \notin S,
         NEW f, \A z \in S \cup {x} : f[z] \in Int
  PROVE  SumFunctionOnSet(f, S \cup {x}) = SumFunctionOnSet(f, S) + f[x]
<1>1. IsFiniteSet(S \cup {x})  BY FS_AddElement
<1>2. (S \cup {x}) \ {x} = S  OBVIOUS
<1>3. x \in S \cup {x}  OBVIOUS
<1>4. QED  BY <1>1, <1>2, <1>3, SumRemove

\* Functions that agree on a set have one sum over it.
LEMMA SumCongruence ==
  ASSUME NEW S, IsFiniteSet(S), NEW f, NEW g,
         \A z \in S : f[z] \in Int /\ g[z] = f[z]
  PROVE  SumFunctionOnSet(f, S) = SumFunctionOnSet(g, S)
<1> DEFINE B == {T \in SUBSET S : SumFunctionOnSet(f, T) # SumFunctionOnSet(g, T)}
<1> SUFFICES ASSUME B # {}  PROVE FALSE
  OBVIOUS
<1>1. PICK T \in B : \A U \in B : U \subseteq T => U = T
  <2> HIDE DEF B
  <2>1. B \in SUBSET (SUBSET S)  BY DEF B
  <2> QED  BY <2>1, SmallestSet
<1>2. T # {}
  BY SumEmpty
<1>3. PICK x \in T : TRUE
  BY <1>2
<1>4. T \ {x} \notin B
  BY <1>1
<1>5. IsFiniteSet(T) /\ \A z \in T : f[z] \in Int /\ g[z] \in Int
  BY FS_Subset
<1>6. /\ SumFunctionOnSet(f, T) = SumFunctionOnSet(f, T \ {x}) + f[x]
      /\ SumFunctionOnSet(g, T) = SumFunctionOnSet(g, T \ {x}) + g[x]
  BY <1>5, SumRemove
<1>7. QED  BY <1>4, <1>6

\* Naturals add up to a natural, and a part of them to no more than the whole.
LEMMA SumMonotone ==
  ASSUME NEW S, IsFiniteSet(S), NEW f, \A z \in S : f[z] \in Nat, NEW T \in SUBSET S
  PROVE  /\ SumFunctionOnSet(f, T) \in Nat
         /\ SumFunctionOnSet(f, T) <= SumFunctionOnSet(f, S)
<1> DEFINE B == {U \in SUBSET S : ~ /\ SumFunctionOnSet(f, U) \in Nat
                                    /\ SumFunctionOnSet(f, T \cap U) \in Nat
                                    /\ SumFunctionOnSet(f, T \cap U) <= SumFunctionOnSet(f, U)}
<1>1. B = {}
  <2> SUFFICES ASSUME B # {}  PROVE FALSE
    OBVIOUS
  <2>1. PICK U \in B : \A V \in B : V \subseteq U => V = U
    <3> HIDE DEF B
    <3>1. B \in SUBSET (SUBSET S)  BY DEF B
    <3> QED  BY <3>1, SmallestSet
  <2>2. U # {}
    <3>1. T \cap {} = {}  OBVIOUS
    <3> QED  BY <3>1, SumEmpty
  <2>3. PICK x \in U : TRUE
    BY <2>2
  <2>4. U \ {x} \notin B
    BY <2>1
  <2>5. /\ IsFiniteSet(U) /\ IsFiniteSet(T \cap U)
        /\ \A z \in U : f[z] \in Int
        /\ f[x] \in Nat
    <3>1. U \in SUBSET S /\ T \cap U \in SUBSET S  OBVIOUS
    <3>2. QED  BY <3>1, FS_Subset
  <2>6. SumFunctionOnSet(f, U) = SumFunctionOnSet(f, U \ {x}) + f[x]
    BY <2>5, SumRemove
  <2>7. CASE x \in T
    <3>1. SumFunctionOnSet(f, T \cap U) = SumFunctionOnSet(f, (T \cap U) \ {x}) + f[x]
      <4>1. x \in T \cap U /\ \A z \in T \cap U : f[z] \in Int  BY <2>7, <2>5
      <4>2. QED  BY <4>1, <2>5, SumRemove
    <3>2. (T \cap U) \ {x} = T \cap (U \ {x})  OBVIOUS
    <3>3. /\ SumFunctionOnSet(f, U \ {x}) \in Nat
          /\ SumFunctionOnSet(f, T \cap (U \ {x})) \in Nat
          /\ SumFunctionOnSet(f, T \cap (U \ {x})) <= SumFunctionOnSet(f, U \ {x})
      BY <2>4
    <3>4. /\ SumFunctionOnSet(f, U) \in Nat
          /\ SumFunctionOnSet(f, T \cap U) \in Nat
          /\ SumFunctionOnSet(f, T \cap U) <= SumFunctionOnSet(f, U)
      <4> HIDE DEF B
      <4>1. f[x] \in Nat  BY <2>5
      <4>2. QED  BY <3>1, <3>2, <3>3, <4>1, <2>6
    <3>5. QED  BY <3>4
  <2>8. CASE x \notin T
    <3>1. T \cap U = T \cap (U \ {x})  BY <2>8
    <3>2. QED  BY <3>1, <2>4, <2>5, <2>6
  <2>9. QED  BY <2>7, <2>8
<1>2. S \notin B /\ T \cap S = T  BY <1>1
<1>3. QED  BY <1>2

\* One value changed.
LEMMA SumUpdate ==
  ASSUME NEW S, IsFiniteSet(S), NEW f, NEW g, NEW x \in S,
         \A z \in S : f[z] \in Int /\ g[z] \in Int,
         \A z \in S : z # x => g[z] = f[z]
  PROVE  SumFunctionOnSet(g, S) = SumFunctionOnSet(f, S) - f[x] + g[x]
<1>1. IsFiniteSet(S \ {x})  BY FS_RemoveElement
<1>2. SumFunctionOnSet(f, S \ {x}) = SumFunctionOnSet(g, S \ {x})
  BY <1>1, SumCongruence
<1>3. SumFunctionOnSet(f, S \ {x}) \in Int
  BY <1>1, SumType
<1>4. /\ SumFunctionOnSet(f, S) = SumFunctionOnSet(f, S \ {x}) + f[x]
      /\ SumFunctionOnSet(g, S) = SumFunctionOnSet(g, S \ {x}) + g[x]
  BY SumRemove
<1>5. QED  BY <1>2, <1>3, <1>4

\* Zeros add up to zero.
LEMMA SumZero ==
  ASSUME NEW S, IsFiniteSet(S), NEW f, \A z \in S : f[z] = 0
  PROVE  SumFunctionOnSet(f, S) = 0
<1> DEFINE B == {T \in SUBSET S : SumFunctionOnSet(f, T) # 0}
<1> SUFFICES ASSUME B # {}  PROVE FALSE
  OBVIOUS
<1>1. PICK T \in B : \A U \in B : U \subseteq T => U = T
  <2> HIDE DEF B
  <2>1. B \in SUBSET (SUBSET S)  BY DEF B
  <2> QED  BY <2>1, SmallestSet
<1>2. PICK x \in T : TRUE
  BY SumEmpty
<1>3. T \ {x} \notin B
  BY <1>1
<1>4. IsFiniteSet(T) /\ \A z \in T : f[z] \in Int
  BY FS_Subset
<1>5. SumFunctionOnSet(f, T) = SumFunctionOnSet(f, T \ {x}) + f[x]
  BY <1>4, SumRemove
<1>6. QED  BY <1>3, <1>5

\* A sum over a part of Z as a sum over Z.
LEMMA SumPadded ==
  ASSUME NEW Z, IsFiniteSet(Z), NEW S \in SUBSET Z, NEW f, \A z \in S : f[z] \in Int,
         NEW g, \A z \in Z : g[z] = IF z \in S THEN f[z] ELSE 0
  PROVE  SumFunctionOnSet(f, S) = SumFunctionOnSet(g, Z)
<1>1. \A z \in Z : g[z] \in Int
  OBVIOUS
<1> DEFINE B == {T \in SUBSET Z : S \subseteq T /\ SumFunctionOnSet(g, T) # SumFunctionOnSet(g, S)}
<1>2. B = {}
  <2> SUFFICES ASSUME B # {}  PROVE FALSE
    OBVIOUS
  <2>1. PICK T \in B : \A U \in B : U \subseteq T => U = T
    <3> HIDE DEF B
    <3>1. B \in SUBSET (SUBSET Z)  BY DEF B
    <3> QED  BY <3>1, SmallestSet
  <2>2. PICK x \in T : x \notin S
    OBVIOUS
  <2>3. T \ {x} \notin B /\ S \subseteq T \ {x}
    BY <2>1, <2>2
  <2>4. IsFiniteSet(T) /\ IsFiniteSet(T \ {x}) /\ \A z \in T : g[z] \in Int
    BY <1>1, FS_Subset
  <2>5. SumFunctionOnSet(g, T) = SumFunctionOnSet(g, T \ {x}) + g[x]
    BY <2>4, SumRemove
  <2>6. g[x] = 0 /\ SumFunctionOnSet(g, T \ {x}) \in Int
    BY <2>2, <2>4, SumType
  <2>7. QED  BY <2>3, <2>5, <2>6
<1>3. SumFunctionOnSet(g, Z) = SumFunctionOnSet(g, S)
  BY <1>2
<1>4. SumFunctionOnSet(f, S) = SumFunctionOnSet(g, S)
  BY FS_Subset, SumCongruence
<1>5. QED  BY <1>3, <1>4

\* Smaller values add up to no more.
LEMMA SumPointwise ==
  ASSUME NEW S, IsFiniteSet(S), NEW f, NEW g,
         \A z \in S : f[z] \in Int /\ g[z] \in Int /\ f[z] <= g[z]
  PROVE  SumFunctionOnSet(f, S) <= SumFunctionOnSet(g, S)
<1> DEFINE B == {T \in SUBSET S : ~ (SumFunctionOnSet(f, T) <= SumFunctionOnSet(g, T))}
<1> SUFFICES ASSUME B # {}  PROVE FALSE
  OBVIOUS
<1>1. PICK T \in B : \A U \in B : U \subseteq T => U = T
  <2> HIDE DEF B
  <2>1. B \in SUBSET (SUBSET S)  BY DEF B
  <2> QED  BY <2>1, SmallestSet
<1>2. PICK x \in T : TRUE
  BY SumEmpty
<1>3. T \ {x} \notin B
  BY <1>1
<1>4. /\ IsFiniteSet(T) /\ IsFiniteSet(T \ {x})
      /\ \A z \in T : f[z] \in Int /\ g[z] \in Int
  BY FS_Subset
<1>5. /\ SumFunctionOnSet(f, T) = SumFunctionOnSet(f, T \ {x}) + f[x]
      /\ SumFunctionOnSet(g, T) = SumFunctionOnSet(g, T \ {x}) + g[x]
  BY <1>4, SumRemove
<1>6. SumFunctionOnSet(f, T \ {x}) \in Int /\ SumFunctionOnSet(g, T \ {x}) \in Int
  BY <1>4, SumType
<1>7. SumFunctionOnSet(f, T \ {x}) <= SumFunctionOnSet(g, T \ {x})
  BY <1>3
<1>8. f[x] \in Int /\ g[x] \in Int /\ f[x] <= g[x]
  OBVIOUS
<1>9. SumFunctionOnSet(f, T) <= SumFunctionOnSet(g, T)
  <2> HIDE DEF B
  <2> QED  BY <1>5, <1>6, <1>7, <1>8
<1>10. QED  BY <1>9
============================================================================
