---------------------------- MODULE SumTheorems -----------------------------
(***************************************************************************)
(* Facts about sums over finite sets, for the proofs about the ledgers:    *)
(* the models add up balances, reservations and tokens with MapThenSumSet. *)
(*                                                                         *)
(* MapThenSumSet takes elements in the order CHOOSE gives.  That its value *)
(* satisfies the recursion, and does not depend on the order, is shown by  *)
(* taking a smallest counterexample: the proper subsets of a finite set    *)
(* are well founded.                                                       *)
(***************************************************************************)
EXTENDS Integers, FiniteSets, FiniteSetsExt, FiniteSetTheorems, WellFoundedInduction, TLAPS

(* The sum of f[x] over x in S. *)
SumOver(f, S) == MapThenSumSet(LAMBDA x : f[x], S)

First(s) == CHOOSE x \in s : TRUE

(* g tabulates the sums of f over the subsets of S. *)
Tabulates(g, f, S) ==
  g = [s \in SUBSET S |-> IF s = {} THEN 0 ELSE f[First(s)] + g[s \ {First(s)}]]

(* A non-empty set of subsets of a finite set has a smallest one.          *)
LEMMA SmallestSet ==
  ASSUME NEW S, IsFiniteSet(S), NEW T, T \subseteq SUBSET S, T # {}
  PROVE  \E U \in T : \A V \in T : V \subseteq U => V = U
<1>1. IsWellFoundedOn(StrictSubsetOrdering(S), FiniteSubsetsOf(S))
  BY FS_StrictSubsetOrderingWellFounded
<1>2. T \subseteq FiniteSubsetsOf(S)
  BY FS_Subset DEF FiniteSubsetsOf
<1>3. \E U \in T : \A V \in T : ~(<<V, U>> \in StrictSubsetOrdering(S))
  BY <1>1, <1>2, WFMin, Zenon
<1> QED
  BY Zenon, <1>3 DEF StrictSubsetOrdering

(* Two tables agree where both are defined.                                *)
LEMMA TablesAgree ==
  ASSUME NEW f, NEW S, IsFiniteSet(S), NEW R, NEW g, NEW h,
         Tabulates(g, f, S), Tabulates(h, f, R), NEW U, U \subseteq S, U \subseteq R
  PROVE  g[U] = h[U]
<1> DEFINE Bad == {V \in SUBSET S : V \subseteq R /\ g[V] # h[V]}
<1> SUFFICES ASSUME Bad # {} PROVE FALSE
  OBVIOUS
<1>1. PICK V \in Bad : \A W \in Bad : W \subseteq V => W = V
  <2>1. Bad \subseteq SUBSET S
    OBVIOUS
  <2> HIDE DEF Bad
  <2> QED
    BY <2>1, SmallestSet
<1>2. V # {}
  BY DEF Tabulates
<1>3. First(V) \in V
  BY <1>2 DEF First
<1>4. g[V \ {First(V)}] = h[V \ {First(V)}]
  BY <1>1, <1>3
<1>5. /\ g[V] = f[First(V)] + g[V \ {First(V)}]
      /\ h[V] = f[First(V)] + h[V \ {First(V)}]
  BY Zenon, <1>1, <1>2 DEF Tabulates
<1> QED
  BY <1>1, <1>4, <1>5

(* The library sum is the value of a function that tabulates it over the   *)
(* subsets.                                                                *)
LEMMA SumIsTabulated ==
  ASSUME NEW f, NEW S PROVE SumOver(f, S) = (CHOOSE g : Tabulates(g, f, S))[S]
BY Zenon DEF Tabulates, First, SumOver, MapThenSumSet, MapThenFoldSet

(* The recursion holds of a sum that has a table.                          *)
LEMMA TabulatedSum ==
  ASSUME NEW f, NEW S, IsFiniteSet(S), \E g : Tabulates(g, f, S),
         NEW U, U \subseteq S, \E h : Tabulates(h, f, U)
  PROVE  SumOver(f, U) = (CHOOSE g : Tabulates(g, f, S))[U]
<1> DEFINE G == CHOOSE g : Tabulates(g, f, S)
           H == CHOOSE h : Tabulates(h, f, U)
<1>1. Tabulates(G, f, S) /\ Tabulates(H, f, U)
  OBVIOUS
<1>2. H[U] = G[U]
  <2> HIDE DEF G, H
  <2>1. ASSUME NEW g, NEW h, Tabulates(g, f, S), Tabulates(h, f, U) PROVE g[U] = h[U]
    BY <2>1, TablesAgree
  <2> QED
    BY <1>1, <2>1, Zenon
<1> QED
  BY <1>2, SumIsTabulated

(* Every finite set has a table.                                           *)
LEMMA TableExists ==
  ASSUME NEW f, NEW S, IsFiniteSet(S)
  PROVE  \E g : Tabulates(g, f, S)
<1> DEFINE Bad == {T \in SUBSET S : ~\E g : Tabulates(g, f, T)}
<1> SUFFICES ASSUME Bad # {} PROVE FALSE
  OBVIOUS
<1>1. PICK T \in Bad : \A W \in Bad : W \subseteq T => W = T
  <2>1. Bad \subseteq SUBSET S
    OBVIOUS
  <2> HIDE DEF Bad
  <2> QED
    BY <2>1, SmallestSet
<1>2. \A U \in SUBSET T : U # T => \E g : Tabulates(g, f, U)
  BY <1>1
<1> DEFINE tail(s) == s \ {First(s)}
           val(s) == IF s = {} THEN 0 ELSE f[First(s)] + SumOver(f, tail(s))
<1>3. ASSUME NEW U \in SUBSET T, U # T PROVE SumOver(f, U) = val(U)
  <2> DEFINE G == CHOOSE g : Tabulates(g, f, U)
  <2>1. Tabulates(G, f, U) /\ SumOver(f, U) = G[U] /\ IsFiniteSet(U)
    BY Zenon, <1>2, <1>3, SumIsTabulated, FS_Subset
  <2> HIDE DEF G
  <2>2. CASE U = {}
    BY <2>1, <2>2 DEF Tabulates
  <2>3. CASE U # {}
    <3>1. First(U) \in U
      BY <2>3 DEF First
    <3>2. tail(U) \in SUBSET T /\ tail(U) # T /\ tail(U) \subseteq U
      BY <3>1, <1>3
    <3>3. SumOver(f, tail(U)) = G[tail(U)]
      BY <1>2, <1>3, <2>1, <3>2, TabulatedSum DEF G
    <3>4. G[U] = f[First(U)] + G[tail(U)]
      BY Zenon, <2>1, <2>3 DEF Tabulates
    <3> QED
      BY <2>1, <2>3, <3>3, <3>4
  <2> QED
    BY <2>2, <2>3
<1> DEFINE g == [s \in SUBSET T |-> val(s)]
<1>4. ASSUME NEW s \in SUBSET T, s # {} PROVE g[tail(s)] = SumOver(f, tail(s))
  <2>1. First(s) \in s
    BY <1>4 DEF First
  <2>2. tail(s) \in SUBSET T /\ tail(s) # T
    BY <2>1
  <2> QED
    BY Zenon, <2>2, <1>3
<1>5. Tabulates(g, f, T)
  BY Zenon, <1>4 DEF Tabulates
<1> QED
  BY <1>1, <1>5

-----------------------------------------------------------------------------
(* Sums satisfy the recursion, in the order First gives.                   *)
LEMMA SumEmpty == ASSUME NEW f PROVE SumOver(f, {}) = 0
<1> DEFINE G == CHOOSE g : Tabulates(g, f, {})
<1>1. Tabulates(G, f, {}) /\ SumOver(f, {}) = G[{}]
  BY TableExists, SumIsTabulated, FS_EmptySet
<1> HIDE DEF G
<1> QED
  BY <1>1 DEF Tabulates

(* A sum is its first element and the sum of the rest.                     *)
LEMMA SumFirst ==
  ASSUME NEW f, NEW S, IsFiniteSet(S), S # {}
  PROVE  First(S) \in S /\ SumOver(f, S) = f[First(S)] + SumOver(f, S \ {First(S)})
<1> DEFINE G == CHOOSE g : Tabulates(g, f, S)
           U == S \ {First(S)}
<1>1. Tabulates(G, f, S) /\ SumOver(f, S) = G[S]
  BY TableExists, SumIsTabulated
<1>2. First(S) \in S
  BY DEF First
<1>3. U \subseteq S /\ IsFiniteSet(U)
  BY FS_Subset
<1>4. SumOver(f, U) = G[U]
  <2>1. (\E h : Tabulates(h, f, U)) /\ (\E g : Tabulates(g, f, S))
    BY <1>3, TableExists
  <2> HIDE DEF U
  <2> QED
    BY <1>3, <2>1, TabulatedSum
<1> HIDE DEF G
<1>5. G[S] = f[First(S)] + G[U]
  BY Zenon, <1>1 DEF Tabulates
<1> QED
  BY <1>1, <1>2, <1>4, <1>5

-----------------------------------------------------------------------------
(* A sum of integers is an integer, one of naturals a natural.             *)
LEMMA SumInt ==
  ASSUME NEW f, NEW S, IsFiniteSet(S), \A x \in S : f[x] \in Int
  PROVE  SumOver(f, S) \in Int
<1> DEFINE Bad == {T \in SUBSET S : SumOver(f, T) \notin Int}
<1> SUFFICES ASSUME Bad # {} PROVE FALSE
  OBVIOUS
<1>1. PICK T \in Bad : \A W \in Bad : W \subseteq T => W = T
  <2>1. Bad \subseteq SUBSET S
    OBVIOUS
  <2> HIDE DEF Bad
  <2> QED
    BY <2>1, SmallestSet
<1>2. IsFiniteSet(T) /\ T # {}
  <2>1. T # {}
    BY SumEmpty
  <2> QED
    BY <2>1, FS_Subset
<1>3. First(T) \in T /\ SumOver(f, T) = f[First(T)] + SumOver(f, T \ {First(T)})
  BY <1>2, SumFirst
<1>4. SumOver(f, T \ {First(T)}) \in Int
  BY <1>1, <1>3
<1> QED
  BY <1>3, <1>4

(* A sum of naturals is a natural.                                         *)
LEMMA SumNat ==
  ASSUME NEW f, NEW S, IsFiniteSet(S), \A x \in S : f[x] \in Nat
  PROVE  SumOver(f, S) \in Nat
<1> DEFINE Bad == {T \in SUBSET S : SumOver(f, T) \notin Nat}
<1> SUFFICES ASSUME Bad # {} PROVE FALSE
  OBVIOUS
<1>1. PICK T \in Bad : \A W \in Bad : W \subseteq T => W = T
  <2>1. Bad \subseteq SUBSET S
    OBVIOUS
  <2> HIDE DEF Bad
  <2> QED
    BY <2>1, SmallestSet
<1>2. IsFiniteSet(T) /\ T # {}
  <2>1. T # {}
    BY SumEmpty
  <2> QED
    BY <2>1, FS_Subset
<1>3. First(T) \in T /\ SumOver(f, T) = f[First(T)] + SumOver(f, T \ {First(T)})
  BY <1>2, SumFirst
<1>4. SumOver(f, T \ {First(T)}) \in Nat
  BY <1>1, <1>3
<1> QED
  BY <1>3, <1>4

(* The order does not matter: any element may be taken first.              *)
LEMMA SumRemove ==
  ASSUME NEW f, NEW S, IsFiniteSet(S), \A x \in S : f[x] \in Int, NEW e \in S
  PROVE  SumOver(f, S) = f[e] + SumOver(f, S \ {e})
<1> DEFINE Bad == {T \in SUBSET S : \E x \in T : SumOver(f, T) # f[x] + SumOver(f, T \ {x})}
<1> SUFFICES ASSUME Bad # {} PROVE FALSE
  BY Zenon
<1>1. PICK T \in Bad : \A W \in Bad : W \subseteq T => W = T
  <2>1. Bad \subseteq SUBSET S
    OBVIOUS
  <2> HIDE DEF Bad
  <2> QED
    BY <2>1, SmallestSet
<1>2. PICK x \in T : SumOver(f, T) # f[x] + SumOver(f, T \ {x})
  BY <1>1
<1> DEFINE c == First(T)
<1>3. IsFiniteSet(T) /\ c \in T /\ SumOver(f, T) = f[c] + SumOver(f, T \ {c})
  BY Zenon, <1>2, SumFirst, FS_Subset
<1> HIDE DEF c
<1>4. x # c
  BY <1>2, <1>3
<1>5. SumOver(f, T \ {c}) = f[x] + SumOver(f, (T \ {c}) \ {x})
  <2>1. T \ {c} \in SUBSET S /\ T \ {c} \subseteq T /\ T \ {c} # T /\ x \in T \ {c}
    BY Zenon, <1>1, <1>2, <1>3, <1>4
  <2>2. T \ {c} \notin Bad
    BY Zenon, <1>1, <2>1
  <2> QED
    BY Zenon, <2>1, <2>2
<1>6. SumOver(f, T \ {x}) = f[c] + SumOver(f, (T \ {x}) \ {c})
  <2>1. T \ {x} \in SUBSET S /\ T \ {x} \subseteq T /\ T \ {x} # T /\ c \in T \ {x}
    BY Zenon, <1>1, <1>2, <1>3, <1>4
  <2>2. T \ {x} \notin Bad
    BY Zenon, <1>1, <2>1
  <2> QED
    BY Zenon, <2>1, <2>2
<1>7. SumOver(f, (T \ {x}) \ {c}) = SumOver(f, (T \ {c}) \ {x})
  <2>1. (T \ {x}) \ {c} = (T \ {c}) \ {x}
    OBVIOUS
  <2> QED
    BY <2>1, Zenon
<1>8. f[x] \in Int /\ f[c] \in Int /\ SumOver(f, (T \ {c}) \ {x}) \in Int
  <2>1. IsFiniteSet((T \ {c}) \ {x}) /\ \A y \in (T \ {c}) \ {x} : f[y] \in Int
    BY <1>3, FS_Subset
  <2>2. SumOver(f, (T \ {c}) \ {x}) \in Int
    BY <2>1, SumInt
  <2> QED
    BY <1>3, <2>2
<1> QED
  BY <1>2, <1>3, <1>5, <1>6, <1>7, <1>8

(* One more element adds its value.                                        *)
LEMMA SumInsert ==
  ASSUME NEW f, NEW S, IsFiniteSet(S), NEW e, e \notin S, \A x \in S \cup {e} : f[x] \in Int
  PROVE  SumOver(f, S \cup {e}) = f[e] + SumOver(f, S)
<1> DEFINE T == S \cup {e}
<1>1. IsFiniteSet(T) /\ e \in T /\ \A x \in T : f[x] \in Int
  BY FS_AddElement
<1>2. T \ {e} = S
  OBVIOUS
<1> HIDE DEF T
<1>3. SumOver(f, T) = f[e] + SumOver(f, T \ {e})
  BY <1>1, SumRemove
<1> QED
  BY <1>2, <1>3 DEF T

-----------------------------------------------------------------------------
(* Sums of functions that agree, are added, or are scaled.                 *)
LEMMA SumSame ==
  ASSUME NEW f, NEW g, NEW S, IsFiniteSet(S), \A x \in S : f[x] = g[x]
  PROVE  SumOver(f, S) = SumOver(g, S)
<1> DEFINE Bad == {T \in SUBSET S : SumOver(f, T) # SumOver(g, T)}
<1> SUFFICES ASSUME Bad # {} PROVE FALSE
  OBVIOUS
<1>1. PICK T \in Bad : \A W \in Bad : W \subseteq T => W = T
  <2>1. Bad \subseteq SUBSET S
    OBVIOUS
  <2> HIDE DEF Bad
  <2> QED
    BY <2>1, SmallestSet
<1>2. IsFiniteSet(T) /\ T # {}
  <2>1. T # {}
    BY SumEmpty
  <2> QED
    BY <2>1, FS_Subset
<1> DEFINE c == First(T)
<1>3. /\ c \in T /\ SumOver(f, T) = f[c] + SumOver(f, T \ {c})
      /\ SumOver(g, T) = g[c] + SumOver(g, T \ {c})
  BY <1>2, SumFirst
<1> HIDE DEF c
<1>4. SumOver(f, T \ {c}) = SumOver(g, T \ {c})
  BY <1>1, <1>3
<1>5. f[c] = g[c]
  BY <1>3
<1> QED
  BY <1>1, <1>3, <1>4, <1>5

(* A sum distributes over pointwise addition.                              *)
LEMMA SumPlus ==
  ASSUME NEW f, NEW g, NEW h, NEW S, IsFiniteSet(S),
         \A x \in S : f[x] \in Int /\ g[x] \in Int /\ h[x] = f[x] + g[x]
  PROVE  SumOver(h, S) = SumOver(f, S) + SumOver(g, S)
<1> DEFINE Bad == {T \in SUBSET S : SumOver(h, T) # SumOver(f, T) + SumOver(g, T)}
<1> SUFFICES ASSUME Bad # {} PROVE FALSE
  OBVIOUS
<1>1. PICK T \in Bad : \A W \in Bad : W \subseteq T => W = T
  <2>1. Bad \subseteq SUBSET S
    OBVIOUS
  <2> HIDE DEF Bad
  <2> QED
    BY <2>1, SmallestSet
<1>2. IsFiniteSet(T) /\ T # {}
  <2>1. T # {}
    <3>1. SumOver(h, {}) = 0 /\ SumOver(f, {}) = 0 /\ SumOver(g, {}) = 0
      BY SumEmpty
    <3>2. SumOver(h, {}) = SumOver(f, {}) + SumOver(g, {})
      BY <3>1
    <3> QED
      BY Zenon, <3>2
  <2> QED
    BY <2>1, FS_Subset
<1> DEFINE c == First(T)
           U == T \ {c}
<1>3. /\ c \in T /\ SumOver(f, T) = f[c] + SumOver(f, U)
      /\ SumOver(g, T) = g[c] + SumOver(g, U) /\ SumOver(h, T) = h[c] + SumOver(h, U)
  BY Zenon, <1>2, SumFirst
<1>4. IsFiniteSet(U) /\ U \subseteq S
  BY <1>2, FS_Subset
<1>5. SumOver(h, U) = SumOver(f, U) + SumOver(g, U)
  BY <1>1, <1>3
<1> HIDE DEF U, c
<1>6. SumOver(f, U) \in Int /\ SumOver(g, U) \in Int
  BY <1>4, SumInt
<1>7. f[c] \in Int /\ g[c] \in Int /\ h[c] = f[c] + g[c]
  BY <1>3
<1> QED
  BY <1>1, <1>3, <1>5, <1>6, <1>7

(* A product distributes over an addition.                                 *)
LEMMA Distribute ==
  ASSUME NEW k \in Int, NEW a \in Int, NEW b \in Int PROVE k * (a + b) = k * a + k * b
OBVIOUS

(* A constant factor comes out of a sum.                                   *)
LEMMA SumTimes ==
  ASSUME NEW f, NEW h, NEW S, IsFiniteSet(S), NEW k \in Int,
         \A x \in S : f[x] \in Int /\ h[x] = k * f[x]
  PROVE  SumOver(h, S) = k * SumOver(f, S)
<1> DEFINE Bad == {T \in SUBSET S : SumOver(h, T) # k * SumOver(f, T)}
<1> SUFFICES ASSUME Bad # {} PROVE FALSE
  OBVIOUS
<1>1. PICK T \in Bad : \A W \in Bad : W \subseteq T => W = T
  <2>1. Bad \subseteq SUBSET S
    OBVIOUS
  <2> HIDE DEF Bad
  <2> QED
    BY <2>1, SmallestSet
<1>2. IsFiniteSet(T) /\ T # {}
  <2>1. T # {}
    <3>1. SumOver(h, {}) = 0 /\ SumOver(f, {}) = 0 /\ k * 0 = 0
      BY SumEmpty
    <3> QED
      BY Zenon, <3>1
  <2> QED
    BY <2>1, FS_Subset
<1> DEFINE c == First(T)
           U == T \ {c}
<1>3. /\ c \in T /\ SumOver(f, T) = f[c] + SumOver(f, U)
      /\ SumOver(h, T) = h[c] + SumOver(h, U)
  BY Zenon, <1>2, SumFirst
<1>4. IsFiniteSet(U) /\ U \subseteq S
  BY <1>2, FS_Subset
<1>5. SumOver(h, U) = k * SumOver(f, U)
  BY <1>1, <1>3
<1> HIDE DEF U, c
<1>6. SumOver(f, U) \in Int
  BY <1>4, SumInt
<1>7. f[c] \in Int /\ h[c] = k * f[c]
  BY <1>3
<1>8. k * (f[c] + SumOver(f, U)) = k * f[c] + k * SumOver(f, U)
  BY <1>6, <1>7, Distribute
<1> QED
  BY <1>1, <1>3, <1>5, <1>7, <1>8

(* A sum over a part is the sum of what is zero outside the part.          *)
LEMMA SumPart ==
  ASSUME NEW f, NEW g, NEW S, IsFiniteSet(S), NEW R, R \subseteq S,
         \A x \in R : f[x] \in Int /\ g[x] = f[x], \A x \in S \ R : g[x] = 0
  PROVE  SumOver(g, S) = SumOver(f, R)
<1> DEFINE Bad == {T \in SUBSET S : SumOver(g, T) # SumOver(f, T \cap R)}
<1>1. Bad = {}
  <2> SUFFICES ASSUME Bad # {} PROVE FALSE
    OBVIOUS
  <2>1. PICK T \in Bad : \A W \in Bad : W \subseteq T => W = T
    <3>1. Bad \subseteq SUBSET S
      OBVIOUS
    <3> HIDE DEF Bad
    <3> QED
      BY <3>1, SmallestSet
  <2>2. T # {}
    <3>1. {} \cap R = {}
      OBVIOUS
    <3>2. SumOver(g, {}) = SumOver(f, {} \cap R)
      BY <3>1, SumEmpty
    <3> QED
      BY <3>2
  <2>3. IsFiniteSet(T) /\ T \subseteq S
    BY FS_Subset
  <2> DEFINE c == First(T)
             U == T \ {c}
  <2>4. c \in T /\ SumOver(g, T) = g[c] + SumOver(g, U)
    BY <2>2, <2>3, SumFirst
  <2>5. SumOver(g, U) = SumOver(f, U \cap R)
    BY <2>1, <2>4
  <2>6. IsFiniteSet(T \cap R) /\ IsFiniteSet(U \cap R)
    BY <2>3, FS_Subset
  <2> HIDE DEF c
  <2>7. CASE c \in R
    <3>1. (T \cap R) \ {c} = U \cap R
      OBVIOUS
    <3>2. c \in T \cap R /\ \A x \in T \cap R : f[x] \in Int
      BY <2>4, <2>7
    <3>3. SumOver(f, T \cap R) = f[c] + SumOver(f, U \cap R)
      BY <2>6, <3>1, <3>2, SumRemove
    <3> QED
      BY <2>1, <2>4, <2>5, <2>7, <3>3
  <2>8. CASE c \notin R
    <3>1. T \cap R = U \cap R
      BY <2>8
    <3>2. SumOver(f, U \cap R) \in Int
      BY <2>6, SumInt
    <3>3. g[c] = 0
      BY <2>3, <2>4, <2>8
    <3>4. SumOver(g, T) = SumOver(f, U \cap R)
      BY <2>4, <2>5, <3>2, <3>3
    <3> QED
      BY <2>1, <3>1, <3>4
  <2> QED
    BY <2>7, <2>8
<1>2. SumOver(g, S) = SumOver(f, S \cap R)
  BY <1>1
<1>3. S \cap R = R
  OBVIOUS
<1> QED
  BY <1>2, <1>3, Zenon

(* Changing one summand changes the sum by as much.                        *)
LEMMA SumUpdate ==
  ASSUME NEW f, NEW g, NEW S, IsFiniteSet(S), NEW e \in S,
         \A x \in S : f[x] \in Int, g[e] \in Int, \A x \in S : x # e => g[x] = f[x]
  PROVE  SumOver(g, S) = SumOver(f, S) + g[e] - f[e]
<1>1. SumOver(f, S) = f[e] + SumOver(f, S \ {e})
  BY SumRemove
<1>2. SumOver(g, S) = g[e] + SumOver(g, S \ {e})
  <2>1. \A x \in S : g[x] \in Int
    OBVIOUS
  <2> QED
    BY <2>1, SumRemove
<1>3. IsFiniteSet(S \ {e}) /\ \A x \in S \ {e} : f[x] \in Int /\ g[x] = f[x]
  BY FS_Subset
<1>4. SumOver(f, S \ {e}) \in Int /\ SumOver(g, S \ {e}) = SumOver(f, S \ {e})
  BY <1>3, SumInt, SumSame
<1> QED
  BY <1>1, <1>2, <1>4

(* No summand exceeds a sum of naturals.                                   *)
LEMMA SumMember ==
  ASSUME NEW f, NEW S, IsFiniteSet(S), \A x \in S : f[x] \in Nat, NEW e \in S
  PROVE  f[e] <= SumOver(f, S)
<1>1. SumOver(f, S) = f[e] + SumOver(f, S \ {e})
  BY SumRemove
<1>2. SumOver(f, S \ {e}) \in Nat
  <2>1. IsFiniteSet(S \ {e}) /\ \A x \in S \ {e} : f[x] \in Nat
    BY FS_Subset
  <2> QED
    BY <2>1, SumNat
<1> QED
  BY <1>1, <1>2

(* A sum of larger values is larger.                                       *)
LEMMA SumMonotone ==
  ASSUME NEW f, NEW g, NEW S, IsFiniteSet(S),
         \A x \in S : f[x] \in Int /\ g[x] \in Int /\ f[x] <= g[x]
  PROVE  SumOver(f, S) <= SumOver(g, S)
<1> DEFINE d == [x \in S |-> g[x] - f[x]]
<1>1. \A x \in S : f[x] \in Int /\ d[x] \in Nat /\ d[x] \in Int /\ g[x] = f[x] + d[x]
  OBVIOUS
<1> HIDE DEF d
<1>2. SumOver(g, S) = SumOver(f, S) + SumOver(d, S)
  BY <1>1, SumPlus
<1>3. SumOver(f, S) \in Int /\ SumOver(d, S) \in Nat
  BY <1>1, SumInt, SumNat
<1> QED
  BY <1>2, <1>3

(* Equal summands add up to a multiple.                                    *)
LEMMA SumConstant ==
  ASSUME NEW f, NEW S, IsFiniteSet(S), NEW k \in Int, \A x \in S : f[x] = k
  PROVE  SumOver(f, S) = k * Cardinality(S)
<1> DEFINE Bad == {T \in SUBSET S : SumOver(f, T) # k * Cardinality(T)}
<1> SUFFICES ASSUME Bad # {} PROVE FALSE
  OBVIOUS
<1>1. PICK T \in Bad : \A W \in Bad : W \subseteq T => W = T
  <2>1. Bad \subseteq SUBSET S
    OBVIOUS
  <2> HIDE DEF Bad
  <2> QED
    BY <2>1, SmallestSet
<1>2. IsFiniteSet(T) /\ T # {}
  <2>1. SumOver(f, {}) = k * Cardinality({})
    <3>1. SumOver(f, {}) = 0 /\ Cardinality({}) = 0 /\ k * 0 = 0
      BY SumEmpty, FS_EmptySet
    <3> QED
      BY <3>1
  <2> QED
    BY Zenon, <2>1, FS_Subset
<1> DEFINE c == First(T)
           U == T \ {c}
<1>3. c \in T /\ SumOver(f, T) = f[c] + SumOver(f, U) /\ U \in SUBSET S
  BY Zenon, <1>2, SumFirst
<1>4. SumOver(f, U) = k * Cardinality(U)
  BY <1>1, <1>3
<1>5. Cardinality(T) = Cardinality(U) + 1 /\ Cardinality(U) \in Nat
  <2>1. Cardinality(U) = Cardinality(T) - 1 /\ IsFiniteSet(U)
    BY <1>2, <1>3, FS_RemoveElement
  <2> QED
    BY <1>2, <2>1, FS_CardinalityType
<1>6. f[c] = k
  BY <1>3
<1> HIDE DEF U, c
<1>7. k * (Cardinality(U) + 1) = k * Cardinality(U) + k * 1
  BY <1>5, Distribute
<1>8. k * Cardinality(U) \in Int
  BY <1>5
<1>9. SumOver(f, T) = k * Cardinality(T)
  BY <1>3, <1>4, <1>5, <1>6, <1>7, <1>8
<1> QED
  BY <1>1, <1>9

=============================================================================
