----------------------------- MODULE SumProofs ------------------------------
(***************************************************************************)
(* Sums of money.  SumFunctionOnSet of the community modules adds up a     *)
(* function over a finite set, one element at a time in an order that is   *)
(* not specified.  That the order does not matter, and how a sum follows a *)
(* change of the function or of the set, is proved here from its           *)
(* definition, by considering a smallest set for which it would not hold.  *)
(***************************************************************************)
EXTENDS Integers, FiniteSets, Functions, FiniteSetTheorems, WellFoundedInduction, TLAPS

-----------------------------------------------------------------------------
\* Among subsets of a finite set there is one with no other below it.
LEMMA SmallestSet ==
    ASSUME NEW S, IsFiniteSet(S), NEW B \in SUBSET SUBSET S, B # {}
    PROVE  \E T \in B : \A U \in SUBSET T : U # T => U \notin B
<1>1. IsWellFoundedOn(StrictSubsetOrdering(S), SUBSET S)
  BY FS_StrictSubsetOrderingWellFounded, FS_FiniteSubsetsOfFinite
<1>2. \E T \in B : \A U \in B : <<U, T>> \notin StrictSubsetOrdering(S)
  BY <1>1, WFMin
<1> QED
  BY <1>2 DEF StrictSubsetOrdering

-----------------------------------------------------------------------------
(***************************************************************************)
(* The definition.  g adds up f over the subsets of S when it takes one    *)
(* element out of each and adds the sum of the rest.                       *)
(***************************************************************************)
Pick(s) == CHOOSE x \in s : TRUE

Unfold(f, g, s) == IF s = {} THEN 0 ELSE f[Pick(s)] + g[s \ {Pick(s)}]

AddsUp(g, f, S) == \A s \in SUBSET S : g[s] = Unfold(f, g, s)

Adder(f, S) == CHOOSE g : g = [s \in SUBSET S |-> Unfold(f, g, s)]

LEMMA PickRemoves ==
    ASSUME NEW s, s # {}
    PROVE  Pick(s) \in s /\ s \ {Pick(s)} \in SUBSET s /\ s \ {Pick(s)} # s
BY DEF Pick

LEMMA SumIsAdder ==
    ASSUME NEW f, NEW S
    PROVE  SumFunctionOnSet(f, S) = Adder(f, S)[S]
<1> DEFINE iter[s \in SUBSET S] ==
             IF s = {} THEN 0
             ELSE LET x == CHOOSE y \in s : TRUE
                  IN  f[x] + iter[s \ {x}]
<1>1. SumFunctionOnSet(f, S) = iter[S]
  BY Zenon DEF SumFunctionOnSet, FoldFunctionOnSet, MapThenFoldSet
<1>2. iter = Adder(f, S)
  BY DEF Adder, Unfold, Pick
<1> QED
  BY <1>1, <1>2

\* There is at most one way to add up, and there is one.
LEMMA AddsUpOnce ==
    ASSUME NEW S, IsFiniteSet(S), NEW f, NEW g, NEW h, AddsUp(g, f, S), AddsUp(h, f, S)
    PROVE  \A s \in SUBSET S : g[s] = h[s]
<1> DEFINE B == {s \in SUBSET S : g[s] # h[s]}
<1>1. SUFFICES ASSUME B # {}
               PROVE  FALSE
  OBVIOUS
<1>2. PICK T \in B : \A U \in SUBSET T : U # T => U \notin B
  <2>1. B \in SUBSET SUBSET S
    OBVIOUS
  <2> HIDE DEF B
  <2> QED
    BY <1>1, <2>1, SmallestSet
<1>3. T \in SUBSET S /\ g[T] # h[T]
  BY <1>2
<1>4. g[T] = Unfold(f, g, T) /\ h[T] = Unfold(f, h, T)
  BY <1>3 DEF AddsUp
<1>5. T # {} => g[T \ {Pick(T)}] = h[T \ {Pick(T)}]
  BY <1>2, <1>3, PickRemoves
<1> QED
  BY <1>3, <1>4, <1>5 DEF Unfold

LEMMA AddsUpSubset ==
    ASSUME NEW S, NEW f, NEW g, AddsUp(g, f, S), NEW T \in SUBSET S
    PROVE  AddsUp(g, f, T)
BY DEF AddsUp

LEMMA SomethingAddsUp ==
    ASSUME NEW S, IsFiniteSet(S), NEW f
    PROVE  \E g : AddsUp(g, f, S)
<1> DEFINE B == {T \in SUBSET S : ~ \E g : AddsUp(g, f, T)}
<1>1. SUFFICES ASSUME B # {}
               PROVE  FALSE
  OBVIOUS
<1>2. PICK T \in B : \A U \in SUBSET T : U # T => U \notin B
  <2>1. B \in SUBSET SUBSET S
    OBVIOUS
  <2> HIDE DEF B
  <2> QED
    BY <1>1, <2>1, SmallestSet
<1> DEFINE chosen(u) == CHOOSE g : AddsUp(g, f, u)
           G == [s \in SUBSET T |->
                   IF s = {} THEN 0 ELSE f[Pick(s)] + chosen(s \ {Pick(s)})[s \ {Pick(s)}]]
<1>3. \A u \in SUBSET T : u # T => AddsUp(chosen(u), f, u) /\ IsFiniteSet(u)
  BY <1>2, FS_Subset
<1>4. ASSUME NEW u \in SUBSET T, u # T
      PROVE  G[u] = chosen(u)[u]
  <2>1. AddsUp(chosen(u), f, u)
    BY <1>3, <1>4
  <2>2. chosen(u)[u] = Unfold(f, chosen(u), u)
    BY <2>1, Zenon DEF AddsUp
  <2>3. CASE u = {}
    BY <2>2, <2>3 DEF Unfold
  <2>4. CASE u # {}
    <3> DEFINE v == u \ {Pick(u)}
    <3>1. v \in SUBSET u /\ v \in SUBSET T /\ v # T
      BY <1>4, <2>4, PickRemoves
    <3>2. AddsUp(chosen(u), f, v) /\ AddsUp(chosen(v), f, v) /\ IsFiniteSet(v)
      BY <1>3, <2>1, <3>1, AddsUpSubset
    <3>3. chosen(u)[v] = chosen(v)[v]
      <4> HIDE DEF chosen, v
      <4> QED
        BY <3>2, AddsUpOnce
    <3> QED
      BY <2>2, <2>4, <3>3 DEF Unfold
  <2> QED
    BY <2>3, <2>4
<1>5. AddsUp(G, f, T)
  <2> SUFFICES ASSUME NEW s \in SUBSET T
               PROVE  G[s] = Unfold(f, G, s)
    BY DEF AddsUp
  <2>1. CASE s = {}
    BY <2>1 DEF Unfold
  <2>2. CASE s # {}
    <3>1. s \ {Pick(s)} \in SUBSET T /\ s \ {Pick(s)} # T
      BY <2>2, PickRemoves
    <3>2. G[s \ {Pick(s)}] = chosen(s \ {Pick(s)})[s \ {Pick(s)}]
      BY <1>4, <3>1
    <3>3. G[s] = f[Pick(s)] + chosen(s \ {Pick(s)})[s \ {Pick(s)}]
      BY <2>2
    <3> HIDE DEF G, chosen
    <3> QED
      BY <2>2, <3>2, <3>3 DEF Unfold
  <2> QED
    BY <2>1, <2>2
<1> QED
  <2> HIDE DEF G
  <2> QED
    BY <1>2, <1>5

LEMMA AdderAddsUp ==
    ASSUME NEW S, IsFiniteSet(S), NEW f
    PROVE  AddsUp(Adder(f, S), f, S)
<1>1. PICK g : AddsUp(g, f, S)
  BY SomethingAddsUp
<1> DEFINE h == [s \in SUBSET S |-> g[s]]
<1>2. h = [s \in SUBSET S |-> Unfold(f, h, s)]
  BY <1>1 DEF AddsUp, Unfold
<1>3. Adder(f, S) = [s \in SUBSET S |-> Unfold(f, Adder(f, S), s)]
  <2> HIDE DEF h
  <2> QED
    BY <1>2 DEF Adder
<1> QED
  BY <1>3 DEF AddsUp

\* What adds up over a set adds up its subsets, too.
LEMMA AdderOfSubset ==
    ASSUME NEW S, IsFiniteSet(S), NEW f, NEW T \in SUBSET S
    PROVE  Adder(f, S)[T] = SumFunctionOnSet(f, T)
<1>1. IsFiniteSet(T)
  BY FS_Subset
<1>2. AddsUp(Adder(f, S), f, T) /\ AddsUp(Adder(f, T), f, T)
  BY <1>1, AdderAddsUp, AddsUpSubset
<1> QED
  BY <1>1, <1>2, AddsUpOnce, SumIsAdder

-----------------------------------------------------------------------------
(***************************************************************************)
(* The laws of sums.                                                       *)
(***************************************************************************)
LEMMA SumOfNothing ==
    ASSUME NEW f
    PROVE  SumFunctionOnSet(f, {}) = 0
<1>1. AddsUp(Adder(f, {}), f, {})
  BY AdderAddsUp, FS_EmptySet
<1> QED
  BY <1>1, SumIsAdder DEF AddsUp, Unfold

LEMMA SumTakesOne ==
    ASSUME NEW S, IsFiniteSet(S), S # {}, NEW f
    PROVE  SumFunctionOnSet(f, S) =
             f[Pick(S)] + SumFunctionOnSet(f, S \ {Pick(S)})
<1>1. AddsUp(Adder(f, S), f, S)
  BY AdderAddsUp
<1>2. Adder(f, S)[S] = f[Pick(S)] + Adder(f, S)[S \ {Pick(S)}]
  BY <1>1 DEF AddsUp, Unfold
<1>3. Adder(f, S)[S \ {Pick(S)}] = SumFunctionOnSet(f, S \ {Pick(S)})
  BY AdderOfSubset
<1> QED
  BY <1>2, <1>3, SumIsAdder

\* A sum of integers is an integer.
LEMMA SumType ==
    ASSUME NEW S, IsFiniteSet(S), NEW f, \A x \in S : f[x] \in Int
    PROVE  SumFunctionOnSet(f, S) \in Int
<1> DEFINE B == {T \in SUBSET S : SumFunctionOnSet(f, T) \notin Int}
<1>1. SUFFICES ASSUME B # {}
               PROVE  FALSE
  OBVIOUS
<1>2. PICK T \in B : \A U \in SUBSET T : U # T => U \notin B
  <2>1. B \in SUBSET SUBSET S
    OBVIOUS
  <2> HIDE DEF B
  <2> QED
    BY <1>1, <2>1, SmallestSet
<1>3. T \in SUBSET S /\ IsFiniteSet(T) /\ SumFunctionOnSet(f, T) \notin Int
  BY <1>2, FS_Subset
<1>4. T # {}
  BY <1>3, SumOfNothing
<1>5. SumFunctionOnSet(f, T) = f[Pick(T)] + SumFunctionOnSet(f, T \ {Pick(T)})
  BY <1>3, <1>4, SumTakesOne
<1>6. Pick(T) \in S /\ SumFunctionOnSet(f, T \ {Pick(T)}) \in Int
  BY <1>2, <1>3, <1>4, PickRemoves
<1> QED
  BY <1>3, <1>5, <1>6

\* The order does not matter: any element may be taken out first.
LEMMA SumTakesAny ==
    ASSUME NEW S, IsFiniteSet(S), NEW f, \A x \in S : f[x] \in Int, NEW y \in S
    PROVE  SumFunctionOnSet(f, S) = f[y] + SumFunctionOnSet(f, S \ {y})
<1> DEFINE B == {T \in SUBSET S :
                   \E z \in T : SumFunctionOnSet(f, T) # f[z] + SumFunctionOnSet(f, T \ {z})}
<1>1. SUFFICES ASSUME B # {}
               PROVE  FALSE
  OBVIOUS
<1>2. PICK T \in B : \A U \in SUBSET T : U # T => U \notin B
  <2>1. B \in SUBSET SUBSET S
    OBVIOUS
  <2> HIDE DEF B
  <2> QED
    BY <1>1, <2>1, SmallestSet
<1>3. T \in SUBSET S /\ IsFiniteSet(T)
  BY <1>2, FS_Subset
<1>4. PICK z \in T : SumFunctionOnSet(f, T) # f[z] + SumFunctionOnSet(f, T \ {z})
  BY <1>2
<1> DEFINE x == Pick(T)
           Rest == T \ {x, z}
<1>5. x \in T /\ SumFunctionOnSet(f, T) = f[x] + SumFunctionOnSet(f, T \ {x})
  BY <1>3, <1>4, SumTakesOne, PickRemoves
<1>6. x # z
  BY <1>4, <1>5
<1>7. SumFunctionOnSet(f, T \ {x}) = f[z] + SumFunctionOnSet(f, Rest)
  <2>1. T \ {x} \in SUBSET T /\ T \ {x} # T /\ z \in T \ {x} /\ (T \ {x}) \ {z} = Rest
    BY <1>4, <1>5, <1>6
  <2> QED
    BY <1>2, <1>3, <2>1
<1>8. SumFunctionOnSet(f, T \ {z}) = f[x] + SumFunctionOnSet(f, Rest)
  <2>1. T \ {z} \in SUBSET T /\ T \ {z} # T /\ x \in T \ {z} /\ (T \ {z}) \ {x} = Rest
    BY <1>4, <1>5, <1>6
  <2> QED
    BY <1>2, <1>3, <2>1
<1>9. f[x] \in Int /\ f[z] \in Int /\ SumFunctionOnSet(f, Rest) \in Int
  <2>1. IsFiniteSet(Rest) /\ \A e \in Rest : f[e] \in Int
    BY <1>3, FS_Subset
  <2> QED
    BY <1>3, <1>4, <1>5, <2>1, SumType
<1> QED
  BY <1>4, <1>5, <1>7, <1>8, <1>9

\* Functions that agree on a set have the same sum over it.
LEMMA SumSame ==
    ASSUME NEW S, IsFiniteSet(S), NEW f, NEW h, \A x \in S : f[x] = h[x]
    PROVE  SumFunctionOnSet(f, S) = SumFunctionOnSet(h, S)
<1>1. AddsUp(Adder(f, S), f, S) /\ AddsUp(Adder(h, S), h, S)
  BY AdderAddsUp
<1>2. AddsUp(Adder(f, S), h, S)
  <2> SUFFICES ASSUME NEW s \in SUBSET S
               PROVE  Adder(f, S)[s] = Unfold(h, Adder(f, S), s)
    BY DEF AddsUp
  <2>1. Adder(f, S)[s] = Unfold(f, Adder(f, S), s)
    BY <1>1 DEF AddsUp
  <2>2. s # {} => f[Pick(s)] = h[Pick(s)]
    BY PickRemoves
  <2> QED
    BY <2>1, <2>2 DEF Unfold
<1> QED
  BY <1>1, <1>2, AddsUpOnce, SumIsAdder

-----------------------------------------------------------------------------
(***************************************************************************)
(* How the sum of a function follows a change of it.                       *)
(***************************************************************************)
\* A change at one place changes the sum by as much.
LEMMA SumChanges ==
    ASSUME NEW S, IsFiniteSet(S), NEW f \in [S -> Int], NEW h \in [S -> Int], NEW y \in S,
           \A x \in S \ {y} : h[x] = f[x]
    PROVE  /\ SumFunction(f) \in Int
           /\ SumFunction(h) = SumFunction(f) + (h[y] - f[y])
<1>1. /\ SumFunctionOnSet(f, S) = f[y] + SumFunctionOnSet(f, S \ {y})
      /\ SumFunctionOnSet(h, S) = h[y] + SumFunctionOnSet(h, S \ {y})
  BY SumTakesAny
<1>2. IsFiniteSet(S \ {y})
  BY FS_Subset
<1>3. /\ SumFunctionOnSet(f, S \ {y}) = SumFunctionOnSet(h, S \ {y})
      /\ SumFunctionOnSet(f, S \ {y}) \in Int
  BY <1>2, SumSame, SumType
<1>4. SumFunction(f) = SumFunctionOnSet(f, S) /\ SumFunction(h) = SumFunctionOnSet(h, S)
  BY DEF SumFunction
<1> QED
  BY <1>1, <1>3, <1>4

\* One more place adds its value.
LEMMA SumGrows ==
    ASSUME NEW S, IsFiniteSet(S), NEW y, y \notin S,
           NEW f \in [S -> Int], NEW h \in [S \cup {y} -> Int], \A x \in S : h[x] = f[x]
    PROVE  /\ SumFunction(f) \in Int
           /\ SumFunction(h) = SumFunction(f) + h[y]
<1>1. IsFiniteSet(S \cup {y}) /\ (S \cup {y}) \ {y} = S
  BY FS_AddElement
<1>2. SumFunctionOnSet(h, S \cup {y}) = h[y] + SumFunctionOnSet(h, S)
  BY <1>1, SumTakesAny
<1>3. SumFunctionOnSet(f, S) = SumFunctionOnSet(h, S) /\ SumFunctionOnSet(f, S) \in Int
  BY SumSame, SumType
<1>4. SumFunction(f) = SumFunctionOnSet(f, S) /\ SumFunction(h) = SumFunctionOnSet(h, S \cup {y})
  BY DEF SumFunction
<1> QED
  BY <1>2, <1>3, <1>4

\* The sum over two sets that share nothing.
LEMMA SumSplit ==
    ASSUME NEW S, IsFiniteSet(S), NEW f, \A x \in S : f[x] \in Int,
           NEW A \in SUBSET S, NEW C \in SUBSET S, A \cap C = {}
    PROVE  /\ SumFunctionOnSet(f, A) \in Int /\ SumFunctionOnSet(f, C) \in Int
           /\ SumFunctionOnSet(f, A \cup C) = SumFunctionOnSet(f, A) + SumFunctionOnSet(f, C)
<1>1. \A T \in SUBSET S : IsFiniteSet(T) /\ SumFunctionOnSet(f, T) \in Int
  <2> SUFFICES ASSUME NEW T \in SUBSET S
               PROVE  IsFiniteSet(T) /\ SumFunctionOnSet(f, T) \in Int
    OBVIOUS
  <2>1. IsFiniteSet(T) /\ \A x \in T : f[x] \in Int
    BY FS_Subset
  <2> QED
    BY <2>1, SumType
<1> DEFINE B == {T \in SUBSET C :
                   SumFunctionOnSet(f, A \cup T)
                     # SumFunctionOnSet(f, A) + SumFunctionOnSet(f, T)}
<1>2. ASSUME B # {}
      PROVE  FALSE
  <2>1. PICK T \in B : \A U \in SUBSET T : U # T => U \notin B
    <3>1. B \in SUBSET SUBSET C /\ IsFiniteSet(C)
      BY <1>1
    <3> HIDE DEF B
    <3> QED
      BY <1>2, <3>1, SmallestSet
  <2>2. T \in SUBSET C /\ T # {}
    <3>1. T \in SUBSET C
      BY <2>1
    <3>2. SumFunctionOnSet(f, A \cup {}) = SumFunctionOnSet(f, A)
      <4>1. A \cup {} = A
        OBVIOUS
      <4> QED
        BY <4>1
    <3>3. SumFunctionOnSet(f, A \cup {}) = SumFunctionOnSet(f, A) + SumFunctionOnSet(f, {})
      BY <1>1, <3>2, SumOfNothing
    <3> QED
      BY <2>1, <3>1, <3>3
  <2> DEFINE y == Pick(T)
  <2>3. y \in T /\ y \in A \cup T /\ T \ {y} \in SUBSET T /\ T \ {y} # T
    BY <2>2, PickRemoves
  <2>4. SumFunctionOnSet(f, (A \cup T) \ {y}) = SumFunctionOnSet(f, A \cup (T \ {y}))
    <3>1. (A \cup T) \ {y} = A \cup (T \ {y})
      BY <2>2, <2>3
    <3> QED
      BY <3>1
  <2>5. /\ SumFunctionOnSet(f, A \cup T) = f[y] + SumFunctionOnSet(f, (A \cup T) \ {y})
        /\ SumFunctionOnSet(f, T) = f[y] + SumFunctionOnSet(f, T \ {y})
    <3>1. /\ IsFiniteSet(A \cup T) /\ \A x \in A \cup T : f[x] \in Int
          /\ IsFiniteSet(T) /\ \A x \in T : f[x] \in Int
      BY <1>1, <2>2
    <3> HIDE DEF y
    <3> QED
      BY <2>3, <3>1, SumTakesAny
  <2>6. SumFunctionOnSet(f, A \cup (T \ {y}))
          = SumFunctionOnSet(f, A) + SumFunctionOnSet(f, T \ {y})
    BY <2>1, <2>2, <2>3
  <2>7. f[y] \in Int /\ SumFunctionOnSet(f, A) \in Int /\ SumFunctionOnSet(f, T \ {y}) \in Int
    BY <1>1, <2>2, <2>3
  <2>8. SumFunctionOnSet(f, A \cup T) # SumFunctionOnSet(f, A) + SumFunctionOnSet(f, T)
    BY <2>1
  <2> HIDE DEF y
  <2> QED
    BY <2>4, <2>5, <2>6, <2>7, <2>8
<1> QED
  BY <1>1, <1>2

\* A sum of nothing but zeros.
LEMMA SumOfZeros ==
    ASSUME NEW S, IsFiniteSet(S), NEW f, \A x \in S : f[x] = 0
    PROVE  SumFunctionOnSet(f, S) = 0
<1> DEFINE B == {T \in SUBSET S : SumFunctionOnSet(f, T) # 0}
<1>1. SUFFICES ASSUME B # {}
               PROVE  FALSE
  OBVIOUS
<1>2. PICK T \in B : \A U \in SUBSET T : U # T => U \notin B
  <2>1. B \in SUBSET SUBSET S
    OBVIOUS
  <2> HIDE DEF B
  <2> QED
    BY <1>1, <2>1, SmallestSet
<1>3. T \in SUBSET S /\ IsFiniteSet(T) /\ SumFunctionOnSet(f, T) # 0
  BY <1>2, FS_Subset
<1>4. T # {}
  BY <1>3, SumOfNothing
<1>5. SumFunctionOnSet(f, T) = f[Pick(T)] + SumFunctionOnSet(f, T \ {Pick(T)})
  BY <1>3, <1>4, SumTakesOne
<1>6. f[Pick(T)] = 0 /\ SumFunctionOnSet(f, T \ {Pick(T)}) = 0
  BY <1>2, <1>3, <1>4, PickRemoves
<1> QED
  BY <1>3, <1>5, <1>6
=============================================================================
