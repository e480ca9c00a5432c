---------------------------- MODULE SumTheorems ----------------------------
(***************************************************************************)
(* Facts about SumFunctionOnSet and Max, for the modules whose properties  *)
(* add up what many requests, holds or operations have moved.              *)
(*                                                                         *)
(* The sum is a recursive function over the subsets of a finite set.  The  *)
(* inductions are written as a choice of a minimal counterexample (Least), *)
(* which rests on the well-foundedness of the strict subset ordering.      *)
(***************************************************************************)
EXTENDS Integers, FiniteSets, FiniteSetsExt, Functions, FiniteSetTheorems,
        WellFoundedInduction, TLAPS

(* Induction: a set of subsets of a finite set has a minimal element. *)
LEMMA Least ==
  ASSUME NEW S, IsFiniteSet(S), NEW Q, Q \subseteq SUBSET S, Q # {}
  PROVE  \E T \in Q : \A U \in Q : U \subseteq T => U = T
<1>1. IsWellFoundedOn(StrictSubsetOrdering(S), FiniteSubsetsOf(S))
  BY FS_StrictSubsetOrderingWellFounded
<1>2. Q \subseteq FiniteSubsetsOf(S)
  BY FS_Subset DEF FiniteSubsetsOf
<1>3. PICK T \in Q : \A U \in Q : <<U, T>> \notin StrictSubsetOrdering(S)
  BY <1>1, <1>2, WFMin
<1>4. \A U \in Q : U \subseteq T => U = T
  BY <1>3 DEF StrictSubsetOrdering
<1> QED BY <1>4

-----------------------------------------------------------------------------
(* The recursion behind SumFunctionOnSet *)

Chosen(T) == CHOOSE x \in T : TRUE

(* F gives the sum of f over every subset of S. *)
IsSum(F, f, S) ==
  F = [T \in SUBSET S |-> IF T = {} THEN 0 ELSE f[Chosen(T)] + F[T \ {Chosen(T)}]]

(* The library's fold of + is a solution of that recursion. *)
LEMMA SumUnfolds ==
  ASSUME NEW S, NEW f
  PROVE  SumFunctionOnSet(f, S) = (CHOOSE F : IsSum(F, f, S))[S]
BY DEF SumFunctionOnSet, FoldFunctionOnSet, MapThenFoldSet, IsSum, Chosen

(* The element taken out is one of the set. *)
LEMMA ChosenIn ==
  ASSUME NEW T, T # {}
  PROVE  Chosen(T) \in T
BY DEF Chosen

(* One step of the recursion. *)
LEMMA SumStep ==
  ASSUME NEW S, NEW f, NEW F, IsSum(F, f, S), NEW T \in SUBSET S
  PROVE  F[T] = IF T = {} THEN 0 ELSE f[Chosen(T)] + F[T \ {Chosen(T)}]
BY DEF IsSum

(* Two solutions agree where both are defined. *)
LEMMA SumUnique ==
  ASSUME NEW S, NEW T, IsFiniteSet(S), NEW f, NEW F, NEW G,
         IsSum(F, f, S), IsSum(G, f, T),
         NEW U, U \subseteq S, U \subseteq T
  PROVE  F[U] = G[U]
<1> DEFINE Q == {V \in SUBSET U : F[V] # G[V]}
<1>1. SUFFICES ASSUME Q # {} PROVE FALSE
  OBVIOUS
<1>2. IsFiniteSet(U)
  BY FS_Subset
<1>3. PICK V \in Q : \A W \in Q : W \subseteq V => W = V
  <2>1. Q \subseteq SUBSET U
    OBVIOUS
  <2> HIDE DEF Q
  <2> QED BY <1>1, <1>2, <2>1, Least
<1>4. /\ F[V] = IF V = {} THEN 0 ELSE f[Chosen(V)] + F[V \ {Chosen(V)}]
      /\ G[V] = IF V = {} THEN 0 ELSE f[Chosen(V)] + G[V \ {Chosen(V)}]
  <2>1. V \in SUBSET S /\ V \in SUBSET T
    BY <1>3
  <2> QED BY <2>1, SumStep
<1>5. V # {}
  BY <1>3, <1>4
<1>6. F[V \ {Chosen(V)}] = G[V \ {Chosen(V)}]
  <2>1. Chosen(V) \in V
    BY <1>5, ChosenIn
  <2>2. V \ {Chosen(V)} \in SUBSET U
    BY <1>3
  <2> QED BY <1>3, <2>1, <2>2
<1> QED BY <1>3, <1>4, <1>5, <1>6

(* There is a solution on every finite set. *)
LEMMA SumExists ==
  ASSUME NEW S, IsFiniteSet(S), NEW f
  PROVE  \E F : IsSum(F, f, S)
<1> DEFINE Q == {T \in SUBSET S : ~ \E F : IsSum(F, f, T)}
<1>1. SUFFICES ASSUME Q # {} PROVE FALSE
  OBVIOUS
<1>2. PICK T \in Q : \A U \in Q : U \subseteq T => U = T
  <2>1. Q \subseteq SUBSET S
    OBVIOUS
  <2> HIDE DEF Q
  <2> QED BY <1>1, <2>1, Least
<1> DEFINE G(V) == CHOOSE F : IsSum(F, f, V)
<1>3. \A V \in SUBSET T : V # T => IsSum(G(V), f, V)
  BY <1>2
<1> DEFINE F == [U \in SUBSET T |->
                   IF U = {} THEN 0
                   ELSE f[Chosen(U)] + G(U \ {Chosen(U)})[U \ {Chosen(U)}]]
<1>4. \A V \in SUBSET T : V # T => F[V] = G(V)[V]
  <2>1. SUFFICES ASSUME NEW V \in SUBSET T, V # T PROVE F[V] = G(V)[V]
    OBVIOUS
  <2>2. IsSum(G(V), f, V)
    BY <1>3, <2>1
  <2>3. G(V)[V] = IF V = {} THEN 0 ELSE f[Chosen(V)] + G(V)[V \ {Chosen(V)}]
    BY <2>2, SumStep
  <2>4. CASE V = {}
    BY <2>3, <2>4
  <2>5. CASE V # {}
    <3> DEFINE W == V \ {Chosen(V)}
    <3>1. W \in SUBSET T /\ W # T /\ W \subseteq V
      BY <2>1
    <3>2. IsSum(G(W), f, W)
      BY <1>3, <3>1
    <3>3. IsFiniteSet(V)
      BY <1>2, FS_Subset
    <3> HIDE DEF G, W
    <3>4. G(V)[W] = G(W)[W]
      BY <2>2, <3>1, <3>2, <3>3, SumUnique
    <3>5. F[V] = f[Chosen(V)] + G(W)[W]
      BY <2>1, <2>5 DEF W
    <3> QED BY <2>3, <2>5, <3>4, <3>5 DEF W
  <2> QED BY <2>4, <2>5
<1>5. ASSUME NEW U \in SUBSET T, U # {}
      PROVE  G(U \ {Chosen(U)})[U \ {Chosen(U)}] = F[U \ {Chosen(U)}]
  <2>1. U \ {Chosen(U)} \in SUBSET T /\ U \ {Chosen(U)} # T
    BY <1>5, ChosenIn
  <2> HIDE DEF F, G
  <2> QED BY <1>4, <2>1
<1>6. IsSum(F, f, T)
  <2> HIDE DEF G
  <2> QED BY <1>5 DEF IsSum
<1> QED BY <1>2, <1>6

(* A solution on a set gives the sums over all its subsets. *)
LEMMA SumIsSolution ==
  ASSUME NEW S, IsFiniteSet(S), NEW f, NEW T \in SUBSET S, NEW F, IsSum(F, f, S)
  PROVE  SumFunctionOnSet(f, T) = F[T]
<1> DEFINE G == CHOOSE H : IsSum(H, f, T)
<1>1. IsFiniteSet(T)
  BY FS_Subset
<1>2. IsSum(G, f, T)
  BY <1>1, SumExists
<1>3. SumFunctionOnSet(f, T) = G[T]
  BY SumUnfolds
<1> HIDE DEF G
<1>4. G[T] = F[T]
  BY <1>1, <1>2, SumUnique
<1> QED BY <1>3, <1>4

(* The defining equation: the sum over nothing is 0, any other sum takes   *)
(* out the chosen element.                                                 *)
LEMMA SumEquation ==
  ASSUME NEW S, IsFiniteSet(S), NEW f
  PROVE  SumFunctionOnSet(f, S) =
           IF S = {} THEN 0 ELSE f[Chosen(S)] + SumFunctionOnSet(f, S \ {Chosen(S)})
<1>1. PICK F : IsSum(F, f, S)
  BY SumExists
<1>2. SumFunctionOnSet(f, S) = F[S]
  BY <1>1, SumIsSolution
<1>3. SumFunctionOnSet(f, S \ {Chosen(S)}) = F[S \ {Chosen(S)}]
  <2>1. S \ {Chosen(S)} \in SUBSET S
    OBVIOUS
  <2> QED BY <1>1, <2>1, SumIsSolution
<1>4. F[S] = IF S = {} THEN 0 ELSE f[Chosen(S)] + F[S \ {Chosen(S)}]
  BY <1>1, SumStep
<1> QED BY <1>2, <1>3, <1>4

-----------------------------------------------------------------------------
(* What the other modules use *)

(* The sum over the empty set. *)
LEMMA SumEmpty ==
  ASSUME NEW f
  PROVE  SumFunctionOnSet(f, {}) = 0
BY SumEquation, FS_EmptySet

(* A sum of integers is an integer, and any element can be taken out first. *)
LEMMA SumTakeOut ==
  ASSUME NEW S, IsFiniteSet(S), NEW f, \A x \in S : f[x] \in Int
  PROVE  /\ SumFunctionOnSet(f, S) \in Int
         /\ \A y \in S : SumFunctionOnSet(f, S) = f[y] + SumFunctionOnSet(f, S \ {y})
<1> DEFINE Sum(T) == SumFunctionOnSet(f, T)
           Good(T) == /\ Sum(T) \in Int
                      /\ \A y \in T : Sum(T) = f[y] + Sum(T \ {y})
           Q == {T \in SUBSET S : ~Good(T)}
<1>1. SUFFICES ASSUME Q # {} PROVE FALSE
  OBVIOUS
<1>2. PICK T \in Q : \A U \in Q : U \subseteq T => U = T
  <2>1. Q \subseteq SUBSET S
    OBVIOUS
  <2> HIDE DEF Q
  <2> QED BY <1>1, <2>1, Least
<1>3. T \in SUBSET S /\ ~Good(T)
  BY <1>2
<1>4. \A U \in SUBSET T : U # T => Good(U)
  BY <1>2, <1>3
<1>5. IsFiniteSet(T)
  BY <1>3, FS_Subset
<1>6. Sum(T) = IF T = {} THEN 0 ELSE f[Chosen(T)] + Sum(T \ {Chosen(T)})
  BY <1>5, SumEquation
<1>7. T # {}
  BY <1>3, <1>6
<1> DEFINE x == Chosen(T)
<1>8. x \in T /\ Good(T \ {x}) /\ Sum(T) = f[x] + Sum(T \ {x})
  <2>1. x \in T
    BY <1>7, ChosenIn
  <2>2. Good(T \ {x})
    BY <1>4, <2>1
  <2> QED BY <1>6, <1>7, <2>1, <2>2
<1> HIDE DEF x, Sum
<1>9. Sum(T) \in Int
  BY <1>3, <1>8
<1>10. ASSUME NEW y \in T PROVE Sum(T) = f[y] + Sum(T \ {y})
  <2>1. CASE y = x
    BY <1>8, <2>1
  <2>2. CASE y # x
    <3> DEFINE R == T \ {x, y}
    <3>1. (T \ {x}) \ {y} = R /\ (T \ {y}) \ {x} = R
      OBVIOUS
    <3>2. Sum(T \ {x}) = f[y] + Sum(R)
      BY <1>8, <2>2, <3>1
    <3>3. Good(T \ {y})
      BY <1>4
    <3>4. Sum(T \ {y}) = f[x] + Sum(R)
      BY <1>8, <2>2, <3>1, <3>3
    <3>5. Good(R)
      BY <1>4, <1>8
    <3>6. f[x] \in Int /\ f[y] \in Int /\ Sum(R) \in Int
      BY <1>3, <1>8, <3>5
    <3> HIDE DEF R
    <3> QED BY <1>8, <3>2, <3>4, <3>6
  <2> QED BY <2>1, <2>2
<1> QED BY <1>3, <1>9, <1>10

(* The sum depends on the values of the elements summed over alone. *)
LEMMA SumSame ==
  ASSUME NEW S, IsFiniteSet(S), NEW f, NEW g,
         \A x \in S : f[x] \in Int /\ g[x] = f[x]
  PROVE  SumFunctionOnSet(g, S) = SumFunctionOnSet(f, S)
<1> DEFINE Same(T) == SumFunctionOnSet(g, T) = SumFunctionOnSet(f, T)
           Q == {T \in SUBSET S : ~Same(T)}
<1>1. SUFFICES ASSUME Q # {} PROVE FALSE
  OBVIOUS
<1>2. PICK T \in Q : \A U \in Q : U \subseteq T => U = T
  <2>1. Q \subseteq SUBSET S
    OBVIOUS
  <2> HIDE DEF Q
  <2> QED BY <1>1, <2>1, Least
<1>3. T \in SUBSET S /\ ~Same(T)
  BY <1>2
<1>4. \A U \in SUBSET T : U # T => Same(U)
  BY <1>2, <1>3
<1>5. T # {}
  BY <1>3, SumEmpty
<1>6. PICK x \in T : TRUE
  BY <1>5
<1>7. IsFiniteSet(T)
  BY <1>3, FS_Subset
<1>8. SumFunctionOnSet(f, T) = f[x] + SumFunctionOnSet(f, T \ {x})
  BY <1>3, <1>7, SumTakeOut
<1>9. SumFunctionOnSet(g, T) = g[x] + SumFunctionOnSet(g, T \ {x})
  BY <1>3, <1>7, SumTakeOut
<1>10. Same(T \ {x})
  BY <1>4
<1> QED BY <1>3, <1>8, <1>9, <1>10

(* One element is added to the set. *)
LEMMA SumPutIn ==
  ASSUME NEW S, IsFiniteSet(S), NEW x, x \notin S, NEW f,
         \A y \in S \cup {x} : f[y] \in Int
  PROVE  SumFunctionOnSet(f, S \cup {x}) = f[x] + SumFunctionOnSet(f, S)
<1>1. IsFiniteSet(S \cup {x})
  BY FS_AddElement
<1>2. (S \cup {x}) \ {x} = S
  OBVIOUS
<1> QED BY <1>1, <1>2, SumTakeOut

(* The sum with an element more, of a function changed there alone. *)
LEMMA SumJoin ==
  ASSUME NEW S, IsFiniteSet(S), NEW x, x \notin S, NEW f, NEW g, g[x] \in Int,
         \A y \in S : f[y] \in Int /\ g[y] = f[y]
  PROVE  /\ SumFunctionOnSet(g, S) = SumFunctionOnSet(f, S)
         /\ SumFunctionOnSet(g, S \cup {x}) = SumFunctionOnSet(f, S) + g[x]
<1>1. SumFunctionOnSet(g, S) = SumFunctionOnSet(f, S)
  BY SumSame
<1>2. \A y \in S \cup {x} : g[y] \in Int
  OBVIOUS
<1>3. SumFunctionOnSet(g, S \cup {x}) = g[x] + SumFunctionOnSet(g, S)
  BY <1>2, SumPutIn
<1>4. SumFunctionOnSet(f, S) \in Int
  BY SumTakeOut
<1> QED BY <1>1, <1>3, <1>4

(* One value changes: so does the sum. *)
LEMMA SumChange ==
  ASSUME NEW S, IsFiniteSet(S), NEW f, NEW g, NEW x \in S,
         \A y \in S : f[y] \in Int /\ g[y] \in Int,
         \A y \in S \ {x} : g[y] = f[y]
  PROVE  SumFunctionOnSet(g, S) = SumFunctionOnSet(f, S) + g[x] - f[x]
<1>1. IsFiniteSet(S \ {x})
  BY FS_RemoveElement
<1>2. SumFunctionOnSet(g, S \ {x}) = SumFunctionOnSet(f, S \ {x})
  BY <1>1, SumSame
<1>3. SumFunctionOnSet(f, S \ {x}) \in Int
  BY <1>1, SumTakeOut
<1>4. SumFunctionOnSet(f, S) = f[x] + SumFunctionOnSet(f, S \ {x})
  BY SumTakeOut
<1>5. SumFunctionOnSet(g, S) = g[x] + SumFunctionOnSet(g, S \ {x})
  BY SumTakeOut
<1>6. f[x] \in Int /\ g[x] \in Int
  OBVIOUS
<1> QED BY <1>2, <1>3, <1>4, <1>5, <1>6

(* The elements whose value is 0 may be left out. *)
LEMMA SumWithoutZeros ==
  ASSUME NEW S, IsFiniteSet(S), NEW f, NEW R \in SUBSET S,
         \A x \in S : f[x] \in Int, \A x \in S \ R : f[x] = 0
  PROVE  SumFunctionOnSet(f, S) = SumFunctionOnSet(f, R)
<1> DEFINE Good(T) == SumFunctionOnSet(f, T) = SumFunctionOnSet(f, T \cap R)
           Q == {T \in SUBSET S : ~Good(T)}
<1>1. SUFFICES ASSUME Q # {} PROVE FALSE
  <2>1. S \cap R = R
    OBVIOUS
  <2> QED BY <2>1
<1>2. PICK T \in Q : \A U \in Q : U \subseteq T => U = T
  <2>1. Q \subseteq SUBSET S
    OBVIOUS
  <2> HIDE DEF Q
  <2> QED BY <1>1, <2>1, Least
<1>3. T \in SUBSET S /\ ~Good(T)
  BY <1>2
<1>4. \A U \in SUBSET T : U # T => Good(U)
  BY <1>2, <1>3
<1>5. PICK x \in T : TRUE
  <2>1. T # {}
    <3>1. {} \cap R = {}
      OBVIOUS
    <3> QED BY <1>3, <3>1
  <2> QED BY <2>1
<1>6. IsFiniteSet(T) /\ IsFiniteSet(T \cap R) /\ IsFiniteSet(T \ {x})
  <2>1. T \cap R \in SUBSET S /\ T \ {x} \in SUBSET S
    BY <1>3
  <2> QED BY <1>3, <2>1, FS_Subset
<1>7. SumFunctionOnSet(f, T) = f[x] + SumFunctionOnSet(f, T \ {x})
  BY <1>3, <1>6, SumTakeOut
<1>8. Good(T \ {x})
  BY <1>4
<1>9. CASE x \in R
  <2>1. (T \cap R) \ {x} = (T \ {x}) \cap R
    OBVIOUS
  <2>2. SumFunctionOnSet(f, T \cap R) = f[x] + SumFunctionOnSet(f, (T \cap R) \ {x})
    BY <1>3, <1>6, <1>9, SumTakeOut
  <2> QED BY <1>3, <1>7, <1>8, <2>1, <2>2
<1>10. CASE x \notin R
  <2>1. (T \ {x}) \cap R = T \cap R
    BY <1>10
  <2>2. f[x] = 0
    BY <1>3, <1>10
  <2>3. SumFunctionOnSet(f, T \ {x}) \in Int
    BY <1>3, <1>6, SumTakeOut
  <2>4. SumFunctionOnSet(f, T) = SumFunctionOnSet(f, T \ {x})
    BY <1>7, <2>2, <2>3
  <2> QED BY <1>3, <1>8, <2>1, <2>4
<1> QED BY <1>9, <1>10

(* Sums are ordered as their terms are. *)
LEMMA SumOrdered ==
  ASSUME NEW S, IsFiniteSet(S), NEW f, NEW g,
         \A x \in S : f[x] \in Int /\ g[x] \in Int /\ f[x] <= g[x]
  PROVE  SumFunctionOnSet(f, S) <= SumFunctionOnSet(g, S)
<1> DEFINE Good(T) == SumFunctionOnSet(f, T) <= SumFunctionOnSet(g, T)
           Q == {T \in SUBSET S : ~Good(T)}
<1>1. SUFFICES ASSUME Q # {} PROVE FALSE
  OBVIOUS
<1>2. PICK T \in Q : \A U \in Q : U \subseteq T => U = T
  <2>1. Q \subseteq SUBSET S
    OBVIOUS
  <2> HIDE DEF Q
  <2> QED BY <1>1, <2>1, Least
<1>3. T \in SUBSET S /\ ~Good(T)
  BY <1>2
<1>4. \A U \in SUBSET T : U # T => Good(U)
  BY <1>2, <1>3
<1>5. PICK x \in T : TRUE
  BY <1>3, SumEmpty
<1>6. IsFiniteSet(T) /\ IsFiniteSet(T \ {x})
  BY <1>3, FS_Subset, FS_RemoveElement
<1>7. /\ SumFunctionOnSet(f, T) = f[x] + SumFunctionOnSet(f, T \ {x})
      /\ SumFunctionOnSet(f, T \ {x}) \in Int
  BY <1>3, <1>6, SumTakeOut
<1>8. /\ SumFunctionOnSet(g, T) = g[x] + SumFunctionOnSet(g, T \ {x})
      /\ SumFunctionOnSet(g, T \ {x}) \in Int
  BY <1>3, <1>6, SumTakeOut
<1>9. Good(T \ {x})
  BY <1>4
<1>10. f[x] \in Int /\ g[x] \in Int /\ f[x] <= g[x]
  BY <1>3
<1> QED BY <1>3, <1>7, <1>8, <1>9, <1>10

(* Two sums over one set can be added term by term. *)
LEMMA SumPlus ==
  ASSUME NEW S, IsFiniteSet(S), NEW f, NEW g, NEW h,
         \A x \in S : f[x] \in Int /\ g[x] \in Int /\ h[x] = f[x] + g[x]
  PROVE  SumFunctionOnSet(h, S) = SumFunctionOnSet(f, S) + SumFunctionOnSet(g, S)
<1> DEFINE Good(T) == SumFunctionOnSet(h, T) = SumFunctionOnSet(f, T) + SumFunctionOnSet(g, T)
           Q == {T \in SUBSET S : ~Good(T)}
<1>1. SUFFICES ASSUME Q # {} PROVE FALSE
  OBVIOUS
<1>2. PICK T \in Q : \A U \in Q : U \subseteq T => U = T
  <2>1. Q \subseteq SUBSET S
    OBVIOUS
  <2> HIDE DEF Q
  <2> QED BY ONLY IsFiniteSet(S), <1>1, <2>1, Least
<1>3. T \in SUBSET S /\ ~Good(T)
  BY <1>2
<1>4. \A U \in SUBSET T : U # T => Good(U)
  BY <1>2, <1>3
<1>5. PICK x \in T : TRUE
  <2>1. SumFunctionOnSet(f, {}) = 0 /\ SumFunctionOnSet(g, {}) = 0 /\ SumFunctionOnSet(h, {}) = 0
    BY SumEmpty
  <2>2. Good({})
    BY ONLY <2>1
  <2>3. T # {}
    BY ONLY <1>3, <2>2
  <2> QED BY <2>3
<1>6. IsFiniteSet(T) /\ IsFiniteSet(T \ {x})
  BY <1>3, FS_Subset, FS_RemoveElement
<1>7. /\ SumFunctionOnSet(f, T) = f[x] + SumFunctionOnSet(f, T \ {x})
      /\ SumFunctionOnSet(f, T \ {x}) \in Int
  BY <1>3, <1>6, SumTakeOut
<1>8. /\ SumFunctionOnSet(g, T) = g[x] + SumFunctionOnSet(g, T \ {x})
      /\ SumFunctionOnSet(g, T \ {x}) \in Int
  BY <1>3, <1>6, SumTakeOut
<1>9. SumFunctionOnSet(h, T) = h[x] + SumFunctionOnSet(h, T \ {x})
  BY <1>3, <1>6, SumTakeOut
<1>10. Good(T \ {x})
  BY <1>4
<1>11. f[x] \in Int /\ g[x] \in Int /\ h[x] = f[x] + g[x]
  BY <1>3
<1> QED BY <1>3, <1>7, <1>8, <1>9, <1>10, <1>11

(* A sum whose terms are all at least -m is at least -m for each of them.  *)
LEMMA SumAtLeast ==
  ASSUME NEW S, IsFiniteSet(S), NEW f, NEW m \in Nat,
         \A x \in S : f[x] \in Int /\ f[x] >= 0 - m
  PROVE  SumFunctionOnSet(f, S) >= 0 - Cardinality(S) * m
<1> DEFINE Good(T) == SumFunctionOnSet(f, T) >= 0 - Cardinality(T) * m
           Q == {T \in SUBSET S : ~Good(T)}
<1>1. SUFFICES ASSUME Q # {} PROVE FALSE
  OBVIOUS
<1>2. PICK T \in Q : \A U \in Q : U \subseteq T => U = T
  <2>1. Q \subseteq SUBSET S
    OBVIOUS
  <2> HIDE DEF Q
  <2> QED BY <1>1, <2>1, Least
<1>3. T \in SUBSET S /\ ~Good(T)
  BY <1>2
<1>4. \A U \in SUBSET T : U # T => Good(U)
  BY <1>2, <1>3
<1>5. PICK x \in T : TRUE
  <2>1. CASE T = {}
    <3>1. SumFunctionOnSet(f, T) = 0 /\ Cardinality(T) = 0
      BY <2>1, SumEmpty, FS_EmptySet
    <3> QED BY <1>3, <3>1
  <2> QED BY <2>1
<1>6. IsFiniteSet(T) /\ IsFiniteSet(T \ {x})
  BY <1>3, FS_Subset, FS_RemoveElement
<1>7. /\ SumFunctionOnSet(f, T) = f[x] + SumFunctionOnSet(f, T \ {x})
      /\ SumFunctionOnSet(f, T \ {x}) \in Int
  BY <1>3, <1>6, SumTakeOut
<1>8. Good(T \ {x})
  BY <1>4
<1>9. PICK k \in Nat : Cardinality(T \ {x}) = k /\ Cardinality(T) = k + 1
  BY <1>5, <1>6, FS_CardinalityType, FS_RemoveElement
<1>10. (k + 1) * m = k * m + m /\ k * m \in Int
  OBVIOUS
<1>11. f[x] \in Int /\ f[x] >= 0 - m
  BY <1>3
<1> QED BY <1>3, <1>7, <1>8, <1>9, <1>10, <1>11

(* A finite set of integers that is not empty has a greatest element. *)
LEMMA MaxIsGreatest ==
  ASSUME NEW S, IsFiniteSet(S), S \subseteq Int, S # {}
  PROVE  Max(S) \in S /\ \A y \in S : y <= Max(S)
<1> DEFINE Good(T) == \E x \in T : \A y \in T : x >= y
           Q == {T \in SUBSET S : T # {} /\ ~Good(T)}
<1>1. SUFFICES ASSUME Q # {} PROVE FALSE
  <2>1. S \in SUBSET S
    OBVIOUS
  <2>2. Q = {} => Good(S)
    BY <2>1
  <2> QED BY <2>2 DEF Max
<1>2. PICK T \in Q : \A U \in Q : U \subseteq T => U = T
  <2>1. Q \subseteq SUBSET S
    OBVIOUS
  <2> HIDE DEF Q
  <2> QED BY ONLY IsFiniteSet(S), <1>1, <2>1, Least
<1>3. T \in SUBSET S /\ ~Good(T) /\ T # {}
  BY <1>2
<1>4. PICK x \in T : TRUE
  BY <1>3
<1>5. CASE T = {x}
  BY <1>3, <1>5
<1>6. CASE T # {x}
  <2>1. T \ {x} \in SUBSET S /\ T \ {x} # {} /\ T \ {x} # T
    BY <1>3, <1>6
  <2>2. Good(T \ {x})
    BY <1>2, <2>1
  <2>3. PICK z \in T \ {x} : \A y \in T \ {x} : z >= y
    BY <2>2
  <2>4. x \in Int /\ \A y \in T : y \in Int
    BY <1>3
  <2>5. CASE x >= z
    <3>1. \A y \in T : x >= y
      BY <2>3, <2>4, <2>5
    <3> QED BY <1>3, <3>1
  <2>6. CASE ~(x >= z)
    <3>1. \A y \in T : z >= y
      BY <2>3, <2>4, <2>6
    <3> QED BY <1>3, <3>1
  <2> QED BY <2>5, <2>6
<1> QED BY <1>5, <1>6
=============================================================================
