----------------------------- MODULE AmountSums -----------------------------
(***************************************************************************)
(* Facts about the sum of the amounts of a finite set of entries: the fold *)
(* of the community modules is well defined, and an element may be taken   *)
(* out of the sum whichever it is.                                         *)
(***************************************************************************)
EXTENDS Integers, FiniteSets, FiniteSetsExt, FiniteSetTheorems,
        WellFoundedInduction, TLAPS

(* The sum of the amounts of u over the set of indices S. *)
SumOf(u, S) == MapThenSumSet(LAMBDA i : u[i].amount, S)

(* One round of the fold, G being the function that the fold computes. *)
Round(u, G, s) ==
  IF s = {} THEN 0
  ELSE LET x == CHOOSE x \in s : TRUE IN u[x].amount + G[s \ {x}]

(* G computes the fold on every subset of S. *)
Computes(u, G, S) == G = [s \in SUBSET S |-> Round(u, G, s)]

-----------------------------------------------------------------------------
(* A family of subsets of a finite set has a minimal member. *)
LEMMA MinimalSubset ==
  ASSUME NEW S, IsFiniteSet(S), NEW F \in SUBSET (SUBSET S), F # {}
  PROVE  \E A \in F : \A B \in F : B \subseteq A => B = A
<1>1. IsWellFoundedOn(StrictSubsetOrdering(S), SUBSET S)
  BY FS_StrictSubsetOrderingWellFounded, FS_FiniteSubsetsOfFinite
<1>2. PICK A \in F : \A B \in F : ~(<<B, A>> \in StrictSubsetOrdering(S))
  BY <1>1, WFMin
<1>3. \A B \in F : B \subseteq A /\ B # A => <<B, A>> \in StrictSubsetOrdering(S)
  BY DEF StrictSubsetOrdering
<1>4. \A B \in F : ~(B \subseteq A /\ B # A)
  BY <1>2, <1>3
<1> QED
  BY <1>4

(* The fold is the value at S of a function that computes it. *)
LEMMA SumIsFold ==
  ASSUME NEW u, NEW S
  PROVE  SumOf(u, S) = (CHOOSE G : Computes(u, G, S))[S]
  BY DEF SumOf, MapThenSumSet, MapThenFoldSet, Computes, Round

(* Two functions that compute the fold agree where both are defined. *)
LEMMA ComputationsAgree ==
  ASSUME NEW u, NEW S, IsFiniteSet(S), NEW T \in SUBSET S,
         NEW G, Computes(u, G, S), NEW H, Computes(u, H, T)
  PROVE  \A s \in SUBSET T : G[s] = H[s]
<1> DEFINE differing == {s \in SUBSET T : G[s] # H[s]}
<1>1. SUFFICES ASSUME differing # {}
               PROVE  FALSE
  OBVIOUS
<1>2. PICK s \in differing : \A t \in differing : t \subseteq s => t = s
  <2>1. IsFiniteSet(T) /\ differing \in SUBSET (SUBSET T)
    BY FS_Subset
  <2> HIDE DEF differing
  <2> QED
    BY <1>1, <2>1, MinimalSubset
<1>3. G[s] = Round(u, G, s) /\ H[s] = Round(u, H, s)
  BY DEF Computes
<1>4. CASE s = {}
  BY <1>2, <1>3, <1>4 DEF Round
<1>5. CASE s # {}
  <2> DEFINE x == CHOOSE x \in s : TRUE
  <2>1. x \in s
    BY <1>5
  <2>2. G[s \ {x}] = H[s \ {x}]
    BY <1>2, <2>1
  <2> QED
    BY <1>2, <1>3, <1>5, <2>2 DEF Round
<1> QED
  BY <1>4, <1>5

(* If the subsets of S but S itself have a function, the fold follows its  *)
(* recursion on them.                                                      *)
LEMMA RecursionHolds ==
  ASSUME NEW u, NEW S, IsFiniteSet(S), S # {},
         \E G : Computes(u, G, S),
         \A s \in SUBSET S : \E G : Computes(u, G, s)
  PROVE  LET x == CHOOSE x \in S : TRUE IN
         SumOf(u, S) = u[x].amount + SumOf(u, S \ {x})
<1> DEFINE x == CHOOSE x \in S : TRUE
           G == CHOOSE G : Computes(u, G, S)
           H == CHOOSE H : Computes(u, H, S \ {x})
<1>1. Computes(u, G, S) /\ Computes(u, H, S \ {x})
  OBVIOUS
<1>2. SumOf(u, S) = G[S] /\ SumOf(u, S \ {x}) = H[S \ {x}]
  BY SumIsFold
<1> HIDE DEF G, H
<1>3. G[S] = Round(u, G, S)
  BY <1>1 DEF Computes
<1>4. G[S] = u[x].amount + G[S \ {x}]
  BY <1>3 DEF Round
<1>5. G[S \ {x}] = H[S \ {x}]
  BY <1>1, ComputationsAgree
<1> QED
  BY <1>2, <1>4, <1>5

(* Every finite set has a function that computes its fold. *)
LEMMA ComputationExists ==
  ASSUME NEW u, NEW S, IsFiniteSet(S)
  PROVE  \E G : Computes(u, G, S)
<1> DEFINE bad == {s \in SUBSET S : ~\E G : Computes(u, G, s)}
<1>1. SUFFICES ASSUME bad # {}
               PROVE  FALSE
  OBVIOUS
<1>2. PICK T \in bad : \A t \in bad : t \subseteq T => t = T
  <2>1. bad \in SUBSET (SUBSET S)
    OBVIOUS
  <2> HIDE DEF bad
  <2> QED
    BY <1>1, <2>1, MinimalSubset
<1>3. IsFiniteSet(T) /\ \A s \in SUBSET T : IsFiniteSet(s)
  BY FS_Subset
<1>4. \A s \in SUBSET T : s # T => \E G : Computes(u, G, s)
  BY <1>2
<1> DEFINE known == [s \in SUBSET T |-> SumOf(u, s)]
           G == [s \in SUBSET T |-> IF s = T THEN Round(u, known, T) ELSE SumOf(u, s)]
<1>5. \A s \in SUBSET T : G[s] = Round(u, G, s)
  <2> SUFFICES ASSUME NEW s \in SUBSET T
               PROVE  G[s] = Round(u, G, s)
    OBVIOUS
  <2> DEFINE x == CHOOSE x \in s : TRUE
  <2>1. CASE s = {}
    <3>1. Round(u, known, s) = 0 /\ Round(u, G, s) = 0
      BY <2>1 DEF Round
    <3>2. CASE s = T
      BY <3>1, <3>2
    <3>3. CASE s # T
      <4>1. PICK H : Computes(u, H, s)
        BY <1>4, <3>3
      <4>2. Computes(u, CHOOSE F : Computes(u, F, s), s)
        BY <4>1
      <4>3. SumOf(u, s) = Round(u, CHOOSE F : Computes(u, F, s), s)
        BY <4>2, SumIsFold DEF Computes
      <4> QED
        BY <2>1, <3>1, <3>3, <4>3 DEF Round
    <3> QED
      BY <3>2, <3>3
  <2>2. CASE s # {}
    <3>1. x \in s /\ s \ {x} \in SUBSET T /\ s \ {x} # T /\ s \ {x} # s
      BY <2>2
    <3>2. G[s \ {x}] = SumOf(u, s \ {x}) /\ known[s \ {x}] = SumOf(u, s \ {x})
      BY <3>1
    <3>3. Round(u, G, s) = u[x].amount + SumOf(u, s \ {x})
      BY <2>2, <3>2 DEF Round
    <3>4. CASE s = T
      <4>1. Round(u, known, T) = u[x].amount + SumOf(u, s \ {x})
        BY <2>2, <3>2, <3>4 DEF Round
      <4> QED
        BY <3>3, <3>4, <4>1
    <3>5. CASE s # T
      <4>1. SumOf(u, s) = u[x].amount + SumOf(u, s \ {x})
        <5>1. /\ \E F : Computes(u, F, s)
              /\ \A t \in SUBSET s : \E F : Computes(u, F, t)
          BY <1>4, <3>5
        <5> QED
          BY <1>3, <2>2, <5>1, RecursionHolds
      <4> QED
        BY <3>3, <3>5, <4>1
    <3> QED
      BY <3>4, <3>5
  <2> QED
    BY <2>1, <2>2
<1>6. Computes(u, G, T)
  <2> HIDE DEF known
  <2>1. G \in [SUBSET T -> {G[s] : s \in SUBSET T}]
    OBVIOUS
  <2> QED
    BY <1>5 DEF Computes
<1> QED
  BY <1>2, <1>6

-----------------------------------------------------------------------------
(* Nothing sums to nothing. *)
LEMMA SumOfNothing ==
  ASSUME NEW u
  PROVE  SumOf(u, {}) = 0
<1>1. PICK G : Computes(u, G, {})
  BY ComputationExists, FS_EmptySet
<1>2. Computes(u, CHOOSE H : Computes(u, H, {}), {})
  BY <1>1
<1> QED
  BY <1>2, SumIsFold DEF Computes, Round

(* The chosen element can be taken out of the sum. *)
LEMMA SumOfChosen ==
  ASSUME NEW u, NEW S, IsFiniteSet(S), S # {}
  PROVE  LET x == CHOOSE x \in S : TRUE IN
         SumOf(u, S) = u[x].amount + SumOf(u, S \ {x})
<1>1. \A s \in SUBSET S : \E G : Computes(u, G, s)
  BY ComputationExists, FS_Subset
<1> QED
  BY <1>1, RecursionHolds

(* A sum of naturals is a natural. *)
LEMMA SumIsNatural ==
  ASSUME NEW u, NEW S, IsFiniteSet(S), \A i \in S : u[i].amount \in Nat
  PROVE  SumOf(u, S) \in Nat
<1> DEFINE bad == {s \in SUBSET S : SumOf(u, s) \notin Nat}
<1>1. SUFFICES ASSUME bad # {}
               PROVE  FALSE
  OBVIOUS
<1>2. PICK T \in bad : \A t \in bad : t \subseteq T => t = T
  <2>1. bad \in SUBSET (SUBSET S)
    OBVIOUS
  <2> HIDE DEF bad
  <2> QED
    BY <1>1, <2>1, MinimalSubset
<1>3. T # {}
  BY SumOfNothing
<1> DEFINE x == CHOOSE x \in T : TRUE
<1>4. x \in T
  BY <1>3
<1>5. SumOf(u, T \ {x}) \in Nat
  BY <1>2, <1>4
<1>6. SumOf(u, T) = u[x].amount + SumOf(u, T \ {x})
  BY <1>3, SumOfChosen, FS_Subset
<1>7. u[x].amount \in Nat
  BY <1>4
<1> HIDE DEF x
<1> QED
  BY <1>5, <1>6, <1>7

(* Any element can be taken out of the sum. *)
LEMMA SumTakesOut ==
  ASSUME NEW u, NEW S, IsFiniteSet(S), \A i \in S : u[i].amount \in Nat
  PROVE  \A i \in S : SumOf(u, S) = u[i].amount + SumOf(u, S \ {i})
<1> DEFINE Holds(s) == \A i \in s : SumOf(u, s) = u[i].amount + SumOf(u, s \ {i})
           bad == {s \in SUBSET S : ~Holds(s)}
<1>1. SUFFICES ASSUME bad # {}
               PROVE  FALSE
  OBVIOUS
<1>2. PICK T \in bad : \A t \in bad : t \subseteq T => t = T
  <2>1. bad \in SUBSET (SUBSET S)
    OBVIOUS
  <2> HIDE DEF bad
  <2> QED
    BY <1>1, <2>1, MinimalSubset
<1>3. T # {}
  OBVIOUS
<1> DEFINE x == CHOOSE x \in T : TRUE
<1>4. x \in T
  BY <1>3
<1>5. SumOf(u, T) = u[x].amount + SumOf(u, T \ {x})
  BY <1>3, SumOfChosen, FS_Subset
<1> HIDE DEF x
<1>6. PICK i \in T : SumOf(u, T) # u[i].amount + SumOf(u, T \ {i})
  OBVIOUS
<1>7. i # x
  BY <1>5, <1>6
<1>8. Holds(T \ {x}) /\ Holds(T \ {i})
  BY <1>2, <1>4
<1>9. SumOf(u, T \ {x}) = u[i].amount + SumOf(u, (T \ {x}) \ {i})
  BY <1>7, <1>8
<1>10. SumOf(u, T \ {i}) = u[x].amount + SumOf(u, (T \ {i}) \ {x})
  BY <1>4, <1>7, <1>8
<1>11. (T \ {x}) \ {i} = (T \ {i}) \ {x}
  OBVIOUS
<1>12. SumOf(u, (T \ {i}) \ {x}) \in Nat
  <2>1. (T \ {i}) \ {x} \in SUBSET S
    OBVIOUS
  <2>2. IsFiniteSet((T \ {i}) \ {x})
    BY <2>1, FS_Subset
  <2> QED
    BY <2>2, SumIsNatural
<1>13. u[x].amount \in Nat /\ u[i].amount \in Nat
  BY <1>4
<1> HIDE DEF Holds, bad
<1> DEFINE a == u[x].amount
           b == u[i].amount
           c == SumOf(u, (T \ {i}) \ {x})
<1>14. /\ SumOf(u, T) = a + SumOf(u, T \ {x})
       /\ SumOf(u, T \ {x}) = b + c
       /\ SumOf(u, T \ {i}) = a + c
       /\ a \in Nat /\ b \in Nat /\ c \in Nat
       /\ SumOf(u, T) # b + SumOf(u, T \ {i})
  BY <1>5, <1>6, <1>9, <1>10, <1>11, <1>12, <1>13
<1> HIDE DEF a, b, c
<1> QED
  BY <1>14
=============================================================================
