----------------------------- MODULE Induction -------------------------------
(***************************************************************************)
(* Induction over the natural numbers for the proofs of this project, with *)
(* a set of numbers in place of a predicate, and what it gives: recursive  *)
(* definitions along a list of steps.  Also facts on the size of sets and  *)
(* on sequences without a type.                                            *)
(***************************************************************************)
EXTENDS Lists, Integers, FiniteSets, FiniteSetTheorems, WellFoundedInduction, TLAPS

\* A non-empty set of natural numbers has a least member.
LEMMA Least ==
    ASSUME NEW T \in SUBSET Nat, T # {}
    PROVE  \E m \in T : \A k \in T : m <= k
  <1> DEFINE R == OpToRel(<, Nat)
  <1>1. IsWellFoundedOn(R, Nat)
    BY NatLessThanWellFounded
  <1>2. \A x, y \in Nat : x < y => <<x, y>> \in R
    BY DEF OpToRel
  <1> HIDE DEF R
  <1>3. PICK x \in T : \A y \in T : ~ (<<y, x>> \in R)
    BY <1>1, WFMin
  <1>4. ASSUME NEW k \in T PROVE x <= k
    <2>1. ~ (k < x)
      BY <1>2, <1>3
    <2> QED
      BY <2>1
  <1> QED
    BY <1>4

\* A set with 0 and the successor of each of its members has every number.
LEMMA SetInduction ==
    ASSUME NEW S, 0 \in S, \A n \in Nat : n \in S => n + 1 \in S
    PROVE  Nat \subseteq S
  <1> SUFFICES ASSUME Nat \ S # {} PROVE FALSE
    OBVIOUS
  <1>1. PICK m \in Nat \ S : \A k \in Nat \ S : m <= k
    BY Least
  <1>2. m # 0
    BY <1>1
  <1>3. m - 1 \in Nat /\ m - 1 \notin Nat \ S
    BY <1>1, <1>2
  <1> QED
    BY <1>1, <1>3

\* The same up to a number.
LEMMA UpTo ==
    ASSUME NEW n \in Nat, NEW S, 0 \in S,
           \A i \in 1..n : i - 1 \in S => i \in S
    PROVE  0..n \subseteq S
  <1> DEFINE U == {i \in Nat : i \in S \/ i > n}
  <1>1. 0 \in U
    OBVIOUS
  <1>2. \A i \in Nat : i \in U => i + 1 \in U
    <2> SUFFICES ASSUME NEW i \in Nat, i \in U, i + 1 <= n PROVE i + 1 \in S
      OBVIOUS
    <2>1. i \in S /\ i + 1 \in 1..n /\ (i + 1) - 1 = i
      OBVIOUS
    <2> QED
      BY <2>1
  <1> HIDE DEF U
  <1>3. Nat \subseteq U
    BY <1>1, <1>2, SetInduction
  <1> QED
    BY <1>3 DEF U

\* Steps 1 to n, each from the result of the one before, lead somewhere: there
\* is a function that lists the results.
LEMMA Recursion ==
    ASSUME NEW V, NEW v \in V, NEW n \in Nat, NEW G \in [1..n -> [V -> V]]
    PROVE  \E f \in [0..n -> V] : f[0] = v /\ \A i \in 1..n : f[i] = G[i][f[i - 1]]
  <1> DEFINE Lists(m, f) == f[0] = v /\ \A i \in 1..m : f[i] = G[i][f[i - 1]]
             S == {m \in Nat : \E f \in [0..m -> V] : Lists(m, f)}
  <1>1. 0 \in S
    <2> DEFINE f == [i \in 0..0 |-> v]
    <2>1. f \in [0..0 -> V] /\ Lists(0, f)
      OBVIOUS
    <2> QED
      BY <2>1
  <1>2. \A i \in 1..n : i - 1 \in S => i \in S
    <2> SUFFICES ASSUME NEW i \in 1..n, i - 1 \in S PROVE i \in S
      OBVIOUS
    <2>1. PICK g \in [0..(i - 1) -> V] : Lists(i - 1, g)
      OBVIOUS
    <2> DEFINE f == [j \in 0..i |-> IF j < i THEN g[j] ELSE G[i][g[i - 1]]]
    <2>2. G[i][g[i - 1]] \in V
      OBVIOUS
    <2>3. f \in [0..i -> V]
      BY <2>2
    <2>4. f[0] = v
      BY <2>1
    <2>5. ASSUME NEW j \in 1..i PROVE f[j] = G[j][f[j - 1]]
      <3>1. f[j - 1] = g[j - 1]
        OBVIOUS
      <3>2. CASE j < i
        <4>1. f[j] = g[j] /\ j \in 1..(i - 1)
          BY <3>2
        <4> QED
          BY <2>1, <3>1, <4>1
      <3>3. CASE j = i
        <4>1. f[i] = G[i][g[i - 1]] /\ f[i - 1] = g[i - 1]
          OBVIOUS
        <4> QED
          BY <3>3, <4>1
      <3> QED
        BY <3>2, <3>3
    <2> HIDE DEF f
    <2>6. Lists(i, f)
      BY <2>4, <2>5
    <2>7. i \in Nat
      OBVIOUS
    <2> HIDE DEF Lists
    <2> QED
      BY <2>3, <2>6, <2>7, Zenon
  <1> HIDE DEF S
  <1>3. 0..n \subseteq S
    BY <1>1, <1>2, UpTo
  <1>4. n \in S
    BY <1>3
  <1> QED
    BY <1>4 DEF S

\* The values of a function on a finite set are finitely many.
LEMMA FiniteImage ==
    ASSUME NEW f, IsFiniteSet(DOMAIN f)
    PROVE  LET T == {f[x] : x \in DOMAIN f}
           IN  IsFiniteSet(T) /\ Cardinality(T) <= Cardinality(DOMAIN f)
  <1> DEFINE S == DOMAIN f
             T == {f[x] : x \in S}
             g == [x \in S |-> f[x]]
  <1>1. g \in Surjection(S, T)
    BY DEF Surjection
  <1>2. IsFiniteSet(S)
    OBVIOUS
  <1> HIDE DEF S, T, g
  <1>3. IsFiniteSet(T) /\ Cardinality(T) <= Cardinality(S)
    BY <1>1, <1>2, FS_Surjection
  <1> QED
    BY <1>3 DEF S, T

\* A finite set of numbers has a greatest member.
LEMMA Greatest ==
    ASSUME NEW T \in SUBSET Int, IsFiniteSet(T), T # {}
    PROVE  \E m \in T : \A k \in T : k <= m
  <1> DEFINE S == {n \in Nat : \A U \in SUBSET Int :
                     IsFiniteSet(U) /\ Cardinality(U) = n /\ U # {} => \E m \in U : \A k \in U : k <= m}
  <1>1. 0 \in S
    BY FS_EmptySet
  <1>2. ASSUME NEW n \in Nat, n \in S PROVE n + 1 \in S
    <2> SUFFICES ASSUME NEW U \in SUBSET Int, IsFiniteSet(U), Cardinality(U) = n + 1, U # {}
                 PROVE  \E m \in U : \A k \in U : k <= m
      OBVIOUS
    <2>1. PICK x \in U : TRUE
      OBVIOUS
    <2> DEFINE W == U \ {x}
    <2>2. W \in SUBSET Int /\ IsFiniteSet(W) /\ Cardinality(W) = n
      <3>1. IsFiniteSet(W) /\ Cardinality(W) = Cardinality(U) - 1
        BY <2>1, FS_RemoveElement, Zenon
      <3> QED
        BY <3>1
    <2>3. CASE W = {}
      BY <2>3
    <2>4. CASE W # {}
      <3>1. PICK m \in W : \A k \in W : k <= m
        BY <1>2, <2>2, <2>4
      <3> QED
        BY <3>1
    <2> QED
      BY <2>3, <2>4
  <1> HIDE DEF S
  <1>3. Nat \subseteq S
    BY <1>1, <1>2, SetInduction
  <1>4. Cardinality(T) \in S
    BY <1>3, FS_CardinalityType
  <1> QED
    BY <1>4 DEF S

-----------------------------------------------------------------------------
\* Sequences without a type.
LEMMA IsList == ASSUME NEW R, NEW s \in Seq(R) PROVE List(s)
  <1> DEFINE T == {s[i] : i \in DOMAIN s}
  <1>1. \A i \in 1..Len(s) : s[i] \in T
    OBVIOUS
  <1>2. s = [i \in 1..Len(s) |-> s[i]] /\ Len(s) \in Nat
    OBVIOUS
  <1> HIDE DEF T
  <1>3. s \in Seq(T)
    BY <1>1, <1>2
  <1> QED
    BY <1>3 DEF List, T

\* A list has a length and its positions are 1 up to it.
LEMMA ListFacts ==
    ASSUME NEW s, List(s)
    PROVE  Len(s) \in Nat /\ DOMAIN s = 1..Len(s)
  BY DEF List

\* A list of elements of S is a sequence over S.
LEMMA ListIn ==
    ASSUME NEW s, List(s), NEW S, \A j \in DOMAIN s : s[j] \in S
    PROVE  s \in Seq(S)
  <1> DEFINE T == {s[i] : i \in DOMAIN s}
  <1>1. s \in Seq(T)
    BY DEF List
  <1> HIDE DEF T
  <1>2. s = [j \in 1..Len(s) |-> s[j]] /\ Len(s) \in Nat /\ DOMAIN s = 1..Len(s)
    BY <1>1
  <1> QED
    BY <1>2

\* Appending to a list: one more position, one more element.
LEMMA AppendFacts ==
    ASSUME NEW s, List(s), NEW e
    PROVE  /\ List(Append(s, e))
           /\ {Append(s, e)[i] : i \in DOMAIN Append(s, e)} = {s[i] : i \in DOMAIN s} \cup {e}
           /\ DOMAIN Append(s, e) = 1..(Len(s) + 1)
           /\ \A i \in DOMAIN s : Append(s, e)[i] = s[i]
           /\ Append(s, e)[Len(s) + 1] = e
  <1> DEFINE T == {s[i] : i \in DOMAIN s} \cup {e}
  <1>1. s \in Seq(T) /\ e \in T
    BY DEF List
  <1>2. \A i \in DOMAIN s : s[i] \in T
    OBVIOUS
  <1>3. \A x \in T : x = e \/ \E i \in DOMAIN s : s[i] = x
    OBVIOUS
  <1> HIDE DEF T
  <1>4. Append(s, e) \in Seq(T)
    BY <1>1
  <1>5. /\ DOMAIN Append(s, e) = 1..(Len(s) + 1) /\ DOMAIN s = 1..Len(s) /\ Len(s) \in Nat
        /\ \A i \in DOMAIN s : Append(s, e)[i] = s[i]
        /\ Append(s, e)[Len(s) + 1] = e
    BY <1>1
  <1>6. {Append(s, e)[i] : i \in DOMAIN Append(s, e)} = T
    BY <1>1, <1>2, <1>3, <1>5
  <1> QED
    BY <1>4, <1>5, <1>6, IsList DEF T

\* A list grows by one, at its end.
LEMMA AppendLen ==
    ASSUME NEW s, List(s), NEW e
    PROVE  /\ List(Append(s, e)) /\ Len(Append(s, e)) = Len(s) + 1 /\ Append(s, e)[Len(s) + 1] = e
           /\ \A i \in 1..Len(s) : Append(s, e)[i] = s[i]
  <1> DEFINE T == {s[i] : i \in DOMAIN s} \cup {e}
  <1>1. s \in Seq(T)
    BY DEF List
  <1> HIDE DEF T
  <1>2. Len(Append(s, e)) = Len(s) + 1
    BY <1>1
  <1> QED
    BY <1>2, AppendFacts, ListFacts

\* What Tail and Head of a list are.
LEMMA TailFacts ==
    ASSUME NEW s, List(s), s # <<>>
    PROVE  /\ List(Tail(s))
           /\ Head(s) \in {s[i] : i \in DOMAIN s}
           /\ {Tail(s)[i] : i \in DOMAIN Tail(s)} \subseteq {s[i] : i \in DOMAIN s}
  <1> DEFINE T == {s[i] : i \in DOMAIN s}
  <1>1. s \in Seq(T)
    BY DEF List
  <1> HIDE DEF T
  <1>2. Tail(s) \in Seq(T) /\ Head(s) \in T
    BY <1>1
  <1>3. \A i \in DOMAIN Tail(s) : Tail(s)[i] \in T
    BY <1>2
  <1> QED
    BY <1>2, <1>3, IsList DEF T

\* Lists are closed under concatenation.
LEMMA ConcatList ==
    ASSUME NEW s, List(s), NEW u, List(u)
    PROVE  List(s \o u)
  <1> DEFINE T == {s[i] : i \in DOMAIN s} \cup {u[i] : i \in DOMAIN u}
  <1>1. s \in Seq(T) /\ u \in Seq(T)
    BY DEF List
  <1> HIDE DEF T
  <1>2. s \o u \in Seq(T)
    BY <1>1
  <1> QED
    BY <1>2, IsList
=============================================================================
