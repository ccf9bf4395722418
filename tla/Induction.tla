------------------------------- MODULE Induction -------------------------------
(***************************************************************************)
(* Induction over the naturals, and the recursive functions it gives, for  *)
(* sets and functions: the theorems of NaturalsInduction speak of any      *)
(* predicate and cannot be cited, those of WellFoundedInduction that speak *)
(* of a set can.                                                           *)
(***************************************************************************)
EXTENDS Places, WellFoundedInduction, TLAPS

Lower == {ss \in Nat \X Nat : ss[1] < ss[2]}

\* No descent in the natural numbers is infinite.
LEMMA LowerIsWellFounded == IsWellFoundedOn(Lower, Nat)
  BY NatLessThanWellFounded DEF OpToRel, Lower

\* A set of naturals has a least member.
LEMMA LeastOf ==
  ASSUME NEW T, T \subseteq Nat, T # {}
  PROVE  \E x \in T : \A y \in T : x <= y
<1>1. PICK x \in T : \A y \in T : ~ (<<y, x>> \in Lower)
  BY LowerIsWellFounded, WFMin
<1>2. \A y \in T : ~ (y < x)
  BY <1>1 DEF Lower
<1> QED
  BY <1>1, <1>2

\* A set that has 0, and what follows each of its members, has every natural.
LEMMA SetInduction ==
  ASSUME NEW P, 0 \in P, \A n \in Nat : n \in P => n + 1 \in P
  PROVE  Nat \subseteq P
<1> SUFFICES ASSUME Nat \ P # {} PROVE FALSE
  OBVIOUS
<1>1. PICK x \in Nat \ P : \A y \in Nat \ P : x <= y
  BY LeastOf
<1>2. x # 0 /\ x - 1 \in Nat /\ x - 1 \in P
  BY <1>1
<1>3. x \in P
  BY <1>2
<1> QED
  BY <1>1, <1>3

\* A first value and a step make a sequence of values, up to any place.
Follows(f, first, step, last) ==
  f = [n \in 0 .. last |-> IF n = 0 THEN first ELSE step[<<n, f[n - 1]>>]]

LEMMA Recursion ==
  ASSUME NEW S, NEW first \in S, NEW step \in [Nat \X S -> S], NEW last \in Nat
  PROVE  \E f \in [0 .. last -> S] : Follows(f, first, step, last)
<1> DEFINE P == {m \in Nat : \E f \in [0 .. m -> S] : Follows(f, first, step, m)}
<1>1. 0 \in P
  <2> DEFINE f == [n \in 0 .. 0 |-> first]
  <2>1. f \in [0 .. 0 -> S]
    OBVIOUS
  <2>2. f = [n \in 0 .. 0 |-> IF n = 0 THEN first ELSE step[<<n, f[n - 1]>>]]
    OBVIOUS
  <2> QED
    BY <2>1, <2>2 DEF Follows
<1>2. ASSUME NEW m \in Nat, m \in P PROVE m + 1 \in P
  <2>1. PICK f \in [0 .. m -> S] : Follows(f, first, step, m)
    BY <1>2
  <2>2. \A n \in 0 .. m : f[n] = IF n = 0 THEN first ELSE step[<<n, f[n - 1]>>]
    BY <2>1 DEF Follows
  <2> DEFINE g == [n \in 0 .. m + 1 |-> IF n = m + 1 THEN step[<<n, f[m]>>] ELSE f[n]]
  <2>3. f[m] \in S
    OBVIOUS
  <2>4. step[<<m + 1, f[m]>>] \in S
    BY <2>3
  <2>5. g \in [0 .. m + 1 -> S]
    BY <2>4
  <2>6. ASSUME NEW n \in 0 .. m + 1
        PROVE  g[n] = IF n = 0 THEN first ELSE step[<<n, g[n - 1]>>]
    <3>1. CASE n = m + 1
      <4>1. n # 0 /\ n - 1 = m /\ m \in 0 .. m + 1 /\ m # m + 1
        BY <3>1
      <4>2. g[m] = f[m]
        BY <4>1
      <4> QED
        BY <3>1, <4>1, <4>2
    <3>2. CASE n = 0
      <4>1. 0 \in 0 .. m /\ 0 # m + 1
        OBVIOUS
      <4>2. f[0] = first
        BY <2>2, <4>1
      <4>3. g[0] = f[0]
        BY <4>1
      <4>4. g[0] = first
        BY <4>2, <4>3
      <4> HIDE DEF g
      <4> QED
        BY <3>2, <4>4
    <3>3. CASE n # 0 /\ n # m + 1
      <4>1. n \in 0 .. m /\ n - 1 \in 0 .. m
        BY <3>3
      <4>2. g[n] = f[n] /\ g[n - 1] = f[n - 1]
        BY <4>1
      <4> QED
        BY <2>2, <3>3, <4>1, <4>2
    <3> QED
      BY <3>1, <3>2, <3>3
  <2> HIDE DEF g
  <2>7. Follows(g, first, step, m + 1)
    <3>1. g = [n \in 0 .. m + 1 |-> g[n]]
      BY <2>5
    <3> QED
      BY <2>6, <3>1 DEF Follows
  <2> QED
    BY <2>5, <2>7
<1>3. Nat \subseteq P
  <2> HIDE DEF P
  <2> QED
    BY <1>1, <1>2, SetInduction
<1> QED
  BY <1>3

-----------------------------------------------------------------------------
(* Sequences one after the other *)

\* f joins the parts up to each place until last.
Joins(f, parts, last) ==
  f = [i \in 0 .. last |->
         IF i = 0 THEN <<>> ELSE IF i \in DOMAIN parts THEN f[i - 1] \o parts[i] ELSE f[i - 1]]

\* Sequences can be joined up to any place.
LEMMA JoinsExists ==
  ASSUME NEW X, NEW parts, \A i \in DOMAIN parts : parts[i] \in Seq(X), NEW last \in Nat
  PROVE  \E f \in [0 .. last -> Seq(X)] : Joins(f, parts, last)
<1> DEFINE D == Seq(X)
           first == <<>>
           step == [p \in Nat \X D |-> IF p[1] \in DOMAIN parts THEN p[2] \o parts[p[1]] ELSE p[2]]
<1>1. first \in D
  OBVIOUS
<1>2. step \in [Nat \X D -> D]
  <2>1. \A s, t \in D : s \o t \in D
    OBVIOUS
  <2>2. \A i \in DOMAIN parts : parts[i] \in D
    OBVIOUS
  <2> HIDE DEF D
  <2> QED
    BY <2>1, <2>2
<1>3. PICK f \in [0 .. last -> D] : Follows(f, first, step, last)
  <2> HIDE DEF step, D, first
  <2> QED
    BY <1>1, <1>2, Recursion
<1>4. ASSUME NEW i \in 0 .. last, i # 0
      PROVE  f[i] = IF i \in DOMAIN parts THEN f[i - 1] \o parts[i] ELSE f[i - 1]
  <2>1. i - 1 \in 0 .. last /\ i \in Nat
    BY <1>4
  <2> DEFINE q == <<i, f[i - 1]>>
  <2>2. q \in Nat \X D /\ q[1] = i /\ q[2] = f[i - 1]
    BY <2>1
  <2>3. f[i] = step[q]
    <3> HIDE DEF step
    <3> QED
      BY <1>3, <1>4 DEF Follows
  <2> HIDE DEF q, D
  <2> QED
    BY <2>2, <2>3
<1>5. f[0] = first
  <2> HIDE DEF step, first, D
  <2>1. 0 \in 0 .. last
    OBVIOUS
  <2> QED
    BY <1>3, <2>1 DEF Follows
<1> HIDE DEF step
<1>6. f = [i \in 0 .. last |-> f[i]]
  OBVIOUS
<1>7. Joins(f, parts, last)
  BY <1>4, <1>5, <1>6 DEF Joins
<1> QED
  BY <1>7

\* Up to a place, there is one way to join.
LEMMA JoinsOnce ==
  ASSUME NEW parts, NEW m \in Nat, NEW n \in Nat, NEW f, Joins(f, parts, m),
         NEW g, Joins(g, parts, n), m <= n
  PROVE  \A i \in 0 .. m : f[i] = g[i]
<1> DEFINE P == {i \in Nat : i <= m => f[i] = g[i]}
<1> DEFINE Next1(h, i) == IF i \in DOMAIN parts THEN h[i - 1] \o parts[i] ELSE h[i - 1]
<1>1. \A i \in 0 .. m : f[i] = IF i = 0 THEN <<>> ELSE Next1(f, i)
  BY DEF Joins
<1>5. \A i \in 0 .. m : g[i] = IF i = 0 THEN <<>> ELSE Next1(g, i)
  <2>1. \A i \in 0 .. n : g[i] = IF i = 0 THEN <<>> ELSE Next1(g, i)
    BY DEF Joins
  <2> HIDE DEF Next1
  <2> QED
    BY <2>1
<1>2. 0 \in P
  <2>1. f[0] = <<>> /\ g[0] = <<>>
    BY <1>1, <1>5
  <2> QED
    BY <2>1
<1>3. ASSUME NEW i \in Nat, i \in P PROVE i + 1 \in P
  <2> SUFFICES ASSUME i + 1 <= m PROVE f[i + 1] = g[i + 1]
    OBVIOUS
  <2>1. i + 1 \in 0 .. m /\ i + 1 # 0 /\ (i + 1) - 1 = i /\ f[i] = g[i]
    BY <1>3
  <2>2. f[i + 1] = Next1(f, i + 1) /\ g[i + 1] = Next1(g, i + 1)
    <3> HIDE DEF Next1
    <3> QED
      BY <1>1, <1>5, <2>1
  <2> QED
    BY <2>1, <2>2
<1>4. Nat \subseteq P
  <2> HIDE DEF P
  <2> QED
    BY <1>2, <1>3, SetInduction
<1> QED
  BY <1>4

\* What is joined so far is a sequence, and one more place adds its part, if it has one.
LEMMA JoinedMore ==
  ASSUME NEW X, NEW parts, \A i \in DOMAIN parts : parts[i] \in Seq(X), NEW m \in Nat
  PROVE  /\ Joined(parts, 0) = <<>>
         /\ Joined(parts, m) \in Seq(X)
         /\ Joined(parts, m + 1) = IF m + 1 \in DOMAIN parts THEN Joined(parts, m) \o parts[m + 1]
                                   ELSE Joined(parts, m)
<1>1. \A n \in Nat : \E f \in [0 .. n -> Seq(X)] : Joins(f, parts, n) /\ Joined(parts, n) = f[n]
  <2> SUFFICES ASSUME NEW n \in Nat
               PROVE  \E f \in [0 .. n -> Seq(X)] : Joins(f, parts, n) /\ Joined(parts, n) = f[n]
    OBVIOUS
  <2>1. PICK f \in [0 .. n -> Seq(X)] : Joins(f, parts, n)
    BY JoinsExists
  <2> DEFINE k == CHOOSE h : Joins(h, parts, n)
  <2>2. Joined(parts, n) = k[n]
    BY DEF Joined, Joins
  <2>3. Joins(k, parts, n)
    BY <2>1
  <2> HIDE DEF k
  <2>4. k[n] = f[n]
    BY <2>1, <2>3, JoinsOnce
  <2> QED
    BY <2>1, <2>2, <2>4
<1>2. PICK f \in [0 .. m -> Seq(X)] : Joins(f, parts, m) /\ Joined(parts, m) = f[m]
  BY <1>1
<1>3. PICK g \in [0 .. m + 1 -> Seq(X)] : Joins(g, parts, m + 1) /\ Joined(parts, m + 1) = g[m + 1]
  <2>1. m + 1 \in Nat
    OBVIOUS
  <2> QED
    BY <1>1, <2>1
<1>4. f[m] = g[m]
  <2>1. m + 1 \in Nat /\ m <= m + 1 /\ m \in 0 .. m
    OBVIOUS
  <2>2. \A i \in 0 .. m : f[i] = g[i]
    BY <1>2, <1>3, <2>1, JoinsOnce
  <2> QED
    BY <2>1, <2>2
<1>5. g[m + 1] = IF m + 1 \in DOMAIN parts THEN g[m] \o parts[m + 1] ELSE g[m]
  <2>1. m + 1 \in 0 .. m + 1 /\ m + 1 # 0 /\ (m + 1) - 1 = m
    OBVIOUS
  <2> QED
    BY <1>3, <2>1 DEF Joins
<1>6. Joined(parts, 0) = <<>>
  <2>1. PICK h : Joins(h, parts, 0) /\ Joined(parts, 0) = h[0]
    BY <1>1
  <2> QED
    BY <2>1 DEF Joins
<1> QED
  BY <1>2, <1>3, <1>4, <1>5, <1>6

\* Places without parts add nothing.
LEMMA JoinedSame ==
  ASSUME NEW X, NEW parts, \A i \in DOMAIN parts : parts[i] \in Seq(X),
         NEW m \in Nat, NEW n \in Nat, m <= n, \A i \in m + 1 .. n : i \notin DOMAIN parts
  PROVE  Joined(parts, n) = Joined(parts, m)
<1> DEFINE P == {k \in Nat : m + k <= n => Joined(parts, m + k) = Joined(parts, m)}
<1>1. 0 \in P
  OBVIOUS
<1>2. ASSUME NEW k \in Nat, k \in P PROVE k + 1 \in P
  <2> SUFFICES ASSUME m + (k + 1) <= n PROVE Joined(parts, m + (k + 1)) = Joined(parts, m)
    OBVIOUS
  <2> DEFINE j == m + k
  <2>1. j \in Nat /\ m + (k + 1) = j + 1 /\ j + 1 \in m + 1 .. n /\ Joined(parts, j) = Joined(parts, m)
    BY <1>2
  <2> HIDE DEF j
  <2>2. Joined(parts, j + 1) = Joined(parts, j)
    BY <2>1, JoinedMore
  <2> QED
    BY <2>1, <2>2
<1>3. Nat \subseteq P
  <2> HIDE DEF P
  <2> QED
    BY <1>1, <1>2, SetInduction
<1>4. n - m \in Nat /\ m + (n - m) = n
  OBVIOUS
<1>5. n - m \in P
  BY <1>3, <1>4
<1> QED
  BY <1>4, <1>5
=============================================================================
