---------------------------- MODULE Recurrence ----------------------------
(***************************************************************************)
(* Induction and recursion over 0..k, for proofs about replays and pages.  *)
(*                                                                         *)
(* The facts are stated about sets and functions, never about operators:   *)
(* what is to be proved of every number is the set of numbers it holds of, *)
(* and the step of a recursion is a function of the number and the value   *)
(* before.                                                                 *)
(***************************************************************************)
EXTENDS Integers, Sequences, WellFoundedInduction, TLAPS

\* OpToRel(<, Nat), without the operator.
Less == {p \in Nat \X Nat : p[1] < p[2]}

LEMMA LessWellFounded == IsWellFoundedOn(Less, Nat)
BY NatLessThanWellFounded DEF OpToRel, Less

\* Every set of numbers that is not empty has a least one.
LEMMA LeastNumber ==
  ASSUME NEW S \in SUBSET Nat, S # {}
  PROVE  \E n \in S : \A m \in S : n <= m
<1>1. PICK n \in S : \A m \in S : ~(<<m, n>> \in Less)
  BY LessWellFounded, WFMin
<1>2. ASSUME NEW m \in S PROVE n <= m
  <2>1. ~(m < n)
    BY <1>1 DEF Less
  <2> QED
    BY <2>1
<1> QED
  BY <1>2

\* Induction: a set that has 0 and with each number below k the next has all.
LEMMA UpTo ==
  ASSUME NEW k \in Nat, NEW S, 0 \in S,
         \A n \in 1..k : n - 1 \in S => n \in S
  PROVE  0..k \subseteq S
<1> SUFFICES ASSUME ~(0..k \subseteq S) PROVE FALSE
  OBVIOUS
<1> DEFINE missing == {n \in 0..k : n \notin S}
<1>1. missing \in SUBSET Nat /\ missing # {}
  OBVIOUS
<1>2. PICK n \in missing : \A m \in missing : n <= m
  BY <1>1, LeastNumber
<1>3. n \in 1..k /\ n - 1 \in 0..k
  BY <1>2
<1>4. n - 1 \in S
  BY <1>2, <1>3
<1> QED
  BY <1>2, <1>3, <1>4

\* A step of a recursion over 0..k, from the values in V to values in V.
Steps(k, V) == [(1..k) \X V -> V]

\* Some function solves the recursion.
Solvable(k, V, first, step) ==
  \E f \in [0..k -> V] :
    f[0] = first /\ \A n \in 1..k : f[n] = step[<<n, f[n-1]>>]

\* A recursion over 0..k whose steps stay within a set has a solution.
LEMMA SolutionExists ==
  ASSUME NEW k, NEW V, NEW first, NEW step,
         k \in Nat, first \in V, step \in Steps(k, V)
  PROVE  Solvable(k, V, first, step)
<1> USE DEF Steps
<1> DEFINE solved == {n \in 0..k :
              \E f \in [0..n -> V] :
                f[0] = first /\ \A m \in 1..n : f[m] = step[<<m, f[m-1]>>]}
<1>1. 0 \in solved
  <2> DEFINE f == [m \in 0..0 |-> first]
  <2>1. f \in [0..0 -> V] /\ f[0] = first
    OBVIOUS
  <2>2. \A m \in 1..0 : f[m] = step[<<m, f[m-1]>>]
    OBVIOUS
  <2> HIDE DEF f
  <2> QED
    BY <2>1, <2>2
<1>2. ASSUME NEW n \in 1..k, n - 1 \in solved PROVE n \in solved
  <2>1. PICK f \in [0..(n-1) -> V] :
          f[0] = first /\ \A m \in 1..(n-1) : f[m] = step[<<m, f[m-1]>>]
    BY <1>2
  <2> DEFINE g == [m \in 0..n |-> IF m = n THEN step[<<n, f[n-1]>>] ELSE f[m]]
  <2>2. f[n-1] \in V
    OBVIOUS
  <2>3. <<n, f[n-1]>> \in (1..k) \X V
    BY <2>2
  <2>4. g \in [0..n -> V]
    BY <2>3
  <2>5. g[0] = first
    BY <2>1
  <2>6. ASSUME NEW m \in 1..n PROVE g[m] = step[<<m, g[m-1]>>]
    <3>1. g[m-1] = f[m-1]
      OBVIOUS
    <3>2. g[m] = step[<<m, f[m-1]>>]
      <4>1. CASE m = n
        BY <4>1
      <4>2. CASE m # n
        BY <2>1, <4>2
      <4> QED
        BY <4>1, <4>2
    <3> HIDE DEF g
    <3> QED
      BY <3>1, <3>2
  <2> HIDE DEF g
  <2> QED
    BY <2>4, <2>5, <2>6
<1> HIDE DEF solved
<1>3. 0..k \subseteq solved
  BY <1>1, <1>2, UpTo
<1> QED
  BY <1>3 DEF solved, Solvable

\* Two functions that start alike and take the same steps.
SameSteps(k, f, g) ==
  f[0] = g[0] /\ \A n \in 1..k : f[n-1] = g[n-1] => f[n] = g[n]

LEMMA SameStepsAgree ==
  ASSUME NEW k \in Nat, NEW f, NEW g, SameSteps(k, f, g)
  PROVE  f[k] = g[k]
<1> DEFINE agreed == {n \in 0..k : f[n] = g[n]}
<1>1. 0 \in agreed /\ \A n \in 1..k : n - 1 \in agreed => n \in agreed
  BY DEF SameSteps
<1> HIDE DEF agreed
<1>2. 0..k \subseteq agreed
  BY <1>1, UpTo
<1> QED
  BY <1>2 DEF agreed
==============================================================================
