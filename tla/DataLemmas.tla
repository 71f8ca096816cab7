----------------------------- MODULE DataLemmas -----------------------------
(***************************************************************************)
(* Facts about numbers, recursive functions and sequences that the proofs  *)
(* of several components cite.  Induction on the natural numbers is stated *)
(* with a set, not with an operator, so that every prover can apply it: it *)
(* is the well-foundedness of < on Nat.                                    *)
(***************************************************************************)
EXTENDS Integers, Sequences, SequenceTheorems, WellFoundedInduction, TLAPS

-----------------------------------------------------------------------------
(* Induction *)

(* A set of naturals with a member has a least one. *)
LEMMA LeastElement ==
    ASSUME NEW T \in SUBSET Nat, T # {}
    PROVE  \E n \in T : \A m \in T : n <= m
<1>1. PICK n \in T : \A m \in T : ~ (<<m, n>> \in OpToRel(<, Nat))
  BY NatLessThanWellFounded, WFMin
<1>2. \A m \in T : ~ (m < n)
  BY <1>1 DEF OpToRel
<1> QED
  BY <1>2

(* A set of naturals that holds 0, and n + 1 with n, holds all of them. *)
LEMMA Induction ==
    ASSUME NEW T \in SUBSET Nat, 0 \in T, \A n \in T : n + 1 \in T
    PROVE  T = Nat
<1> SUFFICES ASSUME Nat \ T # {} PROVE FALSE
  OBVIOUS
<1>1. PICK n \in Nat \ T : \A m \in Nat \ T : n <= m
  BY LeastElement
<1>2. n # 0 /\ n - 1 \in Nat
  BY <1>1
<1>3. n - 1 \in T
  BY <1>1, <1>2
<1> QED
  BY <1>2, <1>3

(* f starts with first, and each next value is a step from the one before. *)
Follows(f, first, step, n) == f[0] = first /\ \A i \in 1 .. n : f[i] = step[i][f[i - 1]]

(* What is defined by its first value and by a step from each to the next *)
(* exists, and stays in a set that the step stays in.                     *)
LEMMA Recursion ==
    ASSUME NEW S, NEW first \in S, NEW n \in Nat, NEW step \in [1 .. n -> [S -> S]]
    PROVE  \E f \in [0 .. n -> S] : Follows(f, first, step, n)
<1> DEFINE T == {m \in Nat : m <= n => \E f \in [0 .. m -> S] : Follows(f, first, step, m)}
<1>1. 0 \in T
  <2>1. Follows([i \in 0 .. 0 |-> first], first, step, 0)
    BY DEF Follows
  <2>2. [i \in 0 .. 0 |-> first] \in [0 .. 0 -> S]
    OBVIOUS
  <2> QED
    BY <2>1, <2>2
<1>2. ASSUME NEW m \in T PROVE m + 1 \in T
  <2>1. m + 1 \in Nat
    OBVIOUS
  <2> SUFFICES ASSUME m + 1 <= n
               PROVE  \E f \in [0 .. m + 1 -> S] : Follows(f, first, step, m + 1)
    BY <2>1
  <2>2. PICK f \in [0 .. m -> S] : Follows(f, first, step, m)
    BY <1>2
  <2> DEFINE last == step[m + 1][f[m]]
             g == [i \in 0 .. m + 1 |-> IF i = m + 1 THEN last ELSE f[i]]
  <2>3. last \in S
    OBVIOUS
  <2>4. g \in [0 .. m + 1 -> S]
    BY <2>3
  <2>5. g[0] = first
    BY <2>2 DEF Follows
  <2>6. ASSUME NEW i \in 1 .. m + 1 PROVE g[i] = step[i][g[i - 1]]
    <3>1. g[i - 1] = f[i - 1]
      OBVIOUS
    <3>2. CASE i = m + 1
      <4>1. g[i] = step[m + 1][f[m]]
        BY <3>2
      <4>2. g[i - 1] = f[m]
        BY <3>1, <3>2
      <4> HIDE DEF g
      <4> QED
        BY <3>2, <4>1, <4>2
    <3>3. CASE i # m + 1
      <4>1. i \in 1 .. m /\ g[i] = f[i]
        BY <3>3
      <4> QED
        BY <2>2, <3>1, <4>1 DEF Follows
    <3> QED
      BY <3>2, <3>3
  <2> HIDE DEF g
  <2> QED
    BY <2>4, <2>5, <2>6 DEF Follows
<1>3. n \in T
  BY <1>1, <1>2, Induction
<1> QED
  BY <1>3

-----------------------------------------------------------------------------
(* Remainders *)

(* The remainder of a number that is less than twice the modulus away from 0. *)
LEMMA Remainder ==
    ASSUME NEW N \in Nat \ {0}, NEW i \in Int
    PROVE  /\ i % N \in 0 .. N - 1
           /\ i \in 0 .. N - 1 => i % N = i
           /\ i \in N .. 2 * N - 1 => i % N = i - N
           /\ i \in -N .. -1 => i % N = i + N
  OBVIOUS
=============================================================================
