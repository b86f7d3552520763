------------------------------- MODULE Counting --------------------------------
(***************************************************************************)
(* Facts about natural numbers that the proofs of several modules need.    *)
(* Induction is stated about sets, so that it can be used with any         *)
(* property of numbers n by taking the set of those that have it.          *)
(***************************************************************************)
EXTENDS Naturals, TLAPS, WellFoundedInduction

\* A set of natural numbers that is not empty has a least element.
LEMMA LeastOf ==
  ASSUME NEW S \in SUBSET Nat, S # {}
  PROVE  \E n \in S : \A m \in S : n <= m
<1>. DEFINE Less == {ss \in Nat \X Nat : ss[1] < ss[2]}
<1>1. IsWellFoundedOn(Less, Nat)
  BY NatLessThanWellFounded DEF OpToRel
<1>2. PICK n \in S : \A m \in S : <<m, n>> \notin Less
  <2>. HIDE DEF Less
  <2>. QED
    BY <1>1, WFMin
<1>3. ASSUME NEW m \in S PROVE n <= m
  <2>1. <<m, n>> \in Nat \X Nat /\ ~(m < n)
    BY <1>2
  <2>. QED
    BY <2>1
<1>. QED
  BY <1>3

\* A set with 0 and with the successor of each of its numbers has all of them.
LEMMA Induction ==
  ASSUME NEW S, 0 \in S, \A n \in Nat : n \in S => n + 1 \in S
  PROVE  Nat \subseteq S
<1>. SUFFICES ASSUME Nat \ S # {} PROVE FALSE
  OBVIOUS
<1>1. PICK n \in Nat \ S : \A m \in Nat \ S : n <= m
  BY LeastOf
<1>2. n - 1 \in Nat /\ n - 1 \in S
  BY <1>1
<1>. QED
  BY <1>1, <1>2

\* f is given at 0 and otherwise by a step from its value before.  Step is a function of
\* functions, so that theorems need no operator as a parameter.
IsRecursive(f, n, T, base, step) ==
    /\ f \in [0..n -> T]
    /\ f[0] = base
    /\ \A i \in 1..n : f[i] = step[i][f[i - 1]]

\* There is such a function.
LEMMA Recursion ==
  ASSUME NEW n \in Nat, NEW T, NEW base \in T, NEW step \in [1..n -> [T -> T]]
  PROVE  \E f : IsRecursive(f, n, T, base, step)
<1>. DEFINE Good(f, k) == IsRecursive(f, k, T, base, step)
            S == {k \in Nat : k <= n => \E f : Good(f, k)}
<1>1. 0 \in S
  <2>. DEFINE f == [i \in 0..0 |-> base]
  <2>1. Good(f, 0)
    BY DEF IsRecursive
  <2>. HIDE DEF Good, f
  <2>. QED
    BY <2>1
<1>2. ASSUME NEW k \in Nat, k \in S PROVE k + 1 \in S
  <2>. SUFFICES ASSUME k + 1 <= n PROVE \E f : Good(f, k + 1)
    OBVIOUS
  <2>1. PICK g : Good(g, k)
    BY <1>2
  <2>. DEFINE f == [i \in 0..k + 1 |-> IF i = k + 1 THEN step[k + 1][g[k]] ELSE g[i]]
  <2>2. /\ g \in [0..k -> T] /\ g[0] = base
        /\ \A i \in 1..k : g[i] = step[i][g[i - 1]]
    BY <2>1 DEF IsRecursive
  <2>3. f[0] = base /\ f[k + 1] = step[k + 1][g[k]] /\ \A i \in 0..k : f[i] = g[i]
    BY <2>2
  <2>4. step[k + 1][g[k]] \in T
    BY <2>2
  <2>5. f \in [0..k + 1 -> T]
    BY <2>2, <2>4
  <2>. HIDE DEF f
  <2>6. ASSUME NEW i \in 1..k + 1 PROVE f[i] = step[i][f[i - 1]]
    <3>1. CASE i = k + 1
      BY <2>3, <3>1
    <3>2. CASE i \in 1..k
      BY <2>2, <2>3, <3>2
    <3>. QED
      BY <3>1, <3>2
  <2>7. Good(f, k + 1)
    BY <2>3, <2>5, <2>6 DEF IsRecursive
  <2>. QED
    BY <2>7
<1>3. n \in S
  <2>. HIDE DEF S
  <2>. QED
    BY <1>1, <1>2, Induction
<1>. QED
  BY <1>3

=============================================================================
