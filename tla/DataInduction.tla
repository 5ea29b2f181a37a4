---------------------------- MODULE DataInduction ----------------------------
(***************************************************************************)
(* Induction over data, in a form whose parameters are sets and functions: *)
(* the least counterexample of a set of numbers, induction over an         *)
(* interval, and recursion over an interval.                               *)
(***************************************************************************)
EXTENDS Integers, WellFoundedInduction, TLAPS

(* Every set of natural numbers that is not empty has a least element.     *)
LEMMA LeastNatural ==
    ASSUME NEW T, T \subseteq Nat, T # {}
    PROVE  \E n \in T : \A m \in T : n <= m
<1> DEFINE R == OpToRel(<, Nat)
<1>1. IsWellFoundedOn(R, Nat)
  BY NatLessThanWellFounded
<1>2. \A m, n \in Nat : m < n => <<m, n>> \in R
  BY DEF OpToRel
<1> HIDE DEF R
<1>3. \E n \in T : \A m \in T : ~(<<m, n>> \in R)
  BY <1>1, WFMin
<1>4. \E n \in T : \A m \in T : ~(m < n)
  BY <1>2, <1>3
<1>5. \A m, n \in Nat : ~(m < n) => n <= m
  OBVIOUS
<1> QED BY <1>4, <1>5

(* Induction: what holds at zero and is handed on holds up to M.  T is the *)
(* set of numbers it holds for.                                            *)
LEMMA IntervalInduction ==
    ASSUME NEW M \in Nat, NEW T, 0 \in T, \A k \in 1 .. M : k - 1 \in T => k \in T
    PROVE  \A k \in 0 .. M : k \in T
<1> SUFFICES ASSUME NEW k \in 0 .. M, k \notin T PROVE FALSE
  OBVIOUS
<1> DEFINE Bad == {n \in 0 .. M : n \notin T}
<1>1. PICK n \in Bad : \A m \in Bad : n <= m
  <2>1. Bad \subseteq Nat /\ Bad # {}
    OBVIOUS
  <2> HIDE DEF Bad
  <2> QED BY <2>1, LeastNatural
<1>2. n \in 1 .. M /\ n - 1 \notin Bad /\ n - 1 \in 0 .. M
  BY <1>1
<1> QED BY <1>1, <1>2

(* The steps from a value to the next, and the function they lead to.      *)
Steps(A, M) == [A \X (1 .. M) -> A]
Iterates(f, M, A, first, step) ==
    /\ f \in [0 .. M -> A] /\ f[0] = first
    /\ \A k \in 1 .. M : f[k] = step[<<f[k - 1], k>>]

(* Recursion: a first value and a step determine a function on 0 .. M.     *)
LEMMA IntervalRecursion ==
    ASSUME NEW M \in Nat, NEW A, NEW first \in A, NEW step \in Steps(A, M)
    PROVE  \E f : Iterates(f, M, A, first, step)
<1> USE DEF Steps
<1> DEFINE Solves(f, n) == f \in [0 .. n -> A] /\ f[0] = first
                           /\ \A k \in 1 .. n : f[k] = step[<<f[k - 1], k>>]
           T == {n \in 0 .. M : \E f : Solves(f, n)}
<1>1. 0 \in T
  <2> DEFINE g == [k \in 0 .. 0 |-> first]
  <2>1. g \in [0 .. 0 -> A] /\ g[0] = first
    OBVIOUS
  <2>2. \A k \in 1 .. 0 : g[k] = step[<<g[k - 1], k>>]
    <3>1. \A k \in 1 .. 0 : FALSE
      OBVIOUS
    <3> HIDE DEF g
    <3> QED BY <3>1
  <2> HIDE DEF g
  <2>3. Solves(g, 0)
    BY <2>1, <2>2
  <2> QED BY <2>3
<1>2. ASSUME NEW n \in 1 .. M, n - 1 \in T PROVE n \in T
  <2>1. PICK f : Solves(f, n - 1)
    BY <1>2
  <2>2. f[n - 1] \in A /\ <<f[n - 1], n>> \in A \X (1 .. M)
    BY <2>1
  <2> DEFINE g == [k \in 0 .. n |-> IF k = n THEN step[<<f[n - 1], n>>] ELSE f[k]]
  <2>3. \A k \in 0 .. n : k # n => k \in 0 .. n - 1 /\ g[k] = f[k]
    OBVIOUS
  <2>4. g \in [0 .. n -> A] /\ g[n] = step[<<f[n - 1], n>>]
    <3>1. step[<<f[n - 1], n>>] \in A
      BY <2>2
    <3>2. \A k \in 0 .. n : g[k] \in A
      BY <2>1, <2>3, <3>1
    <3> QED BY <3>2
  <2>5. g[0] = first
    BY <2>1, <2>3
  <2>6. \A k \in 1 .. n : g[k] = step[<<g[k - 1], k>>]
    <3> SUFFICES ASSUME NEW k \in 1 .. n PROVE g[k] = step[<<g[k - 1], k>>]
      OBVIOUS
    <3>1. k - 1 \in 0 .. n /\ k - 1 # n /\ g[k - 1] = f[k - 1]
      BY <2>3
    <3>2. CASE k = n
      BY <2>4, <3>1, <3>2
    <3>3. CASE k # n
      BY <2>1, <2>3, <3>1, <3>3
    <3> QED BY <3>2, <3>3
  <2> HIDE DEF g
  <2>7. Solves(g, n)
    BY <2>4, <2>5, <2>6
  <2> QED BY <2>7
<1> HIDE DEF T
<1>3. M \in T
  <2>1. \A k \in 0 .. M : k \in T
    BY <1>1, <1>2, IntervalInduction
  <2> QED BY <2>1
<1> QED BY <1>3 DEF T, Iterates
==============================================================================
