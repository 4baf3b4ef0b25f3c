------------------------------ MODULE Induction ------------------------------
(***************************************************************************)
(* Induction over the natural numbers, and functions defined by recursion  *)
(* on an interval, with sets and functions where the library's theorems    *)
(* have operators: the provers can only instantiate the former.            *)
(***************************************************************************)
EXTENDS Integers, WellFoundedInduction, TLAPS

\* A set of numbers that holds 0, and with a number the next, holds them all.
THEOREM SetInduction ==
  ASSUME NEW T \in SUBSET Nat, 0 \in T, \A n \in T : n + 1 \in T
  PROVE  T = Nat
<1>. SUFFICES ASSUME Nat \ T # {} PROVE FALSE
  OBVIOUS
<1>. DEFINE Less == OpToRel(<, Nat)
<1>1. PICK x \in Nat \ T : \A y \in Nat \ T : ~(<<y, x>> \in Less)
  <2>. HIDE DEF Less
  <2>1. IsWellFoundedOn(Less, Nat)
    BY NatLessThanWellFounded DEF Less
  <2>. QED
    BY <2>1, WFMin
<1>. HIDE DEF Less
<1>2. x # 0 /\ x - 1 \in Nat /\ x - 1 < x /\ (x - 1) + 1 = x
  BY <1>1
<1>3. <<x - 1, x>> \in Less
  BY <1>2 DEF OpToRel, Less
<1>. QED
  BY <1>1, <1>2, <1>3

\* The same on an interval.
THEOREM IntervalInduction ==
  ASSUME NEW N \in Nat, NEW T \in SUBSET (0 .. N), 0 \in T,
         \A n \in T : n < N => n + 1 \in T
  PROVE  T = 0 .. N
<1>. DEFINE U == T \cup {n \in Nat : n > N}
<1>0. \A n \in T : n \in Nat /\ n =< N
  OBVIOUS
<1>1. U \in SUBSET Nat /\ 0 \in U
  BY <1>0
<1>2. ASSUME NEW n \in U PROVE n + 1 \in U
  <2>1. CASE n \in T /\ n < N
    BY <2>1
  <2>2. CASE ~(n \in T /\ n < N)
    BY <2>2
  <2>. QED
    BY <2>1, <2>2
<1>3. U = Nat
  <2>. HIDE DEF U
  <2>. QED
    BY <1>1, <1>2, SetInduction
<1>4. \A n \in 0 .. N : n \in U /\ ~(n > N)
  BY <1>3
<1>. QED
  BY <1>0, <1>4

\* f starts with a value and goes from each number to the next by a step.
IsRun(f, N, V, first, step) ==
  /\ f \in [0 .. N -> V]
  /\ f[0] = first
  /\ \A i \in 1 .. N : f[i] = step[<<i, f[i - 1]>>]

\* There is such an f, whatever the value and the step.
THEOREM Recursion ==
  ASSUME NEW N \in Nat, NEW V, NEW first \in V,
         NEW step \in [(1 .. N) \X V -> V]
  PROVE  \E f : IsRun(f, N, V, first, step)
<1>. DEFINE Runs(f, n) == f[0] = first /\ \A i \in 1 .. n : f[i] = step[<<i, f[i - 1]>>]
            T == {n \in 0 .. N : \E f \in [0 .. n -> V] : Runs(f, n)}
<1>1. 0 \in T
  <2>. DEFINE f == [i \in 0 .. 0 |-> first]
  <2>1. f \in [0 .. 0 -> V] /\ Runs(f, 0)
    OBVIOUS
  <2>. HIDE DEF Runs, f
  <2>. QED
    BY <2>1
<1>2. ASSUME NEW n \in T, n < N PROVE n + 1 \in T
  <2>0. n \in 0 .. N /\ n + 1 \in 1 .. N
    BY <1>2
  <2>1. PICK f \in [0 .. n -> V] : Runs(f, n)
    BY <1>2
  <2>. DEFINE g == [i \in 0 .. n + 1 |-> IF i = n + 1 THEN step[<<n + 1, f[n]>>] ELSE f[i]]
  <2>2. f[n] \in V /\ <<n + 1, f[n]>> \in (1 .. N) \X V
    BY <2>0
  <2>3. g \in [0 .. n + 1 -> V]
    BY <2>0, <2>2
  <2>4. g[0] = first
    BY <2>0, <2>1
  <2>5. ASSUME NEW i \in 1 .. n + 1 PROVE g[i] = step[<<i, g[i - 1]>>]
    <3>1. CASE i = n + 1
      <4>1. g[n + 1] = step[<<n + 1, f[n]>>] /\ g[n] = f[n] /\ (n + 1) - 1 = n
        BY <2>0
      <4>. QED
        BY <3>1, <4>1
    <3>2. CASE i # n + 1
      <4>1. i \in 1 .. n /\ i \in 0 .. n + 1 /\ i - 1 \in 0 .. n + 1 /\ i - 1 # n + 1
        BY <2>0, <3>2
      <4>. QED
        BY <2>1, <3>2, <4>1
    <3>. QED
      BY <3>1, <3>2
  <2>6. Runs(g, n + 1)
    BY <2>4, <2>5
  <2>7. n + 1 \in 0 .. N
    BY <2>0
  <2>. HIDE DEF Runs, g
  <2>. QED
    BY <2>3, <2>6, <2>7
<1>3. T = 0 .. N
  <2>1. T \in SUBSET (0 .. N)
    OBVIOUS
  <2>. HIDE DEF T
  <2>. QED
    BY <1>1, <1>2, <2>1, IntervalInduction
<1>4. PICK f \in [0 .. N -> V] : Runs(f, N)
  BY <1>3
<1>. QED
  BY <1>4 DEF IsRun
=============================================================================
