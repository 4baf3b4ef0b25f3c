------------------------------- MODULE Links -------------------------------
(***************************************************************************)
(* Chains of pointers.  The kernel keeps two relations between processes   *)
(* as pointer fields of the process table: who waits to send to whom       *)
(* (p_sendto) and who is next in a sending queue (next_sending).  Both are *)
(* functions here, from processes to processes or to a value that is no    *)
(* process (a null pointer), and the kernel's loops that follow them       *)
(* (proc.c:197-215, 269-272, 351-359) are described by the set of          *)
(* processes such a walk visits.                                           *)
(*                                                                         *)
(* Reach is defined as a least closed set rather than by recursion, so     *)
(* that it can be reasoned about in a proof for any number of processes.   *)
(***************************************************************************)
EXTENDS Integers, FiniteSets

\* S is closed under following f: a walk that is in S never leaves it, except
\* by reaching the end of its chain.
Closed(S, f) == \A q \in S : f[q] \in DOMAIN f => f[q] \in S

\* Everything a walk along f visits that starts at x (nothing if x is null).
Reach(x, f) ==
  {y \in DOMAIN f : \A S \in SUBSET DOMAIN f :
                      Closed(S, f) /\ (x \in DOMAIN f => x \in S) => y \in S}

\* f joins no two chains: no element has two predecessors.
InjectiveOn(f, S) ==
  \A a, b \in DOMAIN f : f[a] = f[b] /\ f[a] \in S => a = b

\* The entries of a walk along f that starts at x; where its chain ends it stays.
Walk(x, f) ==
  LET entry[i \in 0 .. Cardinality(DOMAIN f)] ==
        IF i = 0 THEN x
        ELSE IF entry[i - 1] \in DOMAIN f THEN f[entry[i - 1]] ELSE entry[i - 1]
  IN  entry

\* What a walk along f visits, in its order.
InOrder(x, f) ==
  LET walk == Walk(x, f)
      places == {i \in 1 .. Cardinality(DOMAIN f) : walk[i - 1] \in DOMAIN f}
  IN  [i \in places |-> walk[i - 1]]
=============================================================================
