---------------------------- MODULE LinksProofs ----------------------------
(***************************************************************************)
(* What can be said of Reach without induction: it is the least closed set *)
(* that holds its start, so a set is shown to be a chain by showing that   *)
(* it is closed and that nothing smaller is.                               *)
(***************************************************************************)
EXTENDS Links, Induction, SequenceTheorems, FiniteSetTheorems

\* A chain holds its first element.
LEMMA ReachStart ==
  ASSUME NEW f, NEW x \in DOMAIN f
  PROVE  x \in Reach(x, f)
BY DEF Reach

\* A chain goes on to the successor of each of its elements.
LEMMA ReachStep ==
  ASSUME NEW f, NEW x, NEW y \in Reach(x, f), f[y] \in DOMAIN f
  PROVE  f[y] \in Reach(x, f)
BY DEF Reach, Closed

\* A chain lies in every closed set that holds its start.
LEMMA ReachLeast ==
  ASSUME NEW f, NEW x, NEW S \in SUBSET DOMAIN f, Closed(S, f),
         x \in DOMAIN f => x \in S
  PROVE  Reach(x, f) \subseteq S
BY DEF Reach

LEMMA ReachClosed ==
  ASSUME NEW f, NEW x
  PROVE  Reach(x, f) \in SUBSET DOMAIN f /\ Closed(Reach(x, f), f)
BY DEF Reach, Closed

\* The chain of a null pointer is empty.
LEMMA ReachNull ==
  ASSUME NEW f, NEW x, x \notin DOMAIN f
  PROVE  Reach(x, f) = {}
<1>1. Closed({}, f)
  BY DEF Closed
<1> QED
  BY <1>1, ReachLeast

\* A walk that starts inside a chain stays in it.
LEMMA ReachSub ==
  ASSUME NEW f, NEW x, NEW y \in Reach(x, f)
  PROVE  Reach(y, f) \subseteq Reach(x, f)
BY ReachClosed, ReachLeast

\* Pointers outside a chain can change without changing it.
LEMMA ReachAgree ==
  ASSUME NEW f, NEW g, NEW x, DOMAIN g = DOMAIN f,
         \A y \in Reach(x, f) : g[y] = f[y]
  PROVE  Reach(x, g) = Reach(x, f)
<1>1. Reach(x, f) \in SUBSET DOMAIN f /\ Closed(Reach(x, f), f)
  BY ReachClosed
<1>2. x \in DOMAIN f => x \in Reach(x, f)
  BY ReachStart
<1>3. Reach(x, g) \subseteq Reach(x, f)
  <2>1. Closed(Reach(x, f), g)
    BY <1>1 DEF Closed
  <2> QED
    BY <1>1, <1>2, <2>1, ReachLeast
<1>4. Reach(x, f) \subseteq Reach(x, g)
  <2>1. Reach(x, g) \in SUBSET DOMAIN f /\ Closed(Reach(x, g), g)
    BY ReachClosed
  <2>2. Closed(Reach(x, g), f)
    BY <1>3, <2>1 DEF Closed
  <2>3. x \in DOMAIN f => x \in Reach(x, g)
    BY ReachStart
  <2> QED
    BY <2>1, <2>2, <2>3, ReachLeast
<1> QED
  BY <1>3, <1>4

\* Hanging a new last element on a chain adds just that element to it.
LEMMA ReachAppend ==
  ASSUME NEW f, NEW g, NEW x, NEW tail \in Reach(x, f), NEW s \in DOMAIN f,
         f[tail] \notin DOMAIN f, f[s] \notin DOMAIN f, tail # s,
         DOMAIN g = DOMAIN f, g[tail] = s, g[s] \notin DOMAIN f,
         \A y \in DOMAIN f \ {tail, s} : g[y] = f[y]
  PROVE  Reach(x, g) = Reach(x, f) \cup {s}
<1> DEFINE R == Reach(x, f)
           G == Reach(x, g)
<1>1. R \in SUBSET DOMAIN f /\ Closed(R, f) /\ (x \in DOMAIN f => x \in R)
  BY ReachClosed, ReachStart
<1>2. G \in SUBSET DOMAIN f /\ Closed(G, g) /\ (x \in DOMAIN f => x \in G)
  BY ReachClosed, ReachStart
<1>3. G \subseteq R \cup {s}
  <2>1. Closed(R \cup {s}, g)
    BY <1>1 DEF Closed
  <2> QED
    BY <1>1, <2>1, ReachLeast
<1>4. R \subseteq G
  <2>1. Closed(G, f)
    BY <1>2 DEF Closed
  <2> QED
    BY <1>2, <2>1, ReachLeast
<1>5. s \in G
  BY <1>4, ReachStep
<1> QED
  BY <1>3, <1>4, <1>5

\* Taking off the head leaves the rest of the chain, from the second on.
LEMMA ReachUnlinkHead ==
  ASSUME NEW f, NEW g, NEW x \in DOMAIN f, \A y \in DOMAIN f : f[y] # x,
         DOMAIN g = DOMAIN f, \A y \in DOMAIN f \ {x} : g[y] = f[y],
         g[x] \notin DOMAIN f
  PROVE  Reach(f[x], g) = Reach(x, f) \ {x}
<1> DEFINE R == Reach(x, f)
           G == Reach(f[x], g)
<1>1. R \in SUBSET DOMAIN f /\ Closed(R, f) /\ x \in R
  BY ReachClosed, ReachStart
<1>2. G \in SUBSET DOMAIN f /\ Closed(G, g) /\ (f[x] \in DOMAIN f => f[x] \in G)
  BY ReachClosed, ReachStart
<1>3. G \subseteq R \ {x}
  <2>1. Closed(R \ {x}, g)
    BY <1>1 DEF Closed
  <2>2. f[x] \in DOMAIN f => f[x] \in R \ {x}
    BY <1>1 DEF Closed
  <2> QED
    BY <1>1, <2>1, <2>2, ReachLeast
<1>4. R \subseteq G \cup {x}
  <2>1. Closed(G \cup {x}, f)
    BY <1>2, <1>3 DEF Closed
  <2> QED
    BY <1>2, <2>1, ReachLeast
<1> QED
  BY <1>3, <1>4

\* Taking out an element behind the head leaves all the others.
LEMMA ReachUnlinkMiddle ==
  ASSUME NEW f, NEW g, NEW x, NEW prev \in Reach(x, f), NEW e \in DOMAIN f,
         f[prev] = e, e # x, \A y \in DOMAIN f : f[y] = e => y = prev,
         DOMAIN g = DOMAIN f, g[prev] = f[e],
         \A y \in DOMAIN f \ {prev, e} : g[y] = f[y]
  PROVE  Reach(x, g) = Reach(x, f) \ {e}
<1> DEFINE R == Reach(x, f)
           G == Reach(x, g)
<1>1. R \in SUBSET DOMAIN f /\ Closed(R, f) /\ (x \in DOMAIN f => x \in R)
  BY ReachClosed, ReachStart
<1>2. G \in SUBSET DOMAIN f /\ Closed(G, g) /\ (x \in DOMAIN f => x \in G)
  BY ReachClosed, ReachStart
<1>3. e # prev
  \* Were e its own only predecessor, no walk from x would come to it.
  <2>1. SUFFICES ASSUME e = prev PROVE FALSE
    OBVIOUS
  <2>2. Closed(R \ {e}, f)
    BY <1>1, <2>1 DEF Closed
  <2>3. R \subseteq R \ {e}
    BY <1>1, <2>2, ReachLeast
  <2> QED
    BY <2>1, <2>3
<1>4. G \subseteq R \ {e}
  <2>1. Closed(R \ {e}, g)
    BY <1>1, <1>3 DEF Closed
  <2> QED
    BY <1>1, <2>1, ReachLeast
<1>5. prev \in G
  <2>1. SUFFICES ASSUME prev \notin G PROVE FALSE
    OBVIOUS
  <2>2. Closed(G, f)
    BY <1>2, <1>4, <2>1 DEF Closed
  <2>3. R \subseteq G
    BY <1>2, <2>2, ReachLeast
  <2> QED
    BY <2>1, <2>3
<1>6. R \subseteq G \cup {e}
  <2>1. f[e] \in DOMAIN f => f[e] \in G
    BY <1>2, <1>5 DEF Closed
  <2>2. Closed(G \cup {e}, f)
    BY <1>2, <1>4, <2>1 DEF Closed
  <2> QED
    BY <1>1, <1>2, <2>2, ReachLeast
<1> QED
  BY <1>4, <1>6

\* A walk that comes to s from elsewhere comes through a predecessor of s.
LEMMA LastEdge ==
  ASSUME NEW f, NEW x, NEW s \in Reach(x, f), x # s
  PROVE  \E p \in Reach(x, f) : f[p] = s
<1>1. SUFFICES ASSUME \A p \in Reach(x, f) : f[p] # s PROVE FALSE
  OBVIOUS
<1>2. /\ Reach(x, f) \in SUBSET DOMAIN f /\ Closed(Reach(x, f), f)
      /\ x \in DOMAIN f => x \in Reach(x, f)
  BY ReachClosed, ReachStart
<1>3. Closed(Reach(x, f) \ {s}, f)
  BY <1>1, <1>2 DEF Closed
<1>4. Reach(x, f) \subseteq Reach(x, f) \ {s}
  BY <1>2, <1>3, ReachLeast
<1> QED
  BY <1>4

\* A chain is its first element and the chain behind it.
LEMMA ReachUnfold ==
  ASSUME NEW f, NEW x \in DOMAIN f
  PROVE  Reach(x, f) = {x} \cup Reach(f[x], f)
<1> DEFINE R == {x} \cup Reach(f[x], f)
<1>1. /\ Reach(f[x], f) \in SUBSET DOMAIN f /\ Closed(Reach(f[x], f), f)
      /\ f[x] \in DOMAIN f => f[x] \in Reach(f[x], f)
  BY ReachClosed, ReachStart
<1>2. Reach(x, f) \subseteq R
  <2>1. Closed(R, f)
    BY <1>1 DEF Closed
  <2> QED
    BY <1>1, <2>1, ReachLeast
<1>3. x \in Reach(x, f)
  BY ReachStart
<1>4. Reach(f[x], f) \subseteq Reach(x, f)
  <2>1. f[x] \in DOMAIN f => f[x] \in Reach(x, f)
    BY <1>3, ReachStep
  <2>2. Reach(x, f) \in SUBSET DOMAIN f /\ Closed(Reach(x, f), f)
    BY ReachClosed
  <2> QED
    BY <2>1, <2>2, ReachLeast
<1> QED
  BY <1>2, <1>3, <1>4

\* Of two elements of a chain one comes after the other.
LEMMA ReachLinear ==
  ASSUME NEW f, NEW x, NEW a \in Reach(x, f), NEW b \in Reach(x, f)
  PROVE  b \in Reach(a, f) \/ a \in Reach(b, f)
<1> DEFINE R == Reach(x, f)
           S == {c \in R : c \in Reach(a, f) \/ a \in Reach(c, f)}
<1>1. R \in SUBSET DOMAIN f /\ Closed(R, f) /\ (x \in DOMAIN f => x \in R)
  BY ReachClosed, ReachStart
<1>2. Closed(S, f)
  <2>1. SUFFICES ASSUME NEW c \in S, f[c] \in DOMAIN f PROVE f[c] \in S
    BY DEF Closed
  <2>2. f[c] \in R /\ c \in DOMAIN f
    BY <1>1, <2>1 DEF Closed
  <2>3. CASE c \in Reach(a, f)
    BY <2>1, <2>2, <2>3, ReachStep
  <2>4. CASE a \in Reach(c, f)
    <3>1. a = c \/ a \in Reach(f[c], f)
      BY <2>2, <2>4, ReachUnfold
    <3>2. CASE a = c
      <4>1. a \in Reach(a, f)
        BY <1>1, ReachStart
      <4> QED
        BY <2>1, <2>2, <3>2, <4>1, ReachStep
    <3> QED
      BY <2>2, <3>1, <3>2
  <2> QED
    BY <2>3, <2>4
<1>3. x \in DOMAIN f => x \in S
  BY <1>1
<1>4. R \subseteq S
  BY <1>1, <1>2, <1>3, ReachLeast
<1> QED
  BY <1>4

\* With e taken out behind prev, a walk finds everything it found before but e.
LEMMA ReachBypass ==
  ASSUME NEW f, NEW g, NEW x, NEW e \in DOMAIN f, NEW prev \in DOMAIN f,
         prev # e, f[prev] = e, \A y \in DOMAIN f : f[y] = e => y = prev,
         DOMAIN g = DOMAIN f, g[prev] = f[e], g[e] \notin DOMAIN f,
         \A y \in DOMAIN f \ {prev, e} : g[y] = f[y],
         NEW start, start = IF x = e THEN f[e] ELSE x
  PROVE  Reach(x, f) \ {e} \subseteq Reach(start, g)
<1> DEFINE G == Reach(start, g)
<1>1. G \in SUBSET DOMAIN f /\ Closed(G, g) /\ (start \in DOMAIN f => start \in G)
  BY ReachClosed, ReachStart
<1>2. CASE x = e \/ prev \in G
  <2>1. f[e] \in DOMAIN f => f[e] \in G
    BY <1>1, <1>2 DEF Closed
  <2>2. Closed(G \cup {e}, f)
    BY <1>1, <2>1 DEF Closed
  <2>3. x \in DOMAIN f => x \in G \cup {e}
    BY <1>1
  <2>4. Reach(x, f) \subseteq G \cup {e}
    BY <1>1, <2>2, <2>3, ReachLeast
  <2> QED
    BY <2>4
<1>3. CASE x # e /\ prev \notin G
  <2>1. e \notin G
    <3>1. SUFFICES ASSUME e \in G PROVE FALSE
      OBVIOUS
    <3>2. PICK p \in G : g[p] = e
      BY <1>3, <3>1, LastEdge
    <3> QED
      BY <1>1, <1>3, <3>2
  <2>2. Closed(G, f)
    BY <1>1, <1>3, <2>1 DEF Closed
  <2>3. Reach(x, f) \subseteq G
    BY <1>1, <1>3, <2>2, ReachLeast
  <2> QED
    BY <2>3
<1> QED
  BY <1>2, <1>3
-----------------------------------------------------------------------------
(* The order of a walk                                                      *)

\* No walk comes back to x or meets another: x has no predecessor, and nothing
\* has two.
Straight(x, f) ==
  /\ IsFiniteSet(DOMAIN f)
  /\ InjectiveOn(f, DOMAIN f)
  /\ \A y \in DOMAIN f : x \in DOMAIN f => f[y] # x

\* The recursion Walk is defined by does define a function.
LEMMA WalkSteps ==
  ASSUME NEW f, NEW x, IsFiniteSet(DOMAIN f), NEW N, N = Cardinality(DOMAIN f)
  PROVE  /\ N \in Nat
         /\ Walk(x, f)[0] = x
         /\ \A i \in 1 .. N :
              Walk(x, f)[i] = IF Walk(x, f)[i - 1] \in DOMAIN f
                              THEN f[Walk(x, f)[i - 1]] ELSE Walk(x, f)[i - 1]
<1>. DEFINE V == DOMAIN f \cup {f[y] : y \in DOMAIN f} \cup {x}
            step == [a \in (1 .. N) \X V |-> IF a[2] \in DOMAIN f THEN f[a[2]] ELSE a[2]]
            Entry(g) == g = [i \in 0 .. N |->
                               IF i = 0 THEN x
                               ELSE IF g[i - 1] \in DOMAIN f THEN f[g[i - 1]] ELSE g[i - 1]]
<1>1. N \in Nat
  BY FS_CardinalityType
<1>2. PICK g : IsRun(g, N, V, x, step)
  <2>1. x \in V /\ step \in [(1 .. N) \X V -> V]
    OBVIOUS
  <2>. HIDE DEF V, step
  <2>. QED
    BY <1>1, <2>1, Recursion
<1>3. Entry(g)
  <2>1. /\ g \in [0 .. N -> V] /\ g[0] = x
        /\ \A i \in 1 .. N : g[i] = step[<<i, g[i - 1]>>]
    BY <1>2 DEF IsRun
  <2>2. ASSUME NEW i \in 1 .. N
        PROVE  g[i] = IF g[i - 1] \in DOMAIN f THEN f[g[i - 1]] ELSE g[i - 1]
    <3>1. i - 1 \in 0 .. N
      BY <1>1
    <3>2. <<i, g[i - 1]>> \in (1 .. N) \X V
      BY <2>1, <3>1
    <3>. QED
      BY <2>1, <3>2
  <2>3. \A i \in 0 .. N : i = 0 \/ i \in 1 .. N
    BY <1>1
  <2>4. \A i \in 0 .. N :
          g[i] = IF i = 0 THEN x
                 ELSE IF g[i - 1] \in DOMAIN f THEN f[g[i - 1]] ELSE g[i - 1]
    BY <2>1, <2>2, <2>3
  <2>. HIDE DEF V, step
  <2>. QED
    BY <2>1, <2>4
<1>4. Walk(x, f) = CHOOSE h : Entry(h)
  BY DEF Walk
<1>5. Entry(Walk(x, f))
  <2>. HIDE DEF Entry
  <2>. QED
    BY <1>3, <1>4
<1>. DEFINE w == Walk(x, f)
<1>6. w[0] = x
  BY <1>1, <1>5
<1>7. ASSUME NEW i \in 1 .. N
      PROVE  w[i] = IF w[i - 1] \in DOMAIN f THEN f[w[i - 1]] ELSE w[i - 1]
  <2>1. i \in 0 .. N /\ i # 0
    BY <1>1
  <2>. HIDE DEF w
  <2>. QED
    BY <1>5, <2>1 DEF w
<1>. QED
  BY <1>1, <1>6, <1>7
\* A straight walk visits nothing twice.
LEMMA WalkDistinct ==
  ASSUME NEW f, NEW x, Straight(x, f), NEW N, N = Cardinality(DOMAIN f)
  PROVE  \A i, j \in 0 .. N :
           i < j /\ Walk(x, f)[i] \in DOMAIN f /\ Walk(x, f)[j] \in DOMAIN f
             => Walk(x, f)[i] # Walk(x, f)[j]
<1>. DEFINE w == Walk(x, f)
            D == DOMAIN f
            T == {i \in 0 .. N : \A j \in 0 .. N : i < j /\ w[i] \in D /\ w[j] \in D => w[i] # w[j]}
<1>1. /\ N \in Nat /\ w[0] = x
      /\ \A i \in 1 .. N : w[i] = IF w[i - 1] \in D THEN f[w[i - 1]] ELSE w[i - 1]
  BY WalkSteps DEF Straight
<1>2. /\ \A a, b \in D : f[a] = f[b] /\ f[a] \in D => a = b
      /\ \A y \in D : x \in D => f[y] # x
  BY DEF Straight, InjectiveOn
<1>. HIDE DEF w, D
<1>3. ASSUME NEW j \in 1 .. N, w[j] \in D PROVE w[j - 1] \in D /\ w[j] = f[w[j - 1]]
  BY <1>1, <1>3
<1>4. 0 \in T
  <2>1. SUFFICES ASSUME NEW j \in 0 .. N, 0 < j, x \in D, w[j] \in D PROVE x # w[j]
    BY <1>1
  <2>2. j \in 1 .. N
    BY <1>1, <2>1
  <2>. QED
    BY <1>2, <1>3, <2>1, <2>2
<1>5. ASSUME NEW i \in T, i < N PROVE i + 1 \in T
  <2>1. i \in 0 .. N /\ i + 1 \in 0 .. N /\ i + 1 \in 1 .. N /\ (i + 1) - 1 = i
    BY <1>1, <1>5
  <2>2. SUFFICES ASSUME NEW j \in 0 .. N, i + 1 < j, w[i + 1] \in D, w[j] \in D,
                        w[i + 1] = w[j]
                 PROVE  FALSE
    BY <2>1
  <2>3. j \in 1 .. N /\ j - 1 \in 0 .. N /\ i < j - 1
    BY <1>1, <2>1, <2>2
  <2>4. w[i] \in D /\ w[i + 1] = f[w[i]]
    BY <1>3, <2>1, <2>2
  <2>5. w[j - 1] \in D /\ w[j] = f[w[j - 1]]
    BY <1>3, <2>2, <2>3
  <2>6. w[i] = w[j - 1]
    BY <1>2, <2>2, <2>4, <2>5
  <2>. QED
    BY <2>3, <2>4, <2>5, <2>6
<1>6. T = 0 .. N
  <2>1. T \in SUBSET (0 .. N)
    OBVIOUS
  <2>. HIDE DEF T
  <2>. QED
    BY <1>1, <1>4, <1>5, <2>1, IntervalInduction
<1>. QED
  BY <1>6 DEF w, D

\* A straight walk ends, and there it stays.
LEMMA WalkEnds ==
  ASSUME NEW f, NEW x, Straight(x, f), NEW N, N = Cardinality(DOMAIN f)
  PROVE  \E n \in 0 .. N : \A i \in 0 .. N : Walk(x, f)[i] \in DOMAIN f <=> i < n
<1>. DEFINE w == Walk(x, f)
            D == DOMAIN f
            T == {i \in 0 .. N : \A j \in 0 .. i : w[j] \in D}
<1>1. /\ N \in Nat
      /\ \A i \in 1 .. N : w[i] = IF w[i - 1] \in D THEN f[w[i - 1]] ELSE w[i - 1]
  BY WalkSteps DEF Straight
<1>2. \A i, j \in 0 .. N : i < j /\ w[i] \in D /\ w[j] \in D => w[i] # w[j]
  BY WalkDistinct
<1>3. IsFiniteSet(D) /\ Cardinality(D) = N
  BY DEF Straight
<1>. HIDE DEF w, D
<1>4. ~ \A i \in 0 .. N : w[i] \in D
  <2>1. SUFFICES ASSUME \A i \in 0 .. N : w[i] \in D PROVE FALSE
    OBVIOUS
  <2>. DEFINE v == [i \in 0 .. N |-> w[i]]
  <2>2. v \in [0 .. N -> D]
    BY <2>1
  <2>3. IsFiniteSet(0 .. N) /\ Cardinality(0 .. N) = N + 1
    BY <1>1, FS_Interval
  <2>4. \A i, j \in 0 .. N : i # j => v[i] # v[j]
    <3>1. SUFFICES ASSUME NEW i \in 0 .. N, NEW j \in 0 .. N, i # j PROVE w[i] # w[j]
      OBVIOUS
    <3>2. i < j \/ j < i
      BY <1>1, <3>1
    <3>. QED
      BY <1>2, <2>1, <3>2
  <2>5. Cardinality(D) < Cardinality(0 .. N)
    BY <1>1, <1>3, <2>3
  <2>. HIDE DEF v
  <2>6. \E i, j \in 0 .. N : i # j /\ v[i] = v[j]
    BY <1>3, <2>2, <2>3, <2>5, FS_PigeonHole
  <2>. QED
    BY <2>4, <2>6
<1>5. ASSUME NEW i \in 0 .. N, i < N, w[i] \notin D PROVE w[i + 1] \notin D
  <2>1. i + 1 \in 1 .. N /\ (i + 1) - 1 = i
    BY <1>1, <1>5
  <2>. QED
    BY <1>1, <1>5, <2>1
\* T misses some number of the interval: it does not hold 0, or it holds a
\* number but not the next.
<1>6. T # 0 .. N
  BY <1>1, <1>4
<1>7. \E n \in 0 .. N : w[n] \notin D /\ \A j \in 0 .. n - 1 : w[j] \in D
  <2>1. CASE 0 \notin T
    <3>1. w[0] \notin D /\ 0 \in 0 .. N /\ 0 .. (0 - 1) = {}
      BY <1>1, <2>1
    <3>. QED
      BY <3>1
  <2>2. CASE \E m \in T : m < N /\ m + 1 \notin T
    <3>1. PICK m \in T : m < N /\ m + 1 \notin T
      BY <2>2
    <3>2. m \in 0 .. N /\ m + 1 \in 0 .. N /\ (m + 1) - 1 = m
      BY <1>1, <3>1
    <3>3. \A j \in 0 .. m : w[j] \in D
      OBVIOUS
    <3>4. w[m + 1] \notin D
      <4>1. \A j \in 0 .. m + 1 : j \in 0 .. m \/ j = m + 1
        BY <3>2
      <4>. QED
        BY <3>1, <3>2, <3>3, <4>1
    <3>. QED
      BY <3>2, <3>3, <3>4
  <2>. QED
    <3>1. T \in SUBSET (0 .. N)
      OBVIOUS
    <3>. HIDE DEF T
    <3>. QED
      BY <1>1, <1>6, <2>1, <2>2, <3>1, IntervalInduction
<1>8. PICK n \in 0 .. N : w[n] \notin D /\ \A j \in 0 .. n - 1 : w[j] \in D
  BY <1>7
<1>. DEFINE U == {k \in 0 .. N - n : w[n + k] \notin D}
<1>9. U = 0 .. N - n
  <2>1. N - n \in Nat /\ U \in SUBSET (0 .. N - n) /\ n + 0 = n
    BY <1>1
  <2>2. 0 \in U
    BY <1>1, <1>8, <2>1
  <2>3. ASSUME NEW k \in U, k < N - n PROVE k + 1 \in U
    <3>1. n + k \in 0 .. N /\ n + k < N /\ n + (k + 1) = (n + k) + 1 /\ k + 1 \in 0 .. N - n
      BY <1>1, <2>3
    <3>. QED
      BY <1>5, <2>3, <3>1
  <2>. HIDE DEF U
  <2>. QED
    BY <2>1, <2>2, <2>3, IntervalInduction
<1>10. ASSUME NEW i \in 0 .. N PROVE w[i] \in D <=> i < n
  <2>1. CASE i < n
    <3>1. i \in 0 .. n - 1
      BY <1>1, <2>1
    <3>. QED
      BY <1>8, <2>1, <3>1
  <2>2. CASE ~(i < n)
    <3>1. i - n \in 0 .. N - n /\ n + (i - n) = i
      BY <1>1, <2>2
    <3>. QED
      BY <1>9, <2>2, <3>1
  <2>. QED
    BY <2>1, <2>2
<1>. QED
  BY <1>10 DEF w, D
\* s is the chain of x: it starts there, follows the links and ends where they
\* end.
IsList(s, x, f) ==
  /\ s \in Seq(DOMAIN f)
  /\ Len(s) = 0 => x \notin DOMAIN f
  /\ Len(s) > 0 => s[1] = x /\ f[s[Len(s)]] \notin DOMAIN f
  /\ \A i \in 1 .. Len(s) - 1 : s[i + 1] = f[s[i]]
  /\ \A i, j \in 1 .. Len(s) : s[i] = s[j] => i = j

\* What a straight walk visits is the chain of its start.
LEMMA InOrderIsList ==
  ASSUME NEW f, NEW x, Straight(x, f)
  PROVE  IsList(InOrder(x, f), x, f)
<1>. DEFINE w == Walk(x, f)
            D == DOMAIN f
            N == Cardinality(D)
            s == InOrder(x, f)
<1>1. /\ N \in Nat /\ w[0] = x
      /\ \A i \in 1 .. N : w[i] = IF w[i - 1] \in D THEN f[w[i - 1]] ELSE w[i - 1]
  BY WalkSteps DEF Straight
<1>2. \A i, j \in 0 .. N : i < j /\ w[i] \in D /\ w[j] \in D => w[i] # w[j]
  BY WalkDistinct
<1>3. PICK n \in 0 .. N : \A i \in 0 .. N : w[i] \in D <=> i < n
  BY WalkEnds
<1>4. s = [i \in {j \in 1 .. N : w[j - 1] \in D} |-> w[i - 1]]
  BY DEF InOrder
<1>. HIDE DEF w, D, N, s
<1>5. {j \in 1 .. N : w[j - 1] \in D} = 1 .. n
  <2>1. \A j \in 1 .. N : w[j - 1] \in D <=> j \in 1 .. n
    <3>1. \A j \in 1 .. N : j - 1 \in 0 .. N /\ (j - 1 < n <=> j \in 1 .. n)
      BY <1>1, <1>3
    <3>. QED
      BY <1>3, <3>1
  <2>2. 1 .. n \subseteq 1 .. N
    BY <1>1, <1>3
  <2>. QED
    BY <2>1, <2>2
<1>6. n \in Nat /\ s = [i \in 1 .. n |-> w[i - 1]]
  BY <1>1, <1>3, <1>4, <1>5
<1>7. \A i \in 1 .. n : i - 1 \in 0 .. N /\ w[i - 1] \in D
  <2>1. \A i \in 1 .. n : i - 1 \in 0 .. N /\ i - 1 < n
    BY <1>1, <1>3
  <2>. QED
    BY <1>3, <2>1
<1>8. s \in Seq(D) /\ Len(s) = n
  BY <1>6, <1>7
<1>9. n = 0 => x \notin D
  BY <1>1, <1>3
<1>10. n > 0 => s[1] = x /\ f[s[n]] \notin D
  <2>1. SUFFICES ASSUME n > 0 PROVE s[1] = x /\ f[s[n]] \notin D
    OBVIOUS
  <2>2. 1 \in 1 .. n /\ n \in 1 .. n /\ n \in 1 .. N /\ n \in 0 .. N
    BY <1>1, <1>6, <2>1
  <2>3. s[1] = x /\ s[n] = w[n - 1]
    BY <1>1, <1>6, <2>2
  <2>4. w[n - 1] \in D
    BY <1>7, <2>2
  <2>5. w[n] = f[w[n - 1]]
    BY <1>1, <2>2, <2>4
  <2>6. w[n] \notin D
    BY <1>3, <2>2
  <2>. QED
    BY <2>3, <2>5, <2>6
<1>11. ASSUME NEW i \in 1 .. n - 1 PROVE s[i + 1] = f[s[i]]
  <2>1. i \in 1 .. n /\ i + 1 \in 1 .. n /\ i \in 1 .. N /\ (i + 1) - 1 = i
    BY <1>1, <1>6, <1>11
  <2>2. s[i + 1] = w[i] /\ s[i] = w[i - 1]
    BY <1>6, <2>1
  <2>. QED
    BY <1>1, <1>7, <2>1, <2>2
<1>12. ASSUME NEW i \in 1 .. n, NEW j \in 1 .. n, s[i] = s[j] PROVE i = j
  <2>1. SUFFICES ASSUME i # j PROVE FALSE
    OBVIOUS
  <2>2. s[i] = w[i - 1] /\ s[j] = w[j - 1]
    BY <1>6
  <2>3. i - 1 < j - 1 \/ j - 1 < i - 1
    BY <1>6, <2>1
  <2>. QED
    BY <1>2, <1>7, <1>12, <2>2, <2>3
<1>13. IsList(s, x, f)
  BY <1>8, <1>9, <1>10, <1>11, <1>12 DEF IsList, D
<1>. QED
  BY <1>13 DEF s

\* A chain has one order.
LEMMA ListUnique ==
  ASSUME NEW f, NEW x, NEW s, NEW t, IsList(s, x, f), IsList(t, x, f)
  PROVE  s = t
<1>. DEFINE m == Len(s)
            n == Len(t)
            D == DOMAIN f
<1>1. s \in Seq(D) /\ t \in Seq(D) /\ m \in Nat /\ n \in Nat
  BY DEF IsList
<1>2. /\ m = 0 => x \notin D
      /\ m > 0 => s[1] = x /\ f[s[m]] \notin D
      /\ \A i \in 1 .. m - 1 : s[i + 1] = f[s[i]]
  BY DEF IsList
<1>3. /\ n = 0 => x \notin D
      /\ n > 0 => t[1] = x /\ f[t[n]] \notin D
      /\ \A i \in 1 .. n - 1 : t[i + 1] = f[t[i]]
  BY DEF IsList
<1>4. /\ \A i \in 1 .. m : s[i] \in D
      /\ \A i \in 1 .. n : t[i] \in D
  BY <1>1
<1>. HIDE DEF m, n, D
<1>. DEFINE T == {i \in 0 .. m : i =< n /\ \A j \in 1 .. i : s[j] = t[j]}
<1>5. T = 0 .. m
  <2>1. T \in SUBSET (0 .. m) /\ 0 \in T
    BY <1>1
  <2>2. ASSUME NEW i \in T, i < m PROVE i + 1 \in T
    <3>1. i \in 0 .. m /\ i =< n /\ i + 1 \in 1 .. m /\ i + 1 \in 0 .. m
      BY <1>1, <2>2
    <3>2. \A j \in 1 .. i : s[j] = t[j]
      OBVIOUS
    <3>3. i + 1 =< n /\ s[i + 1] = t[i + 1]
      <4>1. CASE i = 0
        <5>1. m > 0 /\ s[1] = x
          BY <1>1, <1>2, <2>2, <4>1
        <5>2. x \in D
          BY <1>4, <3>1, <4>1, <5>1
        <5>3. n > 0
          BY <1>1, <1>3, <5>2
        <5>4. 1 =< n
          BY <1>1, <5>3
        <5>. QED
          BY <1>3, <4>1, <5>1, <5>3, <5>4
      <4>2. CASE i # 0
        <5>1. i \in 1 .. i /\ i \in 1 .. m - 1 /\ i \in 1 .. n
          BY <1>1, <2>2, <3>1, <4>2
        <5>2. s[i] = t[i] /\ s[i + 1] = f[s[i]] /\ s[i + 1] \in D
          BY <1>2, <1>4, <3>1, <3>2, <5>1
        <5>3. i # n
          <6>1. SUFFICES ASSUME i = n PROVE FALSE
            OBVIOUS
          <6>2. n > 0
            BY <1>1, <5>1
          <6>. QED
            BY <1>3, <5>2, <6>1, <6>2
        <5>4. i \in 1 .. n - 1 /\ i + 1 =< n
          BY <1>1, <5>1, <5>3
        <5>. QED
          BY <1>3, <5>2, <5>4
      <4>. QED
        BY <4>1, <4>2
    <3>4. \A j \in 1 .. i + 1 : j \in 1 .. i \/ j = i + 1
      BY <1>1, <3>1
    <3>. QED
      BY <3>1, <3>2, <3>3, <3>4
  <2>. HIDE DEF T
  <2>. QED
    BY <1>1, <2>1, <2>2, IntervalInduction
<1>6. m =< n /\ \A j \in 1 .. m : s[j] = t[j]
  <2>1. m \in 0 .. m
    BY <1>1
  <2>2. m \in T
    <3>. HIDE DEF T
    <3>. QED
      BY <1>5, <2>1
  <2>. QED
    BY <2>2
<1>7. m = n
  <2>1. SUFFICES ASSUME m < n PROVE FALSE
    BY <1>1, <1>6
  <2>2. CASE m = 0
    <3>1. n > 0 /\ 1 \in 1 .. n
      BY <1>1, <2>1, <2>2
    <3>. QED
      BY <1>2, <1>3, <1>4, <2>2, <3>1
  <2>3. CASE m # 0
    <3>1. m > 0 /\ m \in 1 .. m /\ m \in 1 .. n - 1 /\ m + 1 \in 1 .. n
      BY <1>1, <2>1, <2>3
    <3>2. s[m] = t[m] /\ t[m + 1] = f[t[m]] /\ t[m + 1] \in D
      BY <1>3, <1>4, <1>6, <3>1
    <3>. QED
      BY <1>2, <3>1, <3>2
  <2>. QED
    BY <2>2, <2>3
<1>. QED
  BY <1>1, <1>6, <1>7, SeqEqual DEF m, n
\* The chain as a list holds what the chain holds.
LEMMA ListRange ==
  ASSUME NEW f, NEW x, NEW s, IsList(s, x, f)
  PROVE  Reach(x, f) = {s[i] : i \in 1 .. Len(s)}
<1>. DEFINE m == Len(s)
            D == DOMAIN f
            R == {s[i] : i \in 1 .. m}
<1>1. m \in Nat /\ \A i \in 1 .. m : s[i] \in D
  BY DEF IsList
<1>2. /\ m = 0 => x \notin D
      /\ m > 0 => s[1] = x /\ f[s[m]] \notin D
      /\ \A i \in 1 .. m - 1 : s[i + 1] = f[s[i]]
  BY DEF IsList
<1>. HIDE DEF m
<1>3. Reach(x, f) \subseteq R
  <2>1. ASSUME NEW i \in 1 .. m, f[s[i]] \in D PROVE f[s[i]] \in R
    <3>1. i # m
      BY <1>1, <1>2, <2>1
    <3>2. i \in 1 .. m - 1 /\ i + 1 \in 1 .. m
      BY <1>1, <3>1
    <3>. QED
      BY <1>2, <3>2
  <2>2. Closed(R, f)
    BY <2>1 DEF Closed
  <2>3. x \in D => x \in R
    BY <1>1, <1>2
  <2>4. R \in SUBSET D
    BY <1>1
  <2>. QED
    BY <2>2, <2>3, <2>4, ReachLeast
<1>4. ASSUME m > 0 PROVE \A i \in 1 .. m : s[i] \in Reach(x, f)
  <2>. DEFINE T == {i \in 0 .. m - 1 : s[i + 1] \in Reach(x, f)}
  <2>1. m - 1 \in Nat /\ T \in SUBSET (0 .. m - 1)
    BY <1>1, <1>4
  <2>2. 0 \in T
    <3>1. 1 \in 1 .. m
      BY <1>1, <1>4
    <3>2. s[1] = x /\ x \in D
      BY <1>1, <1>2, <1>4, <3>1
    <3>3. x \in Reach(x, f)
      BY <3>2, ReachStart
    <3>. QED
      BY <2>1, <3>2, <3>3
  <2>3. ASSUME NEW i \in T, i < m - 1 PROVE i + 1 \in T
    <3>1. i + 1 \in 1 .. m - 1 /\ i + 1 \in 0 .. m - 1 /\ (i + 1) + 1 \in 1 .. m
      BY <1>1, <2>3
    <3>2. s[(i + 1) + 1] = f[s[i + 1]] /\ s[(i + 1) + 1] \in D
      BY <1>1, <1>2, <3>1
    <3>3. s[(i + 1) + 1] \in Reach(x, f)
      BY <3>2, ReachStep
    <3>. QED
      BY <3>1, <3>3
  <2>4. T = 0 .. m - 1
    <3>. HIDE DEF T
    <3>. QED
      BY <2>1, <2>2, <2>3, IntervalInduction
  <2>5. ASSUME NEW i \in 1 .. m PROVE s[i] \in Reach(x, f)
    <3>1. i - 1 \in 0 .. m - 1 /\ (i - 1) + 1 = i
      BY <1>1
    <3>2. i - 1 \in T
      <4>. HIDE DEF T
      <4>. QED
        BY <2>4, <3>1
    <3>. QED
      BY <3>1, <3>2
  <2>. QED
    BY <2>5
<1>5. \A i \in 1 .. m : m > 0
  BY <1>1
<1>. QED
  BY <1>3, <1>4, <1>5 DEF m

\* Links outside a chain can change.
LEMMA ListAgree ==
  ASSUME NEW f, NEW g, NEW x, NEW s, IsList(s, x, f), DOMAIN g = DOMAIN f,
         \A i \in 1 .. Len(s) : g[s[i]] = f[s[i]]
  PROVE  IsList(s, x, g)
<1>1. Len(s) \in Nat
  BY DEF IsList
<1>2. \A i \in 1 .. Len(s) - 1 : i \in 1 .. Len(s)
  BY <1>1
<1>3. Len(s) > 0 => Len(s) \in 1 .. Len(s)
  BY <1>1
<1>. QED
  BY <1>1, <1>2, <1>3 DEF IsList

\* A new element is hung on the last, or is the first.
LEMMA ListAppend ==
  ASSUME NEW f, NEW g, NEW x, NEW s, IsList(s, x, f), DOMAIN g = DOMAIN f,
         NEW e \in DOMAIN f, \A i \in 1 .. Len(s) : s[i] # e, g[e] \notin DOMAIN f,
         \A i \in 1 .. Len(s) : g[s[i]] = IF i = Len(s) THEN e ELSE f[s[i]],
         NEW y, y = IF Len(s) = 0 THEN e ELSE x
  PROVE  IsList(Append(s, e), y, g)
<1>. DEFINE m == Len(s)
            D == DOMAIN f
            t == Append(s, e)
<1>1. s \in Seq(D) /\ m \in Nat
  BY DEF IsList
<1>2. t \in Seq(D) /\ Len(t) = m + 1 /\ t[m + 1] = e /\ \A i \in 1 .. m : t[i] = s[i]
  BY <1>1, AppendProperties
<1>3. /\ m = 0 => x \notin D
      /\ m > 0 => s[1] = x /\ f[s[m]] \notin D
      /\ \A i \in 1 .. m - 1 : s[i + 1] = f[s[i]]
      /\ \A i, j \in 1 .. m : s[i] = s[j] => i = j
  BY DEF IsList
<1>4. /\ \A i \in 1 .. m : s[i] # e
      /\ \A i \in 1 .. m : g[s[i]] = IF i = m THEN e ELSE f[s[i]]
      /\ y = IF m = 0 THEN e ELSE x
  OBVIOUS
<1>. HIDE DEF m, t
<1>5. t[1] = y
  <2>1. CASE m = 0
    BY <1>2, <1>4, <2>1
  <2>2. CASE m # 0
    <3>1. m > 0 /\ 1 \in 1 .. m
      BY <1>1, <2>2
    <3>. QED
      BY <1>2, <1>3, <1>4, <2>2, <3>1
  <2>. QED
    BY <2>1, <2>2
<1>6. ASSUME NEW i \in 1 .. m PROVE t[i + 1] = g[t[i]]
  <2>1. CASE i = m
    BY <1>2, <1>4, <2>1
  <2>2. CASE i # m
    <3>1. i \in 1 .. m - 1 /\ i + 1 \in 1 .. m
      BY <1>1, <2>2
    <3>. QED
      BY <1>2, <1>3, <1>4, <2>2, <3>1
  <2>. QED
    BY <2>1, <2>2
<1>7. ASSUME NEW i \in 1 .. m + 1, NEW j \in 1 .. m + 1, t[i] = t[j] PROVE i = j
  <2>1. /\ i \in 1 .. m \/ i = m + 1
        /\ j \in 1 .. m \/ j = m + 1
    BY <1>1
  <2>. QED
    BY <1>2, <1>3, <1>4, <1>7, <2>1
<1>8. Len(t) = m + 1 /\ Len(t) # 0 /\ Len(t) - 1 = m /\ g[t[Len(t)]] \notin D
  BY <1>1, <1>2
<1>9. IsList(t, y, g)
  BY <1>2, <1>5, <1>6, <1>7, <1>8 DEF IsList
<1>. QED
  BY <1>9 DEF t

\* t is s without its k-th element.
Without(t, s, k) ==
  /\ Len(t) = Len(s) - 1
  /\ \A i \in 1 .. Len(t) : t[i] = IF i < k THEN s[i] ELSE s[i + 1]

\* g leads past the k-th element of the chain s of f.
LeadsPast(g, f, s, k) ==
  /\ DOMAIN g = DOMAIN f
  /\ \A i \in 1 .. Len(s) : i # k => g[s[i]] = IF i + 1 = k THEN f[s[k]] ELSE f[s[i]]

\* Taking out the k-th element joins its neighbours, or moves the start.
LEMMA ListRemove ==
  ASSUME NEW f, NEW g, NEW x, NEW s, NEW k \in 1 .. Len(s), NEW t \in Seq(DOMAIN f),
         IsList(s, x, f), LeadsPast(g, f, s, k), Without(t, s, k),
         NEW y, y = IF k = 1 THEN f[x] ELSE x
  PROVE  IsList(t, y, g)
<1>. DEFINE m == Len(s)
            D == DOMAIN f
<1>1. m \in Nat /\ m > 0 /\ k \in Nat /\ 1 =< k /\ k =< m
  BY DEF IsList
<1>2. /\ s[1] = x /\ f[s[m]] \notin D
      /\ \A i \in 1 .. m - 1 : s[i + 1] = f[s[i]]
      /\ \A i, j \in 1 .. m : s[i] = s[j] => i = j
  BY <1>1 DEF IsList
<1>3. /\ \A i \in 1 .. m : i # k => g[s[i]] = IF i + 1 = k THEN f[s[k]] ELSE f[s[i]]
      /\ Len(t) = m - 1
      /\ \A i \in 1 .. m - 1 : t[i] = IF i < k THEN s[i] ELSE s[i + 1]
      /\ DOMAIN g = D
  BY DEF LeadsPast, Without
<1>. HIDE DEF m
<1>4. m - 1 = 0 => y \notin D
  BY <1>1, <1>2
<1>5. ASSUME m - 1 > 0 PROVE t[1] = y /\ g[t[m - 1]] \notin D
  <2>1. 1 \in 1 .. m - 1 /\ m - 1 \in 1 .. m - 1 /\ m \in 1 .. m /\ m - 1 \in 1 .. m
        /\ (m - 1) + 1 = m
    BY <1>1, <1>5
  <2>2. t[1] = y
    BY <1>1, <1>2, <1>3, <2>1
  <2>3. CASE k = m
    BY <1>1, <1>2, <1>3, <2>1, <2>3
  <2>4. CASE k # m
    <3>1. ~(m - 1 < k) /\ m # k /\ m + 1 # k
      BY <1>1, <2>4
    <3>. QED
      BY <1>2, <1>3, <2>1, <2>2, <3>1
  <2>. QED
    BY <2>2, <2>3, <2>4
<1>6. ASSUME NEW i \in 1 .. (m - 1) - 1 PROVE t[i + 1] = g[t[i]]
  <2>1. /\ i \in 1 .. m - 1 /\ i + 1 \in 1 .. m - 1 /\ i \in 1 .. m /\ i + 1 \in 1 .. m
        /\ (i + 1) + 1 \in 1 .. m
    BY <1>1
  <2>2. t[i] = IF i < k THEN s[i] ELSE s[i + 1]
    BY <1>3, <2>1
  <2>3. t[i + 1] = IF i + 1 < k THEN s[i + 1] ELSE s[(i + 1) + 1]
    BY <1>3, <2>1
  <2>4. s[i + 1] = f[s[i]] /\ s[(i + 1) + 1] = f[s[i + 1]]
    BY <1>2, <2>1
  <2>5. CASE i + 1 < k
    <3>1. i < k /\ i # k /\ i + 1 # k
      BY <2>1, <2>5, <1>1
    <3>2. g[s[i]] = f[s[i]]
      BY <1>3, <2>1, <3>1
    <3>. QED
      BY <2>2, <2>3, <2>4, <2>5, <3>1, <3>2
  <2>6. CASE i + 1 = k
    <3>1. i < k /\ i # k /\ ~(i + 1 < k)
      BY <2>1, <2>6, <1>1
    <3>2. g[s[i]] = f[s[k]]
      BY <1>3, <2>1, <2>6, <3>1
    <3>. QED
      BY <2>2, <2>3, <2>4, <2>6, <3>1, <3>2
  <2>7. CASE i + 1 > k
    <3>1. ~(i < k) /\ i + 1 # k /\ (i + 1) + 1 # k /\ ~(i + 1 < k)
      BY <2>1, <2>7, <1>1
    <3>2. g[s[i + 1]] = f[s[i + 1]]
      BY <1>3, <2>1, <3>1
    <3>. QED
      BY <2>2, <2>3, <2>4, <3>1, <3>2
  <2>. QED
    BY <1>1, <2>1, <2>5, <2>6, <2>7
<1>7. ASSUME NEW i \in 1 .. m - 1, NEW j \in 1 .. m - 1, t[i] = t[j] PROVE i = j
  <2>. DEFINE a == IF i < k THEN i ELSE i + 1
              b == IF j < k THEN j ELSE j + 1
  <2>1. a \in 1 .. m /\ b \in 1 .. m /\ t[i] = s[a] /\ t[j] = s[b]
    BY <1>1, <1>3
  <2>2. a = b
    <3>1. s[a] = s[b]
      BY <1>7, <2>1
    <3>2. \A c, e \in 1 .. m : s[c] = s[e] => c = e
      BY <1>2
    <3>. HIDE DEF a, b
    <3>. QED
      BY <2>1, <3>1, <3>2
  <2>. QED
    BY <1>1, <2>2
<1>. QED
  BY <1>3, <1>4, <1>5, <1>6, <1>7 DEF IsList
=============================================================================
