--------------------------- MODULE PortableProofs ---------------------------
(***************************************************************************)
(* Proofs about PortableVault, for every namespace tree, every depth that  *)
(* the queries look and every history of the vault.                        *)
(*                                                                         *)
(* The recursive definitions are used through what they compute: the       *)
(* ancestors of a namespace are the least set that holds it and is closed  *)
(* under parents, and a walk is a chain of parents that is complete when   *)
(* it ends at a root.                                                      *)
(***************************************************************************)
EXTENDS PortableVault, FiniteSetTheorems, WellFoundedInduction, TLAPS

\* The time each prover may take for a step.
USE ZenonT(60), SMTT(60)

-----------------------------------------------------------------------------
(* Induction and recursion over an interval.                               *)

\* A set of numbers that is not empty has a least one.
LEMMA LeastOf ==
    ASSUME NEW S, S \subseteq Nat, S # {}
    PROVE  \E x \in S : \A y \in S : x <= y
  <1>1. PICK x \in S : \A y \in S : ~(<<y, x>> \in OpToRel(<, Nat))
    BY WFMin, NatLessThanWellFounded
  <1>2. \A y \in S : ~(y < x)
    BY <1>1 DEF OpToRel
  <1> QED
    BY <1>2, SMTT(60)

\* What holds of the first number of an interval and goes on holding is true of all.
LEMMA Upwards ==
    ASSUME NEW m \in Nat, NEW n \in Nat, NEW P, m \in P,
           \A k \in m..n : k \in P /\ k + 1 <= n => k + 1 \in P
    PROVE  m..n \subseteq P
  <1> DEFINE Q == (m..n) \ P
  <1> SUFFICES ASSUME Q # {} PROVE FALSE
    OBVIOUS
  <1>1. Q \subseteq Nat
    BY SMTT(60)
  <1>2. PICK x \in Q : \A y \in Q : x <= y
    BY <1>1, LeastOf
  <1>3. x \in m..n /\ x \notin P
    OBVIOUS
  <1>4. x - 1 \in m..n /\ x - 1 + 1 = x /\ x <= n /\ ~(x <= x - 1)
    BY <1>3, SMTT(60)
  <1>5. x - 1 \notin Q
    BY <1>2, <1>4
  <1>6. x - 1 \in P
    BY <1>4, <1>5
  <1> QED
    BY <1>3, <1>4, <1>6

\* What f makes of c, one step after the other.
Iterating(f, m, n, c, step) ==
    \A k \in m..n : f[k] = IF k = m THEN c ELSE step[f[k - 1]]

\* Every step function has its iterates.
LEMMA Iterates ==
    ASSUME NEW m \in Nat, NEW n \in Nat, NEW S, NEW c \in S, NEW step \in [S -> S]
    PROVE  \E f \in [m..n -> S] : Iterating(f, m, n, c, step)
  <1> USE DEF Iterating
  <1> DEFINE Runs(f, j) == \A k \in m..j : f[k] = IF k = m THEN c ELSE step[f[k - 1]]
             P == {j \in Nat : \E f \in [m..j -> S] : Runs(f, j)}
  <1>1. m \in P
    <2>1. [k \in m..m |-> c] \in [m..m -> S] /\ \A k \in m..m : k = m
      BY SMTT(60)
    <2>2. Runs([k \in m..m |-> c], m)
      BY <2>1
    <2> QED
      BY <2>1, <2>2
  <1>2. ASSUME NEW j \in m..n, j \in P, j + 1 <= n PROVE j + 1 \in P
    <2>1. PICK f \in [m..j -> S] : Runs(f, j)
      BY <1>2
    <2> DEFINE g == [k \in m..(j + 1) |-> IF k = j + 1 THEN step[f[j]] ELSE f[k]]
    <2>2. j \in m..j /\ j + 1 \in Nat /\ j + 1 # m
      BY SMTT(60)
    <2>3. \A k \in m..(j + 1) : k # j + 1 => k \in m..j
      BY SMTT(60)
    <2>4. \A k \in m..j : k \in m..(j + 1) /\ k # j + 1
      BY SMTT(60)
    <2>5. g \in [m..(j + 1) -> S]
      BY <2>2, <2>3
    <2>6. \A k \in m..j : k # m => k - 1 \in m..j
      BY SMTT(60)
    <2>7. ASSUME NEW k \in m..(j + 1) PROVE g[k] = IF k = m THEN c ELSE step[g[k - 1]]
      <3>1. CASE k = j + 1
        <4>1. k - 1 = j
          BY <3>1, SMTT(60)
        <4>2. g[k] = step[f[j]] /\ g[j] = f[j]
          BY <2>2, <2>4, <3>1
        <4> QED
          BY <2>2, <3>1, <4>1, <4>2
      <3>2. CASE k # j + 1
        <4>1. k \in m..j /\ g[k] = f[k]
          BY <2>3, <3>2
        <4>2. k # m => g[k - 1] = f[k - 1]
          BY <2>4, <2>6, <4>1
        <4> QED
          BY <2>1, <4>1, <4>2
      <3> QED
        BY <3>1, <3>2
    <2> QED
      BY <2>2, <2>5, <2>7
  <1>3. m..n \subseteq P
    <2> HIDE DEF P
    <2> QED
      BY <1>1, <1>2, Upwards
  <1>4. CASE m <= n
    <2>1. n \in m..n
      BY <1>4, SMTT(60)
    <2> QED
      BY <1>3, <2>1
  <1>5. CASE ~(m <= n)
    <2>1. m..n = {}
      BY <1>5, SMTT(60)
    <2>2. [k \in m..n |-> c] \in [m..n -> S]
      OBVIOUS
    <2> QED
      BY <2>1, <2>2
  <1> QED
    BY <1>4, <1>5

-----------------------------------------------------------------------------
(* Ancestors.                                                              *)

\* A table of namespaces: a parent is a row too.
Tree(T) ==
    /\ T = [n \in DOMAIN T |-> T[n]] /\ DOMAIN T \subseteq Namespace
    /\ \A n \in DOMAIN T : T[n] \in DOMAIN T \union {None}

\* Where a set holds a namespace it holds its parent.
Closed(T, S) == \A m \in S : T[m] # None => T[m] \in S

\* Every namespace has a root.
Forest(T) == \A n \in DOMAIN T : \E root \in AllAncestors(T, n) : T[root] = None

Up(T, S) == S \union {T[m] : m \in S \ {None}}

\* The definition of AllAncestors, step by step.
LEMMA UpSteps ==
    ASSUME NEW T, Tree(T), NEW n \in DOMAIN T
    PROVE  \E up \in [0..Cardinality(Namespace) -> SUBSET (DOMAIN T \union {None})] :
             /\ up[0] = {n}
             /\ \A k \in 1..Cardinality(Namespace) : up[k] = Up(T, up[k - 1])
             /\ AllAncestors(T, n) = up[Cardinality(Namespace)] \ {None}
  <1> DEFINE N == Cardinality(Namespace)
             All == SUBSET (DOMAIN T \union {None})
             step == [S \in All |-> Up(T, S)]
             Runs(f) == f = [k \in 0..N |->
                          IF k = 0 THEN {n}
                          ELSE LET below == f[k - 1]
                               IN below \union {T[m] : m \in below \ {None}}]
             up == CHOOSE f : Runs(f)
  <1>1. N \in Nat
    BY PortableAssumption, FS_CardinalityType
  <1>2. {n} \in All
    OBVIOUS
  <1>3. step \in [All -> All]
    <2>1. ASSUME NEW S \in All PROVE Up(T, S) \in All
      BY DEF Tree, Up
    <2> QED
      BY <2>1
  <1>4. AllAncestors(T, n) = up[N] \ {None}
    BY DEF AllAncestors
  <1> HIDE DEF N, All, step
  <1>5. PICK f \in [0..N -> All] : \A k \in 0..N : f[k] = IF k = 0 THEN {n} ELSE step[f[k - 1]]
    <2>1. \E f \in [0..N -> All] : Iterating(f, 0, N, {n}, step)
      BY <1>1, <1>2, <1>3, Iterates, 0 \in Nat
    <2> QED
      BY <2>1 DEF Iterating
  <1>6. \A k \in 0..N : k # 0 => k - 1 \in 0..N
    BY <1>1, SMTT(60)
  <1>7. Runs(f)
    <2>1. f = [k \in 0..N |-> f[k]]
      OBVIOUS
    <2>2. \A k \in 0..N : k # 0 => step[f[k - 1]] = f[k - 1] \union {T[m] : m \in f[k - 1] \ {None}}
      BY <1>6 DEF step, Up
    <2>3. \A k \in 0..N : f[k] = IF k = 0 THEN {n} ELSE f[k - 1] \union {T[m] : m \in f[k - 1] \ {None}}
      BY <1>5, <2>2
    <2> QED
      BY <2>1, <2>3
  <1>8. Runs(up)
    BY <1>7
  <1> HIDE DEF up
  <1>9. \A k \in 0..N : up[k] = IF k = 0 THEN {n} ELSE up[k - 1] \union {T[m] : m \in up[k - 1] \ {None}}
    BY <1>8
  <1>10. 0 \in 0..N /\ \A k \in 1..N : k \in 0..N /\ k # 0
    BY <1>1, SMTT(60)
  <1>11. up[0] = {n} /\ \A k \in 1..N : up[k] = Up(T, up[k - 1])
    BY <1>9, <1>10 DEF Up
  <1>12. up \in [0..N -> All]
    <2> DEFINE P == {k \in 0..N : up[k] \in All}
    <2>1. 0 \in P
      BY <1>2, <1>10, <1>11
    <2>2. ASSUME NEW k \in 0..N, k \in P, k + 1 <= N PROVE k + 1 \in P
      <3>1. k + 1 \in 1..N /\ k + 1 \in 0..N /\ k + 1 - 1 = k
        BY <1>1, <2>2, SMTT(60)
      <3>2. up[k + 1] = Up(T, up[k])
        BY <1>11, <3>1, SMTT(60)
      <3>3. Up(T, up[k]) \in All
        BY <1>3, <2>2 DEF step
      <3> QED
        BY <3>1, <3>2, <3>3
    <2>3. 0..N \subseteq P
      <3> HIDE DEF P
      <3> QED
        BY <1>1, <2>1, <2>2, Upwards, 0 \in Nat
    <2>4. up = [k \in 0..N |-> up[k]]
      BY <1>8
    <2> QED
      BY <2>3, <2>4
  <1> QED
    BY <1>4, <1>11, <1>12 DEF N, All

\* The ancestors of a namespace are the least set that holds it and is closed:
\* as many steps as there are namespaces reach every one of them.
LEMMA AncestorsLeast ==
    ASSUME NEW T, Tree(T), NEW n \in DOMAIN T
    PROVE  /\ AllAncestors(T, n) \subseteq DOMAIN T /\ n \in AllAncestors(T, n)
           /\ Closed(T, AllAncestors(T, n))
           /\ \A S : n \in S /\ Closed(T, S) => AllAncestors(T, n) \subseteq S
  <1> DEFINE N == Cardinality(Namespace)
  <1>1. PICK up \in [0..N -> SUBSET (DOMAIN T \union {None})] :
             /\ up[0] = {n}
             /\ \A k \in 1..N : up[k] = Up(T, up[k - 1])
             /\ AllAncestors(T, n) = up[N] \ {None}
    BY UpSteps
  <1>2. N \in Nat
    BY PortableAssumption, FS_CardinalityType
  <1>3. IsFiniteSet(Namespace) /\ None \notin Namespace
    BY PortableAssumption
  <1>4. DOMAIN T \subseteq Namespace
    BY DEF Tree
  <1> DEFINE A(k) == up[k] \ {None}
  <1> HIDE DEF N
  <1>5. ASSUME NEW k \in 0..N PROVE A(k) \subseteq DOMAIN T /\ IsFiniteSet(A(k)) /\ Cardinality(A(k)) \in Nat
    <2>1. A(k) \subseteq DOMAIN T
      BY <1>1
    <2> HIDE DEF A
    <2> QED
      BY <1>3, <1>4, <2>1, FS_Subset, FS_CardinalityType
  <1>6. ASSUME NEW k \in 0..N, k + 1 <= N
        PROVE  k + 1 \in 0..N /\ A(k + 1) = A(k) \union ({T[m] : m \in A(k)} \ {None})
    <2>1. k + 1 \in 1..N /\ k + 1 \in 0..N /\ k + 1 - 1 = k
      BY <1>2, <1>6, SMTT(60)
    <2>2. up[k + 1] = Up(T, up[k])
      BY <1>1, <2>1, SMTT(60)
    <2> QED
      BY <2>1, <2>2 DEF Up
  <1>7. 0 \in 0..N /\ N \in 0..N
    BY <1>2, SMTT(60)
  <1>8. A(0) = {n} /\ AllAncestors(T, n) = A(N)
    BY <1>1, <1>3, <1>4, <1>7
  <1> HIDE DEF A
  <1> DEFINE Grown == {k \in 0..N : Closed(T, A(k)) \/ Cardinality(A(k)) >= k + 1}
             Within == {k \in 0..N : n \in A(k)}
  <1>9. 0..N \subseteq Within
    <2>1. 0 \in Within
      BY <1>7, <1>8
    <2>2. ASSUME NEW k \in 0..N, k \in Within, k + 1 <= N PROVE k + 1 \in Within
      BY <1>6, <2>2
    <2> HIDE DEF Within
    <2> QED
      BY <1>2, <2>1, <2>2, Upwards, 0 \in Nat
  <1>10. 0..N \subseteq Grown
    <2>1. 0 \in Grown
      <3>1. Cardinality(A(0)) = 1
        BY <1>8, FS_Singleton
      <3>2. Cardinality(A(0)) >= 0 + 1
        BY <3>1, SMTT(60)
      <3> QED
        BY <1>7, <3>2
    <2>2. ASSUME NEW k \in 0..N, k \in Grown, k + 1 <= N PROVE k + 1 \in Grown
      <3>1. k + 1 \in 0..N /\ A(k + 1) = A(k) \union ({T[m] : m \in A(k)} \ {None})
        BY <1>6, <2>2
      <3>2. CASE Closed(T, A(k))
        <4>1. A(k + 1) = A(k)
          BY <3>1, <3>2 DEF Closed
        <4> QED
          BY <3>1, <3>2, <4>1
      <3>3. CASE ~Closed(T, A(k))
        <4>1. Cardinality(A(k)) >= k + 1
          BY <2>2, <3>3
        <4>2. A(k) \subseteq A(k + 1)
          BY <3>1
        <4>3. A(k) # A(k + 1)
          BY <3>1, <3>3 DEF Closed
        <4>4. /\ IsFiniteSet(A(k + 1)) /\ Cardinality(A(k + 1)) \in Nat /\ Cardinality(A(k)) \in Nat
          BY <1>5, <3>1
        <4>5. Cardinality(A(k)) <= Cardinality(A(k + 1)) /\ Cardinality(A(k)) # Cardinality(A(k + 1))
          BY <4>2, <4>3, <4>4, FS_Subset
        <4>6. Cardinality(A(k + 1)) >= k + 1 + 1
          BY <4>1, <4>4, <4>5, SMTT(60)
        <4> QED
          BY <3>1, <4>6
      <3> QED
        BY <3>2, <3>3
    <2> HIDE DEF Grown
    <2> QED
      BY <1>2, <2>1, <2>2, Upwards, 0 \in Nat
  <1>11. Closed(T, A(N))
    <2>1. Cardinality(A(N)) <= N
      <3>1. A(N) \subseteq Namespace
        BY <1>4, <1>5, <1>7
      <3> QED
        BY <1>3, <3>1, FS_Subset DEF N
    <2>2. ~(Cardinality(A(N)) >= N + 1)
      BY <1>2, <1>5, <1>7, <2>1, SMTT(60)
    <2> QED
      BY <1>7, <1>10, <2>2
  <1>12. ASSUME NEW S, n \in S, Closed(T, S) PROVE A(N) \subseteq S
    <2> DEFINE Inside == {k \in 0..N : A(k) \subseteq S}
    <2>1. 0 \in Inside
      BY <1>7, <1>8, <1>12
    <2>2. ASSUME NEW k \in 0..N, k \in Inside, k + 1 <= N PROVE k + 1 \in Inside
      BY <1>6, <1>12, <2>2, SMTT(60) DEF Closed
    <2>3. 0..N \subseteq Inside
      <3> HIDE DEF Inside
      <3> QED
        BY <1>2, <2>1, <2>2, Upwards, 0 \in Nat
    <2> QED
      BY <1>7, <2>3
  <1> QED
    BY <1>5, <1>7, <1>8, <1>9, <1>11, <1>12

\* In a forest whatever is closed and not empty has a root in it.
LEMMA ClosedHasRoot ==
    ASSUME NEW T, Tree(T), Forest(T), NEW S, S \subseteq DOMAIN T, S # {}, Closed(T, S)
    PROVE  \E root \in S : T[root] = None
  BY AncestorsLeast DEF Forest

\* And where that is so, the table is a forest.
LEMMA RootsMakeForest ==
    ASSUME NEW T, Tree(T),
           \A S : S \subseteq DOMAIN T /\ S # {} /\ Closed(T, S) => \E root \in S : T[root] = None
    PROVE  Forest(T)
  BY AncestorsLeast DEF Forest

\* A row put under a row that is there, or at the top.
LEMMA PutForest ==
    ASSUME NEW T, Tree(T), Forest(T), NEW n \in Namespace, n \notin DOMAIN T,
           NEW p \in DOMAIN T \union {None}
    PROVE  Tree(Put(T, n, p)) /\ Forest(Put(T, n, p))
  <1> DEFINE U == Put(T, n, p)
  <1>1. /\ DOMAIN U = DOMAIN T \union {n} /\ U = [m \in DOMAIN U |-> U[m]]
        /\ U[n] = p /\ \A m \in DOMAIN T : U[m] = T[m]
    BY DEF Put
  <1>2. None \notin Namespace /\ n # None
    BY PortableAssumption
  <1> HIDE DEF U
  <1>3. Tree(U)
    BY <1>1 DEF Tree
  <1>4. ASSUME NEW S, S \subseteq DOMAIN U, S # {}, Closed(U, S)
        PROVE  \E root \in S : U[root] = None
    <2>1. CASE n \in S /\ p = None
      BY <1>1, <2>1
    <2>2. CASE ~(n \in S /\ p = None)
      <3>1. S \ {n} # {}
        <4>1. CASE n \notin S
          BY <1>4, <4>1
        <4>2. CASE n \in S
          BY <1>1, <1>4, <2>2, <4>2 DEF Closed
        <4> QED
          BY <4>1, <4>2
      <3>2. S \ {n} \subseteq DOMAIN T
        BY <1>1, <1>4
      <3>3. Closed(T, S \ {n})
        <4> SUFFICES ASSUME NEW m \in S \ {n}, T[m] # None PROVE T[m] \in S \ {n}
          BY DEF Closed
        <4>1. U[m] = T[m] /\ T[m] \in DOMAIN T
          BY <1>1, <3>2 DEF Tree
        <4> QED
          BY <1>4, <4>1 DEF Closed
      <3>4. \E root \in S \ {n} : T[root] = None
        BY <3>1, <3>2, <3>3, ClosedHasRoot
      <3> QED
        BY <1>1, <3>2, <3>4
    <2> QED
      BY <2>1, <2>2
  <1> QED
    BY <1>3, <1>4, RootsMakeForest DEF U

\* A row moved to the top, or under a row that it is no ancestor of.
LEMMA MoveForest ==
    ASSUME NEW T, Tree(T), Forest(T), NEW n \in DOMAIN T, NEW p \in DOMAIN T \union {None},
           p # None => n \notin AllAncestors(T, p)
    PROVE  Tree([T EXCEPT ![n] = p]) /\ Forest([T EXCEPT ![n] = p])
  <1> DEFINE U == [T EXCEPT ![n] = p]
  <1>1. /\ DOMAIN U = DOMAIN T /\ U = [m \in DOMAIN U |-> U[m]]
        /\ U[n] = p /\ \A m \in DOMAIN T : m # n => U[m] = T[m]
    BY DEF Tree
  <1> HIDE DEF U
  <1>2. Tree(U)
    BY <1>1 DEF Tree
  <1>3. ASSUME NEW S, S \subseteq DOMAIN U, S # {}, Closed(U, S)
        PROVE  \E root \in S : U[root] = None
    <2>1. CASE n \notin S
      <3>1. Closed(T, S)
        BY <1>1, <1>3, <2>1 DEF Closed
      <3>2. \E root \in S : T[root] = None
        BY <1>1, <1>3, <3>1, ClosedHasRoot
      <3> QED
        BY <1>1, <1>3, <2>1, <3>2
    <2>2. CASE n \in S /\ p = None
      BY <1>1, <2>2
    <2>3. CASE n \in S /\ p # None
      <3> DEFINE A == S \intersect AllAncestors(T, p)
      <3>1. /\ p \in DOMAIN T /\ p \in AllAncestors(T, p) /\ Closed(T, AllAncestors(T, p))
            /\ n \notin AllAncestors(T, p)
        BY <2>3, AncestorsLeast
      <3>2. p \in S
        BY <1>1, <1>3, <2>3 DEF Closed
      <3>3. Closed(T, A)
        BY <1>1, <1>3, <3>1 DEF Closed
      <3>4. A \subseteq DOMAIN T /\ A # {}
        BY <1>1, <1>3, <3>1, <3>2
      <3>5. \E root \in A : T[root] = None
        <4> HIDE DEF A
        <4> QED
          BY <3>3, <3>4, ClosedHasRoot
      <3> QED
        BY <1>1, <1>3, <3>1, <3>5
    <2> QED
      BY <2>1, <2>2, <2>3
  <1> QED
    BY <1>2, <1>3, RootsMakeForest DEF U

-----------------------------------------------------------------------------
(* Walks.                                                                  *)

\* A chain of parents from n upwards.
Chain(T, n, w) ==
    /\ w \in Seq(DOMAIN T) /\ Len(w) >= 1 /\ w[1] = n
    /\ \A i \in 1..Len(w) : i < Len(w) => T[w[i]] # None /\ w[i + 1] = T[w[i]]

Climb(T, w) == IF T[Last(w)] = None THEN w ELSE Append(w, T[Last(w)])

\* One step upwards.
LEMMA ClimbChain ==
    ASSUME NEW T, Tree(T), NEW n \in DOMAIN T, NEW w, Chain(T, n, w)
    PROVE  /\ Chain(T, n, Climb(T, w))
           /\ T[Last(w)] = None => Climb(T, w) = w
           /\ T[Last(w)] # None => Len(Climb(T, w)) = Len(w) + 1
  <1> DEFINE up == T[Last(w)]
  <1>1. /\ w \in Seq(DOMAIN T) /\ Len(w) \in Nat /\ Len(w) >= 1 /\ w[1] = n
        /\ \A i \in 1..Len(w) : i < Len(w) => T[w[i]] # None /\ w[i + 1] = T[w[i]]
    BY SMTT(60) DEF Chain
  <1>2. w[Len(w)] \in DOMAIN T /\ Last(w) = w[Len(w)]
    BY <1>1, SMTT(60) DEF Last
  <1>3. CASE up = None
    BY <1>3 DEF Climb
  <1>4. CASE up # None
    <2>1. up \in DOMAIN T
      BY <1>2, <1>4 DEF Tree
    <2> DEFINE a == Append(w, up)
    <2>2. Climb(T, w) = a
      BY <1>4 DEF Climb
    <2>3. up = T[w[Len(w)]]
      BY <1>2
    <2> HIDE DEF up
    <2>4. a \in Seq(DOMAIN T) /\ Len(a) = Len(w) + 1 /\ a[Len(w) + 1] = up
      BY <1>1, <2>1, SMTT(60)
    <2>5. \A i \in 1..Len(w) : a[i] = w[i]
      BY <1>1, <2>1, SMTT(60)
    <2> HIDE DEF a
    <2>6. a[1] = n /\ Len(a) >= 1
      BY <1>1, <2>4, <2>5, SMTT(60)
    <2>7. ASSUME NEW i \in 1..Len(a), i < Len(a) PROVE T[a[i]] # None /\ a[i + 1] = T[a[i]]
      <3>1. i \in 1..Len(w) /\ a[i] = w[i]
        <4>1. i \in 1..Len(w)
          BY <1>1, <2>4, <2>7, SMTT(60)
        <4> QED
          BY <2>5, <4>1
      <3>2. CASE i < Len(w)
        <4>1. i + 1 \in 1..Len(w)
          BY <1>1, <3>1, <3>2, SMTT(60)
        <4>2. a[i + 1] = w[i + 1]
          BY <2>5, <4>1
        <4> QED
          BY <1>1, <3>1, <3>2, <4>2
      <3>3. CASE ~(i < Len(w))
        <4>1. i = Len(w)
          BY <1>1, <3>1, <3>3, SMTT(60)
        <4> QED
          BY <1>4, <2>3, <2>4, <3>1, <4>1
      <3> QED
        BY <3>2, <3>3
    <2>8. Chain(T, n, a)
      BY <2>4, <2>6, <2>7 DEF Chain
    <2> QED
      BY <1>4, <2>2, <2>4, <2>8 DEF up
  <1> QED
    BY <1>3, <1>4

\* The walk that both queries take is a chain that ends at a root or has as many
\* rows as they look at.
LEMMA WalkChain ==
    ASSUME NEW T, Tree(T), NEW n \in DOMAIN T
    PROVE  /\ Chain(T, n, Walk(T, n))
           /\ T[Last(Walk(T, n))] = None \/ Len(Walk(T, n)) = MAX_NAMESPACE_DEPTH + 1
           /\ Len(Walk(T, n)) <= MAX_NAMESPACE_DEPTH + 1
  <1> DEFINE N == MAX_NAMESPACE_DEPTH
             All == {w \in Seq(DOMAIN T) : Chain(T, n, w)}
             step == [w \in All |-> Climb(T, w)]
             Runs(f) == f = [k \in 0..N |->
                          IF k = 0 THEN <<n>>
                          ELSE LET below == f[k - 1]
                                   up == T[Last(below)]
                               IN IF up = None THEN below ELSE Append(below, up)]
             walk == CHOOSE f : Runs(f)
  <1>1. N \in Nat
    BY PortableAssumption
  <1>2. <<n>> \in All
    <2>1. <<n>> \in Seq(DOMAIN T) /\ Len(<<n>>) = 1 /\ <<n>>[1] = n
      BY SMTT(60)
    <2>2. \A i \in 1..1 : ~(i < 1)
      BY SMTT(60)
    <2>3. 1 >= 1
      BY SMTT(60)
    <2> QED
      BY <2>1, <2>2, <2>3 DEF Chain
  <1>3. step \in [All -> All]
    <2>1. ASSUME NEW w \in All PROVE Climb(T, w) \in All
      BY ClimbChain, SMTT(60) DEF Chain
    <2> QED
      BY <2>1
  <1>4. Walk(T, n) = walk[N]
    BY DEF Walk
  <1> HIDE DEF N, All, step
  <1>5. PICK f \in [0..N -> All] : \A k \in 0..N : f[k] = IF k = 0 THEN <<n>> ELSE step[f[k - 1]]
    <2>1. \E f \in [0..N -> All] : Iterating(f, 0, N, <<n>>, step)
      BY <1>1, <1>2, <1>3, Iterates, 0 \in Nat
    <2> QED
      BY <2>1 DEF Iterating
  <1>6. \A k \in 0..N : k # 0 => k - 1 \in 0..N
    BY <1>1, SMTT(60)
  <1>7. Runs(f)
    <2>1. f = [k \in 0..N |-> f[k]]
      OBVIOUS
    <2>2. \A k \in 0..N : k # 0 => step[f[k - 1]] = Climb(T, f[k - 1])
      BY <1>6 DEF step
    <2>3. \A k \in 0..N : f[k] = IF k = 0 THEN <<n>> ELSE Climb(T, f[k - 1])
      BY <1>5, <2>2
    <2> QED
      BY <2>1, <2>3 DEF Climb
  <1>8. Runs(walk)
    BY <1>7
  <1> HIDE DEF walk
  <1>9. \A k \in 0..N : walk[k] = IF k = 0 THEN <<n>> ELSE Climb(T, walk[k - 1])
    BY <1>8 DEF Climb
  <1>10. 0 \in 0..N /\ N \in 0..N
    BY <1>1, SMTT(60)
  <1>11. walk[0] = <<n>>
    BY <1>9, <1>10
  <1>12. ASSUME NEW k \in 0..N, k + 1 <= N PROVE k + 1 \in 0..N /\ walk[k + 1] = Climb(T, walk[k])
    <2>1. k + 1 \in 0..N /\ k + 1 # 0 /\ k + 1 - 1 = k
      BY <1>1, <1>12, SMTT(60)
    <2> QED
      BY <1>9, <2>1, SMTT(60)
  <1> DEFINE P == {k \in 0..N : Chain(T, n, walk[k])
                                /\ (T[Last(walk[k])] = None \/ Len(walk[k]) = k + 1)
                                /\ Len(walk[k]) <= k + 1}
  <1>13. 0 \in P
    <2>1. Chain(T, n, walk[0])
      BY <1>2, <1>11 DEF All
    <2>2. Len(walk[0]) = 0 + 1 /\ Len(walk[0]) <= 0 + 1
      BY <1>11, SMTT(60)
    <2> QED
      BY <1>10, <2>1, <2>2
  <1>14. ASSUME NEW k \in 0..N, k \in P, k + 1 <= N PROVE k + 1 \in P
    <2> DEFINE w == walk[k]
               v == walk[k + 1]
    <2>1. Chain(T, n, w) /\ (T[Last(w)] = None \/ Len(w) = k + 1) /\ Len(w) <= k + 1
      BY <1>14
    <2>2. k + 1 \in 0..N /\ v = Climb(T, w)
      BY <1>12, <1>14
    <2> HIDE DEF v, w
    <2>3. /\ Chain(T, n, v) /\ (T[Last(w)] = None => v = w)
          /\ T[Last(w)] # None => Len(v) = Len(w) + 1
      BY <2>1, <2>2, ClimbChain
    <2>4. T[Last(v)] = None \/ Len(v) = (k + 1) + 1
      BY <2>1, <2>3
    <2>5. Len(v) <= (k + 1) + 1
      <3>1. Len(w) \in Nat /\ k \in Nat /\ (Len(v) = Len(w) \/ Len(v) = Len(w) + 1)
        BY <1>1, <2>1, <2>3, SMTT(60) DEF Chain
      <3> QED
        BY <2>1, <3>1, SMTT(60)
    <2> QED
      BY <2>2, <2>3, <2>4, <2>5 DEF v
  <1>15. N \in P
    <2>1. 0..N \subseteq P
      <3> HIDE DEF P
      <3> QED
        BY <1>1, <1>13, <1>14, Upwards, 0 \in Nat
    <2> QED
      BY <1>10, <2>1
  <1> QED
    BY <1>4, <1>15 DEF N

\* A walk stays among the ancestors, and when it ends at a root it has met all.
LEMMA WalkAncestors ==
    ASSUME NEW T, Tree(T), NEW n \in DOMAIN T
    PROVE  /\ Walk(T, n) \in Seq(DOMAIN T) /\ Len(Walk(T, n)) \in Nat \ {0}
           /\ Range(Walk(T, n)) \subseteq AllAncestors(T, n) /\ n \in Range(Walk(T, n))
           /\ Last(Walk(T, n)) \in AllAncestors(T, n)
           /\ T[Last(Walk(T, n))] = None => Range(Walk(T, n)) = AllAncestors(T, n)
  <1> DEFINE W == Walk(T, n)
             A == AllAncestors(T, n)
             L == Len(W)
  <1>1. Chain(T, n, W)
    BY WalkChain
  <1> HIDE DEF W
  <1>2. /\ W \in Seq(DOMAIN T) /\ L >= 1 /\ W[1] = n
        /\ \A i \in 1..L : i < L => T[W[i]] # None /\ W[i + 1] = T[W[i]]
    BY <1>1 DEF Chain
  <1>3. L \in Nat /\ L \in Nat \ {0} /\ 1 \in 1..L /\ L \in 1..L
    BY <1>2, SMTT(60)
  <1>4. Range(W) = {W[i] : i \in 1..L} /\ Last(W) = W[L]
    BY <1>2, SMTT(60) DEF Range, Last
  <1>5. n \in A /\ Closed(T, A) /\ \A S : n \in S /\ Closed(T, S) => A \subseteq S
    BY AncestorsLeast
  <1> HIDE DEF A, L
  <1> DEFINE P == {i \in 1..L : W[i] \in A}
  <1>6. 1..L \subseteq P
    <2>1. 1 \in P
      BY <1>2, <1>3, <1>5
    <2>2. ASSUME NEW i \in 1..L, i \in P, i + 1 <= L PROVE i + 1 \in P
      <3>1. i < L /\ i + 1 \in 1..L
        BY <1>3, <2>2, SMTT(60)
      <3> QED
        BY <1>2, <1>5, <2>2, <3>1 DEF Closed
    <2> HIDE DEF P
    <2> QED
      BY <1>3, <2>1, <2>2, Upwards, 1 \in Nat
  <1>7. Range(W) \subseteq A /\ n \in Range(W) /\ Last(W) \in A
    BY <1>2, <1>3, <1>4, <1>6
  <1>8. ASSUME T[Last(W)] = None PROVE A \subseteq Range(W)
    <2>1. ASSUME NEW i \in 1..L, T[W[i]] # None PROVE T[W[i]] \in Range(W)
      <3>1. i < L /\ i + 1 \in 1..L
        <4>1. i # L
          BY <1>4, <1>8, <2>1
        <4> QED
          BY <1>3, <4>1, SMTT(60)
      <3> QED
        BY <1>2, <1>4, <3>1
    <2>2. Closed(T, Range(W))
      BY <1>4, <2>1 DEF Closed
    <2> QED
      BY <1>5, <1>7, <2>2
  <1> QED
    BY <1>2, <1>3, <1>7, <1>8 DEF W, A, L

\* In a forest a walk that has met every ancestor has ended at a root, and no walk
\* comes back to where it was.
LEMMA ForestWalk ==
    ASSUME NEW T, Tree(T), Forest(T), NEW n \in DOMAIN T
    PROVE  /\ Range(Walk(T, n)) = AllAncestors(T, n) => T[Last(Walk(T, n))] = None
           /\ Cardinality(Range(Walk(T, n))) = Len(Walk(T, n))
  <1> DEFINE W == Walk(T, n)
             L == Len(W)
  <1>1. Chain(T, n, W)
    BY WalkChain
  <1> HIDE DEF W
  <1>2. /\ W \in Seq(DOMAIN T) /\ L >= 1
        /\ \A i \in 1..L : i < L => T[W[i]] # None /\ W[i + 1] = T[W[i]]
    BY <1>1 DEF Chain
  <1>3. L \in Nat /\ L \in 1..L /\ W \in [1..L -> DOMAIN T]
    BY <1>2, SMTT(60)
  <1>4. Range(W) = {W[i] : i \in 1..L} /\ Last(W) = W[L]
    BY <1>2, SMTT(60) DEF Range, Last
  <1> HIDE DEF L
  <1>5. ASSUME Range(W) = AllAncestors(T, n) PROVE T[Last(W)] = None
    <2>1. PICK i \in 1..L : T[W[i]] = None
      BY <1>4, <1>5 DEF Forest
    <2>2. ~(i < L)
      BY <1>2, <2>1
    <2>3. i = L
      BY <1>3, <2>2, SMTT(60)
    <2> QED
      BY <1>4, <2>1, <2>3
  <1>6. ASSUME NEW i \in 1..L, NEW j \in 1..L, i < j PROVE W[i] # W[j]
    <2> SUFFICES ASSUME W[i] = W[j] PROVE FALSE
      OBVIOUS
    <2> DEFINE S == {W[k] : k \in i..j}
    <2>1. i \in i..j /\ i..j \subseteq 1..L
      BY <1>3, <1>6, SMTT(60)
    <2>2. ASSUME NEW k \in i..j PROVE T[W[k]] # None /\ T[W[k]] \in S
      <3>1. CASE k # j
        <4>1. k < L /\ k \in 1..L /\ k + 1 \in i..j
          BY <1>3, <1>6, <3>1, SMTT(60)
        <4> QED
          BY <1>2, <4>1
      <3>2. CASE k = j
        <4>1. i < L /\ i + 1 \in i..j
          BY <1>3, <1>6, SMTT(60)
        <4> QED
          BY <1>2, <3>2, <4>1
      <3> QED
        BY <3>1, <3>2
    <2>3. Closed(T, S) /\ S # {} /\ S \subseteq DOMAIN T /\ \A root \in S : T[root] # None
      BY <1>3, <2>1, <2>2 DEF Closed
    <2> HIDE DEF S
    <2> QED
      BY <2>3, ClosedHasRoot
  <1>7. \A i, j \in 1..L : W[i] = W[j] => i = j
    <2>1. \A i, j \in 1..L : i = j \/ i < j \/ j < i
      BY <1>3, SMTT(60)
    <2> QED
      BY <1>6, <2>1
  <1>8. Cardinality(Range(W)) = L
    <2>1. W \in Surjection(1..L, Range(W)) /\ W \in Injection(1..L, Range(W))
      BY <1>3, <1>4, <1>7 DEF Surjection, Injection, IsInjective
    <2>2. IsFiniteSet(1..L) /\ Cardinality(1..L) = L
      <3>1. IsFiniteSet(1..L) /\ Cardinality(1..L) = IF 1 > L THEN 0 ELSE L - 1 + 1
        BY <1>3, FS_Interval, SMTT(60)
      <3> QED
        BY <1>3, <3>1, SMTT(60)
    <2> QED
      BY <2>1, <2>2, FS_Surjection
  <1> QED
    BY <1>5, <1>8 DEF W, L

-----------------------------------------------------------------------------
(* The levels of a backup.                                                 *)

Below(T, ids) == {r \in Rows(T) : r.row \in ids}

\* The definition of read_namespaces, step by step.
LEMMA LevelSteps ==
    ASSUME NEW t, NEW T, T = t.namespaces
    PROVE  /\ read_namespaces(t) \in [1..Cardinality(Namespace) -> SUBSET Rows(T)]
           /\ \A k \in 1..Cardinality(Namespace) :
                read_namespaces(t)[k]
                  = Below(T, IF k = 1 THEN {None} ELSE Ids(read_namespaces(t)[k - 1]))
  <1> DEFINE N == Cardinality(Namespace)
             All == SUBSET Rows(T)
             top == Below(T, {None})
             step == [R \in All |-> Below(T, Ids(R))]
             Runs(f) == f = [k \in 1..N |->
                          LET above == IF k = 1 THEN {None} ELSE {r.id : r \in f[k - 1]}
                          IN {r \in Rows(T) : r.row \in above}]
             level == CHOOSE f : Runs(f)
  <1>1. N \in Nat
    BY PortableAssumption, FS_CardinalityType
  <1>2. \A ids : Below(T, ids) \in All
    BY DEF Below
  <1>3. top \in All /\ step \in [All -> All]
    BY <1>2
  <1>4. read_namespaces(t) = level
    BY DEF read_namespaces
  <1> HIDE DEF N, All, step, top
  <1>5. PICK f \in [1..N -> All] : \A k \in 1..N : f[k] = IF k = 1 THEN top ELSE step[f[k - 1]]
    <2>1. \E f \in [1..N -> All] : Iterating(f, 1, N, top, step)
      BY <1>1, <1>3, Iterates, 1 \in Nat
    <2> QED
      BY <2>1 DEF Iterating
  <1>6. \A k \in 1..N : k # 1 => k - 1 \in 1..N
    BY <1>1, SMTT(60)
  <1>7. Runs(f)
    <2>1. f = [k \in 1..N |-> f[k]]
      OBVIOUS
    <2>2. \A k \in 1..N : k # 1 => step[f[k - 1]] = Below(T, Ids(f[k - 1]))
      BY <1>6 DEF step
    <2>3. \A k \in 1..N : f[k] = Below(T, IF k = 1 THEN {None} ELSE Ids(f[k - 1]))
      BY <1>5, <2>2 DEF top
    <2> QED
      BY <2>1, <2>3 DEF Below, Ids
  <1>8. Runs(level)
    BY <1>7
  <1> HIDE DEF level
  <1>9. \A k \in 1..N : level[k] = Below(T, IF k = 1 THEN {None} ELSE Ids(level[k - 1]))
    BY <1>8 DEF Below, Ids
  <1>10. level \in [1..N -> All]
    <2>1. level = [k \in 1..N |-> level[k]]
      BY <1>8
    <2>2. \A k \in 1..N : level[k] \in All
      BY <1>2, <1>9
    <2> QED
      BY <2>1, <2>2
  <1> QED
    BY <1>4, <1>9, <1>10 DEF N, All

\* In a forest the levels hold every namespace.
LEMMA LevelsCover ==
    ASSUME NEW t, NEW T, T = t.namespaces, Tree(T), Forest(T)
    PROVE  \A r \in Rows(T) : \E k \in 1..Cardinality(Namespace) : r \in read_namespaces(t)[k]
  <1> DEFINE N == Cardinality(Namespace)
             level == read_namespaces(t)
             C(k) == {n \in DOMAIN T : \E j \in 1..k : [id |-> n, row |-> T[n]] \in level[j]}
  <1>1. N \in Nat /\ IsFiniteSet(Namespace)
    BY PortableAssumption, FS_CardinalityType
  <1>2. /\ level \in [1..N -> SUBSET Rows(T)]
        /\ \A k \in 1..N : level[k] = Below(T, IF k = 1 THEN {None} ELSE Ids(level[k - 1]))
    BY LevelSteps
  <1>3. /\ \A n \in DOMAIN T : [id |-> n, row |-> T[n]] \in Rows(T)
        /\ \A r \in Rows(T) : r.id \in DOMAIN T /\ r.row = T[r.id] /\ r = [id |-> r.id, row |-> T[r.id]]
    BY SMTT(60) DEF Rows
  <1>4. DOMAIN T \subseteq Namespace
    BY DEF Tree
  <1> HIDE DEF N, level
  <1>5. \A n \in DOMAIN T : 1 \in 1..N /\ T[n] = None => [id |-> n, row |-> T[n]] \in level[1]
    BY <1>2, <1>3 DEF Below
  <1>6. ASSUME NEW j \in 1..N, j + 1 <= N, NEW n \in DOMAIN T, T[n] \in DOMAIN T,
               [id |-> T[n], row |-> T[T[n]]] \in level[j]
        PROVE  [id |-> n, row |-> T[n]] \in level[j + 1]
    <2>1. j + 1 \in 1..N /\ j + 1 # 1 /\ j + 1 - 1 = j
      BY <1>1, <1>6, SMTT(60)
    <2>2. level[j + 1] = Below(T, Ids(level[j]))
      BY <1>2, <2>1, SMTT(60)
    <2>3. T[n] \in Ids(level[j])
      BY <1>6, SMTT(60) DEF Ids
    <2> QED
      BY <1>3, <2>2, <2>3 DEF Below
  <1>7. ASSUME NEW k \in 1..N, NEW S, S = DOMAIN T \ C(k), S # {}
        PROVE  \E n \in S : T[n] \in C(k)
    <2>1. 1 \in 1..N /\ 1 \in 1..k
      BY <1>1, SMTT(60)
    <2>2. \A n \in S : T[n] # None
      BY <1>5, <1>7, <2>1
    <2>3. ~Closed(T, S)
      BY <1>7, <2>2, ClosedHasRoot
    <2> HIDE DEF C
    <2> QED
      BY <1>7, <2>2, <2>3 DEF Closed, Tree
  <1>8. \A k \in 1..N : C(k) \subseteq DOMAIN T /\ IsFiniteSet(C(k)) /\ Cardinality(C(k)) \in Nat
    <2>1. \A k \in 1..N : C(k) \subseteq DOMAIN T
      OBVIOUS
    <2> HIDE DEF C
    <2> QED
      BY <1>1, <1>4, <2>1, FS_Subset, FS_CardinalityType
  <1>9. CASE N = 0
    <2>1. Namespace = {}
      BY <1>1, <1>9, FS_EmptySet DEF N
    <2> QED
      BY <1>3, <1>4, <2>1
  <1>10. CASE N # 0
    <2>1. 1 \in 1..N /\ N \in 1..N
      BY <1>1, <1>10, SMTT(60)
    <2> DEFINE P == {k \in 1..N : C(k) = DOMAIN T \/ Cardinality(C(k)) >= k}
    <2>2. 1 \in P
      <3>1. CASE C(1) = DOMAIN T
        BY <2>1, <3>1
      <3>2. CASE C(1) # DOMAIN T
        <4> DEFINE S == DOMAIN T \ C(1)
        <4>1. S # {}
          BY <3>2
        <4>2. C(1) # {}
          <5> HIDE DEF C
          <5> QED
            BY <1>7, <2>1, <4>1
        <4> HIDE DEF C
        <4>3. Cardinality(C(1)) # 0 /\ Cardinality(C(1)) \in Nat
          BY <1>8, <2>1, <4>2, FS_EmptySet
        <4>4. Cardinality(C(1)) >= 1
          BY <4>3, SMTT(60)
        <4> QED
          BY <2>1, <4>4
      <3> QED
        BY <3>1, <3>2
    <2>3. ASSUME NEW k \in 1..N, k \in P, k + 1 <= N PROVE k + 1 \in P
      <3>1. k + 1 \in 1..N /\ 1..k \subseteq 1..(k + 1) /\ \A j \in 1..k : j + 1 \in 1..(k + 1)
        BY <1>1, <2>3, SMTT(60)
      <3>2. C(k) \subseteq C(k + 1)
        BY <3>1
      <3>3. CASE C(k) = DOMAIN T
        <4>1. C(k + 1) = DOMAIN T
          BY <3>2, <3>3
        <4> HIDE DEF C
        <4> QED
          BY <3>1, <4>1
      <3>4. CASE C(k) # DOMAIN T
        <4> DEFINE S == DOMAIN T \ C(k)
        <4>1. S # {}
          BY <3>4
        <4>2. PICK n \in S : T[n] \in C(k)
          <5> HIDE DEF C
          <5> QED
            BY <1>7, <4>1
        <4>3. PICK j \in 1..k : [id |-> T[n], row |-> T[T[n]]] \in level[j]
          BY <4>2
        <4>4. j \in 1..N /\ j + 1 <= N
          BY <1>1, <2>3, SMTT(60)
        <4>5. [id |-> n, row |-> T[n]] \in level[j + 1]
          BY <1>6, <4>2, <4>3, <4>4
        <4>6. n \in C(k + 1) /\ n \notin C(k)
          BY <3>1, <4>2, <4>5
        <4> HIDE DEF C
        <4>7. /\ IsFiniteSet(C(k + 1)) /\ Cardinality(C(k)) \in Nat /\ Cardinality(C(k + 1)) \in Nat
          BY <1>8, <3>1
        <4>8. Cardinality(C(k)) <= Cardinality(C(k + 1)) /\ Cardinality(C(k)) # Cardinality(C(k + 1))
          BY <3>2, <4>6, <4>7, FS_Subset
        <4>9. Cardinality(C(k)) >= k
          BY <2>3, <3>4
        <4>10. Cardinality(C(k + 1)) >= k + 1
          BY <1>1, <4>7, <4>8, <4>9, SMTT(60)
        <4> QED
          BY <3>1, <4>10
      <3> QED
        BY <3>3, <3>4
    <2>4. N \in P
      <3>1. 1..N \subseteq P
        <4> HIDE DEF P
        <4> QED
          BY <1>1, <2>2, <2>3, Upwards, 1 \in Nat
      <3> QED
        BY <2>1, <3>1
    <2>5. C(N) = DOMAIN T
      <3>1. CASE Cardinality(C(N)) >= N
        <4> HIDE DEF C
        <4>1. C(N) \subseteq Namespace /\ C(N) \subseteq DOMAIN T
          BY <1>4, <1>8, <2>1
        <4>2. Cardinality(C(N)) <= N /\ (N = Cardinality(C(N)) => Namespace = C(N))
          BY <1>1, <4>1, FS_Subset DEF N
        <4>3. N = Cardinality(C(N))
          BY <1>1, <1>8, <2>1, <3>1, <4>2, SMTT(60)
        <4> QED
          BY <1>4, <4>1, <4>2, <4>3
      <3> QED
        BY <2>4, <3>1
    <2> QED
      BY <1>3, <2>5, SMTT(60) DEF N, level
  <1> QED
    BY <1>9, <1>10

-----------------------------------------------------------------------------
(* The stream of a backup, decoded again.                                  *)

\* A function on an interval from 1 is a sequence.
LEMMA IntervalSeq ==
    ASSUME NEW S, NEW n \in Nat, NEW f \in [1..n -> S]
    PROVE  f \in Seq(S) /\ Len(f) = n
  BY SMTT(60)

\* Where the parts of a concatenation are.
Parts(s, a, f, g) ==
    /\ Len(s) = 1 + Len(f) + Len(g) /\ s[1] = a
    /\ \A i \in 1..Len(f) : s[1 + i] = f[i]
    /\ \A k \in 1..Len(g) : s[1 + Len(f) + k] = g[k]

LEMMA ThreeParts ==
    ASSUME NEW S, NEW a \in S, NEW f \in Seq(S), NEW g \in Seq(S)
    PROVE  Parts(<<a>> \o f \o g, a, f, g)
  <1> DEFINE s == <<a>> \o f \o g
  <1> DEFINE h == <<a>> \o f
  <1>1. h \in Seq(S) /\ Len(h) = 1 + Len(f) /\ h[1] = a /\ \A i \in 1..Len(f) : h[1 + i] = f[i]
    BY SMTT(60)
  <1>2. s = h \o g
    OBVIOUS
  <1> HIDE DEF h, s
  <1>3. /\ s \in Seq(S) /\ Len(s) = Len(h) + Len(g)
        /\ \A i \in 1..Len(h) : s[i] = h[i]
        /\ \A k \in 1..Len(g) : s[Len(h) + k] = g[k]
    <2>1. h \in Seq(S)
      BY <1>1
    <2>2. s \in Seq(S) /\ Len(s) = Len(h) + Len(g)
      BY <1>2, <2>1, SMTT(60)
    <2>3. \A i \in 1..Len(h) : s[i] = h[i]
      BY <1>2, <2>1, SMTT(60)
    <2>4. \A k \in 1..Len(g) : s[Len(h) + k] = g[k]
      BY <1>2, <2>1, SMTT(60)
    <2> QED
      BY <2>2, <2>3, <2>4
  <1>4. Len(f) \in Nat /\ 1 \in 1..Len(h) /\ \A i \in 1..Len(f) : 1 + i \in 1..Len(h)
    BY <1>1, SMTT(60)
  <1> HIDE DEF s
  <1>5. Parts(s, a, f, g)
    BY <1>1, <1>3, <1>4 DEF Parts
  <1> QED
    BY <1>5 DEF s

Levels(t) == [k \in 1..Cardinality(Namespace) |-> append_record("namespaces", read_namespaces(t)[k])]
Tables(t) == [k \in 1..11 |-> append_record(Kinds[k], portable_snapshot(t)[Kinds[k]])]
Stream(t) == encode_logical_snapshot(portable_snapshot(t))
Decoded(t) == decode_logical_stream(Stream(t))

\* What the stream holds at each place.
Placed(t, s, N) ==
    /\ N \in Nat /\ Len(s) = N + 12
    /\ s[1].kind = "keys" /\ s[1].rows = {"vault_keys"}
    /\ \A i \in 1..N : s[1 + i].kind = "namespaces" /\ s[1 + i].rows = read_namespaces(t)[i]
    /\ \A k \in 1..11 : /\ s[1 + N + k].kind = Kinds[k]
                        /\ s[1 + N + k].rows = portable_snapshot(t)[Kinds[k]]

LEMMA StreamPlaces ==
    ASSUME NEW t
    PROVE  Placed(t, Stream(t), Cardinality(Namespace))
  <1> DEFINE N == Cardinality(Namespace)
  <1> DEFINE a == append_record("keys", {"vault_keys"})
             f == Levels(t)
             g == Tables(t)
             S == {a} \union {f[i] : i \in 1..N} \union {g[k] : k \in 1..11}
  <1>1. N \in Nat
    BY PortableAssumption, FS_CardinalityType
  <1>2. Len(Kinds) = 11
    BY SMTT(60) DEF Kinds
  <1>3. Len(read_namespaces(t)) = N
    <2>1. read_namespaces(t) \in [1..N -> SUBSET Rows(t.namespaces)]
      BY LevelSteps
    <2> QED
      BY <1>1, <2>1, IntervalSeq
  <1>4. portable_snapshot(t).namespaces = read_namespaces(t)
    BY DEF portable_snapshot
  <1>5. Stream(t) = <<a>> \o f \o g
    BY <1>2, <1>3, <1>4 DEF Stream, encode_logical_snapshot, Levels, Tables
  <1>6. /\ f = [k \in 1..N |-> f[k]] /\ g = [k \in 1..11 |-> g[k]]
        /\ \A i \in 1..N : f[i] = append_record("namespaces", read_namespaces(t)[i])
        /\ \A k \in 1..11 : g[k] = append_record(Kinds[k], portable_snapshot(t)[Kinds[k]])
    BY DEF Levels, Tables
  <1> HIDE DEF a, f, g, N
  <1>7. a \in S /\ f \in [1..N -> S] /\ g \in [1..11 -> S]
    BY <1>6
  <1> HIDE DEF S
  <1>8. f \in Seq(S) /\ g \in Seq(S) /\ Len(f) = N /\ Len(g) = 11 /\ a \in S
    <2>1. f \in Seq(S) /\ Len(f) = N
      BY <1>1, <1>7, IntervalSeq
    <2>2. g \in Seq(S) /\ Len(g) = 11
      <3> DEFINE n == 11
      <3>1. n \in Nat /\ g \in [1..n -> S]
        BY <1>7
      <3> HIDE DEF n
      <3>2. g \in Seq(S) /\ Len(g) = n
        BY <3>1, IntervalSeq
      <3> QED
        BY <3>2 DEF n
    <2> QED
      BY <1>7, <2>1, <2>2
  <1> DEFINE s == Stream(t)
  <1> HIDE DEF s
  <1>9. s = <<a>> \o f \o g
    BY <1>5 DEF s
  <1>10. Parts(s, a, f, g)
    BY <1>8, <1>9, ThreeParts
  <1>11. Len(s) = N + 12
    <2>1. Len(s) = 1 + N + 11
      BY <1>8, <1>10 DEF Parts
    <2> QED
      BY <1>1, <2>1, SMTT(60)
  <1>12. s[1].kind = "keys" /\ s[1].rows = {"vault_keys"}
    <2>1. s[1] = a
      BY <1>10 DEF Parts
    <2> QED
      BY <2>1, SMTT(60) DEF a, append_record
  <1>13. ASSUME NEW i \in 1..N
         PROVE  s[1 + i].kind = "namespaces" /\ s[1 + i].rows = read_namespaces(t)[i]
    <2>1. s[1 + i] = f[i]
      BY <1>8, <1>10 DEF Parts
    <2>2. f[i] = append_record("namespaces", read_namespaces(t)[i])
      BY <1>6
    <2> QED
      BY <2>1, <2>2, SMTT(60) DEF append_record
  <1>14. ASSUME NEW k \in 1..11
         PROVE  /\ s[1 + N + k].kind = Kinds[k]
                /\ s[1 + N + k].rows = portable_snapshot(t)[Kinds[k]]
    <2>1. s[1 + N + k] = g[k]
      BY <1>8, <1>10 DEF Parts
    <2>2. g[k] = append_record(Kinds[k], portable_snapshot(t)[Kinds[k]])
      BY <1>6
    <2> QED
      BY <2>1, <2>2, SMTT(60) DEF append_record
  <1>15. Placed(t, s, N)
    BY <1>1, <1>11, <1>12, <1>13, <1>14 DEF Placed
  <1> QED
    BY <1>15 DEF s, N

\* The kinds are those of the tables, and each has one place.
LEMMA KindPlaces ==
    /\ Kinds[1] = "secrets" /\ Kinds[2] = "secret_versions" /\ Kinds[3] = "tombstones"
    /\ Kinds[4] = "principals" /\ Kinds[5] = "authenticators" /\ Kinds[6] = "service_identities"
    /\ Kinds[7] = "credentials" /\ Kinds[8] = "authorization_state" /\ Kinds[9] = "policies"
    /\ Kinds[10] = "grants" /\ Kinds[11] = "bindings"
    /\ \A k \in 1..11 : Kinds[k] # "keys" /\ Kinds[k] # "namespaces"
    /\ \A j, k \in 1..11 : Kinds[j] = Kinds[k] => j = k
  <1>1. \A k \in 1..11 : k = 1 \/ k = 2 \/ k = 3 \/ k = 4 \/ k = 5 \/ k = 6 \/ k = 7 \/ k = 8
                         \/ k = 9 \/ k = 10 \/ k = 11
    BY SMTT(60)
  <1>2. /\ Kinds[1] = "secrets" /\ Kinds[2] = "secret_versions" /\ Kinds[3] = "tombstones"
        /\ Kinds[4] = "principals" /\ Kinds[5] = "authenticators" /\ Kinds[6] = "service_identities"
        /\ Kinds[7] = "credentials" /\ Kinds[8] = "authorization_state" /\ Kinds[9] = "policies"
        /\ Kinds[10] = "grants" /\ Kinds[11] = "bindings"
    BY SMTT(60) DEF Kinds
  <1>3. \A k \in 1..11 : Kinds[k] # "keys" /\ Kinds[k] # "namespaces"
    BY <1>1, <1>2
  <1>4. \A j, k \in 1..11 : Kinds[j] = Kinds[k] => j = k
    BY <1>1, <1>2, SMTT(60)
  <1> QED
    BY <1>2, <1>3, <1>4

\* Every place of the stream, once.
LEMMA Places ==
    ASSUME NEW N \in Nat, NEW j \in 1..(N + 12)
    PROVE  /\ j = 1 \/ (\E i \in 1..N : j = 1 + i) \/ (\E k \in 1..11 : j = 1 + N + k)
  <1>1. CASE j = 1
    BY <1>1
  <1>2. CASE j # 1 /\ j <= N + 1
    <2>1. j - 1 \in 1..N /\ j = 1 + (j - 1)
      BY <1>2, SMTT(60)
    <2> QED
      BY <2>1
  <1>3. CASE ~(j <= N + 1)
    <2>1. j - 1 - N \in 1..11 /\ j = 1 + N + (j - 1 - N)
      BY <1>3, SMTT(60)
    <2> QED
      BY <2>1
  <1> QED
    BY <1>1, <1>2, <1>3

\* The rows of a table are what the snapshot holds of it.
LEMMA TableRows ==
    ASSUME NEW t, NEW k \in 1..11, NEW kind, kind = Kinds[k]
    PROVE  RowsOfKind(Stream(t), kind) = portable_snapshot(t)[kind]
  <1>kind. /\ kind # "keys" /\ kind # "namespaces"
           /\ \A j \in 1..11 : Kinds[j] = kind => j = k
    BY KindPlaces
  <1> DEFINE N == Cardinality(Namespace)
             s == Stream(t)
             rows == portable_snapshot(t)[kind]
  <1>1. Placed(t, s, N)
    BY StreamPlaces
  <1> HIDE DEF N, s
  <1>2. /\ s[1].kind = "keys" /\ \A i \in 1..N : s[1 + i].kind = "namespaces"
        /\ \A j \in 1..11 : s[1 + N + j].kind = Kinds[j]
        /\ s[1 + N + k].rows = rows
    BY <1>1 DEF Placed
  <1> HIDE DEF rows
  <1>len. N \in Nat /\ Len(s) = N + 12
    BY <1>1 DEF Placed
  <1>nat. N \in Nat
    BY <1>len
  <1>3. ASSUME NEW j \in 1..(N + 12), s[j].kind = kind PROVE j = 1 + N + k
    <2>1. j # 1
      BY <1>kind, <1>2, <1>3
    <2>2. \A i \in 1..N : j # 1 + i
      BY <1>kind, <1>2, <1>3
    <2>3. PICK i \in 1..11 : j = 1 + N + i
      BY <1>nat, <2>1, <2>2, Places
    <2> QED
      BY <1>kind, <1>2, <1>3, <2>3
  <1>4. 1 + N + k \in 1..(N + 12)
    BY <1>nat, SMTT(60)
  <1>5. RowsOfKind(s, kind)
          = UNION {IF s[j].kind = kind THEN s[j].rows ELSE {} : j \in 1..(N + 12)}
    BY <1>len DEF RowsOfKind, OfKind, Range
  <1>6. \A x : x \in RowsOfKind(s, kind) <=> x \in rows
    BY <1>2, <1>3, <1>4, <1>5
  <1> QED
    BY <1>6 DEF s, rows

\* The namespaces of the stream, with nothing where something else is.
LEMMA NamespaceRows ==
    ASSUME NEW t, NEW N, N = Cardinality(Namespace)
    PROVE  LET levels == OfKind(Stream(t), "namespaces")
           IN /\ levels = [j \in 1..(N + 12) |-> levels[j]] /\ Len(levels) = N + 12 /\ N \in Nat
              /\ \A i \in 1..N : levels[1 + i] = read_namespaces(t)[i]
              /\ \A j \in 1..(N + 12) : levels[j] # {} => \E i \in 1..N : j = 1 + i
  <1> DEFINE s == Stream(t)
             levels == OfKind(s, "namespaces")
  <1>1. Placed(t, s, N)
    BY StreamPlaces
  <1> HIDE DEF s
  <1>2. /\ s[1].kind = "keys" /\ \A i \in 1..N : s[1 + i].kind = "namespaces"
        /\ \A i \in 1..N : s[1 + i].rows = read_namespaces(t)[i]
        /\ \A j \in 1..11 : s[1 + N + j].kind = Kinds[j]
    BY <1>1 DEF Placed
  <1>len. N \in Nat /\ Len(s) = N + 12
    BY <1>1 DEF Placed
  <1>nat. N \in Nat
    BY <1>len
  <1>3. levels = [j \in 1..(N + 12) |-> IF s[j].kind = "namespaces" THEN s[j].rows ELSE {}]
    BY <1>len DEF OfKind
  <1>4. \A j \in 1..(N + 12) : levels[j] = IF s[j].kind = "namespaces" THEN s[j].rows ELSE {}
    BY <1>3
  <1>5. levels = [j \in 1..(N + 12) |-> levels[j]]
    BY <1>3
  <1>6. Len(levels) = N + 12
    <2>1. levels \in [1..(N + 12) -> {levels[j] : j \in 1..(N + 12)}] /\ N + 12 \in Nat
      <3>1. N + 12 \in Nat
        BY <1>nat, SMTT(60)
      <3> HIDE DEF levels
      <3> QED
        BY <1>5, <3>1
    <2> HIDE DEF levels
    <2> QED
      BY <2>1, IntervalSeq, SMTT(60)
  <1> HIDE DEF levels
  <1>7. \A i \in 1..N : 1 + i \in 1..(N + 12)
    BY <1>nat, SMTT(60)
  <1>8. \A i \in 1..N : levels[1 + i] = read_namespaces(t)[i]
    BY <1>2, <1>4, <1>7
  <1>9. ASSUME NEW j \in 1..(N + 12), levels[j] # {} PROVE \E i \in 1..N : j = 1 + i
    <2>1. s[j].kind = "namespaces"
      BY <1>4, <1>9
    <2>2. j # 1
      BY <1>2, <2>1
    <2>3. \A k \in 1..11 : j # 1 + N + k
      BY <1>2, <2>1, KindPlaces, SMTT(60)
    <2> QED
      BY <1>nat, <2>2, <2>3, Places
  <1> QED
    BY <1>nat, <1>5, <1>6, <1>8, <1>9 DEF levels, s

-----------------------------------------------------------------------------
(* The vault, as its requests and the restores keep it.                    *)

Fields ==
    {"epoch", "principals", "authenticators", "service_identities", "credentials", "namespaces",
     "secrets", "tombstones", "policies", "grants", "bindings", "authorization"}

IsTable(T) == T = [k \in DOMAIN T |-> T[k]]

\* Its tables are tables.
IsVault(t) ==
    /\ t = [f \in Fields |-> t[f]]
    /\ IsTable(t.principals) /\ IsTable(t.authenticators) /\ IsTable(t.credentials)
    /\ IsTable(t.secrets) /\ IsTable(t.policies)

\* The owner is a principal of its own kind.
OwnerHeld(t) == Owner \in DOMAIN t.principals => t.principals[Owner] = "owner"

\* An authenticator is the owner's; the password is active, and every row has
\* the commitment of its state.
AuthenticatorsHeld(t) ==
    \A a \in DOMAIN t.authenticators :
       LET r == t.authenticators[a]
       IN /\ r = [kind |-> r.kind, principal |-> r.principal, state |-> r.state,
                  state_commitment |-> authenticator_commitment(r.kind, r.state)]
          /\ r.kind \in {"password", "passkey"} /\ r.state \in {"active", "revoked"}
          /\ r.kind = "password" => r.state = "active"
          /\ r.principal \in DOMAIN t.principals /\ t.principals[r.principal] = "owner"

\* A service is a principal, and a credential a service's.
ServicesHeld(t) ==
    /\ \A v \in t.service_identities : v \in DOMAIN t.principals /\ t.principals[v] = "service"
    /\ \A c \in DOMAIN t.credentials :
          LET r == t.credentials[c]
          IN /\ r = [principal |-> r.principal, revoked |-> r.revoked,
                     state_commitment |-> application_credential_commitment(r.principal, r.revoked)]
             /\ r.revoked \in BOOLEAN /\ r.principal \in t.service_identities

\* A secret is in a namespace and has the versions up to its current one.
SecretsHeld(t) ==
    \A s \in DOMAIN t.secrets :
       LET r == t.secrets[s]
       IN /\ r = [namespace |-> r.namespace, state |-> r.state, current |-> r.current,
                  versions |-> 1..r.current]
          /\ r.namespace \in DOMAIN t.namespaces /\ r.current \in Nat \ {0}

\* What the graph refers to is there, but for the secrets.
GraphHeld(t) ==
    /\ \A g \in t.grants : /\ g.policy \in DOMAIN t.policies /\ g.kind \in {"namespace", "secret"}
                           /\ g.kind = "namespace" => g.target \in DOMAIN t.namespaces
    /\ \A b \in t.bindings : b[1] \in t.service_identities /\ b[2] \in DOMAIN t.policies

VaultHeld(t) ==
    /\ IsVault(t) /\ Tree(t.namespaces) /\ Forest(t.namespaces) /\ OwnerHeld(t)
    /\ AuthenticatorsHeld(t) /\ ServicesHeld(t) /\ SecretsHeld(t) /\ GraphHeld(t)

\* A key that lives names a namespace.
ReservedHeld == IsTable(reserved) /\ \A s \in DOMAIN reserved : reserved[s] \in DOMAIN db.namespaces

PortableInv == VaultHeld(db) /\ ReservedHeld

-----------------------------------------------------------------------------
(* A backup read back: the tables, the transformation and the import.      *)

\* A table is the table of its rows.
LEMMA TableOfRows ==
    ASSUME NEW T, IsTable(T)
    PROVE  /\ AsTable(Rows(T)) = T /\ Ids(Rows(T)) = DOMAIN T /\ OneRowEach(Rows(T))
  <1>1. \A r \in Rows(T) : r.id \in DOMAIN T /\ r.row = T[r.id] /\ r = [id |-> r.id, row |-> T[r.id]]
    BY SMTT(60) DEF Rows
  <1>2. \A k \in DOMAIN T : \E r \in Rows(T) : r.id = k
    <2>1. \A k \in DOMAIN T : [id |-> k, row |-> T[k]] \in Rows(T) /\ [id |-> k, row |-> T[k]].id = k
      BY DEF Rows
    <2> QED
      BY <2>1
  <1>3. {r.id : r \in Rows(T)} = DOMAIN T
    BY <1>1, <1>2
  <1>4. ASSUME NEW k \in DOMAIN T PROVE (CHOOSE r \in Rows(T) : r.id = k).row = T[k]
    BY <1>1, <1>2
  <1>5. AsTable(Rows(T)) = [k \in DOMAIN T |-> T[k]]
    BY <1>3, <1>4, SMTT(60) DEF AsTable
  <1>6. OneRowEach(Rows(T))
    BY <1>1 DEF OneRowEach
  <1> QED
    BY <1>3, <1>5, <1>6 DEF IsTable, Ids

\* The tables come back as they were read.
LEMMA DecodedTables ==
    ASSUME NEW t
    PROVE  /\ Decoded(t).namespaces = OfKind(Stream(t), "namespaces")
           /\ Decoded(t).secrets = read_secrets(t)
           /\ Decoded(t).secret_versions = read_secret_versions(t)
           /\ Decoded(t).tombstones = t.tombstones
           /\ Decoded(t).principals = Rows(t.principals)
           /\ Decoded(t).authenticators = Rows(t.authenticators)
           /\ Decoded(t).service_identities = t.service_identities
           /\ Decoded(t).credentials = Rows(t.credentials)
           /\ Decoded(t).authorization_state = {t.authorization}
           /\ Decoded(t).policies = Rows(t.policies)
           /\ Decoded(t).grants = t.grants
           /\ Decoded(t).bindings = t.bindings
  <1> DEFINE snap == portable_snapshot(t)
             rows(kind) == RowsOfKind(Stream(t), kind)
  <1>1. /\ snap["secrets"] = read_secrets(t)
        /\ snap["secret_versions"] = read_secret_versions(t)
        /\ snap["tombstones"] = t.tombstones
        /\ snap["principals"] = Rows(t.principals)
        /\ snap["authenticators"] = Rows(t.authenticators)
        /\ snap["service_identities"] = t.service_identities
        /\ snap["credentials"] = Rows(t.credentials)
        /\ snap["authorization_state"] = {t.authorization}
        /\ snap["policies"] = Rows(t.policies)
        /\ snap["grants"] = t.grants
        /\ snap["bindings"] = t.bindings
    BY DEF portable_snapshot, read_tombstones, read_principals, read_authenticators,
           read_service_identities, read_application_credentials, read_authorization_state,
           read_policies, read_grants, read_bindings
  <1> HIDE DEF snap
  <1>2. /\ Decoded(t).namespaces = OfKind(Stream(t), "namespaces")
        /\ Decoded(t).secrets = rows("secrets")
        /\ Decoded(t).secret_versions = rows("secret_versions")
        /\ Decoded(t).tombstones = rows("tombstones")
        /\ Decoded(t).principals = rows("principals")
        /\ Decoded(t).authenticators = rows("authenticators")
        /\ Decoded(t).service_identities = rows("service_identities")
        /\ Decoded(t).credentials = rows("credentials")
        /\ Decoded(t).authorization_state = rows("authorization_state")
        /\ Decoded(t).policies = rows("policies")
        /\ Decoded(t).grants = rows("grants")
        /\ Decoded(t).bindings = rows("bindings")
    BY DEF Decoded, decode_logical_stream
  <1> HIDE DEF rows
  <1>3. /\ 1 \in 1..11 /\ 2 \in 1..11 /\ 3 \in 1..11 /\ 4 \in 1..11 /\ 5 \in 1..11 /\ 6 \in 1..11
        /\ 7 \in 1..11 /\ 8 \in 1..11 /\ 9 \in 1..11 /\ 10 \in 1..11 /\ 11 \in 1..11
    BY SMTT(60)
  <1>4. rows("secrets") = snap["secrets"]
    <2>1. Kinds[1] = "secrets"
      BY KindPlaces
    <2> QED
      BY <1>3, <2>1, TableRows DEF rows, snap
  <1>5. rows("secret_versions") = snap["secret_versions"]
    <2>1. Kinds[2] = "secret_versions"
      BY KindPlaces
    <2> QED
      BY <1>3, <2>1, TableRows DEF rows, snap
  <1>6. rows("tombstones") = snap["tombstones"]
    <2>1. Kinds[3] = "tombstones"
      BY KindPlaces
    <2> QED
      BY <1>3, <2>1, TableRows DEF rows, snap
  <1>7. rows("principals") = snap["principals"]
    <2>1. Kinds[4] = "principals"
      BY KindPlaces
    <2> QED
      BY <1>3, <2>1, TableRows DEF rows, snap
  <1>8. rows("authenticators") = snap["authenticators"]
    <2>1. Kinds[5] = "authenticators"
      BY KindPlaces
    <2> QED
      BY <1>3, <2>1, TableRows DEF rows, snap
  <1>9. rows("service_identities") = snap["service_identities"]
    <2>1. Kinds[6] = "service_identities"
      BY KindPlaces
    <2> QED
      BY <1>3, <2>1, TableRows DEF rows, snap
  <1>10. rows("credentials") = snap["credentials"]
    <2>1. Kinds[7] = "credentials"
      BY KindPlaces
    <2> QED
      BY <1>3, <2>1, TableRows DEF rows, snap
  <1>11. rows("authorization_state") = snap["authorization_state"]
    <2>1. Kinds[8] = "authorization_state"
      BY KindPlaces
    <2> QED
      BY <1>3, <2>1, TableRows DEF rows, snap
  <1>12. rows("policies") = snap["policies"]
    <2>1. Kinds[9] = "policies"
      BY KindPlaces
    <2> QED
      BY <1>3, <2>1, TableRows DEF rows, snap
  <1>13. rows("grants") = snap["grants"]
    <2>1. Kinds[10] = "grants"
      BY KindPlaces
    <2> QED
      BY <1>3, <2>1, TableRows DEF rows, snap
  <1>14. rows("bindings") = snap["bindings"]
    <2>1. Kinds[11] = "bindings"
      BY KindPlaces
    <2> QED
      BY <1>3, <2>1, TableRows DEF rows, snap
  <1> QED
    BY <1>1, <1>2, <1>4, <1>5, <1>6, <1>7, <1>8, <1>9, <1>10, <1>11, <1>12, <1>13, <1>14

\* Every namespace comes back, its parent before it.
LEMMA DecodedNamespaces ==
    ASSUME NEW t, Tree(t.namespaces), Forest(t.namespaces)
    PROVE  /\ UNION Range(Decoded(t).namespaces) = Rows(t.namespaces)
           /\ insert_namespaces(Decoded(t).namespaces)
  <1> DEFINE N == Cardinality(Namespace)
             T == t.namespaces
             level == read_namespaces(t)
             levels == OfKind(Stream(t), "namespaces")
  <1>1. /\ levels = [j \in 1..(N + 12) |-> levels[j]] /\ Len(levels) = N + 12
        /\ \A i \in 1..N : levels[1 + i] = level[i]
        /\ \A j \in 1..(N + 12) : levels[j] # {} => \E i \in 1..N : j = 1 + i
    BY NamespaceRows
  <1>nat. N \in Nat
    BY NamespaceRows
  <1>2. /\ level \in [1..N -> SUBSET Rows(T)]
        /\ \A k \in 1..N : level[k] = Below(T, IF k = 1 THEN {None} ELSE Ids(level[k - 1]))
    BY LevelSteps
  <1>3. \A r \in Rows(T) : \E k \in 1..N : r \in level[k]
    BY LevelsCover
  <1>4. IsTable(T)
    BY DEF Tree, IsTable
  <1>5. OneRowEach(Rows(T))
    BY <1>4, TableOfRows
  <1> HIDE DEF N, T, level, levels
  <1>6. \A i \in 1..N : 1 + i \in 1..(N + 12)
    BY <1>nat, SMTT(60)
  <1>7. Range(levels) = {levels[j] : j \in 1..(N + 12)}
    <2>1. DOMAIN levels = 1..(N + 12)
      BY <1>1
    <2> QED
      BY <2>1 DEF Range
  <1>8. UNION Range(levels) = Rows(T)
    <2>1. ASSUME NEW j \in 1..(N + 12), NEW r \in levels[j] PROVE r \in Rows(T)
      <3>1. PICK i \in 1..N : j = 1 + i
        BY <1>1, <2>1
      <3>2. levels[j] = level[i]
        BY <1>1, <3>1
      <3> QED
        BY <1>2, <2>1, <3>2
    <2>2. ASSUME NEW r \in Rows(T) PROVE \E j \in 1..(N + 12) : r \in levels[j]
      <3>1. PICK i \in 1..N : r \in level[i]
        BY <1>3
      <3>2. levels[1 + i] = level[i] /\ 1 + i \in 1..(N + 12)
        BY <1>1, <1>6
      <3> QED
        BY <3>1, <3>2
    <2>3. \A r : r \in UNION {levels[j] : j \in 1..(N + 12)} <=> r \in Rows(T)
      BY <2>1, <2>2
    <2> QED
      BY <1>7, <2>3
  <1>9. ASSUME NEW j \in 1..(N + 12), NEW r \in levels[j], r.row # None
        PROVE  \E i \in 1..j - 1 : r.row \in Ids(levels[i])
    <2>1. PICK i \in 1..N : j = 1 + i
      BY <1>1, <1>9
    <2>2. levels[j] = level[i]
      BY <1>1, <2>1
    <2>3. r \in Below(T, IF i = 1 THEN {None} ELSE Ids(level[i - 1]))
      BY <1>2, <1>9, <2>2
    <2>4. i # 1 /\ r.row \in Ids(level[i - 1])
      BY <1>9, <2>3 DEF Below
    <2>5. i - 1 \in 1..N /\ i \in 1..j - 1 /\ 1 + (i - 1) = i
      <3>1. i # 1
        BY <2>4
      <3> QED
        BY <1>nat, <2>1, <3>1, SMTT(60)
    <2>6. levels[i] = level[i - 1]
      <3>1. levels[1 + (i - 1)] = level[i - 1]
        BY <1>1, <2>5
      <3> QED
        BY <2>5, <3>1
    <2> QED
      BY <2>4, <2>5, <2>6
  <1>10. insert_namespaces(levels)
    <2>1. OneRowEach(UNION Range(levels))
      BY <1>5, <1>8
    <2>2. \A k \in 1..Len(levels) : \A r \in levels[k] :
            r.row # None => \E i \in 1..k - 1 : r.row \in Ids(levels[i])
      BY <1>1, <1>9
    <2> QED
      BY <2>1, <2>2 DEF insert_namespaces
  <1>11. Decoded(t).namespaces = levels
    BY DecodedTables DEF levels
  <1> QED
    BY <1>8, <1>10, <1>11 DEF T

\* The stream is one that a restore reads.
LEMMA StreamWellFormed ==
    ASSUME NEW t
    PROVE  well_formed(Stream(t))
  <1> DEFINE N == Cardinality(Namespace)
             s == Stream(t)
  <1>1. Placed(t, s, N)
    BY StreamPlaces
  <1>2. RowsOfKind(s, "authorization_state") = {t.authorization}
    BY DecodedTables DEF Decoded, decode_logical_stream
  <1> HIDE DEF N, s
  <1>len. N \in Nat /\ Len(s) = N + 12
    BY <1>1 DEF Placed
  <1>nat. N \in Nat
    BY <1>len
  <1>3. /\ s[1].kind = "keys" /\ s[1].rows = {"vault_keys"}
        /\ \A i \in 1..N : s[1 + i].kind = "namespaces"
        /\ \A k \in 1..11 : s[1 + N + k].kind = Kinds[k]
    BY <1>1 DEF Placed
  <1>4. N + 12 > 0
    BY <1>nat, SMTT(60)
  <1>5. ASSUME NEW j \in 1..(N + 12)
        PROVE  /\ s[j].kind = "keys" <=> j = 1
               /\ s[j].kind \in Range(Kinds) \union {"keys", "namespaces"}
    <2>1. CASE j = 1
      BY <1>3, <2>1
    <2>2. ASSUME NEW i \in 1..N, j = 1 + i
          PROVE  s[j].kind = "namespaces" /\ j # 1
      <3>1. 1 + i # 1
        BY <1>nat, SMTT(60)
      <3> QED
        BY <1>3, <2>2, <3>1
    <2>3. ASSUME NEW k \in 1..11, j = 1 + N + k
          PROVE  s[j].kind = Kinds[k] /\ j # 1
      <3>1. 1 + N + k # 1
        BY <1>nat, SMTT(60)
      <3> QED
        BY <1>3, <2>3, <3>1
    <2>4. \A k \in 1..11 : Kinds[k] \in Range(Kinds)
      <3>1. DOMAIN Kinds = 1..11
        BY SMTT(60) DEF Kinds
      <3> QED
        BY <3>1 DEF Range
    <2> QED
      BY <1>nat, <2>1, <2>2, <2>3, <2>4, Places, KindPlaces
  <1>6. Cardinality(s[1].rows) = 1 /\ Cardinality(RowsOfKind(s, "authorization_state")) = 1
    BY <1>2, <1>3, FS_Singleton
  <1> QED
    BY <1>len, <1>4, <1>5, <1>6 DEF well_formed, s

\* What a restore makes of an authenticator and of a credential.
Rebound(a) ==
    IF a.kind = "passkey" /\ a.state = "active"
    THEN [kind |-> a.kind, principal |-> a.principal, state |-> "revoked",
          state_commitment |-> authenticator_commitment("passkey", "revoked")]
    ELSE a

Reissued(c, mode) ==
    IF mode = "revoke" /\ ~c.revoked
    THEN [principal |-> c.principal, revoked |-> TRUE,
          state_commitment |-> application_credential_commitment(c.principal, TRUE)]
    ELSE c

LEMMA ReboundRow ==
    ASSUME NEW k, NEW kind, NEW principal, NEW state, NEW commitment, NEW a,
           a = [kind |-> kind, principal |-> principal, state |-> state,
                state_commitment |-> commitment]
    PROVE  transform_authenticator([id |-> k, row |-> a]) = [id |-> k, row |-> Rebound(a)]
  <1> DEFINE x == [id |-> k, row |-> a]
             b == [kind |-> kind, principal |-> principal, state |-> "revoked",
                   state_commitment |-> authenticator_commitment("passkey", "revoked")]
  <1>1. a.kind = kind /\ a.principal = principal /\ a.state = state /\ x.row = a
    OBVIOUS
  <1>2. [x EXCEPT !.row.state = "revoked",
                  !.row.state_commitment = authenticator_commitment("passkey", "revoked")]
          = [id |-> k, row |-> b]
    <2> DEFINE c == authenticator_commitment("passkey", "revoked")
               y == [id |-> k, row |-> [kind |-> kind, principal |-> principal, state |-> "revoked",
                                        state_commitment |-> commitment]]
    <2> HIDE DEF c
    <2>1. [x EXCEPT !.row.state = "revoked"] = y
      BY SMTT(60)
    <2>2. [y EXCEPT !.row.state_commitment = c]
            = [id |-> k, row |-> [kind |-> kind, principal |-> principal, state |-> "revoked",
                                  state_commitment |-> c]]
      BY SMTT(60)
    <2> HIDE DEF x, y
    <2> QED
      BY <2>1, <2>2 DEF c
  <1>3. CASE a.kind = "passkey" /\ a.state = "active"
    <2>1. Rebound(a) = b
      BY <1>1, <1>3 DEF Rebound
    <2>2. transform_authenticator(x) = [id |-> k, row |-> b]
      BY <1>1, <1>2, <1>3 DEF transform_authenticator
    <2> QED
      BY <2>1, <2>2
  <1>4. CASE ~(a.kind = "passkey" /\ a.state = "active")
    BY <1>1, <1>4 DEF transform_authenticator, Rebound
  <1> QED
    BY <1>3, <1>4

LEMMA ReissuedRow ==
    ASSUME NEW k, NEW mode, NEW principal, NEW revoked, NEW commitment, NEW a,
           a = [principal |-> principal, revoked |-> revoked, state_commitment |-> commitment]
    PROVE  transform_credential([id |-> k, row |-> a], mode) = [id |-> k, row |-> Reissued(a, mode)]
  <1> DEFINE x == [id |-> k, row |-> a]
             b == [principal |-> principal, revoked |-> TRUE,
                   state_commitment |-> application_credential_commitment(principal, TRUE)]
  <1>1. a.principal = principal /\ a.revoked = revoked /\ x.row = a
    OBVIOUS
  <1>2. [x EXCEPT !.row.revoked = TRUE,
                  !.row.state_commitment = application_credential_commitment(x.row.principal, TRUE)]
          = [id |-> k, row |-> b]
    <2> DEFINE c == application_credential_commitment(principal, TRUE)
               yes == TRUE
               y == [id |-> k, row |-> [principal |-> principal, revoked |-> yes,
                                        state_commitment |-> commitment]]
    <2>0. x.row.principal = principal
      BY <1>1
    <2> HIDE DEF c, yes
    <2>1. [x EXCEPT !.row.revoked = yes] = y
      BY SMTT(60)
    <2>2. [y EXCEPT !.row.state_commitment = c]
            = [id |-> k, row |-> [principal |-> principal, revoked |-> yes,
                                  state_commitment |-> c]]
      BY SMTT(60)
    <2> HIDE DEF x, y
    <2> QED
      BY <2>0, <2>1, <2>2 DEF c, yes
  <1>3. CASE mode = "revoke" /\ ~a.revoked
    <2>1. Reissued(a, mode) = b
      BY <1>1, <1>3 DEF Reissued
    <2>2. transform_credential(x, mode) = [id |-> k, row |-> b]
      BY <1>1, <1>2, <1>3 DEF transform_credential
    <2> QED
      BY <2>1, <2>2
  <1>4. CASE ~(mode = "revoke" /\ ~a.revoked)
    BY <1>1, <1>4 DEF transform_credential, Reissued
  <1> QED
    BY <1>3, <1>4

\* The transformation keeps the keys of the rows.
LEMMA TransformedRows ==
    ASSUME NEW t, NEW mode, VaultHeld(t)
    PROVE  /\ {transform_authenticator(r) : r \in Rows(t.authenticators)}
                = Rows([k \in DOMAIN t.authenticators |-> Rebound(t.authenticators[k])])
           /\ {transform_credential(r, mode) : r \in Rows(t.credentials)}
                = Rows([k \in DOMAIN t.credentials |-> Reissued(t.credentials[k], mode)])
  <1>1. {transform_authenticator(r) : r \in Rows(t.authenticators)}
          = Rows([k \in DOMAIN t.authenticators |-> Rebound(t.authenticators[k])])
    <2> DEFINE A == t.authenticators
    <2>1. ASSUME NEW k \in DOMAIN A
          PROVE  transform_authenticator([id |-> k, row |-> A[k]]) = [id |-> k, row |-> Rebound(A[k])]
      <3> DEFINE a == A[k]
      <3>1. a = [kind |-> a.kind, principal |-> a.principal, state |-> a.state,
                 state_commitment |-> authenticator_commitment(a.kind, a.state)]
        BY DEF VaultHeld, AuthenticatorsHeld
      <3> HIDE DEF a
      <3>2. transform_authenticator([id |-> k, row |-> a]) = [id |-> k, row |-> Rebound(a)]
        BY <3>1, ReboundRow, SMTT(60)
      <3> QED
        BY <3>2 DEF a
    <2> HIDE DEF A
    <2>2. {transform_authenticator(r) : r \in Rows(A)}
            = {transform_authenticator([id |-> k, row |-> A[k]]) : k \in DOMAIN A}
      BY DEF Rows
    <2>3. Rows([k \in DOMAIN A |-> Rebound(A[k])])
            = {[id |-> k, row |-> Rebound(A[k])] : k \in DOMAIN A}
      BY DEF Rows
    <2>4. {transform_authenticator([id |-> k, row |-> A[k]]) : k \in DOMAIN A}
            = {[id |-> k, row |-> Rebound(A[k])] : k \in DOMAIN A}
      BY <2>1
    <2> QED
      BY <2>2, <2>3, <2>4 DEF A
  <1>2. {transform_credential(r, mode) : r \in Rows(t.credentials)}
          = Rows([k \in DOMAIN t.credentials |-> Reissued(t.credentials[k], mode)])
    <2> DEFINE A == t.credentials
    <2>1. ASSUME NEW k \in DOMAIN A
          PROVE  transform_credential([id |-> k, row |-> A[k]], mode)
                   = [id |-> k, row |-> Reissued(A[k], mode)]
      <3> DEFINE a == A[k]
      <3>1. a = [principal |-> a.principal, revoked |-> a.revoked,
                 state_commitment |-> application_credential_commitment(a.principal, a.revoked)]
        BY DEF VaultHeld, ServicesHeld
      <3> HIDE DEF a
      <3>2. transform_credential([id |-> k, row |-> a], mode) = [id |-> k, row |-> Reissued(a, mode)]
        BY <3>1, ReissuedRow, SMTT(60)
      <3> QED
        BY <3>2 DEF a
    <2> HIDE DEF A
    <2>2. {transform_credential(r, mode) : r \in Rows(A)}
            = {transform_credential([id |-> k, row |-> A[k]], mode) : k \in DOMAIN A}
      BY DEF Rows
    <2>3. Rows([k \in DOMAIN A |-> Reissued(A[k], mode)])
            = {[id |-> k, row |-> Reissued(A[k], mode)] : k \in DOMAIN A}
      BY DEF Rows
    <2>4. {transform_credential([id |-> k, row |-> A[k]], mode) : k \in DOMAIN A}
            = {[id |-> k, row |-> Reissued(A[k], mode)] : k \in DOMAIN A}
      BY <2>1
    <2> QED
      BY <2>2, <2>3, <2>4 DEF A
  <1> QED
    BY <1>1, <1>2

Transformed(t, mode) == transform_logical_snapshot(Decoded(t), mode)

\* What is imported.
LEMMA TransformedTables ==
    ASSUME NEW t, NEW mode, VaultHeld(t)
    PROVE  /\ Transformed(t, mode).namespaces = Decoded(t).namespaces
           /\ Transformed(t, mode).secrets = read_secrets(t)
           /\ Transformed(t, mode).secret_versions = read_secret_versions(t)
           /\ Transformed(t, mode).tombstones = t.tombstones
           /\ Transformed(t, mode).principals = Rows(t.principals)
           /\ Transformed(t, mode).authenticators
                = Rows([k \in DOMAIN t.authenticators |-> Rebound(t.authenticators[k])])
           /\ Transformed(t, mode).service_identities = t.service_identities
           /\ Transformed(t, mode).credentials
                = Rows([k \in DOMAIN t.credentials |-> Reissued(t.credentials[k], mode)])
           /\ Transformed(t, mode).authorization_state = {graph_commitment(t)}
           /\ Transformed(t, mode).policies = Rows(t.policies)
           /\ Transformed(t, mode).grants = t.grants
           /\ Transformed(t, mode).bindings = t.bindings
  <1> DEFINE d == Decoded(t)
             s == Transformed(t, mode)
             D == {"namespaces", "secrets", "secret_versions", "tombstones", "principals",
                   "authenticators", "service_identities", "credentials",
                   "authorization_state", "policies", "grants", "bindings"}
  <1>1. DOMAIN d = D
    BY DEF Decoded, decode_logical_stream
  <1>2. s = [d EXCEPT
               !.authenticators = {transform_authenticator(r) : r \in d.authenticators},
               !.credentials = {transform_credential(r, mode) : r \in d.credentials},
               !.authorization_state = {portable_authorization_commitment(d)}]
    BY DEF Transformed, transform_logical_snapshot
  <1> HIDE DEF d, s
  <1>3. \A f \in D : f \notin {"authenticators", "credentials", "authorization_state"} => s[f] = d[f]
    BY <1>1, <1>2
  <1>4. /\ s.authenticators = {transform_authenticator(r) : r \in d.authenticators}
        /\ s.credentials = {transform_credential(r, mode) : r \in d.credentials}
        /\ s.authorization_state = {portable_authorization_commitment(d)}
    BY <1>1, <1>2
  <1>5. /\ s.namespaces = d.namespaces /\ s.secrets = d.secrets
        /\ s.secret_versions = d.secret_versions /\ s.tombstones = d.tombstones
        /\ s.principals = d.principals /\ s.service_identities = d.service_identities
        /\ s.policies = d.policies /\ s.grants = d.grants /\ s.bindings = d.bindings
    BY <1>3
  <1>6. portable_authorization_commitment(d) = graph_commitment(t)
    <2>1. d.policies = Rows(t.policies) /\ d.grants = t.grants /\ d.bindings = t.bindings
      BY DecodedTables DEF d
    <2>2. AsTable(Rows(t.policies)) = t.policies
      BY TableOfRows DEF VaultHeld, IsVault
    <2> QED
      BY <2>1, <2>2 DEF portable_authorization_commitment, graph_commitment
  <1>7. /\ d.secrets = read_secrets(t) /\ d.secret_versions = read_secret_versions(t)
        /\ d.tombstones = t.tombstones /\ d.principals = Rows(t.principals)
        /\ d.authenticators = Rows(t.authenticators) /\ d.credentials = Rows(t.credentials)
        /\ d.service_identities = t.service_identities /\ d.policies = Rows(t.policies)
        /\ d.grants = t.grants /\ d.bindings = t.bindings
    BY DecodedTables DEF d
  <1>8. /\ s.authenticators = Rows([k \in DOMAIN t.authenticators |-> Rebound(t.authenticators[k])])
        /\ s.credentials = Rows([k \in DOMAIN t.credentials |-> Reissued(t.credentials[k], mode)])
        /\ s.authorization_state = {graph_commitment(t)}
    BY <1>4, <1>6, <1>7, TransformedRows, SMTT(60)
  <1>9. /\ s.namespaces = d.namespaces /\ s.secrets = read_secrets(t)
        /\ s.secret_versions = read_secret_versions(t) /\ s.tombstones = t.tombstones
        /\ s.principals = Rows(t.principals) /\ s.service_identities = t.service_identities
        /\ s.policies = Rows(t.policies) /\ s.grants = t.grants /\ s.bindings = t.bindings
    BY <1>5, <1>7
  <1> QED
    BY <1>8, <1>9 DEF d, s

\* The fields of a row of secrets.
LEMMA SecretRow ==
    ASSUME NEW r, r = [namespace |-> r.namespace, state |-> r.state, current |-> r.current,
                       versions |-> 1..r.current]
    PROVE  r.versions = 1..r.current
  BY SMTT(60)

\* The secrets come back from their two tables.
LEMMA SecretsBack ==
    ASSUME NEW t, VaultHeld(t)
    PROVE  /\ Ids(read_secrets(t)) = DOMAIN t.secrets
           /\ OneRowEach(read_secrets(t))
           /\ \A x \in read_secrets(t) :
                /\ x.namespace \in DOMAIN t.namespaces
                /\ [id |-> x.id, version |-> x.current] \in read_secret_versions(t)
           /\ Ids(read_secret_versions(t)) \subseteq DOMAIN t.secrets
           /\ t.secrets = [id \in Ids(read_secrets(t)) |->
                LET r == CHOOSE x \in read_secrets(t) : x.id = id
                IN [namespace |-> r.namespace, state |-> r.state, current |-> r.current,
                    versions |-> {v.version : v \in {x \in read_secret_versions(t) : x.id = id}}]]
  <1> DEFINE S == t.secrets
             rs == read_secrets(t)
             vs == read_secret_versions(t)
             Row(s) == [id |-> s, namespace |-> S[s].namespace, state |-> S[s].state,
                        current |-> S[s].current]
  <1>1. \A s \in DOMAIN S : /\ S[s].namespace \in DOMAIN t.namespaces /\ S[s].current \in Nat \ {0}
                            /\ S[s] = [namespace |-> S[s].namespace, state |-> S[s].state,
                                       current |-> S[s].current, versions |-> 1..S[s].current]
    BY DEF VaultHeld, SecretsHeld
  <1>2. S = [s \in DOMAIN S |-> S[s]]
    BY DEF VaultHeld, IsVault, IsTable
  <1>3. rs = {Row(s) : s \in DOMAIN S}
    BY DEF read_secrets
  <1>4. \A s \in DOMAIN S : S[s].versions = 1..S[s].current
    BY <1>1, SecretRow
  <1>5. vs = UNION {{[id |-> s, version |-> k] : k \in S[s].versions} : s \in DOMAIN S}
    BY DEF read_secret_versions
  <1> HIDE DEF S, rs, vs
  <1>6. \A s : /\ Row(s).id = s /\ Row(s).namespace = S[s].namespace
               /\ Row(s).state = S[s].state /\ Row(s).current = S[s].current
    OBVIOUS
  <1> HIDE DEF Row
  <1>7. \A x \in rs : x.id \in DOMAIN S /\ x = Row(x.id)
    BY <1>3, <1>6
  <1>8. Ids(rs) = DOMAIN S
    BY <1>3, <1>6, <1>7 DEF Ids
  <1>9. \A s \in DOMAIN S : (CHOOSE x \in rs : x.id = s) = Row(s)
    <2> SUFFICES ASSUME NEW s \in DOMAIN S PROVE (CHOOSE x \in rs : x.id = s) = Row(s)
      OBVIOUS
    <2>1. Row(s) \in rs /\ Row(s).id = s
      BY <1>3, <1>6
    <2> QED
      BY <1>7, <2>1
  <1>10. \A s \in DOMAIN S : \A k \in S[s].versions : [id |-> s, version |-> k] \in vs
    BY <1>5, SMTT(60)
  <1>11. \A x \in vs : x.id \in DOMAIN S /\ x.version \in S[x.id].versions
    <2> SUFFICES ASSUME NEW x \in vs PROVE x.id \in DOMAIN S /\ x.version \in S[x.id].versions
      OBVIOUS
    <2>1. PICK s \in DOMAIN S : \E k \in S[s].versions : x = [id |-> s, version |-> k]
      BY <1>5
    <2>2. PICK k \in S[s].versions : x = [id |-> s, version |-> k]
      BY <2>1
    <2>3. x.id = s /\ x.version = k
      BY <2>2
    <2> QED
      BY <2>3
  <1>12. \A s \in DOMAIN S : {v.version : v \in {x \in vs : x.id = s}} = S[s].versions
    <2> SUFFICES ASSUME NEW s \in DOMAIN S
                 PROVE  {v.version : v \in {x \in vs : x.id = s}} = S[s].versions
      OBVIOUS
    <2>1. \A k \in S[s].versions : \E v \in {x \in vs : x.id = s} : v.version = k
      <3>1. \A k : [id |-> s, version |-> k].id = s /\ [id |-> s, version |-> k].version = k
        OBVIOUS
      <3> QED
        BY <1>10, <3>1
    <2>2. \A v \in {x \in vs : x.id = s} : v.version \in S[s].versions
      BY <1>11
    <2> QED
      BY <2>1, <2>2
  <1>13. ASSUME NEW s \in DOMAIN S
         PROVE  S[s] = LET r == CHOOSE x \in rs : x.id = s
                       IN [namespace |-> r.namespace, state |-> r.state, current |-> r.current,
                           versions |-> {v.version : v \in {x \in vs : x.id = s}}]
    <2>1. (CHOOSE x \in rs : x.id = s) = Row(s) /\ {v.version : v \in {x \in vs : x.id = s}} = 1..S[s].current
      BY <1>4, <1>9, <1>12
    <2>2. /\ Row(s).namespace = S[s].namespace /\ Row(s).state = S[s].state
          /\ Row(s).current = S[s].current
      BY <1>6
    <2>3. S[s] = [namespace |-> S[s].namespace, state |-> S[s].state, current |-> S[s].current,
                  versions |-> 1..S[s].current]
      BY <1>1
    <2>4. S[s] = [namespace |-> Row(s).namespace, state |-> Row(s).state, current |-> Row(s).current,
                  versions |-> 1..S[s].current]
      BY <2>2, <2>3
    <2> QED
      BY <2>1, <2>4
  <1>14. S = [id \in Ids(rs) |->
                LET r == CHOOSE x \in rs : x.id = id
                IN [namespace |-> r.namespace, state |-> r.state, current |-> r.current,
                    versions |-> {v.version : v \in {x \in vs : x.id = id}}]]
    BY <1>2, <1>8, <1>13, SMTT(60)
  <1>15. ASSUME NEW x \in rs
         PROVE  x.namespace \in DOMAIN t.namespaces /\ [id |-> x.id, version |-> x.current] \in vs
    <2>1. /\ x.id \in DOMAIN S /\ x.namespace = S[x.id].namespace /\ x.current = S[x.id].current
      BY <1>6, <1>7
    <2>2. x.current \in 1..x.current
      <3>1. x.current \in Nat \ {0}
        BY <1>1, <2>1
      <3> QED
        BY <3>1, SMTT(60)
    <2> QED
      BY <1>1, <1>4, <1>10, <2>1, <2>2
  <1>16. OneRowEach(rs) /\ Ids(vs) \subseteq DOMAIN S
    BY <1>7, <1>11 DEF OneRowEach, Ids
  <1> QED
    BY <1>8, <1>14, <1>15, <1>16 DEF S, rs, vs

\* They are accepted one by one.
LEMMA SecretRowsFit ==
    ASSUME NEW t, VaultHeld(t)
    PROVE  /\ Ids(read_secrets(t)) = DOMAIN t.secrets
           /\ OneRowEach(read_secrets(t))
           /\ \A x \in read_secrets(t) :
                /\ x.namespace \in DOMAIN t.namespaces
                /\ [id |-> x.id, version |-> x.current] \in read_secret_versions(t)
           /\ Ids(read_secret_versions(t)) \subseteq DOMAIN t.secrets
  BY SecretsBack

\* The restored vault, table by table.
LEMMA RestoredTables ==
    ASSUME NEW t, NEW mode, VaultHeld(t), NEW R, R = restored(t, mode)
    PROVE  /\ R = [f \in Fields |-> R[f]] /\ R.epoch = t.epoch + 1
           /\ R.principals = t.principals /\ R.service_identities = t.service_identities
           /\ R.namespaces = t.namespaces /\ R.secrets = t.secrets /\ R.tombstones = t.tombstones
           /\ R.policies = t.policies /\ R.grants = t.grants /\ R.bindings = t.bindings
           /\ R.authenticators = [k \in DOMAIN t.authenticators |-> Rebound(t.authenticators[k])]
           /\ R.credentials = [k \in DOMAIN t.credentials |-> Reissued(t.credentials[k], mode)]
           /\ R.authorization = graph_commitment(t)
  <1> DEFINE s == Transformed(t, mode)
             A == [k \in DOMAIN t.authenticators |-> Rebound(t.authenticators[k])]
             C == [k \in DOMAIN t.credentials |-> Reissued(t.credentials[k], mode)]
  <1>1. R = import_portable_snapshot(s, t.epoch + 1)
    BY DEF restored, Transformed, Decoded, Stream
  <1>2. /\ s.namespaces = Decoded(t).namespaces /\ s.secrets = read_secrets(t)
        /\ s.secret_versions = read_secret_versions(t) /\ s.tombstones = t.tombstones
        /\ s.principals = Rows(t.principals) /\ s.authenticators = Rows(A)
        /\ s.service_identities = t.service_identities /\ s.credentials = Rows(C)
        /\ s.authorization_state = {graph_commitment(t)} /\ s.policies = Rows(t.policies)
        /\ s.grants = t.grants /\ s.bindings = t.bindings
    BY TransformedTables, SMTT(60)
  <1>3. IsTable(A) /\ IsTable(C)
    BY DEF IsTable
  <1> HIDE DEF s, A, C
  <1>4. /\ R.epoch = t.epoch + 1
        /\ R.principals = AsTable(s.principals)
        /\ R.authenticators = AsTable(s.authenticators)
        /\ R.service_identities = s.service_identities
        /\ R.credentials = AsTable(s.credentials)
        /\ R.namespaces = AsTable(UNION Range(s.namespaces))
        /\ R.tombstones = s.tombstones /\ R.policies = AsTable(s.policies)
        /\ R.grants = s.grants /\ R.bindings = s.bindings
        /\ R.authorization = CHOOSE c \in s.authorization_state : TRUE
    BY <1>1, SMTT(60) DEF import_portable_snapshot
  <1>5. R = [f \in Fields |-> R[f]]
    BY <1>1 DEF import_portable_snapshot, Fields
  <1>6. R.secrets = [id \in Ids(s.secrets) |->
                    LET r == CHOOSE x \in s.secrets : x.id = id
                    IN [namespace |-> r.namespace, state |-> r.state, current |-> r.current,
                        versions |-> {v.version : v \in {x \in s.secret_versions : x.id = id}}]]
    BY <1>1, SMTT(60) DEF import_portable_snapshot
  <1>7. R.secrets = t.secrets
    BY <1>2, <1>6, SecretsBack, SMTT(60)
  <1>8. IsTable(t.principals) /\ IsTable(t.policies) /\ IsTable(t.namespaces)
    BY DEF VaultHeld, IsVault, Tree, IsTable
  <1>9. R.principals = t.principals /\ R.policies = t.policies /\ R.authenticators = A /\ R.credentials = C
    BY <1>2, <1>3, <1>4, <1>8, TableOfRows
  <1>10. R.namespaces = t.namespaces
    <2>1. UNION Range(s.namespaces) = Rows(t.namespaces)
      BY <1>2, DecodedNamespaces DEF VaultHeld
    <2> QED
      BY <1>4, <1>8, <2>1, TableOfRows
  <1>11. R.authorization = graph_commitment(t)
    BY <1>2, <1>4
  <1>12. /\ R.service_identities = t.service_identities /\ R.tombstones = t.tombstones
         /\ R.grants = t.grants /\ R.bindings = t.bindings
    BY <1>2, <1>4
  <1> QED
    BY <1>4, <1>5, <1>7, <1>9, <1>10, <1>11, <1>12 DEF A, C

\* An authenticator after a restore: the password is what is left active.
LEMMA ReboundHeld ==
    ASSUME NEW a, NEW b, b = Rebound(a),
           a = [kind |-> a.kind, principal |-> a.principal, state |-> a.state,
                state_commitment |-> authenticator_commitment(a.kind, a.state)],
           a.kind \in {"password", "passkey"}, a.state \in {"active", "revoked"},
           a.kind = "password" => a.state = "active"
    PROVE  /\ b = [kind |-> b.kind, principal |-> b.principal, state |-> b.state,
                   state_commitment |-> authenticator_commitment(b.kind, b.state)]
           /\ b.kind = a.kind /\ b.principal = a.principal /\ b.state \in {"active", "revoked"}
           /\ b.state = "active" <=> b.kind = "password"
  <1>1. CASE a.kind = "passkey" /\ a.state = "active"
    <2>1. b = [kind |-> "passkey", principal |-> a.principal, state |-> "revoked",
               state_commitment |-> authenticator_commitment("passkey", "revoked")]
      BY <1>1 DEF Rebound
    <2>2. b.kind = "passkey" /\ b.principal = a.principal /\ b.state = "revoked"
      BY <2>1, SMTT(60)
    <2> QED
      BY <1>1, <2>1, <2>2
  <1>2. CASE ~(a.kind = "passkey" /\ a.state = "active")
    <2>1. b = a
      BY <1>2 DEF Rebound
    <2> QED
      BY <1>2, <2>1
  <1> QED
    BY <1>1, <1>2

\* A credential after a restore.
LEMMA ReissuedHeld ==
    ASSUME NEW a, NEW b, NEW mode, b = Reissued(a, mode),
           a = [principal |-> a.principal, revoked |-> a.revoked,
                state_commitment |-> application_credential_commitment(a.principal, a.revoked)],
           a.revoked \in BOOLEAN
    PROVE  /\ b = [principal |-> b.principal, revoked |-> b.revoked,
                   state_commitment |-> application_credential_commitment(b.principal, b.revoked)]
           /\ b.revoked \in BOOLEAN /\ b.principal = a.principal
           /\ b.revoked <=> (mode = "revoke" \/ a.revoked)
  <1>1. CASE mode = "revoke" /\ ~a.revoked
    <2>1. b = [principal |-> a.principal, revoked |-> TRUE,
               state_commitment |-> application_credential_commitment(a.principal, TRUE)]
      BY <1>1 DEF Reissued
    <2>2. b.principal = a.principal /\ b.revoked = TRUE
      BY <2>1, SMTT(60)
    <2> QED
      BY <1>1, <2>1, <2>2
  <1>2. CASE ~(mode = "revoke" /\ ~a.revoked)
    <2>1. b = a
      BY <1>2 DEF Reissued
    <2> QED
      BY <1>2, <2>1
  <1> QED
    BY <1>1, <1>2

\* The rows of the two transformed tables.
LEMMA TransformedHeld ==
    ASSUME NEW t, NEW mode, VaultHeld(t), NEW R, R = restored(t, mode)
    PROVE  AuthenticatorsHeld(R) /\ ServicesHeld(R)
  <1>1. /\ R.principals = t.principals /\ R.service_identities = t.service_identities
        /\ R.authenticators = [k \in DOMAIN t.authenticators |-> Rebound(t.authenticators[k])]
        /\ R.credentials = [k \in DOMAIN t.credentials |-> Reissued(t.credentials[k], mode)]
    BY RestoredTables, SMTT(60)
  <1>2. ASSUME NEW k \in DOMAIN R.authenticators, NEW b, b = R.authenticators[k]
        PROVE  /\ b = [kind |-> b.kind, principal |-> b.principal, state |-> b.state,
                       state_commitment |-> authenticator_commitment(b.kind, b.state)]
               /\ b.kind \in {"password", "passkey"} /\ b.state \in {"active", "revoked"}
               /\ b.kind = "password" => b.state = "active"
               /\ b.principal \in DOMAIN R.principals /\ R.principals[b.principal] = "owner"
    <2> DEFINE a == t.authenticators[k]
    <2>1. k \in DOMAIN t.authenticators /\ b = Rebound(a)
      BY <1>1, <1>2
    <2>2. /\ a = [kind |-> a.kind, principal |-> a.principal, state |-> a.state,
                  state_commitment |-> authenticator_commitment(a.kind, a.state)]
          /\ a.kind \in {"password", "passkey"} /\ a.state \in {"active", "revoked"}
          /\ a.kind = "password" => a.state = "active"
          /\ a.principal \in DOMAIN t.principals /\ t.principals[a.principal] = "owner"
      BY <2>1 DEF VaultHeld, AuthenticatorsHeld
    <2> HIDE DEF a
    <2>3. /\ b = [kind |-> b.kind, principal |-> b.principal, state |-> b.state,
                  state_commitment |-> authenticator_commitment(b.kind, b.state)]
          /\ b.kind = a.kind /\ b.principal = a.principal /\ b.state \in {"active", "revoked"}
          /\ b.state = "active" <=> b.kind = "password"
      BY <2>1, <2>2, ReboundHeld
    <2> QED
      BY <1>1, <2>2, <2>3
  <1>3. AuthenticatorsHeld(R)
    BY <1>2 DEF AuthenticatorsHeld
  <1>4. ASSUME NEW k \in DOMAIN R.credentials, NEW b, b = R.credentials[k]
        PROVE  /\ b = [principal |-> b.principal, revoked |-> b.revoked,
                       state_commitment |-> application_credential_commitment(b.principal, b.revoked)]
               /\ b.revoked \in BOOLEAN /\ b.principal \in R.service_identities
    <2> DEFINE a == t.credentials[k]
    <2>1. k \in DOMAIN t.credentials /\ b = Reissued(a, mode)
      BY <1>1, <1>4
    <2>2. /\ a = [principal |-> a.principal, revoked |-> a.revoked,
                  state_commitment |-> application_credential_commitment(a.principal, a.revoked)]
          /\ a.revoked \in BOOLEAN /\ a.principal \in t.service_identities
      BY <2>1 DEF VaultHeld, ServicesHeld
    <2> HIDE DEF a
    <2>3. /\ b = [principal |-> b.principal, revoked |-> b.revoked,
                  state_commitment |-> application_credential_commitment(b.principal, b.revoked)]
          /\ b.revoked \in BOOLEAN /\ b.principal = a.principal
      BY <2>1, <2>2, ReissuedHeld
    <2> QED
      BY <1>1, <2>2, <2>3
  <1>5. \A v \in R.service_identities : v \in DOMAIN R.principals /\ R.principals[v] = "service"
    BY <1>1 DEF VaultHeld, ServicesHeld
  <1> QED
    BY <1>3, <1>4, <1>5 DEF ServicesHeld

\* A restored vault is one again.
LEMMA RestoredHeld ==
    ASSUME NEW t, NEW mode, VaultHeld(t), NEW R, R = restored(t, mode)
    PROVE  VaultHeld(R)
  <1>1. /\ R = [f \in Fields |-> R[f]]
        /\ R.principals = t.principals /\ R.service_identities = t.service_identities
        /\ R.namespaces = t.namespaces /\ R.secrets = t.secrets
        /\ R.policies = t.policies /\ R.grants = t.grants /\ R.bindings = t.bindings
        /\ R.authenticators = [k \in DOMAIN t.authenticators |-> Rebound(t.authenticators[k])]
        /\ R.credentials = [k \in DOMAIN t.credentials |-> Reissued(t.credentials[k], mode)]
    BY RestoredTables, SMTT(60)
  <1>2. IsTable(R.authenticators) /\ IsTable(R.credentials)
    BY <1>1 DEF IsTable
  <1>3. IsVault(R)
    BY <1>1, <1>2 DEF VaultHeld, IsVault
  <1>4. Tree(R.namespaces) /\ Forest(R.namespaces)
    BY <1>1 DEF VaultHeld
  <1>5. SecretsHeld(R) /\ GraphHeld(R) /\ OwnerHeld(R)
    BY <1>1 DEF VaultHeld, SecretsHeld, GraphHeld, OwnerHeld
  <1> QED
    BY <1>3, <1>4, <1>5, TransformedHeld DEF VaultHeld

\* Every row of a backup is accepted.
LEMMA BackupImportable ==
    ASSUME NEW t, NEW mode, VaultHeld(t)
    PROVE  transformable(Decoded(t)) /\ importable(Transformed(t, mode))
  <1> DEFINE s == Transformed(t, mode)
             A == [k \in DOMAIN t.authenticators |-> Rebound(t.authenticators[k])]
             C == [k \in DOMAIN t.credentials |-> Reissued(t.credentials[k], mode)]
             R == restored(t, mode)
  <1>1. transformable(Decoded(t))
    <2>1. /\ Decoded(t).secrets = read_secrets(t)
          /\ Decoded(t).secret_versions = read_secret_versions(t)
      BY DecodedTables
    <2> QED
      BY <2>1, SecretRowsFit DEF transformable
  <1>2. /\ s.namespaces = Decoded(t).namespaces /\ s.secrets = read_secrets(t)
        /\ s.secret_versions = read_secret_versions(t)
        /\ s.principals = Rows(t.principals) /\ s.authenticators = Rows(A)
        /\ s.service_identities = t.service_identities /\ s.credentials = Rows(C)
        /\ s.policies = Rows(t.policies)
        /\ s.grants = t.grants /\ s.bindings = t.bindings
    BY TransformedTables, SMTT(60)
  <1>3. R.authenticators = A /\ R.credentials = C /\ R.principals = t.principals
    BY RestoredTables, SMTT(60)
  <1>4. IsTable(A) /\ IsTable(C) /\ IsTable(t.principals) /\ IsTable(t.policies)
    BY DEF IsTable, VaultHeld, IsVault
  <1>5. AuthenticatorsHeld(R) /\ ServicesHeld(R)
    BY TransformedHeld
  <1> HIDE DEF s, A, C, R
  <1>6. /\ OneRowEach(Rows(A)) /\ OneRowEach(Rows(C))
        /\ OneRowEach(Rows(t.principals)) /\ OneRowEach(Rows(t.policies))
        /\ Ids(Rows(t.principals)) = DOMAIN t.principals /\ Ids(Rows(t.policies)) = DOMAIN t.policies
    BY <1>4, TableOfRows
  <1>7. \A r \in Rows(A) : r.row.principal \in DOMAIN t.principals
    <2>1. \A k \in DOMAIN A : A[k].principal \in DOMAIN t.principals
      BY <1>3, <1>5 DEF AuthenticatorsHeld
    <2>2. \A r \in Rows(A) : r.id \in DOMAIN A /\ r.row = A[r.id]
      BY SMTT(60) DEF Rows
    <2> QED
      BY <2>1, <2>2
  <1>8. \A r \in Rows(C) : r.row.principal \in DOMAIN t.principals
    <2>1. \A k \in DOMAIN C : C[k].principal \in DOMAIN t.principals
      BY <1>3, <1>5 DEF ServicesHeld
    <2>2. \A r \in Rows(C) : r.id \in DOMAIN C /\ r.row = C[r.id]
      BY SMTT(60) DEF Rows
    <2> QED
      BY <2>1, <2>2
  <1>9. insert_principals(s) /\ insert_authenticators(s) /\ insert_application_credentials(s)
    BY <1>2, <1>6, <1>7, <1>8
    DEF insert_principals, insert_authenticators, insert_application_credentials
  <1>10. insert_service_identities(s)
    BY <1>2, <1>6 DEF insert_service_identities, VaultHeld, ServicesHeld
  <1>11. /\ insert_namespaces(s.namespaces)
         /\ Ids(UNION Range(s.namespaces)) = DOMAIN t.namespaces
    <2>1. /\ insert_namespaces(Decoded(t).namespaces)
          /\ UNION Range(Decoded(t).namespaces) = Rows(t.namespaces)
      BY DecodedNamespaces DEF VaultHeld
    <2>2. Ids(Rows(t.namespaces)) = DOMAIN t.namespaces
      BY TableOfRows DEF VaultHeld, Tree, IsTable
    <2> QED
      BY <1>2, <2>1, <2>2
  <1>12. insert_secrets(s) /\ insert_secret_versions(s)
    BY <1>2, <1>11, SecretRowsFit DEF insert_secrets, insert_secret_versions
  <1>13. insert_policies(s) /\ insert_grants(s)
    BY <1>2, <1>6 DEF insert_policies, insert_grants, VaultHeld, GraphHeld
  <1>14. insert_bindings(s)
    BY <1>2, <1>6 DEF insert_bindings, VaultHeld, GraphHeld, ServicesHeld
  <1> QED
    BY <1>1, <1>9, <1>10, <1>11, <1>12, <1>13, <1>14 DEF importable, s

\* The verification of a restore refuses for three reasons only.
LEMMA VerifiedWhen ==
    ASSUME NEW t, NEW mode, VaultHeld(t), NEW R, R = restored(t, mode)
    PROVE  verify_restored_snapshot(R)
             <=> /\ \A n \in DOMAIN t.namespaces :
                      Range(Walk(t.namespaces, n)) = AllAncestors(t.namespaces, n)
                 /\ t.tombstones \intersect DOMAIN t.secrets = {}
                 /\ \A g \in t.grants : g.kind = "secret" => g.target \in DOMAIN t.secrets
  <1>t. /\ R = [f \in Fields |-> R[f]] /\ R.epoch = t.epoch + 1
        /\ R.principals = t.principals /\ R.service_identities = t.service_identities
        /\ R.namespaces = t.namespaces /\ R.secrets = t.secrets /\ R.tombstones = t.tombstones
        /\ R.policies = t.policies /\ R.grants = t.grants /\ R.bindings = t.bindings
        /\ R.authenticators = [k \in DOMAIN t.authenticators |-> Rebound(t.authenticators[k])]
        /\ R.credentials = [k \in DOMAIN t.credentials |-> Reissued(t.credentials[k], mode)]
        /\ R.authorization = graph_commitment(t)
    BY RestoredTables, SMTT(60)
  <1>1. /\ R.principals = t.principals /\ R.service_identities = t.service_identities
        /\ R.namespaces = t.namespaces /\ R.secrets = t.secrets /\ R.tombstones = t.tombstones
        /\ R.policies = t.policies /\ R.grants = t.grants /\ R.bindings = t.bindings
        /\ R.authorization = graph_commitment(t)
    BY <1>t
  <1>2. VaultHeld(R)
    BY RestoredHeld
  <1>3. ASSUME NEW n \in DOMAIN R.namespaces
        PROVE  (/\ Cardinality(Range(Walk(R.namespaces, n))) = Len(Walk(R.namespaces, n))
                /\ R.namespaces[Last(Walk(R.namespaces, n))] = None)
                 <=> Range(Walk(R.namespaces, n)) = AllAncestors(R.namespaces, n)
    BY <1>2, WalkAncestors, ForestWalk DEF VaultHeld
  <1>4. \A s \in DOMAIN R.secrets : R.secrets[s].versions = 1..R.secrets[s].current
    BY <1>2, SecretRow DEF VaultHeld, SecretsHeld
  <1>5. \A a \in DOMAIN R.authenticators : KindOf(R, R.authenticators[a].principal) = "owner"
    BY <1>2 DEF VaultHeld, AuthenticatorsHeld, KindOf
  <1>6. /\ \A v \in R.service_identities : KindOf(R, v) = "service"
        /\ \A c \in DOMAIN R.credentials : KindOf(R, R.credentials[c].principal) = "service"
        /\ \A b \in R.bindings : KindOf(R, b[1]) = "service"
    BY <1>2 DEF VaultHeld, ServicesHeld, GraphHeld, KindOf
  <1>7. \A g \in R.grants : verify_grant_target(R, g)
                              <=> (g.kind = "secret" => g.target \in DOMAIN R.secrets)
    BY <1>2 DEF VaultHeld, GraphHeld, verify_grant_target
  <1>8. ASSUME NEW a \in DOMAIN R.authenticators
        PROVE  R.authenticators[a].state_commitment
                 = authenticator_commitment(R.authenticators[a].kind, R.authenticators[a].state)
    <2> DEFINE r == R.authenticators[a]
    <2>1. r = [kind |-> r.kind, principal |-> r.principal, state |-> r.state,
               state_commitment |-> authenticator_commitment(r.kind, r.state)]
      BY <1>2 DEF VaultHeld, AuthenticatorsHeld
    <2> HIDE DEF r
    <2>2. r.state_commitment = authenticator_commitment(r.kind, r.state)
      BY <2>1, SMTT(60)
    <2> QED
      BY <2>2 DEF r
  <1>9. ASSUME NEW c \in DOMAIN R.credentials
        PROVE  R.credentials[c].state_commitment
                 = application_credential_commitment(R.credentials[c].principal,
                                                     R.credentials[c].revoked)
    <2> DEFINE r == R.credentials[c]
    <2>1. r = [principal |-> r.principal, revoked |-> r.revoked,
               state_commitment |-> application_credential_commitment(r.principal, r.revoked)]
      BY <1>2 DEF VaultHeld, ServicesHeld
    <2> HIDE DEF r
    <2>2. r.state_commitment = application_credential_commitment(r.principal, r.revoked)
      BY <2>1, SMTT(60)
    <2> QED
      BY <2>2 DEF r
  <1>10. R.authorization = graph_commitment(R)
    BY <1>1 DEF graph_commitment
  <1>11. verify_restored_snapshot(R) <=> verify_restored_relationships(R)
    BY <1>8, <1>9, <1>10 DEF verify_restored_snapshot
  <1>12. verify_restored_relationships(R)
           <=> /\ \A n \in DOMAIN R.namespaces :
                    Range(Walk(R.namespaces, n)) = AllAncestors(R.namespaces, n)
               /\ R.tombstones \intersect DOMAIN R.secrets = {}
               /\ \A g \in R.grants : g.kind = "secret" => g.target \in DOMAIN R.secrets
    BY <1>3, <1>4, <1>5, <1>6, <1>7 DEF verify_restored_relationships
  <1> QED
    BY <1>1, <1>11, <1>12

\* And so does the restore of a backup.
LEMMA AcceptedWhen ==
    ASSUME NEW t, NEW mode, VaultHeld(t)
    PROVE  accepted(t, mode)
             <=> /\ \A n \in DOMAIN t.namespaces :
                      Range(Walk(t.namespaces, n)) = AllAncestors(t.namespaces, n)
                 /\ t.tombstones \intersect DOMAIN t.secrets = {}
                 /\ \A g \in t.grants : g.kind = "secret" => g.target \in DOMAIN t.secrets
  <1>1. accepted(t, mode) <=> /\ well_formed(Stream(t)) /\ transformable(Decoded(t))
                              /\ importable(Transformed(t, mode))
                              /\ verify_restored_snapshot(restored(t, mode))
    BY DEF accepted, restored, Stream, Decoded, Transformed
  <1> QED
    BY <1>1, StreamWellFormed, BackupImportable, VerifiedWhen

LEMMA HeldRestores == VaultHeld(db) => BackupRestores
  <1> SUFFICES ASSUME VaultHeld(db), NEW mode \in CredentialRestoreMode
               PROVE  accepted(db, mode) <=> ~(TooDeep \/ GrantOutlivesSecret \/ SecretRecreated)
    BY DEF BackupRestores
  <1>1. TooDeep <=> ~\A n \in DOMAIN db.namespaces :
                        Range(Walk(db.namespaces, n)) = AllAncestors(db.namespaces, n)
    BY DEF TooDeep, Deep, namespace_ancestors_inclusive
  <1>2. GrantOutlivesSecret
          <=> ~\A g \in db.grants : g.kind = "secret" => g.target \in DOMAIN db.secrets
    BY DEF GrantOutlivesSecret
  <1>3. SecretRecreated <=> ~(db.tombstones \intersect DOMAIN db.secrets = {})
    BY DEF SecretRecreated
  <1> QED
    BY <1>1, <1>2, <1>3, AcceptedWhen

-----------------------------------------------------------------------------
(* The requests keep the vault.                                            *)

\* Every field but these has the value it had.
Same(t, u, changed) ==
    u = [f \in Fields |-> u[f]] /\ \A f \in Fields \ changed : u[f] = t[f]

LEMMA SameFields ==
    ASSUME NEW t, NEW u, NEW changed, Same(t, u, changed)
    PROVE  /\ "principals" \notin changed => u.principals = t.principals
           /\ "authenticators" \notin changed => u.authenticators = t.authenticators
           /\ "service_identities" \notin changed => u.service_identities = t.service_identities
           /\ "credentials" \notin changed => u.credentials = t.credentials
           /\ "namespaces" \notin changed => u.namespaces = t.namespaces
           /\ "secrets" \notin changed => u.secrets = t.secrets
           /\ "tombstones" \notin changed => u.tombstones = t.tombstones
           /\ "policies" \notin changed => u.policies = t.policies
           /\ "grants" \notin changed => u.grants = t.grants
           /\ "bindings" \notin changed => u.bindings = t.bindings
  BY DEF Same, Fields

LEMMA OneField ==
    ASSUME NEW t, t = [f \in Fields |-> t[f]], NEW x \in Fields, NEW v,
           NEW u, u = [t EXCEPT ![x] = v]
    PROVE  Same(t, u, {x}) /\ u[x] = v
  <1>1. DOMAIN t = Fields
    OBVIOUS
  <1>2. u = [f \in Fields |-> IF f = x THEN v ELSE t[f]]
    BY <1>1
  <1> QED
    BY <1>2 DEF Same

\* The tables that others refer to lose no row.
Grows(t, u) ==
    /\ \A k \in DOMAIN t.principals : k \in DOMAIN u.principals /\ u.principals[k] = t.principals[k]
    /\ t.service_identities \subseteq u.service_identities
    /\ DOMAIN t.namespaces \subseteq DOMAIN u.namespaces
    /\ DOMAIN t.policies \subseteq DOMAIN u.policies

LEMMA Kept ==
    ASSUME NEW t, NEW u, VaultHeld(t), Grows(t, u)
    PROVE  /\ u.authenticators = t.authenticators => AuthenticatorsHeld(u)
           /\ u.service_identities = t.service_identities /\ u.credentials = t.credentials
                => ServicesHeld(u)
           /\ u.secrets = t.secrets => SecretsHeld(u)
           /\ u.grants = t.grants /\ u.bindings = t.bindings => GraphHeld(u)
  <1>1. AuthenticatorsHeld(t) /\ ServicesHeld(t) /\ SecretsHeld(t) /\ GraphHeld(t)
    BY DEF VaultHeld
  <1>2. u.authenticators = t.authenticators => AuthenticatorsHeld(u)
    BY <1>1 DEF AuthenticatorsHeld, Grows
  <1>3. u.service_identities = t.service_identities /\ u.credentials = t.credentials
          => ServicesHeld(u)
    BY <1>1 DEF ServicesHeld, Grows
  <1>4. u.secrets = t.secrets => SecretsHeld(u)
    BY <1>1 DEF SecretsHeld, Grows
  <1>5. u.grants = t.grants /\ u.bindings = t.bindings => GraphHeld(u)
    BY <1>1 DEF GraphHeld, Grows
  <1> QED
    BY <1>2, <1>3, <1>4, <1>5

\* U is T with the row r at k, and with every other row as it was.
Has(U, T, k, r) ==
    /\ IsTable(U) /\ DOMAIN U = DOMAIN T \union {k}
    /\ U[k] = r /\ \A j \in DOMAIN T : j # k => U[j] = T[j]

LEMMA TablePut ==
    ASSUME NEW T, NEW k, NEW r
    PROVE  Has(Put(T, k, r), T, k, r)
  BY DEF Has, IsTable, Put

LEMMA TableExcept ==
    ASSUME NEW T, IsTable(T), NEW k \in DOMAIN T, NEW r
    PROVE  Has([T EXCEPT ![k] = r], T, k, r)
  BY DEF Has, IsTable

LEMMA TableDelete ==
    ASSUME NEW T, NEW k
    PROVE  /\ IsTable(Delete(T, k)) /\ DOMAIN Delete(T, k) = DOMAIN T \ {k}
           /\ \A j \in DOMAIN T : j # k => Delete(T, k)[j] = T[j]
  BY DEF IsTable, Delete

\* What a request has to show: the tables that it changed.
LEMMA HeldAfter ==
    ASSUME NEW t, NEW u, NEW changed, VaultHeld(t), Same(t, u, changed), Grows(t, u),
           "principals" \in changed => IsTable(u.principals) /\ OwnerHeld(u),
           "authenticators" \in changed => IsTable(u.authenticators) /\ AuthenticatorsHeld(u),
           "credentials" \in changed => IsTable(u.credentials),
           "credentials" \in changed \/ "service_identities" \in changed => ServicesHeld(u),
           "namespaces" \in changed => Tree(u.namespaces) /\ Forest(u.namespaces),
           "secrets" \in changed => IsTable(u.secrets) /\ SecretsHeld(u),
           "policies" \in changed => IsTable(u.policies),
           "grants" \in changed \/ "bindings" \in changed => GraphHeld(u)
    PROVE  VaultHeld(u)
  <1>1. u = [f \in Fields |-> u[f]]
    BY DEF Same
  <1>2. /\ IsTable(t.principals) /\ IsTable(t.authenticators) /\ IsTable(t.credentials)
        /\ IsTable(t.secrets) /\ IsTable(t.policies)
        /\ Tree(t.namespaces) /\ Forest(t.namespaces) /\ OwnerHeld(t)
    BY DEF VaultHeld, IsVault
  <1>o. OwnerHeld(u)
    BY <1>2, SameFields DEF OwnerHeld
  <1>3. IsTable(u.principals) /\ IsTable(u.authenticators) /\ IsTable(u.credentials)
    BY <1>2, SameFields
  <1>4. IsTable(u.secrets) /\ IsTable(u.policies) /\ Tree(u.namespaces) /\ Forest(u.namespaces)
    BY <1>2, SameFields
  <1>5. AuthenticatorsHeld(u)
    BY SameFields, Kept
  <1>6. ServicesHeld(u)
    BY SameFields, Kept
  <1>7. SecretsHeld(u)
    BY SameFields, Kept
  <1>8. GraphHeld(u)
    BY SameFields, Kept
  <1> QED
    BY <1>1, <1>o, <1>3, <1>4, <1>5, <1>6, <1>7, <1>8 DEF VaultHeld, IsVault

\* No request takes a namespace away.
LEMMA KeysKept ==
    ASSUME PortableInv, UNCHANGED reserved, Grows(db, db')
    PROVE  ReservedHeld'
  BY DEF PortableInv, ReservedHeld, Grows

\* The row of a new authenticator.
LEMMA AuthenticatorPut ==
    ASSUME NEW t, NEW u, NEW kind \in {"password", "passkey"}, VaultHeld(t), Grows(t, u),
           u.authenticators = Put(t.authenticators, kind, Authenticator(kind)),
           Owner \in DOMAIN u.principals, u.principals[Owner] = "owner"
    PROVE  IsTable(u.authenticators) /\ AuthenticatorsHeld(u)
  <1> DEFINE r == Authenticator(kind)
  <1>1. r.kind = kind /\ r.principal = Owner /\ r.state = "active"
    BY DEF Authenticator
  <1>2. r = [kind |-> r.kind, principal |-> r.principal, state |-> r.state,
             state_commitment |-> authenticator_commitment(r.kind, r.state)]
    BY <1>1 DEF Authenticator
  <1>3. Has(u.authenticators, t.authenticators, kind, r)
    BY TablePut
  <1> HIDE DEF r
  <1>4. AuthenticatorsHeld(t)
    BY DEF VaultHeld
  <1> DEFINE Fine(x) == /\ x = [kind |-> x.kind, principal |-> x.principal, state |-> x.state,
                                state_commitment |-> authenticator_commitment(x.kind, x.state)]
                        /\ x.kind \in {"password", "passkey"} /\ x.state \in {"active", "revoked"}
                        /\ x.kind = "password" => x.state = "active"
                        /\ x.principal \in DOMAIN u.principals /\ u.principals[x.principal] = "owner"
  <1>5. Fine(r)
    BY <1>1, <1>2
  <1>6. \A a \in DOMAIN t.authenticators : Fine(t.authenticators[a])
    BY <1>4 DEF AuthenticatorsHeld, Grows
  <1>7. AuthenticatorsHeld(u) <=> \A a \in DOMAIN u.authenticators : Fine(u.authenticators[a])
    BY DEF AuthenticatorsHeld
  <1> HIDE DEF Fine
  <1> QED
    BY <1>3, <1>5, <1>6, <1>7 DEF Has

LEMMA EnrollHeld ==
    ASSUME PortableInv, enroll_owner
    PROVE  PortableInv'
  <1> DEFINE changed == {"principals", "authenticators", "authorization"}
  <1>1. VaultHeld(db) /\ db = [f \in Fields |-> db[f]]
    BY DEF PortableInv, VaultHeld, IsVault
  <1>2. /\ Same(db, db', changed)
        /\ db'.principals = Put(db.principals, Owner, "owner")
        /\ db'.authenticators = Put(db.authenticators, "password", Authenticator("password"))
    <2> DEFINE v == Put(db.principals, Owner, "owner")
               w == Put(db.authenticators, "password", Authenticator("password"))
               s == [db EXCEPT !["principals"] = v]
               r == [s EXCEPT !["authenticators"] = w]
    <2>1. db' = [r EXCEPT !["authorization"] = graph_commitment(db)]
      BY DEF enroll_owner
    <2> HIDE DEF v, w
    <2>2. Same(db, s, {"principals"}) /\ s["principals"] = v
      BY <1>1, OneField DEF Fields
    <2> HIDE DEF s
    <2>3. Same(s, r, {"authenticators"}) /\ r["authenticators"] = w
      BY <2>2, OneField DEF Fields, Same
    <2> HIDE DEF r
    <2>4. Same(r, db', {"authorization"})
      BY <2>1, <2>3, OneField DEF Fields, Same
    <2>5. Same(db, db', changed)
      BY <2>2, <2>3, <2>4 DEF Same
    <2>6. db'["principals"] = v /\ db'["authenticators"] = w
      BY <2>2, <2>3, <2>4 DEF Same, Fields
    <2> QED
      BY <2>5, <2>6 DEF v, w
  <1>3. Owner \notin DOMAIN db.principals
    BY DEF enroll_owner, Enrolled
  <1>p. Has(db'.principals, db.principals, Owner, "owner")
    BY <1>2, TablePut
  <1>4. /\ IsTable(db'.principals) /\ Owner \in DOMAIN db'.principals
        /\ db'.principals[Owner] = "owner"
        /\ \A k \in DOMAIN db.principals :
              k \in DOMAIN db'.principals /\ db'.principals[k] = db.principals[k]
    BY <1>3, <1>p DEF Has
  <1>5. Grows(db, db')
    BY <1>2, <1>4, SameFields, SMTT(60) DEF Grows
  <1>6. IsTable(db'.authenticators) /\ AuthenticatorsHeld(db')
    BY <1>1, <1>2, <1>4, <1>5, AuthenticatorPut
  <1>7. VaultHeld(db')
    BY <1>1, <1>2, <1>4, <1>5, <1>6, HeldAfter DEF OwnerHeld
  <1>8. ReservedHeld'
    BY <1>5, KeysKept DEF enroll_owner
  <1> QED
    BY <1>7, <1>8 DEF PortableInv

\* Tables that nothing refers to are all that changed.
LEMMA GrowsOtherwise ==
    ASSUME NEW t, NEW u, NEW changed, Same(t, u, changed), "principals" \notin changed,
           "service_identities" \notin changed, "namespaces" \notin changed,
           "policies" \notin changed
    PROVE  Grows(t, u)
  BY SameFields DEF Grows

LEMMA AddAuthenticatorHeld ==
    ASSUME PortableInv, add_owner_authenticator
    PROVE  PortableInv'
  <1> DEFINE w == Put(db.authenticators, "passkey", Authenticator("passkey"))
  <1>1. VaultHeld(db) /\ db = [f \in Fields |-> db[f]]
    BY DEF PortableInv, VaultHeld, IsVault
  <1>2. db' = [db EXCEPT !["authenticators"] = w]
    BY DEF add_owner_authenticator
  <1> HIDE DEF w
  <1>3. Same(db, db', {"authenticators"}) /\ db'["authenticators"] = w
    BY <1>1, <1>2, OneField DEF Fields
  <1>4. Grows(db, db') /\ db'.principals = db.principals
    BY <1>3, GrowsOtherwise, SameFields, SMTT(60)
  <1>5. IsTable(db'.authenticators) /\ AuthenticatorsHeld(db')
    <2>1. Owner \in DOMAIN db'.principals /\ db'.principals[Owner] = "owner"
      BY <1>1, <1>4 DEF VaultHeld, OwnerHeld, add_owner_authenticator, Enrolled
    <2> QED
      BY <1>1, <1>3, <1>4, <2>1, AuthenticatorPut DEF w
  <1>6. VaultHeld(db')
    BY <1>1, <1>3, <1>4, <1>5, HeldAfter
  <1>7. ReservedHeld'
    BY <1>4, KeysKept DEF add_owner_authenticator
  <1> QED
    BY <1>6, <1>7 DEF PortableInv

LEMMA CreateServiceHeld ==
    ASSUME PortableInv, NEW v, create_service_identity(v)
    PROVE  PortableInv'
  <1> DEFINE x == Put(db.principals, v, "service")
             y == db.service_identities \union {v}
             s == [db EXCEPT !["principals"] = x]
  <1>1. VaultHeld(db) /\ db = [f \in Fields |-> db[f]]
    BY DEF PortableInv, VaultHeld, IsVault
  <1>2. db' = [s EXCEPT !["service_identities"] = y]
    BY DEF create_service_identity
  <1> HIDE DEF x, y
  <1>3. Same(db, s, {"principals"}) /\ s["principals"] = x
    BY <1>1, OneField DEF Fields
  <1> HIDE DEF s
  <1>4. Same(s, db', {"service_identities"}) /\ db'["service_identities"] = y
    BY <1>2, <1>3, OneField DEF Fields, Same
  <1>5. Same(db, db', {"principals", "service_identities"}) /\ db'["principals"] = x
    BY <1>3, <1>4 DEF Same, Fields
  <1>6. Has(db'.principals, db.principals, v, "service")
    BY <1>5, TablePut DEF x
  <1>7. Grows(db, db')
    BY <1>4, <1>5, <1>6, SameFields, SMTT(60) DEF Grows, Has, y, create_service_identity
  <1>8. ServicesHeld(db')
    <2>1. ServicesHeld(db) /\ db'.credentials = db.credentials
      BY <1>1, <1>5, SameFields, SMTT(60) DEF VaultHeld
    <2>2. \A k \in db'.service_identities :
             k \in DOMAIN db'.principals /\ db'.principals[k] = "service"
      BY <1>4, <1>6, <1>7, <2>1 DEF y, Has, Grows, ServicesHeld
    <2> QED
      BY <1>7, <2>1, <2>2 DEF ServicesHeld, Grows
  <1>o. OwnerHeld(db')
    BY <1>1, <1>7 DEF VaultHeld, OwnerHeld, Grows, create_service_identity, Enrolled
  <1>9. VaultHeld(db')
    BY <1>1, <1>5, <1>6, <1>7, <1>8, <1>o, HeldAfter DEF Has
  <1>10. ReservedHeld'
    BY <1>7, KeysKept DEF create_service_identity
  <1> QED
    BY <1>9, <1>10 DEF PortableInv

\* A credential row is put in: a new one, or one that is there already.
LEMMA CredentialHeld ==
    ASSUME NEW t, NEW u, VaultHeld(t), NEW c, NEW r, NEW v \in t.service_identities,
           NEW revoked \in BOOLEAN,
           r = [principal |-> v, revoked |-> revoked,
                state_commitment |-> application_credential_commitment(v, revoked)],
           Same(t, u, {"credentials"}), Has(u.credentials, t.credentials, c, r)
    PROVE  VaultHeld(u) /\ Grows(t, u)
  <1>1. Grows(t, u) /\ u.principals = t.principals /\ u.service_identities = t.service_identities
    BY GrowsOtherwise, SameFields, SMTT(60)
  <1> DEFINE Fine(x) ==
               /\ x = [principal |-> x.principal, revoked |-> x.revoked,
                       state_commitment |-> application_credential_commitment(x.principal, x.revoked)]
               /\ x.revoked \in BOOLEAN /\ x.principal \in t.service_identities
  <1>2. Fine(r)
    <2>1. r.principal = v /\ r.revoked = revoked
      OBVIOUS
    <2> QED
      BY <2>1
  <1>3. ServicesHeld(t)
    BY DEF VaultHeld
  <1>4. \A k \in DOMAIN t.credentials : Fine(t.credentials[k])
    BY <1>3 DEF ServicesHeld
  <1>5. (\A k \in DOMAIN u.credentials : Fine(u.credentials[k])) => ServicesHeld(u)
    BY <1>1, <1>3 DEF ServicesHeld
  <1> HIDE DEF Fine
  <1>6. \A k \in DOMAIN u.credentials : Fine(u.credentials[k])
    BY <1>2, <1>4 DEF Has
  <1>7. IsTable(u.credentials)
    BY DEF Has
  <1> QED
    BY <1>1, <1>5, <1>6, <1>7, HeldAfter

LEMMA CreateCredentialHeld ==
    ASSUME PortableInv, NEW c, NEW v, create_application_credential(c, v)
    PROVE  PortableInv'
  <1> DEFINE r == [principal |-> v, revoked |-> FALSE,
                   state_commitment |-> application_credential_commitment(v, FALSE)]
             w == Put(db.credentials, c, r)
  <1>1. VaultHeld(db) /\ db = [f \in Fields |-> db[f]]
    BY DEF PortableInv, VaultHeld, IsVault
  <1>2. db' = [db EXCEPT !["credentials"] = w] /\ v \in db.service_identities
    BY DEF create_application_credential
  <1> HIDE DEF w
  <1>3. Same(db, db', {"credentials"}) /\ db'["credentials"] = w
    BY <1>1, <1>2, OneField DEF Fields
  <1>4. Has(db'.credentials, db.credentials, c, r)
    BY <1>3, TablePut DEF w
  <1>5. VaultHeld(db') /\ Grows(db, db')
    BY <1>1, <1>2, <1>3, <1>4, CredentialHeld
  <1>6. ReservedHeld'
    BY <1>5, KeysKept DEF create_application_credential
  <1> QED
    BY <1>5, <1>6 DEF PortableInv

LEMMA RevokeCredentialHeld ==
    ASSUME PortableInv, NEW c, revoke_application_credential(c)
    PROVE  PortableInv'
  <1> DEFINE q == db.credentials[c]
             v == q.principal
             b == q.revoked
             k == application_credential_commitment(v, b)
             yes == TRUE
             com == application_credential_commitment(v, yes)
             r == [principal |-> v, revoked |-> yes, state_commitment |-> com]
             w == [db.credentials EXCEPT ![c] = r]
  <1>1. /\ VaultHeld(db) /\ db = [f \in Fields |-> db[f]] /\ IsTable(db.credentials)
        /\ c \in DOMAIN db.credentials /\ v \in db.service_identities
    BY DEF PortableInv, VaultHeld, IsVault, ServicesHeld, revoke_application_credential
  <1>2. q = [principal |-> v, revoked |-> b, state_commitment |-> k]
    BY <1>1 DEF VaultHeld, ServicesHeld
  <1>3. db' = [db EXCEPT !["credentials"] = [db.credentials EXCEPT ![c] =
                 [q EXCEPT !.revoked = yes, !.state_commitment = com]]]
    BY <1>1 DEF revoke_application_credential
  <1> HIDE DEF q, v, b, k, yes, com
  <1>4. [q EXCEPT !.revoked = yes, !.state_commitment = com] = r
    <2> DEFINE z == [principal |-> v, revoked |-> yes, state_commitment |-> k]
    <2>1. [q EXCEPT !.revoked = yes] = z
      BY <1>2, SMTT(60)
    <2>2. [z EXCEPT !.state_commitment = com] = r
      BY SMTT(60)
    <2> HIDE DEF z
    <2> QED
      BY <2>1, <2>2
  <1>5. db' = [db EXCEPT !["credentials"] = w]
    BY <1>3, <1>4
  <1> HIDE DEF w, r
  <1>6. Same(db, db', {"credentials"}) /\ db'["credentials"] = w
    BY <1>1, <1>5, OneField DEF Fields
  <1>7. Has(db'.credentials, db.credentials, c, r)
    BY <1>1, <1>6, TableExcept, SMTT(60) DEF w
  <1>8. yes \in BOOLEAN
    BY DEF yes
  <1>9. VaultHeld(db') /\ Grows(db, db')
    BY <1>1, <1>6, <1>7, <1>8, CredentialHeld DEF r, com
  <1>10. ReservedHeld'
    BY <1>9, KeysKept DEF revoke_application_credential
  <1> QED
    BY <1>9, <1>10 DEF PortableInv

\* The walk of a namespace that is not too deep is complete.
LEMMA ShallowWalk ==
    ASSUME NEW T, Tree(T), NEW n \in DOMAIN T, namespace_depth(T, n) < MAX_NAMESPACE_DEPTH
    PROVE  namespace_ancestors_inclusive(T, n) = AllAncestors(T, n)
  <1>1. MAX_NAMESPACE_DEPTH \in Nat
    BY PortableAssumption
  <1>2. Len(Walk(T, n)) \in Nat /\ Len(Walk(T, n)) < MAX_NAMESPACE_DEPTH
    BY WalkAncestors DEF namespace_depth
  <1>3. Len(Walk(T, n)) # MAX_NAMESPACE_DEPTH + 1
    BY <1>1, <1>2, SMTT(60)
  <1> QED
    BY <1>3, WalkChain, WalkAncestors DEF namespace_ancestors_inclusive

LEMMA CreateNamespaceHeld ==
    ASSUME PortableInv, NEW n \in Namespace, NEW p \in Namespace \union {None},
           create_namespace(n, p)
    PROVE  PortableInv'
  <1> DEFINE w == Put(db.namespaces, n, p)
  <1>1. VaultHeld(db) /\ db = [f \in Fields |-> db[f]]
    BY DEF PortableInv, VaultHeld, IsVault
  <1>2. /\ db' = [db EXCEPT !["namespaces"] = w]
        /\ n \notin DOMAIN db.namespaces /\ p \in DOMAIN db.namespaces \union {None}
    BY DEF create_namespace
  <1>3. Tree(w) /\ Forest(w)
    BY <1>1, <1>2, PutForest DEF VaultHeld
  <1>4. DOMAIN db.namespaces \subseteq DOMAIN w
    BY DEF Put
  <1> HIDE DEF w
  <1>5. Same(db, db', {"namespaces"}) /\ db'["namespaces"] = w
    BY <1>1, <1>2, OneField DEF Fields
  <1>6. Grows(db, db')
    BY <1>4, <1>5, SameFields, SMTT(60) DEF Grows
  <1>7. VaultHeld(db')
    BY <1>1, <1>3, <1>5, <1>6, HeldAfter
  <1>8. ReservedHeld'
    BY <1>6, KeysKept DEF create_namespace
  <1> QED
    BY <1>7, <1>8 DEF PortableInv

\* A move keeps the forest: the parent that it checks has all its ancestors in
\* the walk.
LEMMA MoveEffect ==
    ASSUME VaultHeld(db), NEW n, NEW p, NEW confirmed, move_namespace(n, p, confirmed)
    PROVE  /\ n \in DOMAIN db.namespaces /\ p \in DOMAIN db.namespaces \union {None}
           /\ Same(db, db', {"namespaces"})
           /\ db'.namespaces = [db.namespaces EXCEPT ![n] = p]
           /\ p # None => /\ namespace_ancestors_inclusive(db.namespaces, p)
                               = AllAncestors(db.namespaces, p)
                          /\ n \notin AllAncestors(db.namespaces, p)
  <1> DEFINE w == [db.namespaces EXCEPT ![n] = p]
  <1>1. db = [f \in Fields |-> db[f]] /\ Tree(db.namespaces)
    BY DEF VaultHeld, IsVault
  <1>2. /\ db' = [db EXCEPT !["namespaces"] = w]
        /\ n \in DOMAIN db.namespaces /\ p \in DOMAIN db.namespaces \union {None}
    BY DEF move_namespace
  <1>3. p # None => /\ namespace_ancestors_inclusive(db.namespaces, p)
                         = AllAncestors(db.namespaces, p)
                    /\ n \notin AllAncestors(db.namespaces, p)
    BY <1>1, <1>2, ShallowWalk DEF move_namespace, may_move
  <1> HIDE DEF w
  <1>4. Same(db, db', {"namespaces"}) /\ db'["namespaces"] = w
    BY <1>1, <1>2, OneField DEF Fields
  <1> QED
    BY <1>2, <1>3, <1>4 DEF w

LEMMA MoveNamespaceHeld ==
    ASSUME PortableInv, NEW n, NEW p, NEW confirmed, move_namespace(n, p, confirmed)
    PROVE  PortableInv'
  <1>1. VaultHeld(db)
    BY DEF PortableInv
  <1>2. /\ n \in DOMAIN db.namespaces /\ p \in DOMAIN db.namespaces \union {None}
        /\ Same(db, db', {"namespaces"})
        /\ db'.namespaces = [db.namespaces EXCEPT ![n] = p]
        /\ p # None => n \notin AllAncestors(db.namespaces, p)
    BY <1>1, MoveEffect
  <1>3. Tree(db'.namespaces) /\ Forest(db'.namespaces)
    BY <1>1, <1>2, MoveForest, SMTT(60) DEF VaultHeld
  <1>4. DOMAIN db'.namespaces = DOMAIN db.namespaces
    BY <1>2
  <1>5. Grows(db, db')
    BY <1>2, <1>4, SameFields, SMTT(60) DEF Grows
  <1>6. VaultHeld(db')
    BY <1>1, <1>2, <1>3, <1>5, HeldAfter
  <1>7. ReservedHeld'
    BY <1>5, KeysKept DEF move_namespace
  <1> QED
    BY <1>6, <1>7 DEF PortableInv

\* A secret row is put in: a new one, or one that is there already.
LEMMA SecretHeld ==
    ASSUME NEW t, NEW u, VaultHeld(t), NEW s, NEW r, NEW n \in DOMAIN t.namespaces, NEW state,
           NEW k \in Nat \ {0},
           r = [namespace |-> n, state |-> state, current |-> k, versions |-> 1..k],
           Same(t, u, {"secrets"}), Has(u.secrets, t.secrets, s, r)
    PROVE  VaultHeld(u) /\ Grows(t, u)
  <1>1. Grows(t, u) /\ u.namespaces = t.namespaces
    BY GrowsOtherwise, SameFields, SMTT(60)
  <1> DEFINE Fine(x) ==
               /\ x = [namespace |-> x.namespace, state |-> x.state, current |-> x.current,
                       versions |-> 1..x.current]
               /\ x.namespace \in DOMAIN t.namespaces /\ x.current \in Nat \ {0}
  <1>2. Fine(r)
    <2>1. r.namespace = n /\ r.state = state /\ r.current = k
      OBVIOUS
    <2> QED
      BY <2>1
  <1>3. \A x \in DOMAIN t.secrets : Fine(t.secrets[x])
    BY DEF VaultHeld, SecretsHeld
  <1>4. (\A x \in DOMAIN u.secrets : Fine(u.secrets[x])) => SecretsHeld(u)
    BY <1>1 DEF SecretsHeld
  <1> HIDE DEF Fine
  <1>5. \A x \in DOMAIN u.secrets : Fine(u.secrets[x])
    BY <1>2, <1>3 DEF Has
  <1>6. IsTable(u.secrets)
    BY DEF Has
  <1> QED
    BY <1>1, <1>4, <1>5, <1>6, HeldAfter

\* The first version of a secret.
LEMMA FirstHeld ==
    ASSUME VaultHeld(db), NEW s, NEW n \in DOMAIN db.namespaces,
           db' = [db EXCEPT !.secrets = Put(@, s, FirstVersion(n))]
    PROVE  VaultHeld(db') /\ Grows(db, db')
  <1> DEFINE r == FirstVersion(n)
             w == Put(db.secrets, s, r)
             k == 1
  <1>1. db = [f \in Fields |-> db[f]]
    BY DEF VaultHeld, IsVault
  <1>2. db' = [db EXCEPT !["secrets"] = w]
    OBVIOUS
  <1>3. k \in Nat \ {0} /\ {1} = 1..k
    BY SMTT(60)
  <1>4. r = [namespace |-> n, state |-> "active", current |-> k, versions |-> 1..k]
    BY <1>3 DEF FirstVersion
  <1> HIDE DEF w, r, k
  <1>5. Same(db, db', {"secrets"}) /\ db'["secrets"] = w
    BY <1>1, <1>2, OneField DEF Fields
  <1>6. Has(db'.secrets, db.secrets, s, r)
    BY <1>5, TablePut DEF w
  <1> QED
    BY <1>3, <1>4, <1>5, <1>6, SecretHeld

LEMMA CreateSecretHeld ==
    ASSUME PortableInv, NEW s, NEW n, create_secret(s, n)
    PROVE  PortableInv'
  <1>1. VaultHeld(db') /\ Grows(db, db')
    BY FirstHeld DEF PortableInv, create_secret
  <1>2. Has(reserved', reserved, s, n)
    BY TablePut DEF create_secret
  <1>3. n \in DOMAIN db.namespaces
    BY DEF create_secret
  <1>4. ReservedHeld'
    BY <1>1, <1>2, <1>3 DEF PortableInv, ReservedHeld, Has, Grows
  <1> QED
    BY <1>1, <1>4 DEF PortableInv

LEMMA ReplaySecretHeld ==
    ASSUME PortableInv, NEW s, replay_create_secret(s)
    PROVE  PortableInv'
  <1>1. reserved[s] \in DOMAIN db.namespaces
    BY DEF PortableInv, ReservedHeld, replay_create_secret
  <1>2. VaultHeld(db') /\ Grows(db, db')
    BY <1>1, FirstHeld DEF PortableInv, replay_create_secret
  <1>3. ReservedHeld'
    BY <1>2, KeysKept DEF replay_create_secret
  <1> QED
    BY <1>2, <1>3 DEF PortableInv

LEMMA ExpireKeyHeld ==
    ASSUME PortableInv, NEW s, expire_key(s)
    PROVE  PortableInv'
  <1>1. /\ IsTable(reserved') /\ DOMAIN reserved' = DOMAIN reserved \ {s}
        /\ \A j \in DOMAIN reserved : j # s => reserved'[j] = reserved[j]
    BY TableDelete DEF expire_key
  <1> QED
    BY <1>1 DEF PortableInv, ReservedHeld, expire_key

LEMMA UpdateSecretHeld ==
    ASSUME PortableInv, NEW s, update_secret(s)
    PROVE  PortableInv'
  <1> DEFINE q == db.secrets[s]
             n == q.namespace
             state == q.state
             k == q.current
             r == [namespace |-> n, state |-> state, current |-> k + 1, versions |-> 1..k + 1]
             w == [db.secrets EXCEPT ![s] = r]
  <1>1. /\ VaultHeld(db) /\ db = [f \in Fields |-> db[f]] /\ IsTable(db.secrets)
        /\ s \in DOMAIN db.secrets /\ n \in DOMAIN db.namespaces /\ k \in Nat \ {0}
    BY DEF PortableInv, VaultHeld, IsVault, SecretsHeld, update_secret
  <1>2. q = [namespace |-> n, state |-> state, current |-> k, versions |-> 1..k]
    BY <1>1 DEF VaultHeld, SecretsHeld
  <1>3. db' = [db EXCEPT !["secrets"] = [db.secrets EXCEPT ![s] =
                 [q EXCEPT !.current = k + 1, !.versions = q.versions \union {k + 1}]]]
    BY <1>1 DEF update_secret
  <1> HIDE DEF q, n, state, k
  <1>4. k + 1 \in Nat \ {0} /\ (1..k) \union {k + 1} = 1..k + 1
    BY <1>1, SMTT(60)
  <1>5. [q EXCEPT !.current = k + 1, !.versions = q.versions \union {k + 1}] = r
    <2> DEFINE j == k + 1
               old == 1..k
               new == 1..j
               z == [namespace |-> n, state |-> state, current |-> j, versions |-> old]
    <2>1. q = [namespace |-> n, state |-> state, current |-> k, versions |-> old]
      BY <1>2
    <2>2. old \union {j} = new
      BY <1>4
    <2> HIDE DEF j, old, new
    <2>3. q.versions = old
      BY <2>1, SMTT(60)
    <2>4. [q EXCEPT !.current = j] = z
      BY <2>1, SMTT(60)
    <2>5. [z EXCEPT !.versions = new] = [namespace |-> n, state |-> state, current |-> j,
                                         versions |-> new]
      BY SMTT(60)
    <2> HIDE DEF z
    <2>6. [q EXCEPT !.current = j, !.versions = q.versions \union {j}]
            = [namespace |-> n, state |-> state, current |-> j, versions |-> new]
      BY <2>2, <2>3, <2>4, <2>5
    <2> QED
      BY <2>6 DEF j, new
  <1>6. db' = [db EXCEPT !["secrets"] = w]
    BY <1>3, <1>5
  <1> HIDE DEF w, r
  <1>7. Same(db, db', {"secrets"}) /\ db'["secrets"] = w
    BY <1>1, <1>6, OneField DEF Fields
  <1>8. Has(db'.secrets, db.secrets, s, r)
    BY <1>1, <1>7, TableExcept, SMTT(60) DEF w
  <1>9. VaultHeld(db') /\ Grows(db, db')
    BY <1>1, <1>4, <1>7, <1>8, SecretHeld DEF r
  <1>10. ReservedHeld'
    BY <1>9, KeysKept DEF update_secret
  <1> QED
    BY <1>9, <1>10 DEF PortableInv

LEMMA DeleteSecretHeld ==
    ASSUME PortableInv, NEW s, delete_secret(s)
    PROVE  PortableInv'
  <1> DEFINE q == db.secrets[s]
             n == q.namespace
             state == q.state
             k == q.current
             all == 1..k
             r == [namespace |-> n, state |-> "deleted", current |-> k, versions |-> all]
             w == [db.secrets EXCEPT ![s] = r]
  <1>1. /\ VaultHeld(db) /\ db = [f \in Fields |-> db[f]] /\ IsTable(db.secrets)
        /\ s \in DOMAIN db.secrets /\ n \in DOMAIN db.namespaces /\ k \in Nat \ {0}
    BY DEF PortableInv, VaultHeld, IsVault, SecretsHeld, delete_secret
  <1>2. q = [namespace |-> n, state |-> state, current |-> k, versions |-> all]
    BY <1>1 DEF VaultHeld, SecretsHeld
  <1>3. db' = [db EXCEPT !["secrets"] = [db.secrets EXCEPT ![s] = [q EXCEPT !.state = "deleted"]]]
    BY <1>1 DEF delete_secret
  <1> HIDE DEF q, n, state, k, all
  <1>4. [q EXCEPT !.state = "deleted"] = r
    BY <1>2, SMTT(60)
  <1>5. db' = [db EXCEPT !["secrets"] = w]
    BY <1>3, <1>4
  <1> HIDE DEF w, r
  <1>6. Same(db, db', {"secrets"}) /\ db'["secrets"] = w
    BY <1>1, <1>5, OneField DEF Fields
  <1>7. Has(db'.secrets, db.secrets, s, r)
    BY <1>1, <1>6, TableExcept, SMTT(60) DEF w
  <1>8. VaultHeld(db') /\ Grows(db, db')
    BY <1>1, <1>6, <1>7, SecretHeld DEF r, all
  <1>9. ReservedHeld'
    BY <1>8, KeysKept DEF delete_secret
  <1> QED
    BY <1>8, <1>9 DEF PortableInv

LEMMA PurgeSecretHeld ==
    ASSUME PortableInv, NEW s, purge_secret(s)
    PROVE  PortableInv'
  <1> DEFINE x == Delete(db.secrets, s)
             y == db.tombstones \union {s}
             b == [db EXCEPT !["secrets"] = x]
  <1>1. VaultHeld(db) /\ db = [f \in Fields |-> db[f]]
    BY DEF PortableInv, VaultHeld, IsVault
  <1>2. db' = [b EXCEPT !["tombstones"] = y]
    BY DEF purge_secret
  <1> HIDE DEF x, y
  <1>3. Same(db, b, {"secrets"}) /\ b["secrets"] = x
    BY <1>1, OneField DEF Fields
  <1> HIDE DEF b
  <1>4. Same(b, db', {"tombstones"})
    BY <1>2, <1>3, OneField DEF Fields, Same
  <1>5. Same(db, db', {"secrets", "tombstones"}) /\ db'["secrets"] = x
    BY <1>3, <1>4 DEF Same, Fields
  <1>6. Grows(db, db') /\ db'.namespaces = db.namespaces
    BY <1>5, GrowsOtherwise, SameFields, SMTT(60)
  <1>7. /\ IsTable(x) /\ DOMAIN x \subseteq DOMAIN db.secrets
        /\ \A j \in DOMAIN x : x[j] = db.secrets[j]
    BY DEF x, IsTable, Delete
  <1>8. SecretsHeld(db')
    BY <1>1, <1>5, <1>6, <1>7 DEF VaultHeld, SecretsHeld
  <1>9. VaultHeld(db')
    BY <1>1, <1>5, <1>6, <1>7, <1>8, HeldAfter
  <1>10. ReservedHeld'
    BY <1>6, KeysKept DEF purge_secret
  <1> QED
    BY <1>9, <1>10 DEF PortableInv

\* A change of the graph: its table and the commitment.
LEMMA Regraphed ==
    ASSUME NEW s, s = [f \in Fields |-> s[f]], NEW u, u = Regraph(s)
    PROVE  Same(s, u, {"authorization"})
  <1> DEFINE c == graph_commitment(s)
  <1>1. u = [s EXCEPT !["authorization"] = c]
    BY DEF Regraph
  <1> HIDE DEF c
  <1> QED
    BY <1>1, OneField DEF Fields

LEMMA PolicyHeld ==
    ASSUME PortableInv, NEW p, NEW state, NEW w, db' = Regraph([db EXCEPT !["policies"] = w]),
           Has(w, db.policies, p, state), UNCHANGED reserved
    PROVE  PortableInv'
  <1>1. VaultHeld(db) /\ db = [f \in Fields |-> db[f]]
    BY DEF PortableInv, VaultHeld, IsVault
  <1>2. Same(db, db', {"policies", "authorization"}) /\ db'["policies"] = w
    <2> DEFINE s == [db EXCEPT !["policies"] = w]
    <2>1. db' = Regraph(s)
      BY <1>1
    <2>2. Same(db, s, {"policies"}) /\ s["policies"] = w
      BY <1>1, OneField DEF Fields
    <2> HIDE DEF s
    <2>3. s = [f \in Fields |-> s[f]]
      BY <2>2 DEF Same
    <2>4. Same(s, db', {"authorization"})
      BY <2>1, <2>3, Regraphed
    <2> QED
      BY <2>2, <2>4 DEF Same, Fields
  <1>3. IsTable(w) /\ DOMAIN db.policies \subseteq DOMAIN w
    BY DEF Has
  <1>4. Grows(db, db')
    <2>1. /\ db'.principals = db.principals /\ db'.service_identities = db.service_identities
          /\ db'.namespaces = db.namespaces
      BY <1>2 DEF Same, Fields
    <2> QED
      BY <1>2, <1>3, <2>1 DEF Grows
  <1>5. VaultHeld(db')
    BY <1>1, <1>2, <1>3, <1>4, HeldAfter
  <1>6. ReservedHeld'
    BY <1>4, KeysKept
  <1> QED
    BY <1>5, <1>6 DEF PortableInv

LEMMA CreatePolicyHeld ==
    ASSUME PortableInv, NEW p, create_policy(p)
    PROVE  PortableInv'
  <1> DEFINE w == Put(db.policies, p, "active")
  <1>1. db' = Regraph([db EXCEPT !["policies"] = w]) /\ UNCHANGED reserved
    BY DEF create_policy
  <1>2. Has(w, db.policies, p, "active")
    BY TablePut
  <1> HIDE DEF w
  <1> QED
    BY <1>1, <1>2, PolicyHeld

LEMMA ArchivePolicyHeld ==
    ASSUME PortableInv, NEW p, archive_policy(p)
    PROVE  PortableInv'
  <1> DEFINE w == [db.policies EXCEPT ![p] = "archived"]
  <1>1. db' = Regraph([db EXCEPT !["policies"] = w]) /\ UNCHANGED reserved
    BY DEF archive_policy
  <1>2. IsTable(db.policies) /\ p \in DOMAIN db.policies
    BY DEF PortableInv, VaultHeld, IsVault, archive_policy, Active
  <1>3. Has(w, db.policies, p, "archived")
    BY <1>2, TableExcept
  <1> HIDE DEF w
  <1> QED
    BY <1>1, <1>3, PolicyHeld

LEMMA AddGrantHeld ==
    ASSUME PortableInv, NEW g \in Grant, add_policy_grant(g)
    PROVE  PortableInv'
  <1> DEFINE w == db.grants \union {g}
  <1>1. VaultHeld(db) /\ db = [f \in Fields |-> db[f]]
    BY DEF PortableInv, VaultHeld, IsVault
  <1>2. db' = Regraph([db EXCEPT !["grants"] = w])
    BY DEF add_policy_grant
  <1> HIDE DEF w
  <1>3. Same(db, db', {"grants", "authorization"}) /\ db'["grants"] = w
    <2> DEFINE s == [db EXCEPT !["grants"] = w]
    <2>1. db' = Regraph(s)
      BY <1>1, <1>2
    <2>2. Same(db, s, {"grants"}) /\ s["grants"] = w
      BY <1>1, OneField DEF Fields
    <2> HIDE DEF s
    <2>3. s = [f \in Fields |-> s[f]]
      BY <2>2 DEF Same
    <2>4. Same(s, db', {"authorization"})
      BY <2>1, <2>3, Regraphed
    <2> QED
      BY <2>2, <2>4 DEF Same, Fields
  <1>4. Grows(db, db') /\ db'.bindings = db.bindings
    BY <1>3, GrowsOtherwise, SameFields, SMTT(60)
  <1>5. g.kind \in {"namespace", "secret"}
    BY DEF Grant
  <1>6. g.policy \in DOMAIN db.policies /\ (g.kind = "namespace" => g.target \in DOMAIN db.namespaces)
    BY DEF add_policy_grant, Active, verify_grant_target
  <1>7. GraphHeld(db)
    BY <1>1 DEF VaultHeld
  <1>8. GraphHeld(db')
    <2>1. \A h \in db'.grants : h \in db.grants \/ h = g
      BY <1>3 DEF w
    <2> QED
      BY <1>4, <1>5, <1>6, <1>7, <2>1 DEF GraphHeld, Grows
  <1>9. VaultHeld(db')
    BY <1>1, <1>3, <1>4, <1>8, HeldAfter
  <1>10. ReservedHeld'
    BY <1>4, KeysKept DEF add_policy_grant
  <1> QED
    BY <1>9, <1>10 DEF PortableInv

LEMMA BindHeld ==
    ASSUME PortableInv, NEW v, NEW p, bind_policy_to_service(v, p)
    PROVE  PortableInv'
  <1> DEFINE w == db.bindings \union {<<v, p>>}
  <1>1. VaultHeld(db) /\ db = [f \in Fields |-> db[f]]
    BY DEF PortableInv, VaultHeld, IsVault
  <1>2. db' = Regraph([db EXCEPT !["bindings"] = w])
    BY DEF bind_policy_to_service
  <1> HIDE DEF w
  <1>3. Same(db, db', {"bindings", "authorization"}) /\ db'["bindings"] = w
    <2> DEFINE s == [db EXCEPT !["bindings"] = w]
    <2>1. db' = Regraph(s)
      BY <1>1, <1>2
    <2>2. Same(db, s, {"bindings"}) /\ s["bindings"] = w
      BY <1>1, OneField DEF Fields
    <2> HIDE DEF s
    <2>3. s = [f \in Fields |-> s[f]]
      BY <2>2 DEF Same
    <2>4. Same(s, db', {"authorization"})
      BY <2>1, <2>3, Regraphed
    <2> QED
      BY <2>2, <2>4 DEF Same, Fields
  <1>4. Grows(db, db') /\ db'.grants = db.grants
    BY <1>3, GrowsOtherwise, SameFields, SMTT(60)
  <1>5. v \in db.service_identities /\ p \in DOMAIN db.policies
    BY DEF bind_policy_to_service, Active
  <1>6. GraphHeld(db)
    BY <1>1 DEF VaultHeld
  <1>7. GraphHeld(db')
    <2>1. \A b \in db'.bindings : b \in db.bindings \/ b = <<v, p>>
      BY <1>3 DEF w
    <2>2. <<v, p>>[1] = v /\ <<v, p>>[2] = p
      OBVIOUS
    <2> QED
      BY <1>4, <1>5, <1>6, <2>1, <2>2 DEF GraphHeld, Grows
  <1>8. VaultHeld(db')
    BY <1>1, <1>3, <1>4, <1>7, HeldAfter
  <1>9. ReservedHeld'
    BY <1>4, KeysKept DEF bind_policy_to_service
  <1> QED
    BY <1>8, <1>9 DEF PortableInv

LEMMA RestoreHeld ==
    ASSUME PortableInv, NEW mode, restore_backup_file(mode)
    PROVE  PortableInv'
  <1>1. VaultHeld(db')
    BY RestoredHeld DEF PortableInv, restore_backup_file
  <1>2. ReservedHeld'
    BY DEF restore_backup_file, ReservedHeld, IsTable, Empty
  <1> QED
    BY <1>1, <1>2 DEF PortableInv

\* A new vault is empty.
LEMMA InitHeld == Init => PortableInv
  <1> SUFFICES ASSUME Init PROVE PortableInv
    OBVIOUS
  <1>1. /\ db.principals = Empty /\ db.authenticators = Empty /\ db.credentials = Empty
        /\ db.secrets = Empty /\ db.policies = Empty /\ db.namespaces = Empty
        /\ db.service_identities = {} /\ db.grants = {} /\ db.bindings = {}
    BY DEF Init
  <1>2. db = [f \in Fields |-> db[f]]
    BY SMTT(60) DEF Init, Fields
  <1>3. Empty = [k \in DOMAIN Empty |-> Empty[k]] /\ DOMAIN Empty = {}
    BY DEF Empty
  <1>4. IsVault(db) /\ OwnerHeld(db)
    BY <1>1, <1>2, <1>3 DEF IsVault, IsTable, OwnerHeld
  <1>5. Tree(db.namespaces) /\ Forest(db.namespaces)
    BY <1>1, <1>3 DEF Tree, Forest
  <1>6. AuthenticatorsHeld(db) /\ ServicesHeld(db) /\ SecretsHeld(db) /\ GraphHeld(db)
    BY <1>1, <1>3 DEF AuthenticatorsHeld, ServicesHeld, SecretsHeld, GraphHeld
  <1>7. ReservedHeld
    BY <1>3 DEF Init, ReservedHeld, IsTable
  <1> QED
    BY <1>4, <1>5, <1>6, <1>7 DEF PortableInv, VaultHeld

LEMMA NextHeld == PortableInv /\ [Next]_vars => PortableInv'
  <1> SUFFICES ASSUME PortableInv, [Next]_vars PROVE PortableInv'
    OBVIOUS
  <1>1. CASE Identities
    BY <1>1, EnrollHeld, AddAuthenticatorHeld, CreateServiceHeld, CreateCredentialHeld,
       RevokeCredentialHeld DEF Identities
  <1>2. CASE Namespaces
    BY <1>2, CreateNamespaceHeld, MoveNamespaceHeld DEF Namespaces
  <1>3. CASE Secrets
    BY <1>3, CreateSecretHeld, ReplaySecretHeld, ExpireKeyHeld, UpdateSecretHeld,
       DeleteSecretHeld, PurgeSecretHeld DEF Secrets
  <1>4. CASE Policies
    BY <1>4, CreatePolicyHeld, ArchivePolicyHeld, AddGrantHeld, BindHeld DEF Policies
  <1>5. CASE \E mode \in CredentialRestoreMode : restore_backup_file(mode)
    BY <1>5, RestoreHeld
  <1>6. CASE UNCHANGED vars
    BY <1>6 DEF vars, PortableInv, ReservedHeld
  <1> QED
    BY <1>1, <1>2, <1>3, <1>4, <1>5, <1>6 DEF Next

\* The tables, the references between them and the namespace forest hold in
\* every state, after every history of requests and restores.
THEOREM VaultStaysWhole == Spec => []PortableInv
  BY InitHeld, NextHeld, PTL DEF Spec

\* The namespace tree has no cycle, for any depth limit: a move checks the walk
\* of a parent that is not too deep, and such a walk is complete.
THEOREM NamespacesStayForest == Spec => []NamespaceForest
  <1>1. PortableInv => NamespaceForest
    BY DEF PortableInv, VaultHeld, Forest, NamespaceForest
  <1> QED
    BY <1>1, VaultStaysWhole, PTL

\* A backup is restored, in either mode, unless a namespace was moved too deep,
\* a grant outlives its secret or a purged secret was created again.
THEOREM BackupsRestore == Spec => []BackupRestores
  <1>1. PortableInv => BackupRestores
    BY HeldRestores DEF PortableInv
  <1> QED
    BY <1>1, VaultStaysWhole, PTL

-----------------------------------------------------------------------------
(* What a restore and a move do to the access of services.                 *)

\* Access depends on the graph, the namespaces and the secrets.
LEMMA SameAccess ==
    ASSUME NEW t, NEW u, u.grants = t.grants, u.policies = t.policies, u.bindings = t.bindings,
           u.namespaces = t.namespaces, u.secrets = t.secrets
    PROVE  EffectiveAccess(u) = EffectiveAccess(t)
  <1>1. ASSUME NEW kind, NEW id
        PROVE  resource_namespace_ancestors(u, kind, id) = resource_namespace_ancestors(t, kind, id)
    BY DEF resource_namespace_ancestors
  <1>2. \A p : Active(u, p) <=> Active(t, p)
    BY DEF Active
  <1>3. ASSUME NEW v, NEW kind, NEW id
        PROVE  service_is_allowed(u, v, kind, id) <=> service_is_allowed(t, v, kind, id)
    BY <1>1, <1>2 DEF service_is_allowed
  <1> QED
    BY <1>3 DEF EffectiveAccess

LEMMA RestoreEquivalent ==
    ASSUME PortableInv, NEW mode, db' = restored(db, mode)
    PROVE  /\ EffectiveAccess(db') = EffectiveAccess(db)
           /\ db'.secrets = db.secrets /\ db'.tombstones = db.tombstones
           /\ \A a \in DOMAIN db'.authenticators :
                 (db'.authenticators[a].state = "active")
                   <=> (db'.authenticators[a].kind = "password")
           /\ DOMAIN db'.authenticators = DOMAIN db.authenticators
           /\ \A c \in DOMAIN db'.credentials :
                 db'.credentials[c].revoked <=> (mode = "revoke" \/ db.credentials[c].revoked)
  <1> DEFINE R == restored(db, mode)
  <1>1. VaultHeld(db) /\ AuthenticatorsHeld(db) /\ ServicesHeld(db)
    BY DEF PortableInv, VaultHeld
  <1>t. /\ R = [f \in Fields |-> R[f]] /\ R.epoch = db.epoch + 1
        /\ R.principals = db.principals /\ R.service_identities = db.service_identities
        /\ R.namespaces = db.namespaces /\ R.secrets = db.secrets /\ R.tombstones = db.tombstones
        /\ R.policies = db.policies /\ R.grants = db.grants /\ R.bindings = db.bindings
        /\ R.authenticators = [k \in DOMAIN db.authenticators |-> Rebound(db.authenticators[k])]
        /\ R.credentials = [k \in DOMAIN db.credentials |-> Reissued(db.credentials[k], mode)]
        /\ R.authorization = graph_commitment(db)
    BY <1>1, RestoredTables, SMTT(60)
  <1>2. R = db'
    OBVIOUS
  <1> HIDE DEF R
  <1>3. EffectiveAccess(R) = EffectiveAccess(db)
    BY <1>t, SameAccess
  <1>4. DOMAIN R.authenticators = DOMAIN db.authenticators
    BY <1>t
  <1>5. ASSUME NEW a \in DOMAIN R.authenticators
        PROVE  (R.authenticators[a].state = "active") <=> (R.authenticators[a].kind = "password")
    <2> DEFINE x == db.authenticators[a]
               y == R.authenticators[a]
    <2>1. y = Rebound(x) /\ a \in DOMAIN db.authenticators
      BY <1>t
    <2>2. /\ x = [kind |-> x.kind, principal |-> x.principal, state |-> x.state,
                  state_commitment |-> authenticator_commitment(x.kind, x.state)]
          /\ x.kind \in {"password", "passkey"} /\ x.state \in {"active", "revoked"}
          /\ x.kind = "password" => x.state = "active"
      BY <1>1, <2>1 DEF AuthenticatorsHeld
    <2> HIDE DEF x, y
    <2>3. (y.state = "active") <=> (y.kind = "password")
      BY <2>1, <2>2, ReboundHeld
    <2> QED
      BY <2>3 DEF y
  <1>6. ASSUME NEW c \in DOMAIN R.credentials
        PROVE  R.credentials[c].revoked <=> (mode = "revoke" \/ db.credentials[c].revoked)
    <2> DEFINE x == db.credentials[c]
               y == R.credentials[c]
    <2>1. y = Reissued(x, mode) /\ c \in DOMAIN db.credentials
      BY <1>t
    <2>2. /\ x = [principal |-> x.principal, revoked |-> x.revoked,
                  state_commitment |-> application_credential_commitment(x.principal, x.revoked)]
          /\ x.revoked \in BOOLEAN
      BY <1>1, <2>1 DEF ServicesHeld
    <2> HIDE DEF x, y
    <2>3. y.revoked <=> (mode = "revoke" \/ x.revoked)
      BY <2>1, <2>2, ReissuedHeld
    <2> QED
      BY <2>3 DEF x, y
  <1> QED
    BY <1>t, <1>2, <1>3, <1>4, <1>5, <1>6

\* A restore changes nobody's access and no secret; no passkey works after it,
\* the password does, and with "revoke" no credential is left.
THEOREM RestoreIsEquivalent == Spec => RestoredVaultEquivalent
  <1> DEFINE A == \A mode \in CredentialRestoreMode :
          db'.epoch > db.epoch /\ db' = restored(db, mode) =>
             /\ EffectiveAccess(db') = EffectiveAccess(db)
             /\ db'.secrets = db.secrets /\ db'.tombstones = db.tombstones
             /\ \A a \in DOMAIN db'.authenticators :
                   (db'.authenticators[a].state = "active")
                     <=> (db'.authenticators[a].kind = "password")
             /\ DOMAIN db'.authenticators = DOMAIN db.authenticators
             /\ \A c \in DOMAIN db'.credentials :
                   db'.credentials[c].revoked <=> (mode = "revoke" \/ db.credentials[c].revoked)
  <1>1. PortableInv => A
    BY RestoreEquivalent
  <1>2. RestoredVaultEquivalent <=> [][A]_vars
    BY PTL DEF RestoredVaultEquivalent
  <1> HIDE DEF A
  <1> QED
    BY <1>1, <1>2, VaultStaysWhole, PTL

\* Where the moved namespace is not above m, no walk from m gets longer.
LEMMA WalkElsewhere ==
    ASSUME NEW T, NEW U, Tree(T), Tree(U), DOMAIN U = DOMAIN T, NEW m \in DOMAIN T, NEW n,
           \A x \in DOMAIN T : x # n => U[x] = T[x], n \notin AllAncestors(T, m)
    PROVE  Range(Walk(U, m)) \subseteq Range(Walk(T, m))
  <1> DEFINE A == AllAncestors(T, m)
             W == Walk(U, m)
             V == Walk(T, m)
             L == Len(W)
  <1>1. A \subseteq DOMAIN T /\ m \in A /\ Closed(T, A)
    BY AncestorsLeast
  <1>2. Closed(U, A)
    BY <1>1 DEF Closed
  <1>3. AllAncestors(U, m) \subseteq A
    BY <1>1, <1>2, AncestorsLeast
  <1>4. Range(W) \subseteq A
    BY <1>3, WalkAncestors
  <1>5. CASE T[Last(V)] = None
    BY <1>4, <1>5, WalkAncestors
  <1>6. CASE Len(V) = MAX_NAMESPACE_DEPTH + 1
    <2>1. Chain(T, m, V) /\ Chain(U, m, W) /\ L <= MAX_NAMESPACE_DEPTH + 1
      BY WalkChain
    <2> HIDE DEF V, W, A
    <2>2. /\ V \in Seq(DOMAIN T) /\ V[1] = m
          /\ \A i \in 1..Len(V) : i < Len(V) => V[i + 1] = T[V[i]]
      BY <2>1 DEF Chain
    <2>3. /\ W \in Seq(DOMAIN T) /\ W[1] = m /\ L >= 1
          /\ \A i \in 1..L : i < L => W[i + 1] = U[W[i]]
      BY <2>1 DEF Chain
    <2>4. L \in Nat /\ Len(V) \in Nat /\ L <= Len(V)
      BY <1>6, <2>1, <2>2, <2>3, SMTT(60)
    <2>5. Range(W) = {W[i] : i \in 1..L} /\ Range(V) = {V[i] : i \in 1..Len(V)}
      BY <2>2, <2>3, SMTT(60) DEF Range
    <2> HIDE DEF L
    <2> DEFINE P == {i \in 1..L : W[i] = V[i]}
    <2>6. 1..L \subseteq P
      <3>1. 1 \in P
        <4>1. 1 \in 1..L
          BY <2>3, <2>4, SMTT(60)
        <4> QED
          BY <2>2, <2>3, <4>1
      <3>2. ASSUME NEW i \in 1..L, i \in P, i + 1 <= L PROVE i + 1 \in P
        <4>1. i \in 1..Len(V) /\ i < Len(V) /\ i < L /\ i + 1 \in 1..L
          BY <2>4, <3>2, SMTT(60)
        <4>2. W[i] \in A /\ W[i] = V[i]
          BY <1>4, <2>5, <3>2
        <4>3. W[i] \in DOMAIN T /\ W[i] # n
          BY <1>1, <4>2 DEF A
        <4> QED
          BY <2>2, <2>3, <4>1, <4>2, <4>3, SMTT(60)
      <3> HIDE DEF P
      <3> QED
        BY <2>4, <3>1, <3>2, Upwards, 1 \in Nat
    <2>7. 1..L \subseteq 1..Len(V)
      BY <2>4, SMTT(60)
    <2> QED
      BY <2>5, <2>6, <2>7 DEF W, V
  <1> QED
    BY <1>5, <1>6, WalkChain

\* The ancestors after a move: those from before and those of the new parent.
LEMMA MovedAncestors ==
    ASSUME NEW T, NEW U, Tree(T), Tree(U), DOMAIN U = DOMAIN T, NEW n \in DOMAIN T,
           NEW p \in DOMAIN T \union {None}, U[n] = p,
           \A x \in DOMAIN T : x # n => U[x] = T[x], NEW m \in DOMAIN T,
           NEW x \in AllAncestors(U, m), x \notin AllAncestors(T, m)
    PROVE  p # None /\ x \in AllAncestors(T, p)
  <1> DEFINE A == AllAncestors(T, m)
             B == IF p = None THEN {} ELSE AllAncestors(T, p)
  <1>1. A \subseteq DOMAIN T /\ m \in A /\ Closed(T, A)
    BY AncestorsLeast
  <1>2. B \subseteq DOMAIN T /\ Closed(T, B) /\ (p # None => p \in B)
    BY AncestorsLeast DEF Closed
  <1> HIDE DEF A, B
  <1>3. Closed(U, A \union B)
    BY <1>1, <1>2 DEF Closed
  <1>4. AllAncestors(U, m) \subseteq A \union B
    BY <1>1, <1>3, AncestorsLeast
  <1>5. x \in B
    BY <1>4 DEF A
  <1> QED
    BY <1>5 DEF B

\* The namespace that a resource is in.
LEMMA ResourceAncestors ==
    ASSUME NEW t, NEW u, VaultHeld(t), u.secrets = t.secrets,
           DOMAIN u.namespaces = DOMAIN t.namespaces, NEW kind, NEW id,
           resource_namespace_ancestors(u, kind, id) # {}
    PROVE  \E m \in DOMAIN t.namespaces :
              /\ resource_namespace_ancestors(u, kind, id) = Range(Walk(u.namespaces, m))
              /\ resource_namespace_ancestors(t, kind, id) = Range(Walk(t.namespaces, m))
  <1>1. CASE kind = "namespace" /\ id \in DOMAIN t.namespaces
    <2>1. /\ resource_namespace_ancestors(u, kind, id) = Range(Walk(u.namespaces, id))
          /\ resource_namespace_ancestors(t, kind, id) = Range(Walk(t.namespaces, id))
      BY <1>1 DEF resource_namespace_ancestors, namespace_ancestors_inclusive
    <2> QED
      BY <1>1, <2>1
  <1>2. CASE kind = "secret" /\ id \in DOMAIN t.secrets
    <2> DEFINE m == t.secrets[id].namespace
    <2>1. m \in DOMAIN t.namespaces
      BY <1>2 DEF VaultHeld, SecretsHeld
    <2>2. /\ resource_namespace_ancestors(u, kind, id) = Range(Walk(u.namespaces, m))
          /\ resource_namespace_ancestors(t, kind, id) = Range(Walk(t.namespaces, m))
      BY <1>2 DEF resource_namespace_ancestors, namespace_ancestors_inclusive
    <2> QED
      BY <2>1, <2>2
  <1>3. CASE /\ ~(kind = "namespace" /\ id \in DOMAIN t.namespaces)
             /\ ~(kind = "secret" /\ id \in DOMAIN t.secrets)
    BY <1>3 DEF resource_namespace_ancestors
  <1> QED
    BY <1>1, <1>2, <1>3

LEMMA MoveBroadens ==
    ASSUME PortableInv, NEW n, NEW p, NEW confirmed, move_namespace(n, p, confirmed),
           \A m \in DOMAIN db.namespaces : n \in AllAncestors(db.namespaces, m) => ~Deep(m),
           NEW v \in Service, NEW kind, NEW id,
           service_is_allowed(db', v, kind, id), ~service_is_allowed(db, v, kind, id)
    PROVE  v \in confirmed
  <1> DEFINE T == db.namespaces
             U == db'.namespaces
  <1>1. VaultHeld(db) /\ VaultHeld(db')
    BY MoveNamespaceHeld DEF PortableInv
  <1>2. /\ n \in DOMAIN T /\ p \in DOMAIN T \union {None}
        /\ Same(db, db', {"namespaces"}) /\ U = [T EXCEPT ![n] = p]
        /\ p # None => namespace_ancestors_inclusive(T, p) = AllAncestors(T, p)
    BY <1>1, MoveEffect
  <1>3. /\ db'.grants = db.grants /\ db'.policies = db.policies /\ db'.bindings = db.bindings
        /\ db'.secrets = db.secrets
    BY <1>2 DEF Same, Fields
  <1>4. Tree(T) /\ Tree(U)
    BY <1>1 DEF VaultHeld
  <1>5. DOMAIN U = DOMAIN T /\ U[n] = p /\ \A x \in DOMAIN T : x # n => U[x] = T[x]
    BY <1>2
  <1>6. confirmed = preview_namespace_move_core(db, n, p)
    BY DEF move_namespace, delta_confirmed
  <1> DEFINE old == resource_namespace_ancestors(db, kind, id)
             new == resource_namespace_ancestors(db', kind, id)
  <1>7. new # {}
    BY DEF service_is_allowed
  <1>8. PICK m \in DOMAIN T : new = Range(Walk(U, m)) /\ old = Range(Walk(T, m))
    BY <1>1, <1>3, <1>5, <1>7, ResourceAncestors, SMTT(60)
  <1>9. old # {}
    <2>1. m \in Range(Walk(T, m))
      BY <1>4, WalkAncestors
    <2> QED
      BY <1>8, <2>1
  <1>10. PICK g \in db.grants :
            /\ Active(db, g.policy) /\ <<v, g.policy>> \in db.bindings
            /\ \/ g.kind = kind /\ g.target = id
               \/ g.kind = "namespace" /\ g.target \in new /\ g.descendants
    BY <1>3 DEF service_is_allowed, Active
  <1>11. /\ g.kind = "namespace" /\ g.target \in new /\ g.descendants
         /\ g.target \notin old
    BY <1>9, <1>10 DEF service_is_allowed
  <1> HIDE DEF T, U, old, new
  <1>12. n \in AllAncestors(T, m)
    BY <1>4, <1>5, <1>8, <1>11, WalkElsewhere
  <1>13. old = AllAncestors(T, m)
    BY <1>8, <1>12 DEF Deep, namespace_ancestors_inclusive, T
  <1>14. g.target \in AllAncestors(U, m)
    BY <1>4, <1>5, <1>8, <1>11, WalkAncestors
  <1>15. p # None /\ g.target \in AllAncestors(T, p)
    BY <1>2, <1>4, <1>5, <1>11, <1>13, <1>14, MovedAncestors
  <1>16. g.target \notin namespace_ancestors_inclusive(T, n)
    <2>1. AllAncestors(T, n) \subseteq AllAncestors(T, m)
      BY <1>2, <1>4, <1>12, AncestorsLeast
    <2>2. namespace_ancestors_inclusive(T, n) \subseteq AllAncestors(T, n)
      BY <1>2, <1>4, WalkAncestors DEF namespace_ancestors_inclusive
    <2> QED
      BY <1>11, <1>13, <2>1, <2>2
  <1>17. g.target \in namespace_ancestors_inclusive(T, p)
    BY <1>2, <1>15
  <1>18. v \in preview_namespace_move_core(db, n, p)
    BY <1>10, <1>11, <1>15, <1>16, <1>17 DEF preview_namespace_move_core, T
  <1> QED
    BY <1>6, <1>18

\* A move gives a service no access that the owner has not confirmed, unless
\* something below the moved namespace was too deep for its grants.
THEOREM MovesBroadenAsConfirmed == Spec => NoSilentBroadening
  <1> DEFINE A == \A n \in Namespace, p \in Namespace \union {None}, confirmed \in SUBSET Service :
          /\ n \in DOMAIN db.namespaces /\ db'.namespaces[n] # db.namespaces[n]
          /\ move_namespace(n, p, confirmed)
          /\ (\A m \in DOMAIN db.namespaces : n \in AllAncestors(db.namespaces, m) => ~Deep(m))
          => \A access \in EffectiveAccess(db') \ EffectiveAccess(db) :
                access[1] \in confirmed
  <1>1. ASSUME PortableInv PROVE A
    <2> SUFFICES ASSUME NEW n, NEW p, NEW confirmed, move_namespace(n, p, confirmed),
                        \A m \in DOMAIN db.namespaces :
                           n \in AllAncestors(db.namespaces, m) => ~Deep(m),
                        NEW access \in EffectiveAccess(db') \ EffectiveAccess(db)
                 PROVE  access[1] \in confirmed
      OBVIOUS
    <2>1. access \in Service \X Resource
      BY DEF EffectiveAccess
    <2>2. /\ access[1] \in Service
          /\ service_is_allowed(db', access[1], access[2][1], access[2][2])
          /\ ~service_is_allowed(db, access[1], access[2][1], access[2][2])
      BY <2>1 DEF EffectiveAccess
    <2> QED
      BY <1>1, <2>2, MoveBroadens
  <1>2. NoSilentBroadening <=> [][A]_vars
    BY PTL DEF NoSilentBroadening
  <1> HIDE DEF A
  <1> QED
    BY <1>1, <1>2, VaultStaysWhole, PTL
=============================================================================
