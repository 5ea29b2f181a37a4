--------------------------- MODULE FindingsProofs ---------------------------
(***************************************************************************)
(* Proofs about Findings: the groups of candidates whatever is similar to  *)
(* what, what a group is reported as, and when a run is COMPLETE, for any  *)
(* number of candidates and any inventory.                                 *)
(***************************************************************************)
EXTENDS Findings, DataInduction, TLAPS

(* What Init fixes and no step changes.                                     *)
InputOK ==
    /\ profile \in Inventory
    /\ similar \subseteq {p \in Candidate \X Candidate : p[1] < p[2]}
    /\ link \in [Candidate -> {0} \cup Execution]
    /\ \A c \in Execution : link[c] = 0
    /\ requireProof \in BOOLEAN

-----------------------------------------------------------------------------
(* Connected groups. *)

(* Two connected groups with a similar pair between them are one connected  *)
(* group: the case of a union in group_candidates.                          *)
LEMMA ConnectedUnion ==
    ASSUME NEW A, NEW B, Connected(A), Connected(B),
           NEW i \in A, NEW j \in B, Near(i, j)
    PROVE  Connected(A \cup B)
<1> SUFFICES ASSUME NEW part \in (SUBSET (A \cup B)) \ {{}, A \cup B}
             PROVE  \E x \in part, y \in (A \cup B) \ part : Near(x, y)
  BY DEF Connected
<1>1. CASE part \cap A \notin {{}, A}
  <2>1. \E x \in part \cap A, y \in A \ (part \cap A) : Near(x, y)
    BY <1>1 DEF Connected
  <2> QED BY <2>1
<1>2. CASE part \cap B \notin {{}, B}
  <2>1. \E x \in part \cap B, y \in B \ (part \cap B) : Near(x, y)
    BY <1>2 DEF Connected
  <2> QED BY <2>1
<1>3. CASE part \cap A \in {{}, A} /\ part \cap B \in {{}, B}
  <2>1. Near(j, i)
    BY DEF Near
  <2>2. CASE i \in part /\ j \notin part
    BY <2>2
  <2>3. CASE j \in part /\ i \notin part
    BY <2>1, <2>3
  <2>4. CASE i \in part /\ j \in part
    <3>1. A \subseteq part /\ B \subseteq part
      BY <1>3, <2>4
    <3> QED BY <3>1
  <2>5. CASE i \notin part /\ j \notin part
    <3>1. part \cap A = {} /\ part \cap B = {}
      BY <1>3, <2>5
    <3> QED BY <3>1
  <2> QED BY <2>2, <2>3, <2>4, <2>5
<1> QED BY <1>1, <1>2, <1>3

(* A candidate alone is a connected group.                                  *)
LEMMA ConnectedAlone ==
    ASSUME NEW d
    PROVE  Connected({d})
<1>1. ASSUME NEW part \in (SUBSET {d}) \ {{}, {d}} PROVE FALSE
  BY <1>1
<1> QED BY <1>1 DEF Connected

-----------------------------------------------------------------------------
(* One pair of group_candidates. *)

Class(S, root, d) == {c \in S : root[c] = root[d]}

(* What the roots are after every pair: executions are with what the host   *)
(* linked to them, and every class is connected.                            *)
Rooted(S, root) ==
    /\ root \in [S -> S]
    /\ \A a \in S \cap Execution, c \in S : root[a] = root[c] => Compatible(a, c)
    /\ \A d \in S : Connected(Class(S, root, d))

(* A union keeps the numbers in the list of candidates.                     *)
LEMMA UnionTyped ==
    ASSUME NEW S, NEW root \in [S -> S], NEW i \in S, NEW j \in S
    PROVE  /\ Union(root, i, j) \in [S -> S]
           /\ \A c \in S :
               /\ c \in Members(root, i, j) =>
                    Union(root, i, j)[c] \in {root[i], root[j]}
               /\ c \notin Members(root, i, j) =>
                    Union(root, i, j)[c] = root[c] /\ root[c] \notin {root[i], root[j]}
           /\ \A c, d \in S : c \in Members(root, i, j) /\ d \in Members(root, i, j) =>
                    Union(root, i, j)[c] = Union(root, i, j)[d]
BY DEF Union, Members

(* What a union makes of two classes, and that it leaves the others.        *)
LEMMA UnionClasses ==
    ASSUME NEW S, NEW root \in [S -> S], NEW i \in S, NEW j \in S
    PROVE  /\ Members(root, i, j) = Class(S, root, i) \cup Class(S, root, j)
           /\ \A d \in S :
               Class(S, Union(root, i, j), d) =
                 IF d \in Members(root, i, j)
                 THEN Class(S, root, i) \cup Class(S, root, j)
                 ELSE Class(S, root, d)
<1> DEFINE new == Union(root, i, j)
           both == Members(root, i, j)
<1>1. both = Class(S, root, i) \cup Class(S, root, j)
  BY DEF Members, Class
<1>2. /\ \A c \in S : /\ c \in both => new[c] \in {root[i], root[j]}
                      /\ c \notin both => new[c] = root[c] /\ root[c] \notin {root[i], root[j]}
      /\ \A c, d \in S : c \in both /\ d \in both => new[c] = new[d]
  BY DEF Union, Members
<1>3. both \subseteq S
  BY DEF Members
<1> HIDE DEF new, both
<1>4. \A d \in both : Class(S, new, d) = both
  <2> SUFFICES ASSUME NEW d \in both PROVE Class(S, new, d) = both
    OBVIOUS
  <2>1. \A c \in S : new[c] = new[d] <=> c \in both
    BY <1>2, <1>3
  <2> QED BY <1>3, <2>1 DEF Class
<1>5. \A d \in S \ both : Class(S, new, d) = Class(S, root, d)
  <2> SUFFICES ASSUME NEW d \in S \ both PROVE Class(S, new, d) = Class(S, root, d)
    OBVIOUS
  <2>0. \A c \in both : root[c] \in {root[i], root[j]}
    BY DEF both, Members
  <2>1. \A c \in S : new[c] = new[d] <=> root[c] = root[d]
    BY <1>2, <1>3, <2>0
  <2> QED BY <2>1 DEF Class
<1> QED BY <1>1, <1>4, <1>5 DEF new, both

(* Two candidates of one class stay in one class.                           *)
LEMMA JoinKeeps ==
    ASSUME NEW S, NEW root \in [S -> S], NEW k, NEW c \in S, NEW d \in S,
           root[c] = root[d]
    PROVE  Join(S, root, k)[c] = Join(S, root, k)[d]
<1> DEFINE i == ((k - 1) \div N) + 1
           j == ((k - 1) % N) + 1
<1>1. CASE <<i, j>> \in similar /\ {i, j} \subseteq S /\ CanUnion(root, i, j)
  <2>1. Join(S, root, k) = Union(root, i, j)
    BY <1>1 DEF Join
  <2>2. i \in S /\ j \in S
    BY <1>1
  <2> HIDE DEF i, j
  <2>3. Union(root, i, j)[c] = Union(root, i, j)[d]
    BY DEF Union, Members
  <2> QED BY <2>1, <2>3
<1>2. CASE ~(<<i, j>> \in similar /\ {i, j} \subseteq S /\ CanUnion(root, i, j))
  <2>1. Join(S, root, k) = root
    BY <1>2 DEF Join
  <2> QED BY <2>1
<1> QED BY <1>1, <1>2

(* One pair keeps what Rooted says.                                         *)
LEMMA JoinRooted ==
    ASSUME NEW S, NEW root, Rooted(S, root), NEW k
    PROVE  Rooted(S, Join(S, root, k))
<1> DEFINE i == ((k - 1) \div N) + 1
           j == ((k - 1) % N) + 1
           new == Union(root, i, j)
<1>0. root \in [S -> S]
  BY DEF Rooted
<1>1. CASE <<i, j>> \in similar /\ {i, j} \subseteq S /\ CanUnion(root, i, j)
  <2>1. Join(S, root, k) = new
    BY <1>1 DEF Join
  <2>2. i \in S /\ j \in S /\ Near(i, j) /\ CanUnion(root, i, j)
    BY <1>1 DEF Near
  <2> HIDE DEF i, j
  <2>3. new \in [S -> S]
    BY <1>0, <2>2, UnionTyped
  <2>4. ASSUME NEW a \in S \cap Execution, NEW c \in S, new[a] = new[c]
        PROVE  Compatible(a, c)
    <3>1. CASE a \in Members(root, i, j) /\ c \in Members(root, i, j)
      BY <2>2, <3>1 DEF CanUnion
    <3>2. CASE a \notin Members(root, i, j) /\ c \notin Members(root, i, j)
      <4>1. root[a] = root[c]
        BY <1>0, <2>2, <2>4, <3>2, UnionTyped
      <4> QED BY <4>1 DEF Rooted
    <3>3. CASE a \in Members(root, i, j) <=> c \notin Members(root, i, j)
      <4>1. \A x \in S : x \in Members(root, i, j) <=> new[x] \in {root[i], root[j]}
        BY <1>0, <2>2, UnionTyped
      <4> QED BY <2>4, <3>3, <4>1
    <3> QED BY <3>1, <3>2, <3>3
  <2>5. ASSUME NEW d \in S PROVE Connected(Class(S, new, d))
    <3>1. CASE d \in Members(root, i, j)
      <4>1. Class(S, new, d) = Class(S, root, i) \cup Class(S, root, j)
        BY <1>0, <2>2, <3>1, UnionClasses
      <4>2. i \in Class(S, root, i) /\ j \in Class(S, root, j)
        BY <2>2 DEF Class
      <4>3. Connected(Class(S, root, i)) /\ Connected(Class(S, root, j))
        BY <2>2 DEF Rooted
      <4> QED BY <2>2, <4>1, <4>2, <4>3, ConnectedUnion
    <3>2. CASE d \notin Members(root, i, j)
      <4>1. Class(S, new, d) = Class(S, root, d)
        BY <1>0, <2>2, <3>2, UnionClasses
      <4> QED BY <4>1 DEF Rooted
    <3> QED BY <3>1, <3>2
  <2> QED BY <2>1, <2>3, <2>4, <2>5 DEF Rooted
<1>2. CASE ~(<<i, j>> \in similar /\ {i, j} \subseteq S /\ CanUnion(root, i, j))
  <2>1. Join(S, root, k) = root
    BY <1>2 DEF Join
  <2> QED BY <2>1
<1> QED BY <1>1, <1>2

-----------------------------------------------------------------------------
(* All pairs of group_candidates. *)

(* The loops are well defined: the recursion has a solution, and it gives   *)
(* the values one pair after the other.                                     *)
LEMMA RootsRecursion ==
    ASSUME NEW S
    PROVE  /\ RootsAfter(S)[0] = [c \in S |-> c]
           /\ \A k \in 1 .. N * N :
                RootsAfter(S)[k] = Join(S, RootsAfter(S)[k - 1], k)
<1> DEFINE M == N * N
           A == [S -> S]
           first == [c \in S |-> c]
           step == [p \in A \X (1 .. M) |-> Join(S, p[1], p[2])]
           Defining(f) == f = [k \in 0 .. M |-> IF k = 0 THEN [c \in S |-> c]
                                                ELSE Join(S, f[k - 1], k)]
<1>1. M \in Nat
  BY InventoryTyped
<1>2. first \in A
  OBVIOUS
<1>3. step \in [A \X (1 .. M) -> A]
  <2>1. ASSUME NEW root \in A, NEW k \in 1 .. M PROVE Join(S, root, k) \in A
    <3> DEFINE i == ((k - 1) \div N) + 1
               j == ((k - 1) % N) + 1
    <3>1. CASE <<i, j>> \in similar /\ {i, j} \subseteq S /\ CanUnion(root, i, j)
      <4>1. Join(S, root, k) = Union(root, i, j) /\ i \in S /\ j \in S
        BY <3>1 DEF Join
      <4> HIDE DEF i, j
      <4> QED BY <4>1, UnionTyped
    <3>2. CASE ~(<<i, j>> \in similar /\ {i, j} \subseteq S /\ CanUnion(root, i, j))
      BY <3>2 DEF Join
    <3> QED BY <3>1, <3>2
  <2> HIDE DEF A, M
  <2>2. ASSUME NEW p \in A \X (1 .. M) PROVE Join(S, p[1], p[2]) \in A
    <3>1. p[1] \in A /\ p[2] \in 1 .. M
      OBVIOUS
    <3> QED BY <2>1, <3>1
  <2> QED BY <2>2
<1>4. \A root \in A, k \in 1 .. M : step[<<root, k>>] = Join(S, root, k)
  OBVIOUS
<1> HIDE DEF step, first, A, M
<1>5. PICK f : f \in [0 .. M -> A] /\ f[0] = first
                /\ \A k \in 1 .. M : f[k] = step[<<f[k - 1], k>>]
  <2>1. step \in Steps(A, M)
    BY <1>3 DEF Steps
  <2>2. \E f : Iterates(f, M, A, first, step)
    BY <1>1, <1>2, <2>1, IntervalRecursion
  <2> QED BY <2>2 DEF Iterates
<1>6. Defining(f)
  <2>1. \A k \in 1 .. M : f[k] = Join(S, f[k - 1], k)
    <3> SUFFICES ASSUME NEW k \in 1 .. M PROVE f[k] = Join(S, f[k - 1], k)
      OBVIOUS
    <3>1. k - 1 \in 0 .. M
      BY <1>1
    <3> QED BY <1>4, <1>5, <3>1
  <2>2. \A k \in 0 .. M : k # 0 => k \in 1 .. M
    BY <1>1
  <2>3. \A k \in 0 .. M : f[k] = IF k = 0 THEN [c \in S |-> c] ELSE Join(S, f[k - 1], k)
    BY <1>5, <2>1, <2>2 DEF first
  <2> QED BY <1>5, <2>3
<1>7. RootsAfter(S) = CHOOSE g : Defining(g)
  BY Zenon DEF RootsAfter, M
<1>8. Defining(RootsAfter(S))
  <2> HIDE DEF Defining
  <2>1. \E g : Defining(g)
    BY <1>6
  <2> QED BY <1>7, <2>1
<1>9. 0 \in 0 .. M /\ \A k \in 1 .. M : k \in 0 .. M /\ k # 0
  BY <1>1
<1> DEFINE R == RootsAfter(S)
<1>10. \A k \in 0 .. M : R[k] = IF k = 0 THEN [c \in S |-> c] ELSE Join(S, R[k - 1], k)
  <2> HIDE DEF R
  <2>1. Defining(R)
    BY <1>8 DEF R
  <2> QED BY <2>1
<1> QED BY <1>9, <1>10 DEF M

(* What Rooted says holds after every pair of any list of candidates.       *)
LEMMA RootsRooted ==
    ASSUME InputOK, NEW S, S \subseteq Candidate
    PROVE  \A k \in 0 .. N * N : Rooted(S, RootsAfter(S)[k])
<1> DEFINE M == N * N
           R == RootsAfter(S)
           T == {k \in 0 .. M : Rooted(S, R[k])}
<1>1. M \in Nat
  BY InventoryTyped
<1>2. R[0] = [c \in S |-> c] /\ \A k \in 1 .. M : R[k] = Join(S, R[k - 1], k)
  BY RootsRecursion
<1> HIDE DEF M, R
<1>3. 0 \in T
  <2> DEFINE id == [c \in S |-> c]
  <2>1. id \in [S -> S]
    OBVIOUS
  <2>2. \A a \in S \cap Execution, c \in S : id[a] = id[c] => Compatible(a, c)
    BY DEF Compatible
  <2>3. \A d \in S : Class(S, id, d) = {d}
    BY DEF Class
  <2>4. \A d \in S : Connected(Class(S, id, d))
    BY <2>3, ConnectedAlone
  <2>5. Rooted(S, id)
    BY <2>1, <2>2, <2>4 DEF Rooted
  <2>6. 0 \in 0 .. M
    BY <1>1
  <2> QED BY <1>2, <2>5, <2>6
<1>4. \A k \in 1 .. M : k - 1 \in T => k \in T
  <2> SUFFICES ASSUME NEW k \in 1 .. M, k - 1 \in T PROVE k \in T
    OBVIOUS
  <2>1. Rooted(S, R[k - 1])
    OBVIOUS
  <2>2. Rooted(S, Join(S, R[k - 1], k))
    BY <2>1, JoinRooted
  <2>3. k \in 0 .. M
    BY <1>1
  <2> QED BY <1>2, <2>2, <2>3
<1>5. \A k \in 0 .. M : k \in T
  <2> HIDE DEF T
  <2> QED BY <1>1, <1>3, <1>4, IntervalInduction
<1> QED BY <1>5 DEF M, R

(* The pair (c, d) is met, as pair number (c - 1) * N + d.                  *)
LEMMA PairMet ==
    ASSUME NEW c \in Candidate, NEW d \in Candidate
    PROVE  LET k == (c - 1) * N + d
           IN  /\ k \in 1 .. N * N
               /\ ((k - 1) \div N) + 1 = c
               /\ ((k - 1) % N) + 1 = d
<1> DEFINE k == (c - 1) * N + d
<1>1. N \in Nat /\ N > 0 /\ c \in 1 .. N /\ d \in 1 .. N
  BY InventoryTyped DEF Candidate
<1>2. PICK p \in Nat : p = (c - 1) * N
  BY <1>1
<1>3. p + N <= N * N
  <2>1. p + N = c * N
    BY <1>1, <1>2
  <2>2. c * N <= N * N
    BY <1>1
  <2> QED BY <1>1, <2>1, <2>2
<1>4. k \in 1 .. N * N
  BY <1>1, <1>2, <1>3
<1>5. PICK q \in Int, r \in Int : q = (k - 1) \div N /\ r = (k - 1) % N
  BY <1>1, <1>4
<1>6. k - 1 = q * N + r /\ 0 <= r /\ r < N
  BY <1>1, <1>4, <1>5
<1>7. q = c - 1 /\ r = d - 1
  <2>1. (q - (c - 1)) * N = (d - 1) - r
    BY <1>1, <1>2, <1>6
  <2>2. PICK e \in Int : e = q - (c - 1)
    BY <1>1
  <2>3. e * N = (d - 1) - r
    BY <2>1, <2>2
  <2>4. e < 1
    <3>1. e >= 1 => e * N >= N
      BY <1>1
    <3> QED BY <1>1, <1>6, <2>3, <3>1
  <2>5. e > -1
    <3>1. e <= -1 => e * N <= -N
      BY <1>1
    <3> QED BY <1>1, <1>6, <2>3, <3>1
  <2>6. e = 0
    BY <2>4, <2>5
  <2> QED BY <1>1, <1>6, <2>2, <2>3, <2>6
<1> QED BY <1>1, <1>4, <1>5, <1>7

-----------------------------------------------------------------------------
(* The groups. *)

(* A group is a connected part of the list, and an execution in it is the   *)
(* one all its other members are linked to.                                 *)
LEMMA GroupFacts ==
    ASSUME InputOK, NEW S, S \subseteq Candidate, NEW g \in Groups(S)
    PROVE  /\ g \subseteq S /\ g # {}
           /\ Connected(g)
           /\ \A a \in g \cap Execution, c \in g : Compatible(a, c)
<1> DEFINE root == Roots(S)
<1>1. Rooted(S, root)
  <2>1. N * N \in 0 .. N * N
    BY InventoryTyped
  <2> QED BY <2>1, RootsRooted DEF Roots
<1>2. PICK d \in S : g = Class(S, root, d)
  BY DEF Groups, Class
<1> HIDE DEF root
<1>3. g \subseteq S /\ g # {}
  BY <1>2 DEF Class
<1>4. \A a \in g \cap Execution, c \in g : Compatible(a, c)
  BY <1>1, <1>2 DEF Rooted, Class
<1> QED BY <1>1, <1>2, <1>3, <1>4 DEF Rooted

(* A group has at most one execution: no execution is linked to another.    *)
LEMMA OneAnchor ==
    ASSUME InputOK, NEW S, S \subseteq Candidate, NEW g \in Groups(S),
           NEW a \in g \cap Execution
    PROVE  g \cap Execution = {a}
<1>1. \A c \in g : Compatible(a, c)
  BY GroupFacts
<1>2. \A c \in Execution : link[c] = 0
  BY DEF InputOK
<1>3. a \in Nat /\ a # 0
  BY InventoryTyped DEF Execution, Candidate
<1>4. \A c \in g \cap Execution : c = a
  BY <1>1, <1>2, <1>3 DEF Compatible
<1> QED BY <1>4

(* Similar reviews without a link end in one group, in whatever order the   *)
(* pairs around them are met.                                               *)
LEMMA LooseShare ==
    ASSUME InputOK, NEW c \in Candidate \ Execution, NEW d \in Candidate \ Execution,
           link[c] = 0, link[d] = 0, <<c, d>> \in similar
    PROVE  \E g \in Groups(Candidate) : {c, d} \subseteq g
<1> DEFINE M == N * N
           R == RootsAfter(Candidate)
           k0 == (c - 1) * N + d
           T == {k \in 0 .. M : k < k0 \/ R[k][c] = R[k][d]}
<1>1. M \in Nat
  BY InventoryTyped
<1>2. /\ k0 \in 1 .. M
      /\ ((k0 - 1) \div N) + 1 = c
      /\ ((k0 - 1) % N) + 1 = d
  BY PairMet
<1>3. \A k \in 1 .. M : R[k] = Join(Candidate, R[k - 1], k)
  BY RootsRecursion
<1>4. \A k \in 0 .. M : Rooted(Candidate, R[k])
  BY RootsRooted
<1> HIDE DEF M, R, k0
<1>5. 0 \in T
  BY <1>1, <1>2
<1>6. R[k0][c] = R[k0][d]
  <2> DEFINE root == R[k0 - 1]
  <2>1. Rooted(Candidate, root)
    BY <1>1, <1>2, <1>4
  <2> HIDE DEF root
  <2>2. CanUnion(root, c, d)
    <3>1. ASSUME NEW a \in Members(root, c, d) \cap Execution PROVE FALSE
      <4>1. a \in Candidate /\ root[a] \in {root[c], root[d]}
        BY <2>1, <3>1 DEF Members, Rooted
      <4>2. Compatible(a, c) \/ Compatible(a, d)
        BY <2>1, <4>1 DEF Rooted
      <4>3. a # 0
        BY <4>1, InventoryTyped DEF Candidate
      <4> QED BY <4>2, <4>3 DEF Compatible
    <3> QED BY <3>1 DEF CanUnion
  <2>3. Join(Candidate, root, k0) = Union(root, c, d)
    BY <1>2, <2>2 DEF Join
  <2>4. Union(root, c, d)[c] = Union(root, c, d)[d]
    <3>1. root \in [Candidate -> Candidate]
      BY <2>1 DEF Rooted
    <3> QED BY <3>1 DEF Union, Members
  <2> QED BY <1>2, <1>3, <2>3, <2>4 DEF root
<1>7. \A k \in 1 .. M : k - 1 \in T => k \in T
  <2> SUFFICES ASSUME NEW k \in 1 .. M, k - 1 \in T PROVE k \in T
    OBVIOUS
  <2>1. k \in 0 .. M /\ k - 1 \in 0 .. M
    BY <1>1
  <2>2. CASE k < k0
    BY <2>1, <2>2
  <2>3. CASE k = k0
    BY <1>6, <2>1, <2>3
  <2>4. CASE k > k0
    <3>1. R[k - 1][c] = R[k - 1][d]
      BY <1>1, <1>2, <2>1, <2>4
    <3>2. R[k - 1] \in [Candidate -> Candidate]
      BY <1>4, <2>1 DEF Rooted
    <3>3. Join(Candidate, R[k - 1], k)[c] = Join(Candidate, R[k - 1], k)[d]
      BY <3>1, <3>2, JoinKeeps
    <3> QED BY <1>3, <2>1, <3>3
  <2> QED BY <1>1, <1>2, <2>2, <2>3, <2>4
<1>8. M \in T
  <2> HIDE DEF T
  <2>1. \A k \in 0 .. M : k \in T
    BY <1>1, <1>5, <1>7, IntervalInduction
  <2> QED BY <1>1, <2>1
<1>9. R[M][c] = R[M][d]
  BY <1>1, <1>2, <1>8
<1>10. Class(Candidate, Roots(Candidate), d) \in Groups(Candidate)
  BY DEF Class, Groups
<1>11. {c, d} \subseteq Class(Candidate, Roots(Candidate), d)
  BY <1>9 DEF Class, Roots, M, R
<1> QED BY <1>10, <1>11

(* group_candidates, for any list and any similarity.                       *)
LEMMA GroupsAreSound ==
    ASSUME InputOK
    PROVE  GroupsSound
<1>1. \A g \in Groups(Candidate) : Connected(g)
  BY GroupFacts
<1>2. ASSUME NEW g \in Groups(Candidate), NEW a \in Execution, a \in g,
             NEW c \in g \ {a}
      PROVE  link[c] = a
  <2>1. \A x \in g \cap Execution, y \in g : Compatible(x, y)
    BY GroupFacts
  <2> QED BY <1>2, <2>1 DEF Compatible
<1>3. \A c, d \in {x \in Candidate \ Execution : link[x] = 0} : <<c, d>> \in similar =>
         \E g \in Groups(Candidate) : {c, d} \subseteq g
  BY LooseShare
<1> QED BY <1>1, <1>2, <1>3 DEF GroupsSound

-----------------------------------------------------------------------------
(* What a group is reported as. *)

(* The profiles are what the inventory says.                                *)
LEMMA ProfileTyped ==
    ASSUME InputOK, NEW c \in Candidate
    PROVE  profile[c].confidence \in Nat /\ profile[c].severity \in Severity
<1>1. profile[c] \in Profile
  BY InventoryTyped DEF InputOK
<1> QED BY <1>1 DEF Profile

(* The ranks of the nine statuses.                                          *)
LEMMA StatusFacts ==
    /\ Status = {"rejected", "unsupported", "insufficient_context", "informational",
                 "needs_review", "plausible", "high_confidence", "strongly_supported",
                 "confirmed"}
    /\ Rank["rejected"] = 0
    /\ \A s \in Status : Rank[s] \in Nat
<1>1. Status = {"rejected", "unsupported", "insufficient_context", "informational",
                 "needs_review", "plausible", "high_confidence", "strongly_supported",
                 "confirmed"}
  BY DEF Status, Rank
<1>2. \A s \in Status : Rank[s] \in Nat
  BY <1>1 DEF Rank
<1>3. Rank["rejected"] = 0
  BY DEF Rank
<1> QED BY <1>1, <1>2, <1>3

Upto(pool, n) == {c \in pool : c <= n}
Heaviest(pool, c) == c \in pool /\ \A d \in pool : Outweighs(c, d)
Settled(pool) == pool = {} \/ \E c : Heaviest(pool, c)

(* Every pool of candidates has one that outweighs the others: max in       *)
(* merge_group.                                                             *)
LEMMA HeaviestExists ==
    ASSUME InputOK, NEW pool, pool \subseteq Candidate, pool # {}
    PROVE  \E c \in pool : \A d \in pool : Outweighs(c, d)
<1> DEFINE T == {n \in 0 .. N : Settled(Upto(pool, n))}
<1>0. N \in Nat /\ pool \subseteq 1 .. N
  BY InventoryTyped DEF Candidate
<1>range. \A c \in pool : c \in Int /\ 1 <= c /\ c <= N
  BY <1>0
<1>1. \A c \in pool : profile[c].confidence \in Nat /\ profile[c].severity \in Nat
  BY ProfileTyped DEF Severity
<1>2. 0 \in T
  <2>1. Upto(pool, 0) = {}
    BY <1>range DEF Upto
  <2> QED BY <1>0, <2>1 DEF Settled
<1>3. ASSUME NEW n \in 1 .. N, n - 1 \in T PROVE n \in T
  <2>0. n \in 0 .. N /\ Settled(Upto(pool, n - 1))
    BY <1>0, <1>3
  <2>1. CASE n \notin pool
    <3>1. Upto(pool, n) = Upto(pool, n - 1)
      <4>1. \A c \in pool : c <= n <=> c <= n - 1
        BY <1>range, <2>1
      <4> QED BY <4>1 DEF Upto
    <3> QED BY <2>0, <3>1
  <2>2. CASE n \in pool
    <3> DEFINE old == Upto(pool, n - 1)
    <3>1. Upto(pool, n) = old \cup {n} /\ old \subseteq pool
      <4>1. \A c \in pool : c <= n <=> (c <= n - 1 \/ c = n)
        BY <1>range
      <4> QED BY <2>2, <4>1 DEF Upto
    <3> HIDE DEF old
    <3>2. Outweighs(n, n)
      BY <1>1, <2>2, <1>0 DEF Outweighs
    <3>3. CASE old = {}
      <4>1. Heaviest(old \cup {n}, n)
        BY <3>2, <3>3 DEF Heaviest
      <4> QED BY <2>0, <3>1, <4>1 DEF Settled
    <3>4. CASE old # {}
      <4>1. PICK c : Heaviest(old, c)
        BY <2>0, <3>4 DEF Settled, old
      <4>2. Outweighs(c, n) \/ Outweighs(n, c)
        BY <1>0, <1>1, <2>2, <3>1, <4>1 DEF Outweighs, Heaviest
      <4>3. CASE Outweighs(c, n)
        <5>1. Heaviest(old \cup {n}, c)
          BY <4>1, <4>3 DEF Heaviest
        <5> QED BY <2>0, <3>1, <5>1 DEF Settled
      <4>4. CASE Outweighs(n, c)
        <5>1. ASSUME NEW d \in old PROVE Outweighs(n, d)
          <6>1. Outweighs(c, d) /\ c \in pool /\ d \in pool
            BY <3>1, <4>1 DEF Heaviest
          <6>2. {c, d, n} \subseteq Nat
            BY <1>0, <2>2, <6>1
          <6> QED BY <1>1, <2>2, <4>4, <6>1, <6>2 DEF Outweighs
        <5>2. Heaviest(old \cup {n}, n)
          BY <3>2, <5>1 DEF Heaviest
        <5> QED BY <2>0, <3>1, <5>2 DEF Settled
      <4> QED BY <4>2, <4>3, <4>4
    <3> QED BY <3>3, <3>4
  <2> QED BY <2>1, <2>2
<1>4. N \in T
  <2> HIDE DEF T
  <2>1. \A n \in 0 .. N : n \in T
    BY <1>0, <1>2, <1>3, IntervalInduction
  <2> QED BY <1>0, <2>1
<1>5. Upto(pool, N) = pool
  BY <1>range DEF Upto
<1>6. Settled(pool)
  BY <1>4, <1>5
<1> QED BY <1>6 DEF Settled, Heaviest

(* The primary of a group is one of its candidates.                         *)
LEMMA PrimaryOfGroup ==
    ASSUME InputOK, NEW g, g \subseteq Candidate, g # {}, NEW valid
    PROVE  Primary(g, valid) \in Candidate
<1> DEFINE anchors  == g \cap Execution
           accepted == {c \in g \cap valid : AcceptedBy(decisions, c)}
           pool     == CASE anchors \cap valid # {} -> anchors \cap valid
                      [] anchors \cap valid = {} /\ anchors # {} -> anchors
                      [] anchors = {} /\ accepted # {} -> accepted
                      [] anchors = {} /\ accepted = {} /\ g \cap valid # {} -> g \cap valid
                      [] OTHER -> g
<1>1. pool \subseteq g /\ pool # {}
  <2>1. anchors \subseteq g /\ accepted \subseteq g /\ accepted \subseteq valid
    OBVIOUS
  <2> HIDE DEF anchors, accepted
  <2>2. CASE anchors \cap valid # {}
    BY <2>1, <2>2
  <2>3. CASE anchors \cap valid = {} /\ anchors # {}
    BY <2>1, <2>3
  <2>4. CASE anchors = {} /\ accepted # {}
    BY <2>1, <2>4
  <2>5. CASE anchors = {} /\ accepted = {}
    BY <2>1, <2>5
  <2> QED BY <2>2, <2>3, <2>4, <2>5
<1>2. Primary(g, valid) = CHOOSE c \in pool : \A d \in pool : Outweighs(c, d)
  BY Zenon DEF Primary
<1> HIDE DEF pool
<1>3. \E c \in pool : \A d \in pool : Outweighs(c, d)
  BY <1>1, HeaviestExists
<1> QED BY <1>1, <1>2, <1>3

Word == Judgement \cup {NoJudgement}

(* What the judge says has a status and a severity of the report, unless it *)
(* says nothing.                                                            *)
LEMMA WordTyped ==
    ASSUME NEW judge \in Word, judge # NoJudgement
    PROVE  judge.status \in Status /\ judge.severity \in Severity
BY InventoryTyped DEF Word

(* preliminary_status, for the group of an execution and for the others.    *)
LEMMA PreliminaryFacts ==
    ASSUME NEW g, NEW valid
    PROVE  LET anchors  == g \cap Execution
               accepted == {c \in g \cap valid : AcceptedBy(decisions, c)}
           IN  /\ PreliminaryStatus(g, valid) \in Status
               /\ anchors # {} => PreliminaryStatus(g, valid) =
                    IF anchors \subseteq valid THEN "confirmed" ELSE "rejected"
               /\ anchors = {} /\ accepted = {} =>
                    PreliminaryStatus(g, valid) = "rejected"
<1> DEFINE anchors  == g \cap Execution
           accepted == {c \in g \cap valid : AcceptedBy(decisions, c)}
           verified == \E c \in accepted : decisions[c].verdict = "verified"
           support  == SupportedBy(accepted)
           p        == PreliminaryStatus(g, valid)
<1>1. p = CASE anchors # {} -> IF anchors \subseteq valid THEN "confirmed" ELSE "rejected"
            [] anchors = {} /\ accepted = {} -> "rejected"
            [] anchors = {} /\ accepted # {} /\ ~verified -> "needs_review"
            [] OTHER ->
                IF support.reproduced \/ (support.tooled /\ support.path) THEN "confirmed"
                ELSE IF support.path /\ Cardinality(support.families) >= 2
                     THEN "strongly_supported"
                ELSE IF CompletePath(Strongest(accepted)) THEN "high_confidence" ELSE "needs_review"
  BY Zenon DEF PreliminaryStatus
<1> HIDE DEF anchors, accepted, verified, support, p
<1>2. CASE anchors # {}
  <2>1. p = IF anchors \subseteq valid THEN "confirmed" ELSE "rejected"
    BY <1>1, <1>2
  <2> QED BY <1>2, <2>1, StatusFacts DEF anchors, accepted, p
<1>3. CASE anchors = {} /\ accepted = {}
  <2>1. p = "rejected"
    BY <1>1, <1>3
  <2> QED BY <1>3, <2>1, StatusFacts DEF anchors, accepted, p
<1>4. CASE anchors = {} /\ accepted # {}
  <2>1. p \in {"needs_review", "confirmed", "strongly_supported", "high_confidence"}
    <3>1. CASE ~verified
      BY <1>1, <1>4, <3>1
    <3>2. CASE verified
      BY <1>1, <1>4, <3>2
    <3> QED BY <3>1, <3>2
  <2> QED BY <1>4, <2>1, StatusFacts DEF anchors, accepted, p
<1> QED BY <1>2, <1>3, <1>4

(* preliminary_status: what a confirmation rests on.                        *)
LEMMA ConfirmedFacts ==
    ASSUME NEW g, NEW valid, PreliminaryStatus(g, valid) = "confirmed"
    PROVE  Substantiated(g \cap valid)
<1> DEFINE anchors  == g \cap Execution
           accepted == {c \in g \cap valid : AcceptedBy(decisions, c)}
           verified == \E c \in accepted : decisions[c].verdict = "verified"
           support  == SupportedBy(accepted)
           p        == PreliminaryStatus(g, valid)
           solid    == support.reproduced \/ (support.tooled /\ support.path)
<1>1. p = CASE anchors # {} -> IF anchors \subseteq valid THEN "confirmed" ELSE "rejected"
            [] anchors = {} /\ accepted = {} -> "rejected"
            [] anchors = {} /\ accepted # {} /\ ~verified -> "needs_review"
            [] OTHER ->
                IF support.reproduced \/ (support.tooled /\ support.path) THEN "confirmed"
                ELSE IF support.path /\ Cardinality(support.families) >= 2
                     THEN "strongly_supported"
                ELSE IF CompletePath(Strongest(accepted)) THEN "high_confidence" ELSE "needs_review"
  BY Zenon DEF PreliminaryStatus
<1>2. /\ support.reproduced = (accepted \cap reproduced # {})
      /\ support.tooled = (\E c \in accepted : profile[c].formal \/ profile[c].scanner)
      /\ support.path = (\E c \in accepted : CompletePath(c))
  <2> HIDE DEF accepted
  <2> QED BY DEF SupportedBy
<1>3. (anchors # {} /\ anchors \subseteq valid) \/ solid
  <2> HIDE DEF anchors, accepted, verified, support
  <2>1. CASE anchors # {}
    <3>1. p = IF anchors \subseteq valid THEN "confirmed" ELSE "rejected"
      <4> HIDE DEF p
      <4> QED BY <1>1, <2>1
    <3> QED BY <2>1, <3>1
  <2>2. CASE anchors = {}
    <3> SUFFICES ASSUME ~solid PROVE p # "confirmed"
      OBVIOUS
    <3>1. p \in {"rejected", "needs_review", "strongly_supported", "high_confidence"}
      <4> HIDE DEF p
      <4>1. CASE accepted = {}
        BY <1>1, <2>2, <4>1
      <4>2. CASE accepted # {} /\ ~verified
        BY <1>1, <2>2, <4>2
      <4>3. CASE accepted # {} /\ verified
        BY <1>1, <2>2, <4>3
      <4> QED BY <4>1, <4>2, <4>3
    <3> QED BY <3>1
  <2> QED BY <2>1, <2>2
<1>4. CASE anchors # {} /\ anchors \subseteq valid
  <2>1. (g \cap valid) \cap Execution # {}
    BY <1>4
  <2> QED BY <2>1 DEF Substantiated
<1>5. CASE solid
  <2>1. \/ accepted \cap reproduced # {}
        \/ /\ \E c \in accepted : profile[c].formal \/ profile[c].scanner
           /\ \E c \in accepted : CompletePath(c)
    <3> HIDE DEF support, accepted
    <3> QED BY <1>2, <1>5
  <2> QED BY <2>1 DEF Substantiated
<1> QED BY <1>3, <1>4, <1>5

(* The fields of a merged finding.                                          *)
LEMMA MergeFields ==
    ASSUME NEW g, NEW valid, NEW judge
    PROVE  LET f == Merge(g, valid, judge)
               severity == MergedSeverity(g, valid, judge)
               capped == Capped(g, valid, MergedStatus(g, valid, judge), severity)
           IN  /\ f.group = g /\ f.severity = severity
               /\ f.late = RaisedLate(g, capped, severity, judge)
               /\ f.status = IF f.late /\ capped \in AcceptedStatus
                             THEN "needs_review" ELSE capped
               /\ f.status = "rejected" => f.list = "rejected"
               /\ f.status # "rejected" /\ g \cap Execution # {} => f.list = "final"
<1> DEFINE severity == MergedSeverity(g, valid, judge)
           capped == Capped(g, valid, MergedStatus(g, valid, judge), severity)
           late == RaisedLate(g, capped, severity, judge)
           status == IF late /\ capped \in AcceptedStatus THEN "needs_review" ELSE capped
           list == CASE status = "rejected" -> "rejected"
                    [] status # "rejected" /\ (g \cap Execution # {} \/ severity >= Threshold)
                         -> "final"
                    [] OTHER -> "filtered"
<1>1. Merge(g, valid, judge) = [group |-> g, status |-> status, severity |-> severity,
                                late |-> late, list |-> list]
  BY Zenon DEF Merge
<1>2. status = "rejected" => list = "rejected"
  <2> HIDE DEF status, severity
  <2> QED OBVIOUS
<1>3. status # "rejected" /\ g \cap Execution # {} => list = "final"
  <2> HIDE DEF status, severity
  <2> QED OBVIOUS
<1>4. status = IF late /\ capped \in AcceptedStatus THEN "needs_review" ELSE capped
  OBVIOUS
<1> HIDE DEF severity, capped, late, status, list
<1>5. /\ Merge(g, valid, judge).group = g /\ Merge(g, valid, judge).severity = severity
      /\ Merge(g, valid, judge).late = late /\ Merge(g, valid, judge).status = status
      /\ Merge(g, valid, judge).list = list
  BY <1>1
<1> QED BY <1>2, <1>3, <1>4, <1>5 DEF severity, capped, late

(* Types of a merged finding.                                               *)
LEMMA MergeTyped ==
    ASSUME InputOK, NEW g, g \subseteq Candidate, g # {}, NEW valid, NEW judge \in Word
    PROVE  /\ Merge(g, valid, judge).status \in Status
           /\ Merge(g, valid, judge).severity \in Severity
<1>1. MergedSeverity(g, valid, judge) \in Severity
  <2>1. CASE judge = NoJudgement
    <3>1. Primary(g, valid) \in Candidate
      BY PrimaryOfGroup
    <3> QED BY <2>1, <3>1, ProfileTyped DEF MergedSeverity
  <2>2. CASE judge # NoJudgement
    BY <2>2, WordTyped DEF MergedSeverity
  <2> QED BY <2>1, <2>2
<1>2. MergedStatus(g, valid, judge) \in Status
  <2>1. PreliminaryStatus(g, valid) \in Status
    BY PreliminaryFacts
  <2> QED BY <2>1, WordTyped DEF MergedStatus, JudgeMayLower
<1>3. Capped(g, valid, MergedStatus(g, valid, judge), MergedSeverity(g, valid, judge))
        \in Status
  BY <1>2, StatusFacts DEF Capped
<1> QED BY <1>1, <1>3, StatusFacts, MergeFields

(* An execution that still stands: confirmed and final, or kept for review  *)
(* because only the judge's severity is high.                               *)
LEMMA MergeStands ==
    ASSUME InputOK, NEW S, S \subseteq Candidate, NEW g \in Groups(S), NEW valid, NEW judge,
           g \cap Execution \cap valid # {}
    PROVE  LET f == Merge(g, valid, judge)
           IN  /\ f.list = "final"
               /\ f.status = "confirmed" \/ (f.status = "needs_review" /\ f.late)
               /\ judge = NoJudgement => f.status = "confirmed"
<1>1. PICK a : a \in g \cap Execution \cap valid
  OBVIOUS
<1>2. g \cap Execution = {a}
  BY <1>1, OneAnchor
<1>3. PreliminaryStatus(g, valid) = "confirmed"
  BY <1>1, <1>2, PreliminaryFacts
<1>4. MergedStatus(g, valid, judge) = "confirmed"
  BY <1>3 DEF MergedStatus, JudgeMayLower
<1>5. ExecutableProof(g, valid)
  BY <1>1, <1>2 DEF ExecutableProof
<1> DEFINE severity == MergedSeverity(g, valid, judge)
           capped == Capped(g, valid, MergedStatus(g, valid, judge), severity)
           f == Merge(g, valid, judge)
<1>6. capped = "confirmed"
  BY <1>4, <1>5 DEF Capped
<1>7. judge = NoJudgement => ~RaisedLate(g, capped, severity, judge)
  BY DEF RaisedLate
<1>8. /\ f.late = RaisedLate(g, capped, severity, judge)
      /\ f.status = IF f.late /\ capped \in AcceptedStatus THEN "needs_review" ELSE capped
      /\ f.status # "rejected" /\ g \cap Execution # {} => f.list = "final"
  BY MergeFields
<1> HIDE DEF f, severity, capped
<1>9. f.status = "confirmed" \/ (f.status = "needs_review" /\ f.late)
  BY <1>6, <1>8
<1>10. judge = NoJudgement => f.status = "confirmed"
  BY <1>6, <1>7, <1>8
<1>11. f.list = "final"
  BY <1>1, <1>8, <1>9
<1> QED BY <1>9, <1>10, <1>11 DEF f

(* What is not rejected has a valid candidate that was observed or accepted. *)
LEMMA MergeGrounded ==
    ASSUME NEW g, NEW valid, NEW judge \in Word,
           Merge(g, valid, judge).status # "rejected"
    PROVE  \E c \in g \cap valid : c \in Execution \/ AcceptedBy(decisions, c)
<1> SUFFICES ASSUME \A c \in g \cap valid : c \notin Execution /\ ~AcceptedBy(decisions, c)
             PROVE  FALSE
  OBVIOUS
<1>1. PreliminaryStatus(g, valid) = "rejected"
  <2>1. {c \in g \cap valid : AcceptedBy(decisions, c)} = {}
    OBVIOUS
  <2>2. g \cap Execution # {} => ~(g \cap Execution \subseteq valid)
    OBVIOUS
  <2> QED BY <2>1, <2>2, PreliminaryFacts
<1>2. MergedStatus(g, valid, judge) = "rejected"
  <2>1. ~JudgeMayLower(g, valid, judge, "rejected")
    <3> SUFFICES ASSUME judge # NoJudgement, Rank[judge.status] < Rank["rejected"]
                 PROVE  FALSE
      BY DEF JudgeMayLower
    <3>1. Rank[judge.status] \in Nat
      BY WordTyped, StatusFacts
    <3> QED BY <3>1, StatusFacts
  <2> QED BY <1>1, <2>1 DEF MergedStatus
<1> DEFINE severity == MergedSeverity(g, valid, judge)
           capped == Capped(g, valid, MergedStatus(g, valid, judge), severity)
           f == Merge(g, valid, judge)
<1>3. capped = "rejected"
  BY <1>2 DEF Capped
<1>4. "rejected" \notin AcceptedStatus
  BY DEF AcceptedStatus
<1>5. f.status = IF f.late /\ capped \in AcceptedStatus THEN "needs_review" ELSE capped
  BY MergeFields
<1> HIDE DEF capped, severity
<1> QED BY <1>3, <1>4, <1>5

(* What is confirmed is substantiated by the valid candidates: neither the   *)
(* judge, the cap nor the late severity confirms anything.                   *)
LEMMA MergeSubstantiated ==
    ASSUME NEW g, NEW valid, NEW judge \in Word,
           Merge(g, valid, judge).status = "confirmed"
    PROVE  Substantiated(g \cap valid)
<1> DEFINE severity == MergedSeverity(g, valid, judge)
           merged == MergedStatus(g, valid, judge)
           capped == Capped(g, valid, merged, severity)
           f == Merge(g, valid, judge)
           p == PreliminaryStatus(g, valid)
<1>1. f.status = IF f.late /\ capped \in AcceptedStatus THEN "needs_review" ELSE capped
  BY MergeFields
<1>2. capped = "confirmed"
  <2> HIDE DEF capped
  <2> QED BY <1>1
<1>3. merged = "confirmed"
  <2> HIDE DEF merged
  <2> QED BY <1>2 DEF Capped
<1>4. p = "confirmed"
  <2> SUFFICES ASSUME JudgeMayLower(g, valid, judge, p), judge.status = "confirmed"
               PROVE  FALSE
    BY <1>3 DEF MergedStatus
  <2>1. p \in Status
    BY PreliminaryFacts
  <2>2. Rank["confirmed"] < Rank[p]
    BY DEF JudgeMayLower
  <2> HIDE DEF p
  <2> QED BY <2>1, <2>2, StatusFacts DEF Rank
<1> QED BY <1>4, ConfirmedFacts

(* enforce_critical_evidence_cap: a confirmed critical has proof.            *)
LEMMA MergeProved ==
    ASSUME NEW g, NEW valid, NEW judge, requireProof,
           Merge(g, valid, judge).status = "confirmed",
           Merge(g, valid, judge).severity = Critical
    PROVE  \E c \in g : c \in reproduced \/ profile[c].formal \/ c \in Execution
<1> DEFINE severity == MergedSeverity(g, valid, judge)
           capped == Capped(g, valid, MergedStatus(g, valid, judge), severity)
           f == Merge(g, valid, judge)
<1>1. f.severity = severity
      /\ f.status = IF f.late /\ capped \in AcceptedStatus THEN "needs_review" ELSE capped
  BY MergeFields
<1>2. severity = Critical /\ capped = "confirmed"
  <2> HIDE DEF capped, severity
  <2> QED BY <1>1
<1>3. ExecutableProof(g, valid)
  BY <1>2 DEF Capped
<1> QED BY <1>3 DEF ExecutableProof

-----------------------------------------------------------------------------
(* The run. *)

(* What is similar is fixed, and so are the groups.                         *)
LEMMA SameInput ==
    ASSUME UNCHANGED input
    PROVE  /\ Execution' = Execution
           /\ Groups(Candidate)' = Groups(Candidate)
           /\ InputOK' = InputOK
<1>1. profile' = profile /\ similar' = similar /\ link' = link
      /\ requireProof' = requireProof
  BY DEF input
<1>2. Execution' = Execution
  BY <1>1 DEF Execution
<1>3. InputOK' = InputOK
  BY <1>1, <1>2 DEF InputOK
<1>4. Groups(Candidate)' = Groups(Candidate)
  BY <1>1, <1>2 DEF Groups, Roots, RootsAfter, Join, CanUnion, Compatible
<1> QED BY <1>2, <1>3, <1>4

Unverified == {"reduce", "integrate", "examine", "verify"}
Unmerged == Unverified \cup {"reproduce", "judge", "merge"}
Merged == {"check", "scanned", "finish", "finishScanned", "done"}

(* As long as the run goes on, its code is SUCCESS exactly when there is no *)
(* reason, and a halt is one.                                               *)
Flags ==
    /\ halted \in BOOLEAN /\ reasons \in BOOLEAN /\ success \in BOOLEAN
    /\ halted => reasons
    /\ stage # "done" => (success <=> ~reasons)

(* The workset is decided once the verifier is behind.                      *)
WorkInv ==
    /\ stage \in Unmerged \cup Merged
    /\ current \subseteq Candidate /\ validations \subseteq Candidate
    /\ workset \subseteq Candidate /\ reproduced \subseteq Candidate
    /\ decisions \in [Candidate -> [verdict : Verdict \cup {"none"}, guards : BOOLEAN]]
    /\ stage = "reduce" => validations = {}
    /\ stage \in {"reduce", "integrate"} => workset = {}
    /\ stage \notin Unverified => \A c \in workset : decisions[c] # NoDecision

(* A verifier that did not decide the workset leaves a reason.              *)
VerifiedInv == stage \notin Unverified /\ ~reasons => \A c \in workset : VerifierDecided(c)

(* A judge that did not decide every group leaves a reason.                 *)
JudgeInv ==
    /\ stage = "merge" => judgements \in [Groups(Candidate) -> Word]
    /\ stage \in {"merge", "check", "finish"} /\ ~reasons =>
        \A g \in Groups(Candidate) : judgements[g] # NoJudgement

(* Nothing is reported before the merge.                                    *)
ReportInv ==
    /\ stage \in Unmerged => findings = {}
    /\ \A f \in findings : f.status \in Status /\ f.severity \in Severity
    /\ ExecutionStands

(* The status of the report, once there is one.                             *)
EndInv ==
    /\ runStatus \in {"none", "COMPLETE", "DEGRADED", "INCOMPLETE", "FAILED"}
    /\ CompleteIsEarned

FindingsInv ==
    InputOK /\ Flags /\ WorkInv /\ VerifiedInv /\ JudgeInv /\ ReportInv /\ EndInv

(* Every step leaves the input alone.                                       *)
LEMMA InputKept ==
    ASSUME [Next]_vars
    PROVE  UNCHANGED input
BY DEF Next, vars, Drift, Reduce, Integrate, Examine, Verify, Reproduce, Judge,
       MergeAll, ExecutionsOnly, CheckSource, Finish, Done

(* Where the stages lead.                                                   *)
LEMMA StageMoves ==
    ASSUME [Next]_vars, stage \in Unmerged \cup Merged
    PROVE  /\ stage' \in Unmerged \cup Merged
           /\ stage = "done" => stage' = "done"
           /\ stage' \in Unmerged => stage \in Unmerged
BY DEF Next, vars, Goes, Drift, Reduce, Integrate, Examine, Verify, Reproduce, Judge,
       MergeAll, ExecutionsOnly, CheckSource, Finish, Done, Unmerged, Unverified, Merged

(* The three ways a pass ends.                                              *)
LEMMA OutcomeKept ==
    ASSUME Flags, Calm \/ Trouble \/ Noted, stage # "done", stage' # "done"
    PROVE  Flags'
<1>1. CASE Calm
  BY <1>1, Zenon DEF Calm, outcome, Flags
<1>2. CASE Trouble
  BY <1>2, Zenon DEF Trouble, Flags
<1>3. CASE Noted
  BY <1>3, Zenon DEF Noted, Flags
<1> QED BY <1>1, <1>2, <1>3, Zenon

(* Every step keeps the flags.                                              *)
LEMMA FlagsStep ==
    ASSUME Flags, [Next]_vars
    PROVE  Flags'
<1>1. CASE Drift
  <2>1. UNCHANGED outcome /\ UNCHANGED stage
    BY <1>1 DEF Drift
  <2> QED BY <2>1, Zenon DEF outcome, Flags
<1>2. CASE Reduce
  <2>1. (Calm \/ Trouble \/ Noted) /\ stage # "done" /\ stage' # "done"
    BY <1>2 DEF Reduce, Goes
  <2> QED BY <2>1, OutcomeKept
<1>3. CASE Integrate
  <2>1. (Calm \/ Trouble \/ Noted) /\ stage # "done" /\ stage' # "done"
    BY <1>3 DEF Integrate, Goes
  <2> QED BY <2>1, OutcomeKept
<1>4. CASE Examine
  <2>1. (Calm \/ Trouble \/ Noted) /\ stage # "done" /\ stage' # "done"
    BY <1>4 DEF Examine, Goes
  <2> QED BY <2>1, OutcomeKept
<1>5. CASE Verify
  <2>1. (Calm \/ Trouble \/ Noted) /\ stage # "done" /\ stage' # "done"
    BY <1>5 DEF Verify, Goes
  <2> QED BY <2>1, OutcomeKept
<1>6. CASE Reproduce
  <2>1. (Calm \/ Trouble \/ Noted) /\ stage # "done" /\ stage' # "done"
    BY <1>6 DEF Reproduce, Goes
  <2> QED BY <2>1, OutcomeKept
<1>7. CASE Judge
  <2>1. (Calm \/ Trouble \/ Noted) /\ stage # "done" /\ stage' # "done"
    BY <1>7 DEF Judge, JudgeFails, Goes
  <2> QED BY <2>1, OutcomeKept
<1>8. CASE MergeAll
  <2>1. (Calm \/ Trouble \/ Noted) /\ stage # "done" /\ stage' # "done"
    BY <1>8 DEF MergeAll, Goes
  <2> QED BY <2>1, OutcomeKept
<1>9. CASE ExecutionsOnly
  <2>1. (Calm \/ Trouble \/ Noted) /\ stage # "done" /\ stage' # "done"
    BY <1>9 DEF ExecutionsOnly
  <2> QED BY <2>1, OutcomeKept
<1>10. CASE CheckSource
  <2>1. (Calm \/ Trouble \/ Noted) /\ stage # "done" /\ stage' # "done"
    BY <1>10 DEF CheckSource
  <2> QED BY <2>1, OutcomeKept
<1>11. CASE Finish
  <2>1. PICK gateFails \in BOOLEAN, downgraded \in BOOLEAN, gated \in BOOLEAN :
           /\ gated = (gateFails /\ success /\ ~downgraded)
           /\ reasons' = (reasons \/ downgraded \/ gated \/ runStatus' # "COMPLETE")
           /\ success' = (success /\ ~gated /\ runStatus' \notin {"INCOMPLETE", "FAILED"})
    BY <1>11, Zenon DEF Finish
  <2>2. halted' = halted /\ stage' = "done"
    BY <1>11 DEF Finish
  <2>3. reasons' \in BOOLEAN /\ success' \in BOOLEAN /\ (reasons => reasons')
    BY <2>1, Zenon
  <2> QED BY <2>2, <2>3, Zenon DEF Flags
<1>12. CASE UNCHANGED vars
  <2>1. UNCHANGED outcome /\ UNCHANGED stage
    BY <1>12 DEF vars
  <2> QED BY <2>1, Zenon DEF outcome, Flags
<1> QED BY <1>1, <1>2, <1>3, <1>4, <1>5, <1>6, <1>7, <1>8, <1>9, <1>10, <1>11, <1>12
        DEF Next, Done

(* Every step keeps the workset and its decisions in order.                 *)
LEMMA WorkStep ==
    ASSUME WorkInv, [Next]_vars
    PROVE  WorkInv'
<1> USE DEF Unverified, Unmerged, Merged
<1>0. stage' \in Unmerged \cup Merged
  BY StageMoves DEF WorkInv
<1>1. CASE Drift
  BY <1>1 DEF Drift, WorkInv
<1>2. CASE Reduce
  BY <1>2 DEF Reduce, Goes, WorkInv, tree
<1>3. CASE Integrate
  BY <1>3 DEF Integrate, Goes, WorkInv, tree
<1>4. CASE Examine
  BY <1>4 DEF Examine, Goes, WorkInv, tree
<1>5. CASE Verify
  <2>1. /\ stage' = "reproduce" /\ UNCHANGED <<current, validations, workset, reproduced>>
    BY <1>5 DEF Verify, Goes, tree
  <2>2. /\ decisions' \in [Candidate -> [verdict : Verdict \cup {"none"}, guards : BOOLEAN]]
        /\ \A c \in workset : decisions'[c] # NoDecision
    <3>1. CASE decisions' \in {d \in [Candidate -> Decision \cup {NoDecision}] :
                                \A c \in Candidate : d[c] = NoDecision <=> c \notin workset}
      <4>1. Decision \cup {NoDecision} \subseteq
              [verdict : Verdict \cup {"none"}, guards : BOOLEAN]
        <5>1. \A d \in Decision : d \in [verdict : Verdict \cup {"none"}, guards : BOOLEAN]
          BY InventoryTyped
        <5>2. NoDecision \in [verdict : Verdict \cup {"none"}, guards : BOOLEAN]
          BY DEF NoDecision
        <5> QED BY <5>1, <5>2
      <4> QED BY <3>1, <4>1 DEF WorkInv
    <3>2. CASE decisions' = [c \in Candidate |->
                              IF c \in workset THEN Insufficient ELSE NoDecision]
      <4>1. /\ Insufficient # NoDecision
            /\ {Insufficient, NoDecision} \subseteq
                 [verdict : Verdict \cup {"none"}, guards : BOOLEAN]
        BY DEF Insufficient, NoDecision, Verdict
      <4> QED BY <3>2, <4>1 DEF WorkInv
    <3> QED BY <1>5, <3>1, <3>2 DEF Verify
  <2> QED BY <1>0, <2>1, <2>2 DEF WorkInv
<1>6. CASE Reproduce
  <2>1. /\ stage = "reproduce" /\ stage' = "judge"
        /\ UNCHANGED <<current, validations, workset>>
    BY <1>6 DEF Reproduce, Goes, tree
  <2>2. /\ decisions' \in [Candidate -> [verdict : Verdict \cup {"none"}, guards : BOOLEAN]]
        /\ \A c \in workset : decisions'[c] # NoDecision
        /\ reproduced' \subseteq Candidate
    <3>1. CASE UNCHANGED <<decisions, reproduced>>
      BY <2>1, <3>1 DEF WorkInv
    <3>2. ASSUME NEW hit \in SUBSET Eligible, NEW miss \in SUBSET Eligible,
                 reproduced' = hit,
                 decisions' = [c \in Candidate |->
                    IF c \in miss THEN [decisions[c] EXCEPT !.verdict = "rejected"]
                    ELSE decisions[c]]
          PROVE  <2>2!:
      <4>1. Eligible \subseteq Candidate
        BY DEF Eligible, WorkInv
      <4>2. ASSUME NEW c \in Candidate
            PROVE  /\ decisions'[c] \in [verdict : Verdict \cup {"none"}, guards : BOOLEAN]
                   /\ decisions[c] # NoDecision => decisions'[c] # NoDecision
        <5>1. decisions[c] \in [verdict : Verdict \cup {"none"}, guards : BOOLEAN]
          BY DEF WorkInv
        <5>2. CASE c \in miss
          <6>1. decisions'[c] = [decisions[c] EXCEPT !.verdict = "rejected"]
            BY <3>2, <5>2
          <6>2. decisions'[c] \in [verdict : Verdict \cup {"none"}, guards : BOOLEAN]
                /\ decisions'[c].verdict = "rejected"
            BY <5>1, <6>1 DEF Verdict
          <6> QED BY <6>2 DEF NoDecision
        <5>3. CASE c \notin miss
          <6>1. decisions'[c] = decisions[c]
            BY <3>2, <5>3
          <6> QED BY <5>1, <6>1
        <5> QED BY <5>2, <5>3
      <4>3. decisions' \in [Candidate -> [verdict : Verdict \cup {"none"}, guards : BOOLEAN]]
        BY <3>2, <4>2
      <4> QED BY <2>1, <3>2, <4>1, <4>2, <4>3 DEF WorkInv
    <3> QED BY <1>6, <3>1, <3>2 DEF Reproduce
  <2> QED BY <1>0, <2>1, <2>2 DEF WorkInv
<1>7. CASE Judge
  BY <1>7 DEF Judge, Goes, WorkInv, tree
<1>8. CASE MergeAll
  BY <1>8 DEF MergeAll, Revalidate, Goes, WorkInv, tree
<1>9. CASE ExecutionsOnly
  BY <1>9 DEF ExecutionsOnly, WorkInv, tree
<1>10. CASE CheckSource
  BY <1>10 DEF CheckSource, WorkInv, tree
<1>11. CASE Finish
  BY <1>11 DEF Finish, WorkInv, tree
<1>12. CASE UNCHANGED vars
  BY <1>12 DEF vars, WorkInv, tree
<1> QED BY <1>1, <1>2, <1>3, <1>4, <1>5, <1>6, <1>7, <1>8, <1>9, <1>10, <1>11, <1>12
        DEF Next, Done

(* Every step keeps the verifier's part.                                    *)
LEMMA VerifiedStep ==
    ASSUME VerifiedInv, WorkInv, Flags, [Next]_vars
    PROVE  VerifiedInv'
<1> USE DEF Unverified
<1>1. CASE Verify
  <2>1. workset' = workset
    BY <1>1 DEF Verify
  <2>2. CASE decisions' \in {d \in [Candidate -> Decision \cup {NoDecision}] :
                               \A c \in Candidate : d[c] = NoDecision <=> c \notin workset}
    <3>1. \A c \in workset : decisions'[c] \in Decision
      BY <2>2 DEF WorkInv
    <3> QED BY <2>1, <3>1 DEF VerifiedInv, VerifierDecided
  <2>3. CASE IF halted THEN Calm ELSE Trouble
    <3>1. reasons' = TRUE
      BY <2>3, Zenon DEF Calm, Trouble, outcome, Flags
    <3> QED BY <3>1, Zenon DEF VerifiedInv
  <2> QED BY <1>1, <2>2, <2>3 DEF Verify
<1>2. CASE Reproduce
  <2>1. workset' = workset /\ stage = "reproduce" /\ (Calm \/ Trouble)
    BY <1>2 DEF Reproduce, Goes
  <2>2. reasons => reasons'
    BY <2>1, Zenon DEF Calm, Trouble, outcome
  <2>3. ASSUME NEW c \in workset, VerifierDecided(c) PROVE VerifierDecided(c)'
    <3>1. c \in Candidate
      BY DEF WorkInv
    <3>2. decisions'[c] \in {decisions[c], [decisions[c] EXCEPT !.verdict = "rejected"]}
      BY <1>2, <3>1 DEF Reproduce
    <3>3. PICK d \in Decision : decisions[c] \in {d, [d EXCEPT !.verdict = "rejected"]}
      BY <2>3 DEF VerifierDecided
    <3>4. d \in [verdict : Verdict, guards : BOOLEAN]
      BY InventoryTyped
    <3>5. [[d EXCEPT !.verdict = "rejected"] EXCEPT !.verdict = "rejected"]
            = [d EXCEPT !.verdict = "rejected"]
      BY <3>4
    <3>6. decisions'[c] \in {d, [d EXCEPT !.verdict = "rejected"]}
      BY <3>2, <3>3, <3>5
    <3> QED BY <3>6 DEF VerifierDecided
  <2>4. ~reasons' => \A c \in workset : VerifierDecided(c)
    BY <2>1, <2>2, Zenon DEF VerifiedInv
  <2> QED BY <2>1, <2>3, <2>4 DEF VerifiedInv
<1>3. CASE ExecutionsOnly
  <2>1. workset' = {}
    BY <1>3 DEF ExecutionsOnly, WorkInv
  <2> QED BY <2>1 DEF VerifiedInv
<1>4. CASE stage' \in Unverified
  BY <1>4 DEF VerifiedInv
<1>5. CASE UNCHANGED <<workset, decisions>> /\ stage \notin Unverified /\ (reasons => reasons')
  BY <1>5 DEF VerifiedInv, VerifierDecided
<1>6. CASE Drift \/ UNCHANGED vars
  <2>1. UNCHANGED <<workset, decisions, stage, reasons>>
    BY <1>6 DEF Drift, vars, outcome
  <2> QED BY <1>4, <1>5, <2>1
<1>7. CASE Reduce \/ Integrate \/ Examine
  <2>1. stage' \in Unverified
    BY <1>7 DEF Reduce, Integrate, Examine, Goes
  <2> QED BY <1>4, <2>1
<1>8. CASE Judge \/ MergeAll \/ CheckSource
  <2>1. /\ UNCHANGED <<workset, decisions>> /\ stage \notin Unverified
        /\ Calm \/ Trouble \/ Noted
    BY <1>8 DEF Judge, MergeAll, CheckSource, JudgeFails, Goes
  <2>2. reasons => reasons'
    BY <2>1, Zenon DEF Calm, Trouble, Noted, outcome
  <2> QED BY <1>5, <2>1, <2>2
<1>9. CASE Finish
  <2>1. UNCHANGED <<workset, decisions>> /\ stage \notin Unverified
    BY <1>9 DEF Finish
  <2>2. reasons => reasons'
    BY <1>9, Zenon DEF Finish
  <2> QED BY <1>5, <2>1, <2>2
<1> QED BY <1>1, <1>2, <1>3, <1>6, <1>7, <1>8, <1>9 DEF Next, Done

(* Every step keeps the judge's part.                                       *)
LEMMA JudgeStep ==
    ASSUME JudgeInv, Flags, [Next]_vars
    PROVE  JudgeInv'
<1>0. Groups(Candidate)' = Groups(Candidate)
  BY InputKept, SameInput
<1>1. CASE Judge
  <2> DEFINE groups == Groups(Candidate)
             none == [g \in groups |-> NoJudgement]
  <2>1. stage' = "merge"
    BY <1>1 DEF Judge, Goes
  <2>2. \/ judgements' \in [groups -> Judgement]
        \/ judgements' = none /\ reasons' = TRUE
    <3>1. \/ judgements' \in [groups -> Judgement]
          \/ Trouble /\ judgements' = none
          \/ halted /\ Calm /\ judgements' = none
      BY <1>1, Zenon DEF Judge, JudgeInventory, JudgeFails
    <3>2. Trouble => reasons' = TRUE
      BY DEF Trouble
    <3>3. halted /\ Calm => reasons' = TRUE
      BY Zenon DEF Calm, outcome, Flags
    <3> QED BY <3>1, <3>2, <3>3, Zenon
  <2>3. NoJudgement \notin Judgement
    <3>1. NoJudgement.status = "none"
      BY DEF NoJudgement
    <3>2. \A j \in Judgement : j.status \in Status
      BY InventoryTyped
    <3> QED BY <3>1, <3>2, StatusFacts
  <2> HIDE DEF groups
  <2>4. CASE judgements' \in [groups -> Judgement]
    <3>1. judgements' \in [groups -> Word] /\ \A g \in groups : judgements'[g] # NoJudgement
      BY <2>3, <2>4 DEF Word
    <3> QED BY <1>0, <3>1 DEF groups, JudgeInv
  <2>5. CASE judgements' = none /\ reasons' = TRUE
    <3>1. judgements' \in [groups -> Word]
      BY <2>5 DEF Word
    <3> QED BY <1>0, <2>1, <2>5, <3>1 DEF groups, JudgeInv
  <2> QED BY <2>2, <2>4, <2>5
<1>2. CASE ExecutionsOnly
  <2>1. stage' \in {"scanned", "check"}
    BY <1>2 DEF ExecutionsOnly
  <2>2. stage' = "check" => reasons'
    BY <1>2 DEF ExecutionsOnly, Noted
  <2> QED BY <2>1, <2>2 DEF JudgeInv
<1>3. CASE UNCHANGED judgements /\ (stage' \in {"merge", "check", "finish"} =>
                /\ stage \in {"merge", "check", "finish"} /\ (reasons => reasons'))
           /\ (stage' = "merge" => stage = "merge")
  BY <1>0, <1>3 DEF JudgeInv
<1>4. CASE Drift \/ UNCHANGED vars
  <2>1. UNCHANGED <<judgements, stage, reasons>>
    BY <1>4 DEF Drift, vars, outcome
  <2> QED BY <1>3, <2>1
<1>5. CASE Reduce \/ Integrate \/ Examine \/ Verify \/ Reproduce \/ Finish
  <2>1. /\ UNCHANGED judgements
        /\ stage' \in {"integrate", "examine", "verify", "reproduce", "judge", "done"}
    BY <1>5 DEF Reduce, Integrate, Examine, Verify, Reproduce, Finish, Goes
  <2> QED BY <1>3, <2>1
<1>6. CASE MergeAll
  <2>1. /\ UNCHANGED judgements /\ stage = "merge" /\ stage' = "check"
        /\ Noted \/ Calm
    BY <1>6 DEF MergeAll, Goes
  <2>2. reasons => reasons'
    BY <2>1 DEF Noted, Calm, outcome
  <2> QED BY <1>3, <2>1, <2>2
<1>7. CASE CheckSource
  <2>1. /\ UNCHANGED judgements /\ stage' \in {"finish", "finishScanned"}
        /\ stage' = "finish" => stage = "check"
        /\ Noted \/ Calm
    BY <1>7 DEF CheckSource
  <2>2. reasons => reasons'
    BY <2>1 DEF Noted, Calm, outcome
  <2> QED BY <1>3, <2>1, <2>2
<1> QED BY <1>1, <1>2, <1>4, <1>5, <1>6, <1>7 DEF Next, Done

(* The steps that report nothing keep what is reported.                     *)
LEMMA ReportKept ==
    ASSUME ReportInv, WorkInv, [Next]_vars, UNCHANGED findings,
           stage \in Unmerged \/ (UNCHANGED validations /\ (reasons => reasons'))
    PROVE  ReportInv'
<1>1. Execution' = Execution
  BY InputKept, SameInput
<1>2. stage' \in Unmerged => stage \in Unmerged
  BY StageMoves DEF WorkInv
<1>3. CASE stage \in Unmerged
  <2>1. findings' = {}
    BY <1>3 DEF ReportInv
  <2> QED BY <2>1 DEF ReportInv, ExecutionStands
<1>4. CASE UNCHANGED validations /\ (reasons => reasons')
  <2>1. \A f \in findings' : f.group \cap Execution' \cap validations' # {} =>
            /\ f.list = "final"
            /\ f.status = "confirmed" \/ (f.status = "needs_review" /\ reasons')
    BY <1>1, <1>4 DEF ReportInv, ExecutionStands
  <2> QED BY <1>2, <2>1 DEF ReportInv, ExecutionStands
<1> QED BY <1>3, <1>4

(* Every step keeps what is reported in order.                              *)
LEMMA ReportStep ==
    ASSUME InputOK, JudgeInv, WorkInv, ReportInv, [Next]_vars
    PROVE  ReportInv'
<1>0. Execution' = Execution
  BY InputKept, SameInput
<1>1. CASE MergeAll
  <2>1. /\ stage = "merge" /\ stage' = "check"
        /\ findings' = {Merge(g, validations', judgements[g]) : g \in Groups(Candidate)}
        /\ (\E f \in findings' : f.late) => Noted
    BY <1>1 DEF MergeAll, Goes
  <2>2. judgements \in [Groups(Candidate) -> Word]
    BY <2>1 DEF JudgeInv
  <2>3. ASSUME NEW f \in findings'
        PROVE  /\ f.status \in Status /\ f.severity \in Severity
               /\ f.group \cap Execution \cap validations' # {} =>
                    /\ f.list = "final"
                    /\ f.status = "confirmed" \/ (f.status = "needs_review" /\ reasons')
    <3>1. PICK g \in Groups(Candidate) : f = Merge(g, validations', judgements[g])
      BY <2>1
    <3>2. judgements[g] \in Word /\ g \subseteq Candidate /\ g # {}
      BY <2>2, GroupFacts
    <3>3. f.group = g
      BY <3>1, MergeFields
    <3>4. f.status \in Status /\ f.severity \in Severity
      BY <3>1, <3>2, MergeTyped
    <3>5. f.late => reasons'
      BY <2>1 DEF Noted
    <3>6. ASSUME g \cap Execution \cap validations' # {}
          PROVE  /\ f.list = "final"
                 /\ f.status = "confirmed" \/ (f.status = "needs_review" /\ f.late)
      BY <3>1, <3>6, MergeStands
    <3> QED BY <3>3, <3>4, <3>5, <3>6
  <2> QED BY <1>0, <2>1, <2>3 DEF ReportInv, ExecutionStands, Unmerged, Unverified
<1>2. CASE ExecutionsOnly
  <2>1. /\ stage' \in {"scanned", "check"}
        /\ findings' = {[Merge(g, validations', NoJudgement) EXCEPT !.list =
                          IF @ = "rejected" THEN @ ELSE "final"] : g \in Groups(Execution)}
    BY <1>2 DEF ExecutionsOnly
  <2>2. ASSUME NEW f \in findings'
        PROVE  /\ f.status \in Status /\ f.severity \in Severity
               /\ f.group \cap Execution \cap validations' # {} =>
                    f.list = "final" /\ f.status = "confirmed"
    <3>1. PICK g \in Groups(Execution) :
            f = [Merge(g, validations', NoJudgement) EXCEPT !.list =
                   IF @ = "rejected" THEN @ ELSE "final"]
      BY <2>1
    <3> DEFINE m == Merge(g, validations', NoJudgement)
    <3>2. Execution \subseteq Candidate /\ NoJudgement \in Word
      BY DEF Execution, Word
    <3>3. g \subseteq Candidate /\ g # {}
      BY <3>2, GroupFacts
    <3>4. m.status \in Status /\ m.severity \in Severity /\ m.group = g
      BY <3>2, <3>3, MergeTyped, MergeFields
    <3>5. f.status = m.status /\ f.severity = m.severity /\ f.group = m.group
          /\ f.list = IF m.list = "rejected" THEN m.list ELSE "final"
      BY <3>1 DEF Merge
    <3>6. ASSUME g \cap Execution \cap validations' # {}
          PROVE  m.list = "final" /\ m.status = "confirmed"
      BY <3>2, <3>6, MergeStands
    <3> HIDE DEF m
    <3> QED BY <3>4, <3>5, <3>6
  <2> QED BY <1>0, <2>1, <2>2 DEF ReportInv, ExecutionStands, Unmerged, Unverified
<1>3. CASE Drift \/ UNCHANGED vars
  <2>1. UNCHANGED <<findings, validations, reasons>>
    BY <1>3 DEF Drift, vars, outcome
  <2> QED BY <2>1, ReportKept
<1>4. CASE Reduce \/ Integrate \/ Examine \/ Verify \/ Reproduce \/ Judge
  <2>1. UNCHANGED findings /\ stage \in Unmerged
    BY <1>4 DEF Reduce, Integrate, Examine, Verify, Reproduce, Judge, Goes,
                Unmerged, Unverified
  <2> QED BY <2>1, ReportKept
<1>5. CASE CheckSource
  <2>1. UNCHANGED findings /\ UNCHANGED validations /\ (Noted \/ Calm)
    BY <1>5 DEF CheckSource
  <2>2. reasons => reasons'
    BY <2>1 DEF Noted, Calm, outcome
  <2> QED BY <2>1, <2>2, ReportKept
<1>6. CASE Finish
  <2>1. UNCHANGED findings /\ UNCHANGED validations
    BY <1>6 DEF Finish
  <2>2. reasons => reasons'
    BY <1>6, Zenon DEF Finish
  <2> QED BY <2>1, <2>2, ReportKept
<1> QED BY <1>1, <1>2, <1>3, <1>4, <1>5, <1>6 DEF Next, Done

(* assess_minimum_analysis_floor: a run is COMPLETE only when nothing       *)
(* failed, models ran and nothing was downgraded.                           *)
LEMMA FloorFacts ==
    ASSUME NEW r \in [failed : BOOLEAN, scannerOnly : BOOLEAN, downgrade : BOOLEAN],
           NEW s \in Floors[r]
    PROVE  /\ s \in {"COMPLETE", "DEGRADED", "INCOMPLETE", "FAILED"}
           /\ s = "COMPLETE" => ~r.failed /\ ~r.scannerOnly /\ ~r.downgrade
<1>1. PICK e \in Evidence(r.scannerOnly) :
         s = FloorStatus(e, r.failed, r.scannerOnly, r.downgrade)
  BY DEF Floors
<1>2. s \in {"COMPLETE", "DEGRADED", "INCOMPLETE", "FAILED"}
  BY <1>1 DEF FloorStatus
<1>3. s = "COMPLETE" => ~r.failed /\ ~r.scannerOnly /\ ~r.downgrade
  BY <1>1 DEF FloorStatus
<1> QED BY <1>2, <1>3

(* Every step keeps what the status of the report says.                     *)
LEMMA EndStep ==
    ASSUME EndInv, Flags, VerifiedInv, JudgeInv, [Next]_vars
    PROVE  EndInv'
<1>0. Groups(Candidate)' = Groups(Candidate)
  BY InputKept, SameInput
<1>1. CASE Finish
  <2>1. PICK gateFails \in BOOLEAN, downgraded \in BOOLEAN :
          LET scannerOnly == stage = "finishScanned"
              gated       == gateFails /\ success /\ ~downgraded
          IN  /\ runStatus' \in Floors[[failed |-> ~success \/ gated,
                                         scannerOnly |-> scannerOnly,
                                         downgrade |-> scannerOnly \/ downgraded]]
              /\ reasons' = (reasons \/ downgraded \/ gated \/ runStatus' # "COMPLETE")
    BY <1>1, Zenon DEF Finish
  <2>2. /\ stage \in {"finish", "finishScanned"}
        /\ UNCHANGED <<workset, decisions, judgements>>
    BY <1>1 DEF Finish
  <2>3. PICK scannerOnly \in BOOLEAN, gated \in BOOLEAN :
           /\ scannerOnly = (stage = "finishScanned")
           /\ gated = (gateFails /\ success /\ ~downgraded)
    OBVIOUS
  <2> DEFINE r == [failed |-> ~success \/ gated, scannerOnly |-> scannerOnly,
                   downgrade |-> scannerOnly \/ downgraded]
  <2>4. runStatus' \in Floors[r]
    BY <2>1, <2>3, Zenon
  <2>5. reasons' = (reasons \/ downgraded \/ gated \/ runStatus' # "COMPLETE")
    BY <2>1, <2>3, Zenon
  <2>6. r \in [failed : BOOLEAN, scannerOnly : BOOLEAN, downgrade : BOOLEAN]
    OBVIOUS
  <2>7. /\ r.failed = (~success \/ gated) /\ r.scannerOnly = scannerOnly
        /\ r.downgrade = (scannerOnly \/ downgraded)
    OBVIOUS
  <2> HIDE DEF r
  <2>8. /\ runStatus' \in {"COMPLETE", "DEGRADED", "INCOMPLETE", "FAILED"}
        /\ runStatus' = "COMPLETE" => ~r.failed /\ ~r.scannerOnly /\ ~r.downgrade
    BY <2>4, <2>6, FloorFacts
  <2>9. runStatus' = "COMPLETE" =>
          ~gated /\ ~downgraded /\ ~scannerOnly /\ success
    BY <2>7, <2>8, Zenon
  <2>10. success => ~reasons
    <3>1. stage # "done"
      BY <2>2
    <3> QED BY <3>1, Zenon DEF Flags
  <2>11. runStatus' = "COMPLETE" <=> ~reasons'
    BY <2>5, <2>9, <2>10, Zenon
  <2>12. runStatus' = "COMPLETE" =>
           /\ \A g \in Groups(Candidate) : judgements[g] # NoJudgement
           /\ \A c \in workset : VerifierDecided(c)
    <3>1. runStatus' = "COMPLETE" => stage = "finish" /\ ~reasons
      BY <2>2, <2>3, <2>9, <2>10
    <3>2. ~reasons => \A c \in workset : VerifierDecided(c)
      BY <2>2 DEF VerifiedInv, Unverified
    <3> QED BY <3>1, <3>2 DEF JudgeInv
  <2> QED BY <1>0, <2>2, <2>8, <2>11, <2>12 DEF EndInv, CompleteIsEarned, VerifierDecided
<1>2. CASE UNCHANGED runStatus /\ stage' # "done"
  BY <1>2 DEF EndInv, CompleteIsEarned
<1>3. CASE Drift
  <2>1. stage # "done" /\ stage' = stage /\ UNCHANGED runStatus
    BY <1>3 DEF Drift
  <2> QED BY <1>2, <2>1
<1>4. CASE Reduce \/ Integrate \/ Examine \/ Verify \/ Reproduce \/ Judge \/ MergeAll
  <2>1. UNCHANGED runStatus /\ stage' # "done"
    BY <1>4 DEF Reduce, Integrate, Examine, Verify, Reproduce, Judge, MergeAll, Goes
  <2> QED BY <1>2, <2>1
<1>5. CASE ExecutionsOnly \/ CheckSource
  <2>1. UNCHANGED runStatus /\ stage' # "done"
    BY <1>5 DEF ExecutionsOnly, CheckSource
  <2> QED BY <1>2, <2>1
<1>6. CASE UNCHANGED vars
  <2>1. UNCHANGED <<stage, runStatus, reasons, judgements, workset, decisions>>
    BY <1>6 DEF vars, outcome
  <2> QED BY <1>0, <2>1 DEF EndInv, CompleteIsEarned, VerifierDecided
<1> QED BY <1>1, <1>3, <1>4, <1>5, <1>6 DEF Next, Done

-----------------------------------------------------------------------------
(* The theorems. *)

(* The invariant holds at the start of a run.                               *)
LEMMA FindingsStart ==
    ASSUME Init
    PROVE  FindingsInv
<1>1. InputOK
  <2>1. /\ profile \in Inventory
        /\ similar \in SUBSET {p \in Candidate \X Candidate : p[1] < p[2]}
        /\ link \in {l \in [Candidate -> {0} \cup Execution] : \A c \in Execution : l[c] = 0}
    BY DEF Init
  <2>2. requireProof \in BOOLEAN
    BY InventoryTyped DEF Init
  <2> QED BY <2>1, <2>2 DEF InputOK
<1>2. Flags
  BY DEF Init, Flags
<1>3. WorkInv
  <2>1. NoDecision \in [verdict : Verdict \cup {"none"}, guards : BOOLEAN]
    BY DEF NoDecision
  <2> QED BY <2>1 DEF Init, WorkInv, Unmerged, Unverified, Merged
<1>7. VerifiedInv
  BY DEF Init, VerifiedInv, Unverified
<1>4. JudgeInv
  BY DEF Init, JudgeInv
<1>5. ReportInv
  BY DEF Init, ReportInv, ExecutionStands
<1>6. EndInv
  BY DEF Init, EndInv, CompleteIsEarned
<1> QED BY <1>1, <1>2, <1>3, <1>4, <1>5, <1>6, <1>7 DEF FindingsInv

(* Every step keeps the invariant.                                          *)
LEMMA FindingsStep ==
    ASSUME FindingsInv, [Next]_vars
    PROVE  FindingsInv'
<1>1. InputOK'
  BY InputKept, SameInput DEF FindingsInv
<1>2. Flags'
  BY FlagsStep DEF FindingsInv
<1>3. WorkInv'
  BY WorkStep DEF FindingsInv
<1>7. VerifiedInv'
  BY VerifiedStep DEF FindingsInv
<1>4. JudgeInv'
  BY JudgeStep DEF FindingsInv
<1>5. ReportInv'
  BY ReportStep DEF FindingsInv
<1>6. EndInv'
  BY EndStep DEF FindingsInv
<1> QED BY <1>1, <1>2, <1>3, <1>4, <1>5, <1>6, <1>7 DEF FindingsInv

(* The inductive invariant of a run from its candidates to its report.      *)
THEOREM FindingsInvariant == Spec => []FindingsInv
<1>1. Init => FindingsInv
  BY FindingsStart
<1>2. FindingsInv /\ [Next]_vars => FindingsInv'
  BY FindingsStep
<1> QED BY <1>1, <1>2, PTL DEF Spec

(* The types, and the judge's answers are for the groups that are merged.   *)
THEOREM FindingsTypeCorrect == Spec => []TypeOK
<1>1. FindingsInv => TypeOK
  <2> SUFFICES ASSUME FindingsInv PROVE TypeOK
    OBVIOUS
  <2>1. similar \subseteq Candidate \X Candidate /\ link \in [Candidate -> {0} \cup Execution]
    BY DEF FindingsInv, InputOK
  <2>2. {current, validations, workset, reproduced} \subseteq SUBSET Candidate
    BY DEF FindingsInv, WorkInv
  <2>3. decisions \in [Candidate -> [verdict : Verdict \cup {"none"}, guards : BOOLEAN]]
    BY DEF FindingsInv, WorkInv
  <2>4. stage = "merge" => judgements \in [Groups(Candidate) -> Judgement \cup {NoJudgement}]
    BY DEF FindingsInv, JudgeInv, Word
  <2>5. \A f \in findings : f.status \in Status /\ f.severity \in Severity
    BY DEF FindingsInv, ReportInv
  <2>6. {requireProof, halted, reasons, success} \subseteq BOOLEAN
    BY Zenon DEF FindingsInv, Flags, InputOK
  <2>7. runStatus \in {"none", "COMPLETE", "DEGRADED", "INCOMPLETE", "FAILED"}
    BY DEF FindingsInv, EndInv
  <2> QED BY <2>1, <2>2, <2>3, <2>4, <2>5, <2>6, <2>7 DEF TypeOK
<1> QED BY <1>1, FindingsInvariant, PTL

(* group_candidates makes sound groups of any list, whatever is similar.    *)
THEOREM FindingsGroups == Spec => []GroupsSound
<1>1. FindingsInv => GroupsSound
  BY GroupsAreSound DEF FindingsInv
<1> QED BY <1>1, FindingsInvariant, PTL

(* No model's word removes or hides an execution that still stands.         *)
THEOREM FindingsExecutions == Spec => []ExecutionStands
<1>1. FindingsInv => ExecutionStands
  BY DEF FindingsInv, ReportInv
<1> QED BY <1>1, FindingsInvariant, PTL

(* A run is COMPLETE exactly when there is no reason against it, and then   *)
(* the verifier and the judge decided everything.                           *)
THEOREM FindingsComplete == Spec => []CompleteIsEarned
<1>1. FindingsInv => CompleteIsEarned
  BY DEF FindingsInv, EndInv
<1> QED BY <1>1, FindingsInvariant, PTL

(* What a step reports as not rejected stands in the tree as it is then, a  *)
(* confirmed finding is substantiated by candidates that stand, and, unless *)
(* the operator turned it off, a confirmed critical has executable proof.   *)
THEOREM FindingsGrounded == Spec => AcceptanceIsGrounded
<1> DEFINE Grounded(f) ==
        /\ f.status # "rejected" =>
            \E c \in f.group \cap current : c \in Execution \/ AcceptedBy(decisions, c)
        /\ f.status = "confirmed" => Substantiated(f.group \cap current)
        /\ requireProof /\ f.status = "confirmed" /\ f.severity = Critical =>
            \E c \in f.group : c \in reproduced \/ profile[c].formal \/ c \in Execution
<1>1. ASSUME FindingsInv, [Next]_vars, NEW f \in findings' \ findings
      PROVE  Grounded(f)
  <2>1. CASE MergeAll
    <3>1. stage = "merge" /\ validations' = current
      BY <2>1 DEF MergeAll, Goes, Revalidate
    <3>2. PICK g \in Groups(Candidate) : f = Merge(g, current, judgements[g])
      BY <1>1, <2>1, <3>1 DEF MergeAll
    <3>3. judgements[g] \in Word
      BY <1>1, <3>1 DEF FindingsInv, JudgeInv
    <3>4. f.group = g
      BY <3>2, MergeFields
    <3>5. f.status # "rejected" =>
            \E c \in g \cap current : c \in Execution \/ AcceptedBy(decisions, c)
      BY <3>2, <3>3, MergeGrounded
    <3>6. requireProof /\ f.status = "confirmed" /\ f.severity = Critical =>
            \E c \in g : c \in reproduced \/ profile[c].formal \/ c \in Execution
      BY <3>2, MergeProved
    <3>7. f.status = "confirmed" => Substantiated(g \cap current)
      BY <3>2, <3>3, MergeSubstantiated
    <3> QED BY <3>4, <3>5, <3>6, <3>7
  <2>2. CASE ExecutionsOnly
    <3>1. validations' = current \cap Execution
      BY <1>1, <2>2 DEF ExecutionsOnly, FindingsInv, WorkInv
    <3>2. PICK g \in Groups(Execution) :
            f = [Merge(g, validations', NoJudgement) EXCEPT !.list =
                   IF @ = "rejected" THEN @ ELSE "final"]
      BY <1>1, <2>2 DEF ExecutionsOnly
    <3> DEFINE m == Merge(g, current \cap Execution, NoJudgement)
    <3>3. f.status = m.status /\ f.severity = m.severity /\ f.group = g
      BY <3>1, <3>2 DEF Merge
    <3>4. NoJudgement \in Word
      BY DEF Word
    <3>5. m.status # "rejected" =>
            \E c \in g \cap (current \cap Execution) :
                c \in Execution \/ AcceptedBy(decisions, c)
      BY <3>4, MergeGrounded
    <3>6. requireProof /\ m.status = "confirmed" /\ m.severity = Critical =>
            \E c \in g : c \in reproduced \/ profile[c].formal \/ c \in Execution
      BY MergeProved
    <3>7. m.status = "confirmed" => Substantiated(g \cap current)
      <4>1. m.status = "confirmed" =>
              \E c \in g \cap (current \cap Execution) :
                  c \in Execution \/ AcceptedBy(decisions, c)
        BY <3>5
      <4>2. (\E c \in g \cap (current \cap Execution) :
                c \in Execution \/ AcceptedBy(decisions, c))
              => Substantiated(g \cap current)
        BY DEF Substantiated
      <4> QED BY <4>1, <4>2, Zenon
    <3> HIDE DEF m
    <3> QED BY <3>3, <3>5, <3>6, <3>7
  <2>3. CASE UNCHANGED findings
    BY <1>1, <2>3
  <2>4. MergeAll \/ ExecutionsOnly \/ UNCHANGED findings
    BY <1>1 DEF Next, vars, Drift, Reduce, Integrate, Examine, Verify, Reproduce, Judge,
                CheckSource, Finish, Done
  <2> QED BY <2>1, <2>2, <2>3, <2>4
<1>2. FindingsInv /\ [Next]_vars => [\A f \in findings' \ findings : Grounded(f)]_vars
  BY <1>1
<1> QED BY <1>2, FindingsInvariant, PTL DEF Spec, AcceptanceIsGrounded
=============================================================================
