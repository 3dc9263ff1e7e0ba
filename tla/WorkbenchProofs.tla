-------------------------- MODULE WorkbenchProofs --------------------------
(***************************************************************************)
(* What Workbench promises of its parts, for any number of processes,      *)
(* files, tasks, requests and skills: one inductive invariant per part,    *)
(* and the fact that a step of the whole is a step or a stutter of each;   *)
(* and what TraceLedger promises of a read and of an erasure.              *)
(***************************************************************************)
EXTENDS Workbench, TraceLedger, SequenceTheorems, FiniteSetTheorems, WellFoundedInduction, TLAPS

LEMMA PartSteps ==
  [NextAll]_allVars => /\ [Next]_vars
                       /\ [Search!Next]_searchVars
                       /\ [Checks!Next]_checkVars
                       /\ [Evaluation!Next]_trialVars
                       /\ [Worktrees!Next]_treeVars
                       /\ [Skills!Next]_skillVars
BY DEF NextAll, allVars, SelectionStep, SearchStep, CheckStep, TrialStep, TreeStep, SkillStep


(***************************************************************************)
(* Lemmas on sets of numbers, counts and folds.                            *)
(***************************************************************************)
LEMMA LeastExists ==
  ASSUME NEW T \in SUBSET Nat, T # {}
  PROVE  \E n \in T : \A m \in T : n <= m
<1>1. IsWellFoundedOn(OpToRel(<, Nat), Nat)
  BY NatLessThanWellFounded
<1>2. PICK R : R = OpToRel(<, Nat)
  OBVIOUS
<1>3. \E x \in T : \A y \in T : ~ (<<y, x>> \in R)
  BY <1>1, <1>2, WFMin
<1>4. \A x, y \in T : <<y, x>> \in R <=> y < x
  BY <1>2 DEF OpToRel
<1>5. PICK x \in T : \A y \in T : ~ (y < x)
  BY <1>3, <1>4
<1>6. \A y \in T : y \in Nat /\ x \in Nat
  OBVIOUS
<1> QED BY <1>5, <1>6

LEMMA InductionOnSet ==
  ASSUME NEW T \in SUBSET Nat, 0 \in T, \A n \in T : n + 1 \in T
  PROVE  T = Nat
<1> SUFFICES ASSUME T # Nat PROVE FALSE
  OBVIOUS
<1>1. PICK n \in Nat \ T : \A m \in Nat \ T : n <= m
  BY LeastExists
<1>2. n - 1 \in T
  BY <1>1
<1>3. n \in T
  BY <1>1, <1>2
<1> QED BY <1>1, <1>3

(* In a finite set with a strict total order, an element has exactly as many *)
(* before it as its place says, and every place is taken.                    *)
LEMMA PlacesTaken ==
  ASSUME NEW S, IsFiniteSet(S), NEW before \in [S -> SUBSET S],
         \A x \in S : x \notin before[x],
         \A x, y \in S : x = y \/ x \in before[y] \/ y \in before[x],
         \A x, y, z \in S : x \in before[y] /\ y \in before[z] => x \in before[z],
         NEW i \in 1..Cardinality(S)
  PROVE  \E d \in S : Cardinality(before[d]) = i - 1
<1> SUFFICES ASSUME \A d \in S : Cardinality(before[d]) # i - 1
             PROVE  FALSE
  OBVIOUS
<1>1. PICK n : n = Cardinality(S)
  OBVIOUS
<1>2. n \in Nat /\ i \in 1..n
  BY <1>1, FS_CardinalityType
<1>3. PICK f : f = [d \in S |-> Cardinality(before[d])]
  OBVIOUS
<1>4. PICK T : T = (0..n - 1) \ {i - 1}
  OBVIOUS
<1>5. IsFiniteSet(T) /\ Cardinality(T) < n
  <2>1. IsFiniteSet(0..n - 1) /\ Cardinality(0..n - 1) = n
    BY <1>2, FS_Interval
  <2>2. i - 1 \in 0..n - 1
    BY <1>2
  <2>3. PICK A : A = 0..n - 1
    OBVIOUS
  <2>4. PICK x : x = i - 1
    OBVIOUS
  <2>5. IsFiniteSet(A) /\ x \in A
    BY <2>1, <2>2, <2>3, <2>4
  <2>6. IsFiniteSet(A \ {x}) /\ Cardinality(A \ {x}) = Cardinality(A) - 1
    BY <2>5, FS_RemoveElement
  <2> QED BY <1>2, <1>4, <2>1, <2>3, <2>4, <2>6
<1>6. \A d \in S : f[d] \in T
  <2> SUFFICES ASSUME NEW d \in S PROVE f[d] \in T
    OBVIOUS
  <2>1. PICK U : U = before[d]
    OBVIOUS
  <2>2. U \in SUBSET (S \ {d})
    BY <2>1
  <2>3. IsFiniteSet(S \ {d}) /\ Cardinality(S \ {d}) = n - 1
    BY <1>1, FS_RemoveElement
  <2>4. IsFiniteSet(U) /\ Cardinality(U) <= n - 1
    BY <2>2, <2>3, FS_Subset
  <2>5. Cardinality(U) \in Nat
    BY <2>4, FS_CardinalityType
  <2>6. f[d] = Cardinality(U) /\ f[d] # i - 1
    BY <1>3, <2>1
  <2> QED BY <1>2, <1>4, <2>4, <2>5, <2>6
<1>7. PICK x, y \in S : x # y /\ f[x] = f[y]
  <2>1. f \in [S -> T]
    BY <1>3, <1>6
  <2> QED BY <1>1, <1>5, <2>1, FS_PigeonHole
<1>8. ASSUME NEW u \in S, NEW v \in S, u \in before[v] PROVE f[u] # f[v]
  <2>1. PICK U : U = before[u]
    OBVIOUS
  <2>2. PICK V : V = before[v]
    OBVIOUS
  <2>3. U \in SUBSET V /\ u \in V /\ u \notin U
    BY <1>8, <2>1, <2>2
  <2>4. V \in SUBSET S
    BY <2>2
  <2>5. IsFiniteSet(V)
    BY <2>4, FS_Subset
  <2>6. Cardinality(U) # Cardinality(V)
    BY <2>3, <2>5, FS_Subset
  <2> QED BY <1>3, <2>1, <2>2, <2>6
<1> QED BY <1>7, <1>8

Largest(S) == CHOOSE x \in S : \A y \in S : x >= y

LEMMA LargestIs ==
  ASSUME NEW S \in SUBSET Int, NEW m \in S, \A y \in S : m >= y
  PROVE  Largest(S) = m
<1>1. \A x \in S : (\A y \in S : x >= y) => x = m
  OBVIOUS
<1> QED BY <1>1 DEF Largest

LEMMA LargestIn ==
  ASSUME NEW N \in Nat, NEW S \in SUBSET (1..N), S # {}
  PROVE  Largest(S) \in S
<1>1. PICK T : T = {N - x : x \in S}
  OBVIOUS
<1>2. T \in SUBSET Nat /\ T # {}
  <2>1. \A x \in S : N - x \in Nat
    OBVIOUS
  <2>2. T \in SUBSET Nat
    BY <1>1, <2>1
  <2>3. PICK x : x \in S
    OBVIOUS
  <2>4. N - x \in T
    BY <1>1, <2>3
  <2> QED BY <2>2, <2>4
<1>3. PICK n \in T : \A m \in T : n <= m
  BY <1>2, LeastExists
<1>4. PICK x \in S : n = N - x
  BY <1>1, <1>3
<1>5. \A y \in S : x >= y
  BY <1>1, <1>3, <1>4
<1> QED BY <1>5 DEF Largest

(* What holds at zero and is kept by each step to n holds up to n.           *)
LEMMA InductionTo ==
  ASSUME NEW N \in Nat, NEW T, 0 \in T, \A n \in 1..N : n - 1 \in T => n \in T
  PROVE  \A n \in 0..N : n \in T
<1>1. PICK U : U = {n \in Nat : n <= N => n \in T}
  OBVIOUS
<1>2. 0 \in U /\ U \in SUBSET Nat
  BY <1>1
<1>3. \A n \in U : n + 1 \in U
  <2> SUFFICES ASSUME NEW n \in U PROVE n + 1 \in U
    OBVIOUS
  <2>1. n \in Nat /\ n + 1 \in Nat /\ (n <= N => n \in T)
    BY <1>1
  <2>2. CASE n + 1 <= N
    <3>1. n + 1 \in 1..N /\ n <= N /\ (n + 1) - 1 = n
      BY <2>1, <2>2
    <3>2. n + 1 \in T
      BY <2>1, <3>1
    <3> QED BY <1>1, <2>1, <3>2
  <2>3. CASE ~ (n + 1 <= N)
    BY <1>1, <2>1, <2>3
  <2> QED BY <2>2, <2>3
<1>4. U = Nat
  BY <1>2, <1>3, InductionOnSet
<1> QED BY <1>1, <1>4

(* A function that is defined over the subsets of 1..N by taking the largest *)
(* element away, as the folds over sequences are.                            *)
Folding(g, n, X, base, step) ==
  /\ g \in [SUBSET (1..n) -> X]
  /\ \A S \in SUBSET (1..n) :
        g[S] = IF S = {} THEN base ELSE step[<<g[S \ {Largest(S)}], Largest(S)>>]

LEMMA FoldExists ==
  ASSUME NEW N \in Nat, NEW X, NEW base \in X, NEW step \in [X \X (1..N) -> X]
  PROVE  \E g : Folding(g, N, X, base, step)
<1> DEFINE Folds(g, n) == Folding(g, n, X, base, step)
<1> DEFINE T == {n \in 0..N : \E g : Folds(g, n)}
<1>1. 0 \in T
  <2>1. PICK g : g = [S \in SUBSET (1..0) |-> base]
    OBVIOUS
  <2>2. \A S \in SUBSET (1..0) : S = {}
    OBVIOUS
  <2>3. Folds(g, 0)
    BY <2>1, <2>2 DEF Folding
  <2> HIDE DEF Folds
  <2> QED BY <2>3
<1>2. ASSUME NEW n \in 1..N, n - 1 \in T PROVE n \in T
  <2>1. PICK m : m = n - 1
    OBVIOUS
  <2>2. m \in Nat /\ n = m + 1
    BY <2>1
  <2>3. PICK g : Folds(g, m)
    BY <1>2, <2>1
  <2>4. PICK h : h = [S \in SUBSET (1..n) |->
                        IF n \in S THEN step[<<g[S \ {n}], n>>] ELSE g[S]]
    OBVIOUS
  <2>5. \A S \in SUBSET (1..n) : n \in S => Largest(S) = n
    <3> SUFFICES ASSUME NEW S \in SUBSET (1..n), n \in S PROVE Largest(S) = n
      OBVIOUS
    <3>1. S \in SUBSET Int /\ \A y \in S : n >= y
      BY <2>2
    <3> QED BY <3>1, LargestIs
  <2>6. \A S \in SUBSET (1..n) : S \ {n} \in SUBSET (1..m)
    BY <2>2
  <2>7. \A S \in SUBSET (1..n) : n \notin S => S \in SUBSET (1..m)
    BY <2>2
  <2>8. h \in [SUBSET (1..n) -> X]
    <3> SUFFICES ASSUME NEW S \in SUBSET (1..n)
                 PROVE  (IF n \in S THEN step[<<g[S \ {n}], n>>] ELSE g[S]) \in X
      BY <2>4
    <3>1. g[S \ {n}] \in X
      BY <2>3, <2>6 DEF Folding
    <3>2. n \notin S => g[S] \in X
      BY <2>3, <2>7 DEF Folding
    <3> QED BY <3>1, <3>2
  <2>9. \A S \in SUBSET (1..n) :
           h[S] = IF S = {} THEN base ELSE step[<<h[S \ {Largest(S)}], Largest(S)>>]
    <3> SUFFICES ASSUME NEW S \in SUBSET (1..n)
                 PROVE  h[S] = IF S = {} THEN base
                               ELSE step[<<h[S \ {Largest(S)}], Largest(S)>>]
      OBVIOUS
    <3>1. CASE n \in S
      <4>1. PICK U : U = S \ {n}
        OBVIOUS
      <4>2. U \in SUBSET (1..n) /\ n \notin U
        BY <4>1
      <4>3. h[U] = g[U]
        BY <2>4, <4>2
      <4>4. h[S] = step[<<g[U], n>>]
        BY <2>4, <3>1, <4>1
      <4>5. Largest(S) = n /\ S # {}
        BY <2>5, <3>1
      <4> QED BY <4>1, <4>3, <4>4, <4>5
    <3>2. CASE n \notin S
      <4>1. S \in SUBSET (1..m) /\ h[S] = g[S]
        BY <2>4, <2>7, <3>2
      <4>2. PICK U : U = S \ {Largest(S)}
        OBVIOUS
      <4>3. U \in SUBSET (1..n) /\ n \notin U
        BY <3>2, <4>2
      <4>4. h[U] = g[U]
        BY <2>4, <4>3
      <4>5. g[S] = IF S = {} THEN base ELSE step[<<g[U], Largest(S)>>]
        BY <2>3, <4>1, <4>2 DEF Folding
      <4> QED BY <4>1, <4>2, <4>4, <4>5
    <3> QED BY <3>1, <3>2
  <2>10. Folds(h, n)
    BY <2>8, <2>9 DEF Folding
  <2> HIDE DEF Folds
  <2> QED BY <2>10
<1>3. \A n \in 0..N : n \in T
  <2> HIDE DEF T
  <2> QED BY <1>1, <1>2, InductionTo
<1>4. N \in 0..N
  OBVIOUS
<1>5. \E g : Folds(g, N)
  <2> HIDE DEF Folds
  <2> QED BY <1>3, <1>4
<1> QED BY <1>5

(* Its values on 1..n are the steps of the fold.                             *)
LEMMA Downward ==
  ASSUME NEW n \in Nat, n # 0
  PROVE  /\ Largest(1..n) = n /\ (1..n) \ {n} = 1..(n - 1) /\ 1..n # {}
<1>1. 1..n \in SUBSET Int /\ n \in 1..n /\ \A y \in 1..n : n >= y
  OBVIOUS
<1>2. Largest(1..n) = n
  BY <1>1, LargestIs
<1>3. (1..n) \ {n} = 1..(n - 1)
  OBVIOUS
<1> QED BY <1>1, <1>2, <1>3

LEMMA ImageFinite ==
  ASSUME NEW S, IsFiniteSet(S), NEW f
  PROVE  IsFiniteSet({f[x] : x \in S})
<1>1. PICK T : T = {f[x] : x \in S}
  OBVIOUS
<1>2. PICK g : g = [x \in S |-> f[x]]
  OBVIOUS
<1>3. g \in Surjection(S, T)
  BY <1>1, <1>2 DEF Surjection
<1> QED BY <1>1, <1>3, FS_Surjection

Laid(spot, S, before) ==
  /\ \A j, k \in 1..Cardinality(S) : j < k => spot[j] \in before[spot[k]]
  /\ \A d \in S : \E k \in 1..Cardinality(S) : spot[k] = d

(* A set laid out by how many come before is laid out in its order.          *)
LEMMA OrderedPlaces ==
  ASSUME NEW S, IsFiniteSet(S), NEW before \in [S -> SUBSET S],
         \A x \in S : x \notin before[x],
         \A x, y \in S : x = y \/ x \in before[y] \/ y \in before[x],
         \A x, y, z \in S : x \in before[y] /\ y \in before[z] => x \in before[z],
         NEW spot, \A k \in 1..Cardinality(S) : spot[k] \in S /\ Cardinality(before[spot[k]]) = k - 1
  PROVE  Laid(spot, S, before)
<1>1. PICK n : n = Cardinality(S)
  OBVIOUS
<1>2. n \in Nat /\ \A x \in S : IsFiniteSet(before[x]) /\ Cardinality(before[x]) \in Nat
  BY <1>1, FS_Subset, FS_CardinalityType
<1>3. \A x, y \in S : x \in before[y] => Cardinality(before[x]) < Cardinality(before[y])
  <2> SUFFICES ASSUME NEW x \in S, NEW y \in S, x \in before[y]
               PROVE  Cardinality(before[x]) < Cardinality(before[y])
    OBVIOUS
  <2>1. before[x] \in SUBSET before[y] /\ x \notin before[x]
    OBVIOUS
  <2>2. PICK U : U = before[x]
    OBVIOUS
  <2>3. PICK V : V = before[y]
    OBVIOUS
  <2>4. U \in SUBSET V /\ U # V /\ IsFiniteSet(V) /\ IsFiniteSet(U)
    BY <1>2, <2>1, <2>2, <2>3
  <2>5. Cardinality(U) <= Cardinality(V) /\ Cardinality(U) # Cardinality(V)
    BY <2>4, FS_Subset
  <2>6. Cardinality(U) \in Nat /\ Cardinality(V) \in Nat
    BY <2>4, FS_CardinalityType
  <2> QED BY <2>2, <2>3, <2>5, <2>6
<1>4. \A j, k \in 1..n : j < k => spot[j] \in before[spot[k]]
  <2> SUFFICES ASSUME NEW j \in 1..n, NEW k \in 1..n, j < k, spot[j] \notin before[spot[k]]
               PROVE  FALSE
    OBVIOUS
  <2>1. /\ spot[j] \in S /\ Cardinality(before[spot[j]]) = j - 1
        /\ spot[k] \in S /\ Cardinality(before[spot[k]]) = k - 1
    BY <1>1
  <2>2. spot[j] = spot[k] \/ spot[k] \in before[spot[j]]
    BY <2>1
  <2>3. k - 1 <= j - 1
    BY <1>2, <1>3, <2>1, <2>2
  <2> QED BY <1>2, <2>3
<1>5. \A d \in S : \E k \in 1..n : spot[k] = d
  <2> SUFFICES ASSUME NEW d \in S PROVE \E k \in 1..n : spot[k] = d
    OBVIOUS
  <2>1. PICK U : U = before[d]
    OBVIOUS
  <2>2. U \in SUBSET S /\ U # S
    BY <2>1
  <2>3. Cardinality(U) <= n /\ Cardinality(U) # n /\ Cardinality(U) \in Nat
    BY <1>1, <1>2, <2>1, <2>2, FS_Subset
  <2>4. PICK k : k = Cardinality(U) + 1
    OBVIOUS
  <2>5. k \in 1..n /\ k - 1 = Cardinality(U)
    BY <1>2, <2>3, <2>4
  <2>6. spot[k] \in S /\ Cardinality(before[spot[k]]) = Cardinality(before[d])
    BY <1>1, <2>1, <2>5
  <2>7. spot[k] = d
    BY <1>2, <1>3, <2>6
  <2> QED BY <2>5, <2>7
<1> QED BY <1>1, <1>4, <1>5 DEF Laid

(* Only keeps the elements at increasing places, and at all places there are. *)
Picks(spot, n, s, S) ==
  /\ n \in Nat /\ spot \in [1..n -> DOMAIN s]
  /\ \A k \in 1..n : s[spot[k]] \in S
  /\ \A j, k \in 1..n : j < k => spot[j] < spot[k]
  /\ \A i \in DOMAIN s : s[i] \in S => \E k \in 1..n : spot[k] = i

Drawn(spot, n, s, S) == Picks(spot, n, s, S) /\ Only(s, S) = [k \in 1..n |-> s[spot[k]]]

LEMMA Picking ==
  ASSUME NEW A, NEW s \in Seq(A), NEW S
  PROVE  \E spot, n : Drawn(spot, n, s, S)
<1>1. PICK P : P = {i \in DOMAIN s : s[i] \in S}
  OBVIOUS
<1>2. DOMAIN s = 1..Len(s) /\ Len(s) \in Nat
  BY LenProperties
<1>3. P \in SUBSET (1..Len(s)) /\ P \subseteq Nat
  BY <1>1, <1>2
<1>4. IsFiniteSet(P)
  <2>1. PICK D : D = 1..Len(s)
    OBVIOUS
  <2>2. IsFiniteSet(D)
    BY <1>2, <2>1, FS_Interval
  <2> QED BY <1>3, <2>1, <2>2, FS_Subset
<1>5. PICK before : before = [i \in P |-> {j \in P : j < i}]
  OBVIOUS
<1>6. /\ before \in [P -> SUBSET P]
      /\ \A i, j \in P : j \in before[i] <=> j < i
  BY <1>5
<1>7. PICK n : n = Cardinality(P)
  OBVIOUS
<1>8. n \in Nat
  BY <1>4, <1>7, FS_CardinalityType
<1>9. PICK spot : spot = [k \in 1..n |-> CHOOSE i \in P : Cardinality({j \in P : j < i}) = k - 1]
  OBVIOUS
<1>10. \A k \in 1..n : spot[k] \in P /\ Cardinality(before[spot[k]]) = k - 1
  <2> SUFFICES ASSUME NEW k \in 1..n
               PROVE  spot[k] \in P /\ Cardinality(before[spot[k]]) = k - 1
    OBVIOUS
  <2>1. /\ \A x \in P : x \notin before[x]
        /\ \A x, y \in P : x = y \/ x \in before[y] \/ y \in before[x]
        /\ \A x, y, z \in P : x \in before[y] /\ y \in before[z] => x \in before[z]
    BY <1>3, <1>6
  <2>2. k \in 1..Cardinality(P)
    BY <1>7
  <2>3. PICK i \in P : Cardinality(before[i]) = k - 1
    BY <1>4, <1>6, <2>1, <2>2, PlacesTaken
  <2>4. before[i] = {j \in P : j < i}
    BY <1>5
  <2>5. spot[k] \in P /\ Cardinality({j \in P : j < spot[k]}) = k - 1
    BY <1>9, <2>3, <2>4
  <2>6. before[spot[k]] = {j \in P : j < spot[k]}
    BY <1>5, <2>5
  <2> QED BY <2>5, <2>6
<1>11. /\ \A x \in P : x \notin before[x]
       /\ \A x, y \in P : x = y \/ x \in before[y] \/ y \in before[x]
       /\ \A x, y, z \in P : x \in before[y] /\ y \in before[z] => x \in before[z]
  BY <1>3, <1>6
<1>12. \A k \in 1..Cardinality(P) : spot[k] \in P /\ Cardinality(before[spot[k]]) = k - 1
  BY <1>7, <1>10
<1>12a. Laid(spot, P, before)
  BY <1>4, <1>6, <1>11, <1>12, OrderedPlaces
<1>13. \A j, k \in 1..n : j < k => spot[j] < spot[k]
  BY <1>6, <1>7, <1>10, <1>12a DEF Laid
<1>14. \A i \in P : \E k \in 1..n : spot[k] = i
  BY <1>7, <1>12a DEF Laid
<1>15. Only(s, S) = [k \in 1..n |-> s[spot[k]]]
  BY <1>1, <1>7, <1>9 DEF Only, InOrder
<1>16. Picks(spot, n, s, S)
  <2>1. \A k \in 1..n : spot[k] \in DOMAIN s /\ s[spot[k]] \in S
    BY <1>1, <1>10
  <2>2. spot \in [1..n -> DOMAIN s]
    BY <1>9, <2>1
  <2>3. \A i \in DOMAIN s : s[i] \in S => i \in P
    BY <1>1
  <2> QED BY <1>8, <1>13, <1>14, <2>1, <2>2, <2>3 DEF Picks
<1> QED BY <1>15, <1>16 DEF Drawn

(* It has their elements that are in the set.                              *)
LEMMA OnlySound ==
  ASSUME NEW A, NEW s \in Seq(A), NEW S
  PROVE  /\ Only(s, S) \in Seq(A)
         /\ ToSet(Only(s, S)) = ToSet(s) \cap S
<1>0. PICK spot, n : Drawn(spot, n, s, S)
  BY Picking
<1>1. Picks(spot, n, s, S) /\ Only(s, S) = [k \in 1..n |-> s[spot[k]]]
  BY <1>0 DEF Drawn
<1>2. \A i \in DOMAIN s : s[i] \in A
  BY LenProperties, ElementOfSeq
<1>3. \A k \in 1..n : spot[k] \in DOMAIN s /\ s[spot[k]] \in A
  BY <1>1, <1>2 DEF Picks
<1>4. [k \in 1..n |-> s[spot[k]]] \in Seq(A)
  BY <1>1, <1>3 DEF Picks
<1>5. ToSet([k \in 1..n |-> s[spot[k]]]) = ToSet(s) \cap S
  BY <1>1, <1>3 DEF Picks, ToSet
<1> QED BY <1>1, <1>4, <1>5

(***************************************************************************)
(* Model selection.                                                        *)
(***************************************************************************)
SelectionSound ==
  /\ told \in Seq(receipts) /\ answering \subseteq receipts /\ receipts \subseteq Requests
  /\ \A i, j \in DOMAIN told : told[i] = told[j] => i = j
  /\ writing \in Requests \cup {Nothing} /\ writing \notin receipts

LEMMA SelectionStart == Init => SelectionSound
BY ModelSelectionAssumption DEF Init, SelectionSound

LEMMA SelectionKept == SelectionSound /\ [Next]_vars => SelectionSound'
<1> SUFFICES ASSUME SelectionSound, [Next]_vars PROVE SelectionSound'
  OBVIOUS
<1>1. ASSUME NEW q \in Requests, Select(q) PROVE SelectionSound'
  <2>1. told' = told /\ receipts \subseteq receipts'
    BY <1>1 DEF Select
  <2>2. told' \in Seq(receipts')
    BY <2>1 DEF SelectionSound
  <2> QED BY <1>1, <2>1, <2>2, ModelSelectionAssumption DEF SelectionSound, Select
<1>2. ASSUME Commit PROVE SelectionSound'
  <2>1. told' = told /\ receipts \subseteq receipts'
    BY <1>2 DEF Commit
  <2>2. told' \in Seq(receipts')
    BY <2>1 DEF SelectionSound
  <2> QED BY <1>2, <2>1, <2>2, ModelSelectionAssumption DEF SelectionSound, Commit
<1>3. ASSUME NEW q \in Requests, Answer(q) PROVE SelectionSound'
  <2>1. q \in receipts /\ receipts' = receipts /\ answering' \subseteq receipts /\ writing' =
     writing
    BY <1>3 DEF Answer, SelectionSound
  <2>2. CASE told' = told
    BY <2>1, <2>2 DEF SelectionSound
  <2>3. CASE (\A i \in DOMAIN told : told[i] # q) /\ told' = Append(told, q)
    <3>1. /\ told' \in Seq(receipts) /\ Len(told) \in Nat /\ DOMAIN told = 1..Len(told)
          /\ DOMAIN told' = 1..(Len(told) + 1)
          /\ told'[Len(told) + 1] = q /\ \A i \in 1..Len(told) : told'[i] = told[i]
      BY <2>1, <2>3 DEF SelectionSound
    <3>2. \A i, j \in DOMAIN told' : told'[i] = told'[j] => i = j
      BY <2>3, <3>1 DEF SelectionSound
    <3> QED BY <2>1, <3>1, <3>2 DEF SelectionSound
  <2> QED BY <1>3, <2>2, <2>3 DEF Answer
<1>4. ASSUME UNCHANGED choices PROVE SelectionSound'
  BY <1>4 DEF SelectionSound, choices
<1>5. ASSUME Stop PROVE SelectionSound'
  BY <1>5, ModelSelectionAssumption DEF SelectionSound, Stop
<1> QED BY <1>1, <1>2, <1>3, <1>4, <1>5
    DEF Next, vars, ShowCatalog, LoadAccount, EndDiscovery, Age, Enter, Leave

(* What a step does to the two stored choices when an answer lies between.  *)
LEMMA SelectionStands ==
  ASSUME SelectionSound, [Next]_vars, NEW q \in Requests, NEW r \in Requests, ToldBefore(q, r)
  PROVE  ~(selected = r /\ selected' = q) /\ ~(saved = r /\ saved' = q)
<1>1. q \in receipts /\ q # r
  BY DEF ToldBefore, SelectionSound
<1>2. selected' = selected \/ selected' # q
  BY <1>1, ModelSelectionAssumption DEF SelectionSound, Next, vars, choices, Select, Commit, Answer,
     ShowCatalog, LoadAccount, EndDiscovery, Age, Enter, Leave, Stop
<1>3. saved' = saved \/ saved' # q
  BY <1>1, ModelSelectionAssumption DEF SelectionSound, Next, vars, choices, Select, Commit, Answer,
     ShowCatalog, LoadAccount, EndDiscovery, Age, Enter, Leave, Stop
<1> QED BY <1>1, <1>2, <1>3

(* A request that is sent again never takes the conversation or the shared
   default back from a choice acknowledged after its own. *)
THEOREM NewerChoices == SpecAll => NewerChoiceStands
<1>1. InitAll => SelectionSound
  BY SelectionStart DEF InitAll
<1>3. SelectionSound /\ [NextAll]_allVars => SelectionSound'
  BY PartSteps, SelectionKept
<1>4. SelectionSound /\ [NextAll]_allVars =>
        [\A q, r \in Requests : ToldBefore(q, r)
          => /\ ~(selected = r /\ selected' = q)
             /\ ~(saved = r /\ saved' = q)]_vars
  BY PartSteps, SelectionStands
<1> QED BY <1>1, <1>3, <1>4, PTL DEF SpecAll, NewerChoiceStands

(***************************************************************************)
(* Repository search.                                                      *)
(***************************************************************************)
(* What the store holds is one of the snapshots it holds, and never more    *)
(* than it retains.                                                         *)
StoreSound == stored \in Seq(Search!Range(stored)) /\ Len(stored) <= Retained

LEMMA Whole ==
  ASSUME NEW S, NEW s \in Seq(S)
  PROVE  s \in Seq(Search!Range(s))
<1>1. Len(s) \in Nat /\ s \in [1..Len(s) -> Search!Range(s)]
  BY DEF Search!Range
<1> QED BY <1>1, SeqDef

(* The last n elements of a sequence.                                       *)
LEMMA LastElements ==
  ASSUME NEW S, NEW all \in Seq(S), NEW n \in Nat, n >= 1, n <= Len(all),
         NEW kept, kept = SubSeq(all, Len(all) - n + 1, Len(all))
  PROVE  /\ kept \in Seq(S) /\ Len(kept) = n /\ DOMAIN kept = 1..n
         /\ \A i \in 1..n : kept[i] = all[Len(all) - n + i]
<1>1. PICK m : m = Len(all)
  OBVIOUS
<1>2. m \in Nat /\ n <= m
  BY <1>1
<1>3. m - n + 1 \in 1..m + 1 /\ m \in 0..m /\ m - (m - n + 1) + 1 = n
      /\ m - n + 1 <= m /\ \A i \in 1..n : (m - n + 1) + i - 1 = m - n + i
  BY <1>2
<1>5. /\ SubSeq(all, m - n + 1, m) \in Seq(S)
      /\ Len(SubSeq(all, m - n + 1, m)) = m - (m - n + 1) + 1
      /\ \A i \in 1..(m - (m - n + 1) + 1) :
            SubSeq(all, m - n + 1, m)[i] = all[(m - n + 1) + i - 1]
  <2>1. m - n + 1 \in Int /\ m \in Int
    BY <1>2
  <2>2. \A i \in m - n + 1 .. m : i \in 1..m
    BY <1>2
  <2>3. \A i \in m - n + 1 .. m : all[i] \in S
    BY <1>1, <2>2
  <2> QED BY <1>3, <2>1, <2>3, SubSeqProperties
<1> QED BY <1>1, <1>3, <1>5

LEMMA LastOne ==
  ASSUME NEW all, NEW kept, NEW n, NEW m, NEW x, n \in Nat, m \in Nat, n >= 1, n <= m,
         \A i \in 1..n : kept[i] = all[m - n + i],
         all[m] = x \/ (n = m /\ \E i \in 1..m : all[i] = x)
  PROVE  \E i \in 1..n : kept[i] = x
<1>1. CASE all[m] = x
  <2>1. m - n + n = m /\ n \in 1..n
    OBVIOUS
  <2>2. kept[n] = all[m - n + n]
    BY <2>1
  <2> QED BY <1>1, <2>1, <2>2
<1>2. CASE n = m /\ \E i \in 1..m : all[i] = x
  <2>1. PICK i \in 1..m : all[i] = x
    BY <1>2
  <2>2. i \in 1..n /\ m - n + i = i
    BY <1>2, <2>1
  <2>3. kept[i] = all[m - n + i]
    BY <2>2
  <2> QED BY <2>1, <2>2, <2>3
<1> QED BY <1>1, <1>2

(* A stored snapshot is in the store, and the store within its limit.       *)
LEMMA PutStores ==
  ASSUME NEW A, NEW store \in Seq(A), NEW snap, Len(store) <= Retained
  PROVE  /\ Search!PutIn(store, snap) \in Seq(Search!Range(Search!PutIn(store, snap)))
         /\ Len(Search!PutIn(store, snap)) <= Retained
         /\ snap \in Search!Range(Search!PutIn(store, snap))
<1>1. PICK S : S = A \cup {snap}
  OBVIOUS
<1>2. PICK all : all = IF snap \in Search!Range(store) THEN store ELSE Append(store, snap)
  OBVIOUS
<1>3. PICK n : n = Search!Least({Len(all), Retained})
  OBVIOUS
<1>4. PICK kept : kept = SubSeq(all, Len(all) - n + 1, Len(all))
  OBVIOUS
<1>5. /\ store \in Seq(S) /\ Len(store) \in Nat /\ Retained \in Nat /\ Retained # 0
      /\ DOMAIN store = 1..Len(store) /\ snap \in S
  <2>1. A \subseteq S /\ snap \in S
    BY <1>1
  <2>2. store \in Seq(S)
    BY <2>1
  <2> QED BY <2>1, <2>2, WorkbenchAssumption
<1>6. /\ all \in Seq(S)
      /\ Len(all) <= Retained \/ (Len(all) = Retained + 1 /\ all[Len(all)] = snap)
      /\ \E i \in 1..Len(all) : all[i] = snap
  <2>1. CASE snap \in Search!Range(store)
    <3>1. all = store
      BY <1>2, <2>1
    <3>2. \E i \in 1..Len(store) : store[i] = snap
      BY <1>5, <2>1 DEF Search!Range
    <3> QED BY <1>5, <3>1, <3>2
  <2>2. CASE snap \notin Search!Range(store)
    <3>1. all = Append(store, snap)
      BY <1>2, <2>2
    <3>2. /\ all \in Seq(S) /\ Len(all) = Len(store) + 1 /\ all[Len(store) + 1] = snap
      BY <1>5, <3>1, AppendProperties
    <3>3. Len(store) + 1 \in 1..(Len(store) + 1)
          /\ (Len(store) + 1 <= Retained \/ Len(store) + 1 = Retained + 1)
      BY <1>5
    <3> QED BY <3>2, <3>3
  <2> QED BY <2>1, <2>2
<1>7. PICK m : m = Len(all)
  OBVIOUS
<1>8. m \in Nat /\ m >= 1 /\ (m <= Retained \/ (m = Retained + 1 /\ all[m] = snap))
  <2>1. Len(all) \in Nat
    BY <1>6
  <2> QED BY <1>6, <1>7, <2>1
<1>9. n \in Nat /\ n >= 1 /\ n <= m /\ n <= Retained /\ (n = m \/ m > Retained)
  <2>1. \E k \in {m, Retained} : \A j \in {m, Retained} : k <= j
    BY <1>5, <1>8
  <2>2. n \in {m, Retained} /\ n <= m /\ n <= Retained
    BY <1>3, <1>7, <2>1 DEF Search!Least
  <2> QED BY <1>5, <1>8, <2>2
<1>10. /\ kept \in Seq(S) /\ Len(kept) = n /\ DOMAIN kept = 1..n
       /\ \A i \in 1..n : kept[i] = all[m - n + i]
  BY <1>4, <1>6, <1>7, <1>9, LastElements
<1>11. n = m \/ all[m] = snap
  BY <1>5, <1>8, <1>9
<1>12. \E i \in 1..n : kept[i] = snap
  <2>1. \E i \in 1..m : all[i] = snap
    BY <1>6, <1>7
  <2>2. \A i \in 1..n : kept[i] = all[m - n + i]
    BY <1>10
  <2>3. n \in Nat /\ m \in Nat /\ n >= 1 /\ n <= m
    BY <1>8, <1>9
  <2> QED BY <1>11, <2>1, <2>2, <2>3, LastOne
<1>13. kept \in Seq(Search!Range(kept)) /\ snap \in Search!Range(kept)
  <2>1. kept \in Seq(Search!Range(kept))
    BY <1>10, Whole
  <2> QED BY <1>10, <1>12, <2>1 DEF Search!Range
<1>14. Search!PutIn(store, snap) = kept
  BY <1>2, <1>3, <1>4 DEF Search!PutIn
<1> QED BY <1>9, <1>10, <1>13, <1>14

LEMMA StoreStart == Search!Init => StoreSound
<1>1. <<>> \in Seq({}) /\ Len(<<>>) = 0 /\ Search!Range(<<>>) = {}
  BY DEF Search!Range
<1> QED BY <1>1, WorkbenchAssumption DEF Search!Init, StoreSound

(* A step of search leaves the store, or puts a snapshot into it, which all *)
(* the cursors that it gives out are about.                                 *)
LEMMA StorePut ==
  ASSUME Search!Next
  PROVE  \/ UNCHANGED <<stored, cursors>>
         \/ \E snap : /\ stored' = Search!PutIn(stored, snap)
                      /\ \A c \in cursors' \ cursors : c.snap = snap
<1>1. ASSUME NEW s \in Searchers, Search!PutSnapshot(s)
      PROVE  \E snap : stored' = Search!PutIn(stored, snap) /\ cursors' = cursors
  BY <1>1 DEF Search!PutSnapshot
<1>2. ASSUME NEW s \in Searchers, Search!Give(s)
      PROVE  \E snap : /\ stored' = Search!PutIn(stored, snap)
                       /\ \A c \in cursors' \ cursors : c.snap = snap
  <2>1. stored' = Search!PutIn(stored, searcher[s].snap)
    BY <1>2 DEF Search!Give, Search!StoreAgain
  <2>2. \A c \in cursors' \ cursors : c = [snap |-> searcher[s].snap, page |-> searcher[s].page + 1]
    BY <1>2 DEF Search!Give
  <2> QED BY <2>1, <2>2
<1>3. ASSUME NEW s \in Searchers, Search!SearcherStep(s),
             ~ Search!PutSnapshot(s), ~ Search!Give(s)
      PROVE  UNCHANGED <<stored, cursors>>
  BY <1>3 DEF Search!SearcherStep, Search!Search, Search!Refused, Search!Continue,
     Search!FinderUnavailable, Search!FinderClosed, Search!NativeBatch, Search!HashItem,
     Search!ItemMissing, Search!BatchDone, Search!NativeFind, Search!CheckFile,
     Search!ReadFile, Search!Fail
<1>4. ASSUME Search!Close \/ \E f \in Search!Files : Search!Write(f)
      PROVE  UNCHANGED <<stored, cursors>>
  BY <1>4 DEF Search!Close, Search!Write
<1> QED BY <1>1, <1>2, <1>3, <1>4 DEF Search!Next

LEMMA StoreKept ==
  ASSUME StoreSound, [Search!Next]_searchVars
  PROVE  /\ StoreSound'
         /\ \A c \in cursors' \ cursors : c.snap \in Search!Range(stored')
<1>1. CASE UNCHANGED <<stored, cursors>>
  BY <1>1 DEF StoreSound
<1>2. ASSUME NEW snap, stored' = Search!PutIn(stored, snap),
             \A c \in cursors' \ cursors : c.snap = snap
      PROVE  /\ StoreSound'
             /\ \A c \in cursors' \ cursors : c.snap \in Search!Range(stored')
  <2>1. /\ stored' \in Seq(Search!Range(stored')) /\ Len(stored') <= Retained
        /\ snap \in Search!Range(stored')
    BY <1>2, PutStores DEF StoreSound
  <2> QED BY <1>2, <2>1 DEF StoreSound
<1> QED BY <1>1, <1>2, StorePut DEF searchVars

(* A cursor that is given out resolves at that moment, whatever other searches
   have pushed out of the snapshot store. *)
THEOREM CursorsGood == SpecAll => CursorsResolve
<1>1. InitAll => StoreSound
  BY StoreStart DEF InitAll
<1>3. StoreSound /\ [NextAll]_allVars => StoreSound'
  BY PartSteps, StoreKept
<1>4. StoreSound /\ [NextAll]_allVars =>
        [\A c \in cursors' \ cursors : c.snap \in Search!Range(stored')]_(Search!vars)
  BY PartSteps, StoreKept
<1> QED BY <1>1, <1>3, <1>4, PTL DEF SpecAll, CursorsResolve, Search!CursorsResolve

(***************************************************************************)
(* Verification.                                                           *)
(***************************************************************************)
SomeCommands == {Checks!Command(category, required, minimum) :
                   category \in {"syntax", "lint", "typecheck", "test", "diff", "custom"},
                   required \in BOOLEAN, minimum \in {0, 1}}
SomeOutcomes == Checks!Outcomes \cup {Checks!Blocked}

(* The results so far are those of the plan's first commands, and only the   *)
(* last may be one that stops the plan.                                      *)
PlanSound ==
  /\ plan.commands \in Seq(SomeCommands) /\ plan.paths \subseteq Paths
  /\ \E i \in 1..Len(plan.commands) : plan.commands[i].required
  /\ ~ moved => changed = plan.paths
ResultsSound ==
  /\ \E S : results \in Seq(S)
  /\ Len(results) <= Len(plan.commands)
  /\ \A i \in 1..Len(results) : \E outcome \in SomeOutcomes :
        results[i] = Checks!Result(plan.commands[i], outcome)
ReportSound ==
  IF at = "done"
  THEN /\ report = <<Checks!BuildReport(results, plan.paths)>>
       /\ \/ Len(results) = Len(plan.commands)
          \/ \E i \in 1..Len(results) : Checks!StopsAt(results[i])
  ELSE report = <<>> /\ (at # "idle" => Len(results) # Len(plan.commands))
ChecksSound ==
  /\ task \in ToCheck /\ changed \subseteq Paths
  /\ at # "idle" => PlanSound /\ ResultsSound
  /\ ReportSound

LEMMA ChecksStart == Checks!Init => ChecksSound
BY DEF Checks!Init, ChecksSound, ReportSound

LEMMA CommandMade ==
  ASSUME NEW category \in {"syntax", "lint", "typecheck", "test", "diff", "custom"},
         NEW required \in BOOLEAN, NEW minimum \in {0, 1}
  PROVE  /\ Checks!Command(category, required, minimum) \in SomeCommands
         /\ <<Checks!Command(category, required, minimum)>> \in Seq(SomeCommands)
<1>1. Checks!Command(category, required, minimum) \in SomeCommands
  BY DEF SomeCommands
<1> QED BY <1>1

LEMMA Chosen == ASSUME NEW S, NEW s \in Seq(S), NEW condition PROVE Checks!If(condition, s) \in
   Seq(S)
BY DEF Checks!If

(* The plan of any changes has commands, one of which is required.           *)
LEMMA Planned ==
  ASSUME NEW paths
  PROVE  /\ Checks!Commands(paths) \in Seq(SomeCommands)
         /\ \E i \in 1..Len(Checks!Commands(paths)) : Checks!Commands(paths)[i].required
<1>1. PICK c1 : c1 = Checks!If(\E p \in paths : KindOf[p] = "python",
                               <<Checks!Command("syntax", TRUE, 0)>>)
  OBVIOUS
<1>2. PICK c2 : c2 = Checks!If("lint" \in manifest, <<Checks!Command("lint", FALSE, 0)>>)
  OBVIOUS
<1>3. PICK c3 : c3 = Checks!If("typecheck" \in manifest,
                               <<Checks!Command("typecheck", FALSE, 0)>>)
  OBVIOUS
<1>4. PICK c4 : c4 = Checks!If("test" \in manifest, <<Checks!Command("test", TRUE, 0)>>)
  OBVIOUS
<1>5. PICK c5 : c5 = Checks!If("test" \notin manifest
                                 /\ \E p \in paths : KindOf[p] = "python" /\ Adjacent[p],
                               <<Checks!Command("test", TRUE, 1)>>)
  OBVIOUS
<1>6. PICK d : d = Checks!Command("diff", TRUE, 0)
  OBVIOUS
<1>7. PICK c7 : c7 = Checks!If(task.custom, <<Checks!Command("custom", TRUE, 0)>>)
  OBVIOUS
<1>8. c1 \in Seq(SomeCommands) /\ c2 \in Seq(SomeCommands) /\ c3 \in Seq(SomeCommands)
      /\ c4 \in Seq(SomeCommands) /\ c5 \in Seq(SomeCommands) /\ c7 \in Seq(SomeCommands)
  <2>1. c1 \in Seq(SomeCommands)
    <3>1. <<Checks!Command("syntax", TRUE, 0)>> \in Seq(SomeCommands)
      BY CommandMade
    <3> QED BY <1>1, <3>1, Chosen
  <2>2. c2 \in Seq(SomeCommands)
    <3>1. <<Checks!Command("lint", FALSE, 0)>> \in Seq(SomeCommands)
      BY CommandMade
    <3> QED BY <1>2, <3>1, Chosen
  <2>3. c3 \in Seq(SomeCommands)
    <3>1. <<Checks!Command("typecheck", FALSE, 0)>> \in Seq(SomeCommands)
      BY CommandMade
    <3> QED BY <1>3, <3>1, Chosen
  <2>4. c4 \in Seq(SomeCommands)
    <3>1. <<Checks!Command("test", TRUE, 0)>> \in Seq(SomeCommands)
      BY CommandMade
    <3> QED BY <1>4, <3>1, Chosen
  <2>5. c5 \in Seq(SomeCommands)
    <3>1. <<Checks!Command("test", TRUE, 1)>> \in Seq(SomeCommands)
      BY CommandMade
    <3> QED BY <1>5, <3>1, Chosen
  <2>6. c7 \in Seq(SomeCommands)
    <3>1. <<Checks!Command("custom", TRUE, 0)>> \in Seq(SomeCommands)
      BY CommandMade
    <3> QED BY <1>7, <3>1, Chosen
  <2> QED BY <2>1, <2>2, <2>3, <2>4, <2>5, <2>6
<1>9. PICK a : a = (((c1 \o c2) \o c3) \o c4) \o c5
  OBVIOUS
<1>10. a \in Seq(SomeCommands)
  BY <1>8, <1>9
<1>11. d \in SomeCommands /\ d.required
  <2>1. d \in SomeCommands
    BY <1>6, CommandMade
  <2> QED BY <1>6, <2>1 DEF Checks!Command
<1>12. Checks!Commands(paths) = (a \o <<d>>) \o c7
  BY <1>1, <1>2, <1>3, <1>4, <1>5, <1>6, <1>7, <1>9 DEF Checks!Commands
<1>13. /\ a \o <<d>> \in Seq(SomeCommands) /\ Len(a \o <<d>>) = Len(a) + 1
       /\ (a \o <<d>>)[Len(a) + 1] = d
  BY <1>10, <1>11
<1>14. PICK b : b = a \o <<d>>
  OBVIOUS
<1>15. PICK m : m = Len(b)
  OBVIOUS
<1>16. b \in Seq(SomeCommands) /\ m \in Nat /\ m >= 1 /\ m = Len(b) /\ b[m] = d
  BY <1>10, <1>13, <1>14, <1>15
<1>17. /\ b \o c7 \in Seq(SomeCommands) /\ Len(b \o c7) = Len(b) + Len(c7)
       /\ m \in 1..Len(b \o c7) /\ (b \o c7)[m] = d
  BY <1>8, <1>16
<1> QED BY <1>11, <1>12, <1>14, <1>17

LEMMA ChecksBegun == ASSUME ChecksSound, Checks!Begin PROVE ChecksSound'
<1>1. /\ plan' = [paths |-> changed, commands |-> Checks!Commands(changed)]
      /\ at' = "call" /\ results' = <<>> /\ report' = <<>> /\ moved' = FALSE
      /\ UNCHANGED <<task, changed>>
  BY DEF Checks!Begin, Checks!given
<1>2. /\ plan'.commands \in Seq(SomeCommands) /\ plan'.paths = changed
      /\ \E i \in 1..Len(plan'.commands) : plan'.commands[i].required
  BY <1>1, Planned
<1>3. PlanSound'
  BY <1>1, <1>2 DEF ChecksSound, PlanSound
<1>4. results' \in Seq({}) /\ Len(results') = 0 /\ Len(plan'.commands) \in Nat
      /\ Len(plan'.commands) # 0
  BY <1>1, <1>2
<1>5. ResultsSound' /\ ReportSound'
  BY <1>1, <1>4 DEF ResultsSound, ReportSound
<1> QED BY <1>1, <1>3, <1>5 DEF ChecksSound

(* A result of the current command is recorded.                              *)
LEMMA ResultRecorded ==
  ASSUME ChecksSound, at \notin {"idle", "done"}, NEW outcome \in SomeOutcomes,
         Checks!Record(Checks!Result(Checks!Current, outcome)),
         UNCHANGED <<task, changed, plan, moved>>
  PROVE  ChecksSound'
<1>1. PICK r : r = Checks!Result(Checks!Current, outcome)
  OBVIOUS
<1>2. PICK S : results \in Seq(S)
  BY DEF ChecksSound, ResultsSound
<1>3. PICK n : n = Len(results)
  OBVIOUS
<1>4. PICK U : U = S \cup {r}
  OBVIOUS
<1>5. results \in Seq(U) /\ r \in U
  <2>1. S \subseteq U /\ r \in U
    BY <1>4
  <2> QED BY <1>2, <2>1
<1>6. /\ results' = Append(results, r)
      /\ IF Checks!StopsAt(r) \/ Len(results') = Len(plan.commands)
         THEN at' = "done" /\ report' = <<Checks!BuildReport(results', plan.paths)>>
         ELSE at' = "call" /\ report' = report
  BY <1>1 DEF Checks!Record
<1>7. /\ results' \in Seq(U) /\ n \in Nat /\ Len(results') = n + 1 /\ results'[n + 1] = r
      /\ \A i \in 1..n : results'[i] = results[i]
  BY <1>3, <1>5, <1>6, AppendProperties
<1>8. PlanSound /\ ResultsSound /\ report = <<>> /\ n # Len(plan.commands)
  BY <1>3 DEF ChecksSound, ReportSound
<1>9. n + 1 <= Len(plan.commands)
  <2>1. Len(plan.commands) \in Nat /\ n <= Len(plan.commands)
    BY <1>3, <1>8 DEF PlanSound, ResultsSound
  <2> QED BY <1>7, <1>8, <2>1
<1>10. r = Checks!Result(plan.commands[n + 1], outcome)
  BY <1>1, <1>3 DEF Checks!Current
<1>11. \A i \in 1..(n + 1) : i \in 1..n \/ i = n + 1
  BY <1>7
<1>12. ResultsSound'
  <2>1. ASSUME NEW i \in 1..Len(results')
        PROVE  \E o \in SomeOutcomes : results'[i] = Checks!Result(plan.commands[i], o)
    <3>1. CASE i = n + 1
      BY <1>7, <1>10, <3>1
    <3>2. CASE i \in 1..n
      BY <1>3, <1>7, <1>8, <3>2 DEF ResultsSound
    <3> QED BY <1>7, <1>11, <2>1, <3>1, <3>2
  <2>2. plan' = plan
    OBVIOUS
  <2> QED BY <1>7, <1>9, <2>1, <2>2 DEF ResultsSound
<1>13. PlanSound'
  BY <1>8 DEF PlanSound
<1>14. ReportSound'
  <2>1. CASE Checks!StopsAt(r) \/ Len(results') = Len(plan.commands)
    <3>1. at' = "done" /\ report' = <<Checks!BuildReport(results', plan.paths)>>
      BY <1>6, <2>1
    <3>2. Checks!StopsAt(r) => \E i \in 1..Len(results') : Checks!StopsAt(results'[i])
      <4>1. n + 1 \in 1..Len(results')
        BY <1>7
      <4> QED BY <1>7, <4>1
    <3>3. Checks!BuildReport(results, plan.paths)' = Checks!BuildReport(results', plan.paths)
      BY DEF Checks!BuildReport, Checks!Achieved, Checks!RequiredStrength,
         Checks!ScopeViolations, Checks!Passed, Checks!Strength, Checks!StrengthOrder
    <3>4. \A i \in 1..Len(results') : Checks!StopsAt(results'[i]) => Checks!StopsAt(results[i])'
      BY DEF Checks!StopsAt, Checks!Passed
    <3> QED BY <2>1, <3>1, <3>2, <3>3, <3>4 DEF ReportSound
  <2>2. CASE ~ (Checks!StopsAt(r) \/ Len(results') = Len(plan.commands))
    BY <1>6, <1>8, <2>2 DEF ReportSound
  <2> QED BY <2>1, <2>2
<1> QED BY <1>12, <1>13, <1>14 DEF ChecksSound

LEMMA ChecksKept == ChecksSound /\ [Checks!Next]_checkVars => ChecksSound'
<1> SUFFICES ASSUME ChecksSound, [Checks!Next]_checkVars PROVE ChecksSound'
  OBVIOUS
<1>1. CASE Checks!Execute
  <2>1. PICK outcome \in Checks!Outcomes :
          Checks!Record(Checks!Result(Checks!Current, outcome))
    BY <1>1 DEF Checks!Execute
  <2>2. outcome \in SomeOutcomes
    BY DEF SomeOutcomes
  <2> QED BY <1>1, <2>1, <2>2, ResultRecorded DEF Checks!Execute, Checks!given
<1>2. CASE Checks!Refuse \/ Checks!Turned
  <2>1. Checks!Blocked \in SomeOutcomes
    BY DEF SomeOutcomes
  <2> QED BY <1>2, <2>1, ResultRecorded DEF Checks!Refuse, Checks!Turned, Checks!given
<1>3. ASSUME UNCHANGED <<task, changed, plan, results, report, moved>>,
             at' = at \/ (at \notin {"idle", "done"} /\ at' \notin {"idle", "done"})
      PROVE  ChecksSound'
  <2>1. Checks!BuildReport(results, plan.paths)' = Checks!BuildReport(results, plan.paths)
    BY <1>3 DEF Checks!BuildReport, Checks!Achieved, Checks!RequiredStrength,
       Checks!ScopeViolations, Checks!Passed, Checks!Strength, Checks!StrengthOrder
  <2>2. ReportSound'
    BY <1>3, <2>1 DEF ChecksSound, ReportSound, Checks!StopsAt, Checks!Passed
  <2>3. at' # "idle" => PlanSound' /\ ResultsSound'
    BY <1>3 DEF ChecksSound, PlanSound, ResultsSound
  <2> QED BY <1>3, <2>2, <2>3 DEF ChecksSound
<1>4. CASE Checks!Ask \/ Checks!Answered
  BY <1>3, <1>4 DEF Checks!Ask, Checks!Answered, Checks!given
<1>5. ASSUME NEW n \in Checks!Names, Checks!Decide(n) PROVE ChecksSound'
  BY <1>3, <1>5 DEF Checks!Decide, Checks!given
<1>6. ASSUME NEW p \in Paths, Checks!Write(p) PROVE ChecksSound'
  <2>1. /\ changed' \subseteq Paths /\ (at # "idle" => moved' = TRUE)
        /\ UNCHANGED <<task, at, plan, results, report>>
    BY <1>6 DEF ChecksSound, Checks!Write, Checks!given
  <2>2. Checks!BuildReport(results, plan.paths)' = Checks!BuildReport(results, plan.paths)
    BY <2>1 DEF Checks!BuildReport, Checks!Achieved, Checks!RequiredStrength,
       Checks!ScopeViolations, Checks!Passed, Checks!Strength, Checks!StrengthOrder
  <2>3. ReportSound'
    BY <2>1, <2>2 DEF ChecksSound, ReportSound, Checks!StopsAt, Checks!Passed
  <2>4. at' # "idle" => PlanSound' /\ ResultsSound'
    BY <2>1 DEF ChecksSound, PlanSound, ResultsSound
  <2> QED BY <2>1, <2>3, <2>4 DEF ChecksSound
<1>7. CASE Checks!Leave \/ Checks!Crash
  BY <1>7 DEF Checks!Leave, Checks!Crash, Checks!given, ChecksSound, ReportSound
<1>8. CASE UNCHANGED checkVars
  BY <1>3, <1>8 DEF checkVars
<1> QED BY <1>1, <1>2, <1>4, <1>5, <1>6, <1>7, <1>8, ChecksBegun DEF Checks!Next

(* A command that passed ran the tests it had to run.                        *)
LEMMA ResultOk ==
  ASSUME NEW command \in SomeCommands, NEW outcome \in SomeOutcomes,
         NEW r, r = Checks!Result(command, outcome)
  PROVE  r.command = command /\ (r.status = "ok" => r.tests >= command.minimum)
<1>1. command.minimum \in {0, 1}
  BY DEF SomeCommands, Checks!Command
<1>2. outcome.tests \in {0, 1}
  BY DEF SomeOutcomes, Checks!Outcomes, Checks!Blocked
<1>3. /\ r.command = command /\ r.tests = outcome.tests
      /\ r.status = Checks!EnforceTestCount(command, outcome)
  BY DEF Checks!Result
<1>4. CASE outcome.status = "ok" /\ outcome.tests < command.minimum
  BY <1>3, <1>4 DEF Checks!EnforceTestCount
<1>5. CASE outcome.status # "ok"
  BY <1>3, <1>5 DEF Checks!EnforceTestCount
<1>6. CASE outcome.tests >= command.minimum
  BY <1>3, <1>6
<1> QED BY <1>1, <1>2, <1>4, <1>5, <1>6

LEMMA VerifiedPlan ==
  ASSUME ChecksSound, report # <<>>, report[1].passed
  PROVE  Checks!PassedMeansVerified
<1>1. /\ at = "done" /\ report[1] = Checks!BuildReport(results, plan.paths)
      /\ PlanSound /\ ResultsSound
      /\ \/ Len(results) = Len(plan.commands)
         \/ \E i \in 1..Len(results) : Checks!StopsAt(results[i])
  BY DEF ChecksSound, ReportSound
<1>2. DOMAIN results = 1..Len(results) /\ DOMAIN plan.commands = 1..Len(plan.commands)
  BY <1>1 DEF PlanSound, ResultsSound
<1>3. /\ \E n \in Checks!Achieved(results) :
            n >= Checks!StrengthOrder[Checks!RequiredStrength(plan.paths)]
      /\ \A i \in DOMAIN results : results[i].command.required => Checks!Passed(results[i])
      /\ Checks!ScopeViolations(plan.paths) = {}
  <2>1. Checks!BuildReport(results, plan.paths).passed
    BY <1>1
  <2> QED BY <2>1, Zenon DEF Checks!BuildReport
<1>4. Len(results) = Len(plan.commands)
  BY <1>1, <1>2, <1>3 DEF Checks!StopsAt
<1>5. ASSUME NEW i \in DOMAIN plan.commands
      PROVE  /\ i \in DOMAIN results /\ results[i].command = plan.commands[i]
             /\ results[i].status = "ok" => results[i].tests >= plan.commands[i].minimum
  <2>1. PICK outcome \in SomeOutcomes :
          results[i] = Checks!Result(plan.commands[i], outcome)
    BY <1>1, <1>2, <1>4 DEF ResultsSound
  <2>2. plan.commands[i] \in SomeCommands
    BY <1>1 DEF PlanSound
  <2> QED BY <1>2, <1>4, <2>1, <2>2, ResultOk
<1>6. \A i \in DOMAIN plan.commands : plan.commands[i].required => results[i].status = "ok"
  BY <1>3, <1>5 DEF Checks!Passed
<1>7. \E i \in DOMAIN results :
         /\ results[i].status = "ok"
         /\ (task.level = "auto" /\ \E p \in plan.paths : KindOf[p] # "text") =>
               results[i].command.category \in {"test", "custom"}
  <2>1. CASE task.level = "auto" /\ \E p \in plan.paths : KindOf[p] # "text"
    <3>1. \E p \in plan.paths : KindOf[p] \in {"python", "script"}
      BY <1>1, <2>1, WorkbenchAssumption DEF PlanSound
    <3>2. Checks!RequiredStrength(plan.paths) = "behavioral"
      BY <2>1, <3>1 DEF Checks!RequiredStrength
    <3>3. PICK n \in Checks!Achieved(results) : n >= 3
      BY <1>3, <3>2 DEF Checks!StrengthOrder
    <3>4. n # Checks!StrengthOrder["none"]
      BY <3>3 DEF Checks!StrengthOrder
    <3>5. PICK i \in DOMAIN results :
            /\ Checks!Passed(results[i])
            /\ n = Checks!StrengthOrder[Checks!Strength(results[i].command.category)]
      BY <3>4 DEF Checks!Achieved
    <3>6. Checks!Strength(results[i].command.category) = "behavioral"
      <4>1. Checks!Strength(results[i].command.category) \in {"syntax", "static", "behavioral"}
        BY DEF Checks!Strength
      <4>2. Checks!StrengthOrder["syntax"] = 1 /\ Checks!StrengthOrder["static"] = 2
        BY DEF Checks!StrengthOrder
      <4> QED BY <3>3, <3>5, <4>1, <4>2
    <3>7. results[i].command.category \in {"test", "custom"}
      BY <3>6 DEF Checks!Strength
    <3> QED BY <3>5, <3>7 DEF Checks!Passed
  <2>2. CASE ~ (task.level = "auto" /\ \E p \in plan.paths : KindOf[p] # "text")
    <3>1. PICK i \in DOMAIN plan.commands : plan.commands[i].required
      BY <1>1, <1>2 DEF PlanSound
    <3> QED BY <1>5, <1>6, <2>2, <3>1
  <2> QED BY <2>1, <2>2
<1>8. ~ moved => /\ changed \cap task.forbidden = {}
                 /\ task.allowed # {} => changed \subseteq task.allowed
  BY <1>1, <1>3 DEF PlanSound, Checks!ScopeViolations
<1> QED BY <1>5, <1>6, <1>7, <1>8 DEF Checks!PassedMeansVerified

(* A report that passes stands for the whole plan of its task: each required
   command ran and passed, with the tests it had to run, and what changed is
   within the task's scope unless the workspace was written meanwhile. *)
THEOREM PassesVerified == SpecAll => []PassedMeansVerified
<1>1. InitAll => ChecksSound
  BY ChecksStart DEF InitAll
<1>3. ChecksSound /\ [NextAll]_allVars => ChecksSound'
  BY PartSteps, ChecksKept
<1>4. ChecksSound => PassedMeansVerified
  BY VerifiedPlan DEF PassedMeansVerified, Checks!PassedMeansVerified
<1> QED BY <1>1, <1>3, <1>4, PTL DEF SpecAll

(***************************************************************************)
(* Evaluation ledger.                                                      *)
(***************************************************************************)
RecordsTrial(n, t) == lines[n] # <<>> /\ lines[n][1].trial = t
Importing(i, t) == importer[i].at # "idle" /\ importer[i].record.trial = t
Writing(i, t) == importer[i].at = "append" /\ importer[i].record.trial = t

(* An import that is about to append found no line of its trial, and has met *)
(* none since but those of imports that overlap it.                          *)
LinesSound == /\ \E S : lines \in Seq(S)
              /\ Evaluation!RecordedOnce
ImportsSound ==
  /\ DOMAIN importer = Importers
  /\ \A i, j \in Importers : \A t :
        (i # j /\ Importing(i, t) /\ Importing(j, t)) => t \in overlapped
  /\ \A i \in Importers, n \in DOMAIN lines : \A t :
        (Writing(i, t) /\ RecordsTrial(n, t)) => t \in overlapped
TrialsSound == LinesSound /\ ImportsSound

LEMMA TrialsStart == Evaluation!Init => TrialsSound
<1> SUFFICES ASSUME Evaluation!Init PROVE TrialsSound
  OBVIOUS
<1>1. lines \in Seq({}) /\ DOMAIN lines = {}
  BY DEF Evaluation!Init
<1>2. LinesSound
  BY <1>1 DEF LinesSound, Evaluation!RecordedOnce
<1>3. ImportsSound
  BY DEF Evaluation!Init, Evaluation!Resting, ImportsSound, Importing, Writing
<1> QED BY <1>2, <1>3 DEF TrialsSound

(* What writing a line can do to the file.                                  *)
LEMMA LineAppended ==
  ASSUME TrialsSound, NEW line, lines' = Evaluation!Appended(line)
  PROVE  \/ lines' = lines
         \/ /\ \E S : lines' \in Seq(S)
            /\ Len(lines) \in Nat /\ DOMAIN lines = 1..Len(lines)
            /\ DOMAIN lines' = 1..(Len(lines) + 1)
            /\ lines'[Len(lines) + 1] = line
            /\ \A n \in 1..Len(lines) : lines'[n] = lines[n]
<1>1. CASE lines' = lines
  BY <1>1
<1>2. CASE lines' = Append(lines, line)
  <2>1. PICK S : lines \in Seq(S)
    BY DEF TrialsSound, LinesSound
  <2>2. PICK U : U = S \cup {line}
    OBVIOUS
  <2>3. lines \in Seq(U) /\ line \in U
    <3>1. S \subseteq U /\ line \in U
      BY <2>2
    <3> QED BY <2>1, <3>1
  <2> QED BY <1>2, <2>3, AppendProperties
<1> QED BY <1>1, <1>2 DEF Evaluation!Appended

(* Importer i writes its line while others keep what they are at.           *)
LEMMA LineRecorded ==
  ASSUME TrialsSound, NEW i \in Importers, importer[i].at = "append",
         lines' = Evaluation!Appended(<<importer[i].record>>),
         importer' = [importer EXCEPT ![i] = Evaluation!Resting],
         overlapped' = overlapped
  PROVE  TrialsSound'
<1>1. PICK t : t = importer[i].record.trial
  OBVIOUS
<1>2. \A j \in Importers : j # i => importer'[j] = importer[j]
  BY DEF TrialsSound, ImportsSound
<1>3. importer'[i].at = "idle" /\ DOMAIN importer' = Importers
  BY DEF TrialsSound, ImportsSound, Evaluation!Resting
<1>4. \A j, k \in Importers : \A u :
        (j # k /\ Importing(j, u)' /\ Importing(k, u)') => u \in overlapped'
  BY <1>2, <1>3 DEF TrialsSound, ImportsSound, Importing
<1>5. CASE lines' = lines
  <2>1. \A n, u : RecordsTrial(n, u)' <=> RecordsTrial(n, u)
    BY <1>5 DEF RecordsTrial
  <2>2. LinesSound'
    BY <1>5 DEF TrialsSound, LinesSound, Evaluation!RecordedOnce
  <2>3. \A j \in Importers : \A u : Writing(j, u)' => Writing(j, u)
    BY <1>2, <1>3 DEF Writing
  <2>4. \A j \in Importers, n \in DOMAIN lines' : \A u :
          (Writing(j, u) /\ RecordsTrial(n, u)) => u \in overlapped'
    BY <1>5 DEF TrialsSound, ImportsSound
  <2>5. \A j \in Importers, n \in DOMAIN lines' : \A u :
          (Writing(j, u)' /\ RecordsTrial(n, u)') => u \in overlapped'
    BY <2>1, <2>3, <2>4
  <2>6. ImportsSound'
    BY <1>3, <1>4, <2>5, Zenon DEF ImportsSound
  <2> QED BY <2>2, <2>6 DEF TrialsSound
<1>6. CASE /\ \E S : lines' \in Seq(S)
           /\ Len(lines) \in Nat /\ DOMAIN lines = 1..Len(lines)
           /\ DOMAIN lines' = 1..(Len(lines) + 1)
           /\ lines'[Len(lines) + 1] = <<importer[i].record>>
           /\ \A n \in 1..Len(lines) : lines'[n] = lines[n]
  <2>1. PICK m : m = Len(lines) + 1
    OBVIOUS
  <2>2. DOMAIN lines' = DOMAIN lines \cup {m} /\ m \notin DOMAIN lines
        /\ \A n \in DOMAIN lines : lines'[n] = lines[n]
    <3>1. \A k \in Nat : 1..(k + 1) = 1..k \cup {k + 1} /\ k + 1 \notin 1..k
      OBVIOUS
    <3> QED BY <1>6, <2>1, <3>1
  <2>3. lines'[m] # <<>> /\ lines'[m][1].trial = t
    BY <1>1, <1>6, <2>1
  <2>4. \A n \in DOMAIN lines : RecordsTrial(n, t) => t \in overlapped
    BY <1>1 DEF TrialsSound, ImportsSound, Writing
  <2>5. Evaluation!RecordedOnce'
    BY <2>2, <2>3, <2>4 DEF TrialsSound, LinesSound, RecordsTrial, Evaluation!RecordedOnce,
       Evaluation!Torn
  <2>6. ASSUME NEW j \in Importers, NEW n \in DOMAIN lines', NEW u,
               Writing(j, u)', RecordsTrial(n, u)'
        PROVE  u \in overlapped'
    <3>1. j # i /\ Writing(j, u)
      BY <1>2, <1>3, <2>6 DEF Writing
    <3>2. CASE n = m
      <4>1. u = t
        BY <2>3, <2>6, <3>2 DEF RecordsTrial
      <4> QED BY <1>1, <3>1, <4>1 DEF TrialsSound, ImportsSound, Importing, Writing
    <3>3. CASE n # m
      <4>1. n \in DOMAIN lines /\ RecordsTrial(n, u)
        BY <2>2, <2>6, <3>3 DEF RecordsTrial
      <4> QED BY <3>1, <4>1 DEF TrialsSound, ImportsSound
    <3> QED BY <3>2, <3>3
  <2> QED BY <1>3, <1>4, <1>6, <2>5, <2>6 DEF TrialsSound, LinesSound, ImportsSound
<1> QED BY <1>5, <1>6, LineAppended

(* An importer stops without a line of its trial.                            *)
LEMMA ImportDropped ==
  ASSUME TrialsSound, NEW i \in Importers,
         lines' = lines \/ lines' = Evaluation!Appended(Evaluation!Torn),
         importer' = [importer EXCEPT ![i] = Evaluation!Resting],
         overlapped' = overlapped
  PROVE  TrialsSound'
<1>1. \A j \in Importers : j # i => importer'[j] = importer[j]
  BY DEF TrialsSound, ImportsSound
<1>2. importer'[i].at = "idle" /\ DOMAIN importer' = Importers
  BY DEF TrialsSound, ImportsSound, Evaluation!Resting
<1>3. \A j, k \in Importers : \A u :
        (j # k /\ Importing(j, u)' /\ Importing(k, u)') => u \in overlapped'
  BY <1>1, <1>2 DEF TrialsSound, ImportsSound, Importing
<1>4. /\ \E S : lines' \in Seq(S)
      /\ DOMAIN lines \subseteq DOMAIN lines'
      /\ \A n \in DOMAIN lines : lines'[n] = lines[n]
      /\ \A n \in DOMAIN lines' : lines'[n] # <<>> => n \in DOMAIN lines
  <2>1. CASE lines' = lines
    BY <2>1 DEF TrialsSound, LinesSound
  <2>2. CASE /\ \E S : lines' \in Seq(S)
             /\ Len(lines) \in Nat /\ DOMAIN lines = 1..Len(lines)
             /\ DOMAIN lines' = 1..(Len(lines) + 1)
             /\ lines'[Len(lines) + 1] = Evaluation!Torn
             /\ \A n \in 1..Len(lines) : lines'[n] = lines[n]
    BY <2>2 DEF Evaluation!Torn
  <2> QED BY <2>1, <2>2, LineAppended
<1>5. Evaluation!RecordedOnce'
  BY <1>4 DEF TrialsSound, LinesSound, Evaluation!RecordedOnce, Evaluation!Torn
<1>6. ASSUME NEW j \in Importers, NEW n \in DOMAIN lines', NEW u,
             Writing(j, u)', RecordsTrial(n, u)'
      PROVE  u \in overlapped'
  <2>1. Writing(j, u)
    BY <1>1, <1>2, <1>6 DEF Writing
  <2>2. n \in DOMAIN lines /\ RecordsTrial(n, u)
    BY <1>4, <1>6 DEF RecordsTrial
  <2> QED BY <2>1, <2>2 DEF TrialsSound, ImportsSound
<1> QED BY <1>2, <1>3, <1>4, <1>5, <1>6 DEF TrialsSound, LinesSound, ImportsSound

LEMMA ImportStarted ==
  ASSUME TrialsSound, NEW i \in Importers, Evaluation!Import(i)
  PROVE  TrialsSound'
<1>1. PICK trial \in Evaluation!Range(Evaluation!NextAssignment) \cup Evaluation!Keys,
           result \in Results :
        /\ importer' = [importer EXCEPT ![i] =
               [at |-> "load", record |-> Evaluation!Record(trial, result)]]
        /\ overlapped' = overlapped \cup
             {trial : j \in {k \in Importers \ {i} :
                        importer[k].at # "idle" /\ importer[k].record.trial = trial}}
  BY DEF Evaluation!Import
<1>2. lines' = lines
  BY DEF Evaluation!Import
<1>3. Evaluation!Record(trial, result).trial = trial
  BY DEF Evaluation!Record
<1>4. /\ \A j \in Importers : j # i => importer'[j] = importer[j]
      /\ importer'[i].at = "load" /\ importer'[i].record.trial = trial
      /\ DOMAIN importer' = Importers
  BY <1>1, <1>3 DEF TrialsSound, ImportsSound
<1>5. /\ overlapped \subseteq overlapped'
      /\ \A j \in Importers : (j # i /\ Importing(j, trial)) => trial \in overlapped'
  BY <1>1 DEF Importing
<1>6. \A j, k \in Importers : \A u :
        (j # k /\ Importing(j, u)' /\ Importing(k, u)') => u \in overlapped'
  <2> SUFFICES ASSUME NEW j \in Importers, NEW k \in Importers, NEW u,
                      j # k, Importing(j, u)', Importing(k, u)'
               PROVE  u \in overlapped'
    OBVIOUS
  <2>1. CASE j # i /\ k # i
    BY <1>4, <1>5, <2>1 DEF TrialsSound, ImportsSound, Importing
  <2>2. CASE j = i
    BY <1>4, <1>5, <2>2 DEF Importing
  <2>3. CASE k = i
    BY <1>4, <1>5, <2>3 DEF Importing
  <2> QED BY <2>1, <2>2, <2>3
<1>7. LinesSound'
  BY <1>2, <1>5 DEF TrialsSound, LinesSound, Evaluation!RecordedOnce
<1>8. ImportsSound'
  <2>1. \A j \in Importers : \A u : Writing(j, u)' => Writing(j, u)
    BY <1>4 DEF Writing
  <2>2. \A n \in DOMAIN lines' : \A u : RecordsTrial(n, u)' => n \in DOMAIN lines /\
     RecordsTrial(n, u)
    BY <1>2 DEF RecordsTrial
  <2> QED BY <1>4, <1>5, <1>6, <2>1, <2>2 DEF TrialsSound, ImportsSound
<1> QED BY <1>7, <1>8 DEF TrialsSound

LEMMA ImportChecked ==
  ASSUME TrialsSound, NEW i \in Importers, Evaluation!Checked(i)
  PROVE  TrialsSound'
<1>1. lines' = lines /\ overlapped' = overlapped /\ importer[i].at = "load"
  BY DEF Evaluation!Checked
<1>2. CASE importer' = [importer EXCEPT ![i] = Evaluation!Resting]
  BY <1>1, <1>2, ImportDropped
<1>3. CASE /\ importer' = [importer EXCEPT ![i].at = "append"]
           /\ ~ Evaluation!Settled(importer[i].record)
  <2>1. /\ \A j \in Importers : j # i => importer'[j] = importer[j]
        /\ importer'[i].at = "append" /\ importer'[i].record = importer[i].record
        /\ DOMAIN importer' = Importers
    BY <1>3 DEF TrialsSound, ImportsSound
  <2>2. \A n \in DOMAIN lines : ~ RecordsTrial(n, importer[i].record.trial)
    BY <1>3 DEF Evaluation!Settled, Evaluation!Keys, Evaluation!Recorded, Evaluation!Torn,
       RecordsTrial
  <2>3. \A j \in Importers : \A u : Importing(j, u)' => Importing(j, u)
    BY <1>1, <2>1 DEF Importing
  <2>4. LinesSound'
    BY <1>1 DEF TrialsSound, LinesSound, Evaluation!RecordedOnce
  <2>5. \A j \in Importers : \A u : Writing(j, u)' =>
           Writing(j, u) \/ (j = i /\ u = importer[i].record.trial)
    BY <2>1 DEF Writing
  <2>6. \A n \in DOMAIN lines' : \A u : RecordsTrial(n, u)' => n \in DOMAIN lines /\
     RecordsTrial(n, u)
    BY <1>1 DEF RecordsTrial
  <2>7. ImportsSound'
    BY <1>1, <2>1, <2>2, <2>3, <2>5, <2>6 DEF TrialsSound, ImportsSound
  <2> QED BY <2>4, <2>7 DEF TrialsSound
<1> QED
  <2>1. \/ importer' = [importer EXCEPT ![i] = Evaluation!Resting]
        \/ importer' = [importer EXCEPT ![i] = [importer[i] EXCEPT !.at = "append"]]
           /\ ~ Evaluation!Settled(importer[i].record)
    BY DEF Evaluation!Checked
  <2> QED BY <1>2, <1>3, <2>1

LEMMA TrialsKept == TrialsSound /\ [Evaluation!Next]_trialVars => TrialsSound'
<1> SUFFICES ASSUME TrialsSound, [Evaluation!Next]_trialVars PROVE TrialsSound'
  OBVIOUS
<1>1. ASSUME NEW i \in Importers, Evaluation!AppendTrial(i) PROVE TrialsSound'
  BY <1>1, LineRecorded DEF Evaluation!AppendTrial
<1>2. ASSUME NEW i \in Importers, Evaluation!Crash(i) PROVE TrialsSound'
  <2>1. /\ importer' = [importer EXCEPT ![i] = Evaluation!Resting]
        /\ overlapped' = overlapped
        /\ \/ lines' = lines
           \/ lines' = Evaluation!Appended(Evaluation!Torn)
           \/ importer[i].at = "append" /\ lines' = Evaluation!Appended(<<importer[i].record>>)
    BY <1>2 DEF Evaluation!Crash
  <2> QED BY <2>1, ImportDropped, LineRecorded
<1>3. ASSUME UNCHANGED <<lines, importer, overlapped>> PROVE TrialsSound'
  BY <1>3 DEF TrialsSound, LinesSound, ImportsSound, RecordsTrial, Importing,
     Writing, Evaluation!RecordedOnce
<1>4. CASE Evaluation!Analyze
  BY <1>3, <1>4 DEF Evaluation!Analyze
<1> QED BY <1>1, <1>2, <1>3, <1>4, ImportStarted, ImportChecked
    DEF Evaluation!Next, trialVars

(* The result file has one line of a trial, unless two imports of it overlapped. *)
THEOREM TrialsRecordedOnce == SpecAll => []RecordedOnce
<1>1. InitAll => TrialsSound
  BY TrialsStart DEF InitAll
<1>3. TrialsSound /\ [NextAll]_allVars => TrialsSound'
  BY PartSteps, TrialsKept
<1>4. TrialsSound => RecordedOnce
  BY DEF TrialsSound, LinesSound, RecordedOnce
<1> QED BY <1>1, <1>3, <1>4, PTL DEF SpecAll

(***************************************************************************)
(* Worktree. RecordReliable is not inductive: it needs who holds the lock  *)
(* (Locked), that a writer who is alone finds in the temporary file what   *)
(* it wrote (Intact), and, while nothing has made the record unsure, what  *)
(* the files say at each point of a worktree's life (Present, Absent,      *)
(* Added).                                                                 *)
(***************************************************************************)

TreePoints == {"create", "probe", "open", "write", "replace", "remove", "unlink"}
TreeBusy == [at : TreePoints, op : {"create", "load", "remove"}, base : Nat, through : BOOLEAN]
TreeFile == {<<>>, Worktrees!Torn} \cup {<<b>> : b \in Nat}

TreeTyped ==
         /\ head \in Nat /\ ends \in Nat
         /\ worktree \in {<<>>} \cup {<<b>> : b \in Nat}
         /\ record \in TreeFile /\ temporary \in TreeFile
         /\ holder = {} \/ \E p \in Processes : holder = {p}
         /\ process \in [Processes -> {Worktrees!Idle} \cup TreeBusy]
         /\ unsure \subseteq {"overtaken", "overlapped", "abandoned"}

(* A file is empty, torn or one revision, and only one of them. *)
LEMMA TreeFiles ==
  /\ Worktrees!Torn \in TreeFile /\ <<>> \in TreeFile /\ Worktrees!Torn # <<>>
  /\ \A b \in Nat : <<b>> \in TreeFile /\ <<b>> # <<>> /\ <<b>> # Worktrees!Torn
  /\ \A f \in TreeFile : f \notin {<<>>, Worktrees!Torn} => f[1] \in Nat /\ f = <<f[1]>>
<1>1. \A b \in Nat : Len(<<b>>) = 1 /\ <<b>>[1] = b
  OBVIOUS
<1>2. Len(Worktrees!Torn) = 2 /\ Len(<<>>) = 0
  BY DEF Worktrees!Torn
<1> QED BY SMTT(20), <1>1, <1>2 DEF TreeFile

(* What a process at some point is. *)
LEMMA Shapes ==
  /\ Worktrees!Idle.at = "idle" /\ "idle" \notin TreePoints
  /\ \A x \in TreeBusy : x.at \in TreePoints /\ x # Worktrees!Idle
  /\ \A pt \in TreePoints, op \in {"create", "load", "remove"}, b \in Nat :
       /\ Worktrees!Doing(pt, op, b) \in TreeBusy
       /\ Worktrees!Doing(pt, op, b).at = pt /\ Worktrees!Doing(pt, op, b).op = op
       /\ Worktrees!Doing(pt, op, b).base = b /\ Worktrees!Doing(pt, op, b).through = FALSE
  /\ \A x \in TreeBusy, pt \in TreePoints :
       /\ [x EXCEPT !.at = pt] \in TreeBusy /\ [x EXCEPT !.at = pt].at = pt
       /\ [x EXCEPT !.at = pt].op = x.op /\ [x EXCEPT !.at = pt].base = x.base
       /\ [x EXCEPT !.at = pt].through = x.through
  /\ \A x \in TreeBusy :
       /\ [x EXCEPT !.through = TRUE] \in TreeBusy /\ [x EXCEPT !.through = TRUE].at = x.at
       /\ [x EXCEPT !.through = TRUE].op = x.op /\ [x EXCEPT !.through = TRUE].base = x.base
       /\ [x EXCEPT !.through = TRUE].through = TRUE
<1>1. Worktrees!Idle.at = "idle" /\ "idle" \notin TreePoints
  BY DEF Worktrees!Idle, TreePoints
<1>2. \A x \in TreeBusy : x.at \in TreePoints /\ x # Worktrees!Idle
  <2> SUFFICES ASSUME NEW x \in TreeBusy PROVE x.at \in TreePoints /\ x # Worktrees!Idle
    OBVIOUS
  <2>1. x.at \in TreePoints
    BY DEF TreeBusy
  <2> QED BY <1>1, <2>1
<1>3. ASSUME NEW pt \in TreePoints, NEW op \in {"create", "load", "remove"}, NEW b \in Nat
      PROVE  /\ Worktrees!Doing(pt, op, b) \in TreeBusy
             /\ Worktrees!Doing(pt, op, b).at = pt /\ Worktrees!Doing(pt, op, b).op = op
             /\ Worktrees!Doing(pt, op, b).base = b /\ Worktrees!Doing(pt, op, b).through = FALSE
  BY DEF TreeBusy, Worktrees!Doing
<1>4. ASSUME NEW x \in TreeBusy, NEW pt \in TreePoints
      PROVE  /\ [x EXCEPT !.at = pt] \in TreeBusy /\ [x EXCEPT !.at = pt].at = pt
             /\ [x EXCEPT !.at = pt].op = x.op /\ [x EXCEPT !.at = pt].base = x.base
             /\ [x EXCEPT !.at = pt].through = x.through
  BY DEF TreeBusy
<1>5. ASSUME NEW x \in TreeBusy
      PROVE  /\ [x EXCEPT !.through = TRUE] \in TreeBusy /\ [x EXCEPT !.through = TRUE].at = x.at
             /\ [x EXCEPT !.through = TRUE].op = x.op
             /\ [x EXCEPT !.through = TRUE].base = x.base
             /\ [x EXCEPT !.through = TRUE].through = TRUE
  BY DEF TreeBusy
<1> QED BY <1>1, <1>2, <1>3, <1>4, <1>5

(* A process that is at a point is busy. *)
LEMMA AtPoint ==
  ASSUME TreeTyped, NEW p \in Processes
  PROVE  /\ process[p] = Worktrees!Idle \/ process[p] \in TreeBusy
         /\ process[p].at = "idle" <=> process[p] = Worktrees!Idle
         /\ process[p].at # "idle" => process[p] \in TreeBusy /\ process[p].base \in Nat
<1>1. process[p] = Worktrees!Idle \/ process[p] \in TreeBusy
  BY DEF TreeTyped
<1> QED BY <1>1, Shapes DEF TreeBusy

LEMMA TypesStart == Worktrees!Init => TreeTyped
<1> SUFFICES ASSUME Worktrees!Init PROVE TreeTyped
  OBVIOUS
<1>1. process \in [Processes -> {Worktrees!Idle} \cup TreeBusy]
  BY DEF Worktrees!Init
<1> QED BY <1>1, TreeFiles DEF Worktrees!Init, TreeTyped

LEMMA OverTyped == ASSUME TreeTyped, NEW p \in Processes, Worktrees!Over(p)
                   PROVE  /\ process' \in [Processes -> {Worktrees!Idle} \cup TreeBusy]
                          /\ holder' = {} \/ \E q \in Processes : holder' = {q}
<1>1. process' \in [Processes -> {Worktrees!Idle} \cup TreeBusy]
  BY DEF Worktrees!Over, TreeTyped
<1>2. ASSUME holder = {} PROVE holder' = {}
  BY <1>2 DEF Worktrees!Over
<1>3. ASSUME NEW q \in Processes, holder = {q}
      PROVE  holder' = {} \/ holder' = {q}
  BY <1>3 DEF Worktrees!Over
<1> QED BY <1>1, <1>2, <1>3 DEF TreeTyped

LEMMA TypesStep == TreeTyped /\ [Worktrees!Next]_treeVars => TreeTyped'
<1> SUFFICES ASSUME TreeTyped, [Worktrees!Next]_treeVars PROVE TreeTyped'
  OBVIOUS
<1> DEFINE State == {Worktrees!Idle} \cup TreeBusy
<1>0. process \in [Processes -> State]
  BY DEF TreeTyped
<1>1. CASE UNCHANGED treeVars
  BY <1>1 DEF treeVars, Worktrees!files, TreeTyped
<1>2. CASE Worktrees!Commit
  BY <1>2 DEF Worktrees!Commit, Worktrees!files, TreeTyped
<1>3. ASSUME NEW p \in Processes, Worktrees!Create(p)
      PROVE  TreeTyped'
  <2>1. Worktrees!Doing("create", "create", head) \in TreeBusy
    BY Shapes DEF TreePoints, TreeTyped
  <2>2. process' \in [Processes -> State]
    BY ONLY <1>0, <1>3, <2>1 DEF Worktrees!Create
  <2> QED BY <1>3, <2>2 DEF Worktrees!Create, Worktrees!files, TreeTyped
<1>4. ASSUME NEW p \in Processes, Worktrees!Attach(p)
      PROVE  TreeTyped'
  <2>1. CASE record = Worktrees!Torn
    BY <1>4, <2>1, OverTyped DEF Worktrees!Attach, Worktrees!files, TreeTyped
  <2>2. CASE record # Worktrees!Torn
    <3>1. process[p] \in TreeBusy /\ process[p].base \in Nat
      BY <1>4, AtPoint DEF Worktrees!Attach
    <3>2. Worktrees!AttachedBase(p) \in Nat
      BY <2>2, <3>1, TreeFiles DEF Worktrees!AttachedBase, TreeTyped
    <3>3. Worktrees!Doing("probe", "create", Worktrees!AttachedBase(p)) \in TreeBusy
      BY ONLY <3>2, Shapes DEF TreePoints
    <3>4. process' \in [Processes -> State]
      BY ONLY <1>0, <1>4, <2>2, <3>3 DEF Worktrees!Attach
    <3> QED BY <1>4, <2>2, <3>4 DEF Worktrees!Attach, Worktrees!files, TreeTyped
  <2> QED BY <2>1, <2>2
<1>5. ASSUME NEW p \in Processes, Worktrees!Add(p)
      PROVE  TreeTyped'
  <2>1. process[p] \in TreeBusy /\ process[p].base \in Nat
    BY <1>5, AtPoint DEF Worktrees!Add
  <2>2. [process[p] EXCEPT !.at = "probe"] \in TreeBusy
    BY ZenonT(40), <2>1, Shapes DEF TreePoints
  <2>3. process' \in [Processes -> State]
    BY ONLY <1>0, <1>5, <2>2 DEF Worktrees!Add
  <2> QED BY <1>5, <2>1, <2>3 DEF Worktrees!Add, TreeTyped
<1>6. ASSUME NEW p \in Processes, NEW op \in {"load", "remove"}, Worktrees!Load(p, op)
      PROVE  TreeTyped'
  <2>1. record[1] \in Nat
    BY <1>6, TreeFiles DEF Worktrees!Load, TreeTyped
  <2>2. Worktrees!Doing("probe", op, record[1]) \in TreeBusy
    BY ZenonT(40), <2>1, Shapes DEF TreePoints
  <2>3. process' \in [Processes -> State]
    BY ONLY <1>0, <1>6, <2>2 DEF Worktrees!Load
  <2> QED BY <1>6, <2>3 DEF Worktrees!Load, Worktrees!files, TreeTyped
<1>7. ASSUME NEW p \in Processes, Worktrees!RemoveTree(p)
      PROVE  TreeTyped'
  <2>1. process[p] \in TreeBusy
    BY <1>7, AtPoint DEF Worktrees!RemoveTree
  <2>2. [process[p] EXCEPT !.at = "unlink"] \in TreeBusy
    BY ZenonT(40), <2>1, Shapes DEF TreePoints
  <2>3. CASE Worktrees!Over(p) /\ UNCHANGED worktree
    BY <1>7, <2>3, OverTyped DEF Worktrees!RemoveTree, TreeTyped
  <2>4. CASE worktree' = <<>> /\ process' = [process EXCEPT ![p].at = "unlink"]
             /\ UNCHANGED holder
    <3>1. process' \in [Processes -> State]
      BY ONLY <1>0, <2>4, <2>2
    <3> QED BY <1>7, <2>4, <3>1 DEF Worktrees!RemoveTree, TreeTyped
  <2> QED BY <1>7, <2>3, <2>4 DEF Worktrees!RemoveTree
<1>8. ASSUME NEW p \in Processes, Worktrees!Unlink(p)
      PROVE  TreeTyped'
  BY <1>8, OverTyped, TreeFiles DEF Worktrees!Unlink, TreeTyped
<1>9. ASSUME NEW p \in Processes, Worktrees!Probe(p)
      PROVE  TreeTyped'
  <2>1. process[p] \in TreeBusy
    BY <1>9, AtPoint DEF Worktrees!Probe
  <2>2. [process[p] EXCEPT !.at = "open"] \in TreeBusy
    BY ZenonT(40), <2>1, Shapes DEF TreePoints
  <2>3. CASE worktree = <<>>
    BY <1>9, <2>3, OverTyped DEF Worktrees!Probe, Worktrees!files, TreeTyped
  <2>4. CASE worktree # <<>>
    <3>1. process' \in [Processes -> State]
      BY ONLY <1>0, <1>9, <2>4, <2>2 DEF Worktrees!Probe
    <3> QED BY <1>9, <2>4, <3>1 DEF Worktrees!Probe, Worktrees!files, TreeTyped
  <2> QED BY <2>3, <2>4
<1>10. ASSUME NEW p \in Processes, Worktrees!Open(p)
       PROVE  TreeTyped'
  <2>1. [process[p] EXCEPT !.at = "write"] \in TreeBusy
    BY ZenonT(40), <1>10, AtPoint, Shapes DEF Worktrees!Open, TreePoints
  <2>2. process' \in [Processes -> State]
    BY ONLY <1>0, <1>10, <2>1 DEF Worktrees!Open
  <2> QED BY <1>10, <2>2, TreeFiles DEF Worktrees!Open, TreeTyped
<1>11. ASSUME NEW p \in Processes, Worktrees!Write(p)
       PROVE  TreeTyped'
  <2>1. process[p] \in TreeBusy /\ process[p].base \in Nat
    BY <1>11, AtPoint DEF Worktrees!Write
  <2>2. [process[p] EXCEPT !.at = "replace"] \in TreeBusy
    BY ZenonT(40), <2>1, Shapes DEF TreePoints
  <2>3. process' \in [Processes -> State]
    BY ONLY <1>0, <1>11, <2>2 DEF Worktrees!Write
  <2>4. record' \in TreeFile /\ temporary' \in TreeFile
    BY <1>11, <2>1, TreeFiles DEF Worktrees!Write, TreeTyped
  <2> QED BY <1>11, <2>3, <2>4 DEF Worktrees!Write, TreeTyped
<1>12. ASSUME NEW p \in Processes, Worktrees!Replace(p)
       PROVE  TreeTyped'
  <2>1. process[p] \in TreeBusy
    BY <1>12, AtPoint DEF Worktrees!Replace
  <2>2. [process[p] EXCEPT !.at = "remove"] \in TreeBusy
    BY ZenonT(40), <2>1, Shapes DEF TreePoints
  <2>3. ASSUME NEW q \in Processes
        PROVE  /\ process[q] \in State
               /\ process[q].at = "write" => [process[q] EXCEPT !.through = TRUE] \in TreeBusy
    BY AtPoint, Shapes
  <2>4. process' \in [Processes -> State]
    BY ONLY <1>12, <2>2, <2>3 DEF Worktrees!Replace
  <2>5. holder' = {} \/ \E q \in Processes : holder' = {q}
    BY <1>12 DEF Worktrees!Replace, TreeTyped
  <2> QED BY <1>12, <2>4, <2>5, TreeFiles DEF Worktrees!Replace, TreeTyped
<1>13. ASSUME NEW p \in Processes, Worktrees!ReplaceGone(p)
       PROVE  TreeTyped'
  BY <1>13, OverTyped DEF Worktrees!ReplaceGone, Worktrees!files, TreeTyped
<1>14. ASSUME NEW p \in Processes, Worktrees!Kill(p)
       PROVE  TreeTyped'
  BY <1>14, OverTyped DEF Worktrees!Kill, Worktrees!files, TreeTyped
<1> QED BY <1>1, <1>2, <1>3, <1>4, <1>5, <1>6, <1>7, <1>8, <1>9, <1>10, <1>11, <1>12, <1>13,
           <1>14 DEF Worktrees!Next

(* Every variable keeps its type; the bounds of the model are numbers. *)
THEOREM WorktreeTypes ==
  ASSUME MaxRevisions \in Nat, MaxTreeKills \in Nat
  PROVE  SpecAll => []Worktrees!TypeOK
<1> DEFINE Bounded == head <= MaxRevisions /\ ends <= MaxTreeKills
<1>1. InitAll => TreeTyped /\ Bounded
  BY TypesStart DEF InitAll, Worktrees!Init
<1>2. TreeTyped /\ Bounded /\ [NextAll]_allVars => TreeTyped' /\ Bounded'
  <2> SUFFICES ASSUME TreeTyped, Bounded, [Worktrees!Next]_treeVars PROVE Bounded'
    BY TypesStep, PartSteps
  <2> QED BY DEF Worktrees!Next, treeVars, TreeTyped, Worktrees!Commit, Worktrees!Create,
     Worktrees!Attach, Worktrees!Add, Worktrees!Load, Worktrees!RemoveTree, Worktrees!Unlink,
                 Worktrees!Probe, Worktrees!Open, Worktrees!Write, Worktrees!Replace,
                    Worktrees!ReplaceGone, Worktrees!Kill
<1>3. TreeTyped /\ Bounded => Worktrees!TypeOK
  <2> SUFFICES ASSUME TreeTyped, Bounded PROVE Worktrees!TypeOK
    OBVIOUS
  <2>1. Cardinality(holder) <= 1
    <3>1. CASE holder = {}
      <4>1. Cardinality({}) = 0
        BY FS_EmptySet
      <4> QED BY <3>1, <4>1
    <3>2. ASSUME NEW p \in Processes, holder = {p}
          PROVE  Cardinality(holder) <= 1
      <4>1. Cardinality({p}) = 1
        BY FS_Singleton
      <4> QED BY <3>2, <4>1
    <3> QED BY <3>1, <3>2 DEF TreeTyped
  <2>2. ASSUME NEW f \in {<<>>} \cup {<<b>> : b \in Nat}
        PROVE  Len(f) <= 1
    <3>1. CASE f = <<>>
      BY <3>1
    <3>2. ASSUME NEW b \in Nat, f = <<b>>
          PROVE  Len(f) <= 1
      BY <3>2
    <3> QED BY <3>1, <3>2
  <2>3. \A f \in TreeFile : f = Worktrees!Torn \/ Len(f) <= 1
    BY <2>2 DEF TreeFile
  <2>4. Worktrees!Cardinality(holder) = Cardinality(holder)
    BY DEF Worktrees!Cardinality, Cardinality
  <2>5. Len(worktree) <= 1
    BY <2>2 DEF TreeTyped
  <2> QED BY <2>1, <2>3, <2>4, <2>5 DEF Worktrees!TypeOK, TreeTyped
<1> QED BY <1>1, <1>2, <1>3, PTL DEF SpecAll


WritingTree(p) == process[p].at \in {"write", "replace"}
RecordingTree(p) == process[p].at \in {"probe", "open", "write", "replace"}

(* Whoever creates or removes holds the lock; a removal finds the worktree and
   the record it began with until it deletes them; nobody writes through a file
   it has not opened. *)
Locked ==
    \A p \in Processes :
        process[p].at # "idle" =>
            /\ process[p].op # "load" => holder = {p}
            /\ process[p].at = "create" => process[p].op = "create"
            /\ process[p].at \in {"remove", "unlink"} => process[p].op = "remove"
            /\ process[p].at \in {"create", "probe", "open"} => ~process[p].through
            /\ process[p].op = "remove" =>
                  /\ process[p].at = "unlink" <=> worktree = <<>>
                  /\ record # <<>>

(* Who writes the record alone moves over it what it wrote. *)
Intact ==
    /\ \A p, q \in Processes :
          p # q /\ WritingTree(p) /\ WritingTree(q) => "overlapped" \in unsure
    /\ "overlapped" \notin unsure =>
          /\ record # Worktrees!Torn
          /\ \A p \in Processes :
                /\ process[p].at # "idle" => ~process[p].through
                /\ process[p].at = "replace" => temporary = <<process[p].base>>

Sure == unsure \cap {"overtaken", "abandoned"} = {}

(* While there is a worktree, whatever is or will be recorded is its base. *)
Present ==
    worktree # <<>> =>
        /\ record \in {<<>>, Worktrees!Torn, worktree}
        /\ \A p \in Processes :
              /\ RecordingTree(p) => <<process[p].base>> = worktree
              /\ WritingTree(p) => temporary \in {<<>>, Worktrees!Torn, worktree}

(* While there is none, nobody is about to write, and a record is there only
   for its removal to delete. *)
Absent ==
    worktree = <<>> =>
        /\ \A p \in Processes : process[p].at \in {"idle", "create", "unlink"}
        /\ record = <<>> \/ \E p \in Processes : process[p].at = "unlink"

(* A worktree without a record is one that is being created. *)
Added ==
    worktree # <<>> /\ record = <<>> =>
        \E p \in Processes :
            /\ RecordingTree(p) /\ process[p].op = "create" /\ ~process[p].through
            /\ process[p].at = "replace" => temporary # <<>>
            /\ \A q \in Processes \ {p} : process[q].at = "idle"

Relied == Locked /\ Intact /\ (Sure => Present /\ Absent /\ Added)

LEMMA ReliedStart == Worktrees!Init => Relied
<1> SUFFICES ASSUME Worktrees!Init PROVE Relied
  OBVIOUS
<1>1. \A p \in Processes : process[p].at = "idle"
  BY Shapes DEF Worktrees!Init
<1>2. <<>> # Worktrees!Torn
  BY TreeFiles
<1> QED BY <1>1, <1>2 DEF Worktrees!Init, Relied, Locked, Intact, Present, Absent, Added,
   WritingTree, RecordingTree

LEMMA OverEffect ==
  ASSUME TreeTyped, NEW p \in Processes, Worktrees!Over(p)
  PROVE  /\ \A q \in Processes \ {p} : process'[q] = process[q]
         /\ process'[p].at = "idle"
         /\ holder' = holder \ {p}
BY Shapes DEF Worktrees!Over, TreeTyped

LEMMA StepEffect ==
  ASSUME TreeTyped, NEW p \in Processes, NEW pt \in TreePoints, process[p].at # "idle",
         process' = [process EXCEPT ![p].at = pt]
  PROVE  /\ \A q \in Processes \ {p} : process'[q] = process[q]
         /\ process'[p].at = pt /\ process'[p].op = process[p].op
         /\ process'[p].base = process[p].base /\ process'[p].through = process[p].through
<1>1. process[p] \in TreeBusy
  BY AtPoint
<1>2. process'[p] = [process[p] EXCEPT !.at = pt]
  BY DEF TreeTyped
<1>3. \A q \in Processes \ {p} : process'[q] = process[q]
  BY DEF TreeTyped
<1>4. LET x == [process[p] EXCEPT !.at = pt]
      IN  /\ x.at = pt /\ x.op = process[p].op /\ x.base = process[p].base
          /\ x.through = process[p].through
  BY <1>1, Shapes
<1> QED BY ONLY <1>2, <1>3, <1>4

LEMMA DoingEffect ==
  ASSUME TreeTyped, NEW p \in Processes, NEW pt \in TreePoints, NEW op \in {"create", "load",
     "remove"},
         NEW b \in Nat, process' = [process EXCEPT ![p] = Worktrees!Doing(pt, op, b)]
  PROVE  /\ \A q \in Processes \ {p} : process'[q] = process[q]
         /\ process'[p].at = pt /\ process'[p].op = op
         /\ process'[p].base = b /\ ~process'[p].through
<1>1. process'[p] = Worktrees!Doing(pt, op, b)
  BY DEF TreeTyped
<1>2. \A q \in Processes \ {p} : process'[q] = process[q]
  BY DEF TreeTyped
<1> QED BY <1>1, <1>2, Shapes



(* One step keeps what makes the record reliable. *)
LEMMA ReliedStep == TreeTyped /\ Relied /\ [Worktrees!Next]_treeVars => Relied'
<1> SUFFICES ASSUME TreeTyped, Relied, [Worktrees!Next]_treeVars PROVE Relied'
  OBVIOUS
<1> DEFINE Kept == Sure => Present /\ Absent /\ Added
<1>0. Locked /\ Intact /\ Kept
  BY DEF Relied
<1>1. CASE UNCHANGED treeVars
  BY <1>1 DEF treeVars, Relied, Locked, Intact, Sure, Present, Absent, Added, WritingTree,
     RecordingTree
<1>2. CASE Worktrees!Commit
  BY <1>2 DEF Worktrees!Commit, Worktrees!files, Relied, Locked, Intact, Sure, Present, Absent,
     Added, WritingTree,
              RecordingTree
<1>3. ASSUME NEW p \in Processes, Worktrees!Create(p)
      PROVE  Relied'
  <2>1. head \in Nat /\ "create" \in TreePoints
    BY DEF TreeTyped, TreePoints
  <2>2. process' = [process EXCEPT ![p] = Worktrees!Doing("create", "create", head)]
    BY <1>3 DEF Worktrees!Create
  <2>3. /\ \A q \in Processes \ {p} : process'[q] = process[q]
        /\ process'[p].at = "create" /\ process'[p].op = "create" /\ ~process'[p].through
    BY ONLY <2>1, <2>2, TreeTyped, DoingEffect
  <2>4. /\ process[p].at = "idle" /\ holder = {} /\ holder' = {p}
        /\ UNCHANGED <<worktree, record, temporary, unsure>>
    BY <1>3 DEF Worktrees!Create, Worktrees!files
  <2>8. Locked'
    BY ONLY <2>3, <2>4, <1>0 DEF Locked
  <2>9. Intact'
    BY ONLY <2>3, <2>4, <1>0 DEF Intact, WritingTree
  <2>10. Kept'
    BY ONLY <2>3, <2>4, <1>0 DEF Kept, Sure, Present, Absent, Added, Locked, Intact, WritingTree,
       RecordingTree
  <2> QED BY <2>8, <2>9, <2>10 DEF Relied
<1>4. ASSUME NEW p \in Processes, Worktrees!Attach(p)
      PROVE  Relied'
  <2>1. CASE record = Worktrees!Torn
    <3>1. /\ \A q \in Processes \ {p} : process'[q] = process[q]
          /\ process'[p].at = "idle" /\ holder' = holder \ {p}
      BY <1>4, <2>1, OverEffect DEF Worktrees!Attach
    <3>2. /\ process[p].at = "create" /\ worktree # <<>> /\ record # <<>>
          /\ UNCHANGED <<worktree, record, temporary, unsure>>
      BY <1>4, <2>1, TreeFiles DEF Worktrees!Attach, Worktrees!files
    <3>3. Locked'
      BY ONLY <3>1, <3>2, <1>0 DEF Locked
    <3>4. Intact'
      BY ONLY <3>1, <3>2, <1>0 DEF Intact, WritingTree
    <3>5. Kept'
      BY ONLY <3>1, <3>2, <1>0 DEF Kept, Sure, Present, Absent, Added, WritingTree, RecordingTree
    <3> QED BY <3>3, <3>4, <3>5 DEF Relied
  <2>2. CASE record # Worktrees!Torn
    <3>1. process[p].base \in Nat
      BY <1>4, AtPoint DEF Worktrees!Attach
    <3>2. /\ Worktrees!AttachedBase(p) \in Nat /\ "probe" \in TreePoints
          /\ record # <<>> => <<Worktrees!AttachedBase(p)>> = record
      BY <2>2, <3>1, TreeFiles DEF Worktrees!AttachedBase, TreeTyped, TreePoints
    <3>3. process' = [process EXCEPT ![p] = Worktrees!Doing("probe", "create",
       Worktrees!AttachedBase(p))]
      BY <1>4, <2>2 DEF Worktrees!Attach
    <3>4. /\ \A q \in Processes \ {p} : process'[q] = process[q]
          /\ process'[p].at = "probe" /\ process'[p].op = "create" /\ ~process'[p].through
          /\ process'[p].base = Worktrees!AttachedBase(p)
      <4>1. /\ process'[p] = Worktrees!Doing("probe", "create", Worktrees!AttachedBase(p))
            /\ \A q \in Processes \ {p} : process'[q] = process[q]
        BY <3>3 DEF TreeTyped
      <4>2. LET x == Worktrees!Doing("probe", "create", Worktrees!AttachedBase(p))
            IN  /\ x.at = "probe" /\ x.op = "create" /\ ~x.through
                /\ x.base = Worktrees!AttachedBase(p)
        BY ONLY <3>2, Shapes
      <4> QED BY ONLY <4>1, <4>2
    <3>5. /\ process[p].at = "create" /\ worktree # <<>>
          /\ UNCHANGED <<worktree, record, temporary, unsure, holder>>
      BY <1>4, <2>2 DEF Worktrees!Attach, Worktrees!files
    <3>6. Sure => record = worktree
      BY ONLY <3>5, <2>2, <1>0 DEF Kept, Present, Added, RecordingTree
    <3>7. Locked'
      BY ONLY <3>4, <3>5, <1>0 DEF Locked
    <3>8. Intact'
      BY ONLY <3>4, <3>5, <1>0 DEF Intact, WritingTree
    <3>9. Kept'
      BY ONLY <3>2, <3>4, <3>5, <3>6, <1>0
         DEF Kept, Sure, Present, Absent, Added, WritingTree, RecordingTree
    <3> QED BY <3>7, <3>8, <3>9 DEF Relied
  <2> QED BY <2>1, <2>2
<1>5. ASSUME NEW p \in Processes, Worktrees!Add(p)
      PROVE  Relied'
  <2>1. process[p].at = "create" /\ process[p].base \in Nat /\ "probe" \in TreePoints
    BY <1>5, AtPoint DEF Worktrees!Add, TreePoints
  <2>2. /\ \A q \in Processes \ {p} : process'[q] = process[q]
        /\ process'[p].at = "probe" /\ process'[p].op = process[p].op
        /\ process'[p].base = process[p].base /\ process'[p].through = process[p].through
    BY ONLY <2>1, <1>5, TreeTyped, StepEffect DEF Worktrees!Add
  <2>3. /\ worktree = <<>> /\ worktree' = <<process[p].base>> /\ worktree' # <<>>
        /\ UNCHANGED <<record, temporary, unsure, holder>>
    BY <1>5, <2>1, TreeFiles DEF Worktrees!Add
  <2>8. Locked'
    BY ONLY <2>1, <2>2, <2>3, <1>0 DEF Locked
  <2>9. Intact'
    BY ONLY <2>1, <2>2, <2>3, <1>0 DEF Intact, WritingTree
  <2>10. Kept'
    <3>0. SUFFICES ASSUME Sure PROVE Present' /\ Absent' /\ Added'
      BY <2>3 DEF Kept, Sure
    <3>1. \A q \in Processes \ {p} : process[q].at = "idle"
      BY ONLY <2>1, <2>3, <1>0, <3>0 DEF Kept, Absent, Locked
    <3>2. record = <<>>
      BY ONLY <2>1, <2>3, <3>1, <1>0, <3>0 DEF Kept, Absent
    <3>3. ~process[p].through
      BY ONLY <2>1, <1>0 DEF Locked
    <3>4. Present'
      BY ONLY <2>1, <2>2, <2>3, <3>1, <3>2 DEF Present, RecordingTree, WritingTree
    <3>5. Added'
      BY ONLY <2>1, <2>2, <2>3, <3>1, <3>3, <1>0 DEF Added, Locked, RecordingTree
    <3> QED BY ONLY <3>4, <3>5, <2>3 DEF Absent
  <2> QED BY <2>8, <2>9, <2>10 DEF Relied
<1>6. ASSUME NEW p \in Processes, NEW op \in {"load", "remove"}, Worktrees!Load(p, op)
      PROVE  Relied'
  <2>1. record[1] \in Nat /\ <<record[1]>> = record /\ "probe" \in TreePoints
    BY <1>6, TreeFiles DEF Worktrees!Load, TreeTyped, TreePoints
  <2>2. /\ \A q \in Processes \ {p} : process'[q] = process[q]
        /\ process'[p].at = "probe" /\ process'[p].op = op /\ ~process'[p].through
        /\ process'[p].base = record[1]
    <3> DEFINE b == record[1]
    <3>1. b \in Nat /\ "probe" \in TreePoints /\ op \in {"create", "load", "remove"}
          /\ process' = [process EXCEPT ![p] = Worktrees!Doing("probe", op, b)]
      BY <2>1, <1>6 DEF Worktrees!Load
    <3> HIDE DEF b
    <3>2. /\ \A q \in Processes \ {p} : process'[q] = process[q]
          /\ process'[p].at = "probe" /\ process'[p].op = op /\ ~process'[p].through
          /\ process'[p].base = b
      BY ONLY ZenonT(40), <3>1, TreeTyped, DoingEffect
    <3> QED BY ONLY <3>2 DEF b
  <2>3. /\ process[p].at = "idle" /\ worktree # <<>> /\ record \notin {<<>>, Worktrees!Torn}
        /\ op = "remove" => holder = {} /\ holder' = {p}
        /\ op = "load" => holder' = holder
        /\ UNCHANGED <<worktree, record, temporary, unsure>>
    BY <1>6 DEF Worktrees!Load, Worktrees!files
  <2>8. Locked'
    BY ONLY <2>1, <2>2, <2>3, <1>0 DEF Locked
  <2>9. Intact'
    BY ONLY <2>1, <2>2, <2>3, <1>0 DEF Intact, WritingTree
  <2>10. Kept'
    BY ONLY <2>1, <2>2, <2>3, <1>0 DEF Kept, Sure, Present, Absent, Added, Locked, Intact,
       WritingTree, RecordingTree
  <2> QED BY <2>8, <2>9, <2>10 DEF Relied
<1>7. ASSUME NEW p \in Processes, Worktrees!RemoveTree(p)
      PROVE  Relied'
  <2>1. /\ process[p].at = "remove" /\ process[p].op = "remove" /\ holder = {p}
        /\ worktree # <<>> /\ record # <<>> /\ "unlink" \in TreePoints
    BY <1>7, <1>0 DEF Worktrees!RemoveTree, Locked, TreePoints
  <2>2. /\ UNCHANGED <<record, temporary>>
        /\ unsure \subseteq unsure' /\ unsure' \subseteq unsure \cup {"overtaken"}
        /\ "overtaken" \notin unsure' => \A q \in Processes \ {p} : process[q].at = "idle"
    BY <1>7 DEF Worktrees!RemoveTree
  <2>3. CASE worktree' = <<>> /\ process' = [process EXCEPT ![p].at = "unlink"]
             /\ UNCHANGED holder
    <3>1. /\ \A q \in Processes \ {p} : process'[q] = process[q]
          /\ process'[p].at = "unlink" /\ process'[p].op = process[p].op
          /\ process'[p].base = process[p].base /\ process'[p].through = process[p].through
      BY ONLY <2>1, <2>3, TreeTyped, StepEffect
    <3>2. Locked'
      BY ONLY <2>1, <2>2, <2>3, <3>1, <1>0 DEF Locked
    <3>3. Intact'
      BY ONLY <2>1, <2>2, <2>3, <3>1, <1>0 DEF Intact, WritingTree
    <3>4. Kept'
      BY ONLY <2>1, <2>2, <2>3, <3>1, <1>0 DEF Kept, Sure, Present, Absent, Added
    <3> QED BY <3>2, <3>3, <3>4 DEF Relied
  <2>4. CASE UNCHANGED worktree /\ Worktrees!Over(p)
    <3>1. /\ \A q \in Processes \ {p} : process'[q] = process[q]
          /\ process'[p].at = "idle" /\ holder' = holder \ {p}
      BY ONLY <2>4, TreeTyped, OverEffect
    <3>2. Locked'
      BY ONLY <2>1, <2>2, <2>4, <3>1, <1>0 DEF Locked
    <3>3. Intact'
      BY ONLY <2>1, <2>2, <2>4, <3>1, <1>0 DEF Intact, WritingTree
    <3>4. Kept'
      BY ONLY <2>1, <2>2, <2>4, <3>1, <1>0
         DEF Kept, Sure, Present, Absent, Added, WritingTree, RecordingTree
    <3> QED BY <3>2, <3>3, <3>4 DEF Relied
  <2> QED BY <1>7, <2>3, <2>4 DEF Worktrees!RemoveTree
<1>8. ASSUME NEW p \in Processes, Worktrees!Unlink(p)
      PROVE  Relied'
  <2>1. /\ process[p].at = "unlink" /\ process[p].op = "remove" /\ holder = {p}
        /\ worktree = <<>>
    BY <1>8, <1>0 DEF Worktrees!Unlink, Locked
  <2>2. /\ \A q \in Processes \ {p} : process'[q] = process[q]
        /\ process'[p].at = "idle" /\ holder' = holder \ {p}
    BY <1>8, OverEffect DEF Worktrees!Unlink
  <2>3. record' = <<>> /\ record' # Worktrees!Torn /\ UNCHANGED <<worktree, temporary, unsure>>
    BY <1>8, TreeFiles DEF Worktrees!Unlink
  <2>8. Locked'
    BY ONLY <2>1, <2>2, <2>3, <1>0 DEF Locked
  <2>9. Intact'
    BY ONLY <2>1, <2>2, <2>3, <1>0 DEF Intact, WritingTree
  <2>10. Kept'
    BY ONLY <2>1, <2>2, <2>3, <1>0 DEF Kept, Sure, Present, Absent, Added, Locked, Intact,
       WritingTree, RecordingTree
  <2> QED BY <2>8, <2>9, <2>10 DEF Relied
<1>9. ASSUME NEW p \in Processes, Worktrees!Probe(p)
      PROVE  Relied'
  <2>1. process[p].at = "probe" /\ "open" \in TreePoints
        /\ UNCHANGED <<worktree, record, temporary, unsure>>
    BY <1>9 DEF Worktrees!Probe, Worktrees!files, TreePoints
  <2>2. CASE worktree = <<>>
    <3>1. /\ \A q \in Processes \ {p} : process'[q] = process[q]
          /\ process'[p].at = "idle" /\ holder' = holder \ {p}
      BY <1>9, <2>2, OverEffect DEF Worktrees!Probe
    <3>2. Locked'
      BY ONLY <2>1, <2>2, <3>1, <1>0 DEF Locked
    <3>3. Intact'
      BY ONLY <2>1, <3>1, <1>0 DEF Intact, WritingTree
    <3>4. Kept'
      BY ONLY <2>1, <2>2, <3>1, <1>0 DEF Kept, Sure, Present, Absent, Added
    <3> QED BY <3>2, <3>3, <3>4 DEF Relied
  <2>3. CASE worktree # <<>>
    <3>1. process' = [process EXCEPT ![p].at = "open"] /\ UNCHANGED holder
      BY <1>9, <2>3 DEF Worktrees!Probe
    <3>2. /\ \A q \in Processes \ {p} : process'[q] = process[q]
          /\ process'[p].at = "open" /\ process'[p].op = process[p].op
          /\ process'[p].base = process[p].base /\ process'[p].through = process[p].through
      BY ONLY <2>1, <3>1, TreeTyped, StepEffect
    <3>3. Locked'
      BY ONLY <2>1, <3>1, <3>2, <1>0 DEF Locked
    <3>4. Intact'
      BY ONLY <2>1, <3>2, <1>0 DEF Intact, WritingTree
    <3>5. Kept'
      BY ONLY <2>1, <2>3, <3>2, <1>0
         DEF Kept, Sure, Present, Absent, Added, WritingTree, RecordingTree
    <3> QED BY <3>3, <3>4, <3>5 DEF Relied
  <2> QED BY <2>2, <2>3
<1>10. ASSUME NEW p \in Processes, Worktrees!Open(p)
      PROVE  Relied'
  <2>1. process[p].at = "open" /\ "write" \in TreePoints
        /\ process' = [process EXCEPT ![p].at = "write"]
    BY <1>10 DEF Worktrees!Open, TreePoints
  <2>2. /\ \A q \in Processes \ {p} : process'[q] = process[q]
        /\ process'[p].at = "write" /\ process'[p].op = process[p].op
        /\ process'[p].base = process[p].base /\ process'[p].through = process[p].through
    BY ONLY <2>1, TreeTyped, StepEffect
  <2>3. /\ temporary' = Worktrees!Torn /\ Worktrees!Torn # <<>>
        /\ UNCHANGED <<worktree, record, holder>>
        /\ unsure \subseteq unsure' /\ unsure' \subseteq unsure \cup {"overlapped"}
        /\ "overlapped" \notin unsure' => \A q \in Processes \ {p} : ~WritingTree(q)
    BY <1>10, TreeFiles DEF Worktrees!Open, WritingTree
  <2>8. Locked'
    BY ONLY <2>1, <2>2, <2>3, <1>0 DEF Locked
  <2>9. Intact'
    BY ONLY <2>1, <2>2, <2>3, <1>0 DEF Intact, WritingTree
  <2>10. Kept'
    BY ONLY <2>1, <2>2, <2>3, <1>0 DEF Kept, Sure, Present, Absent, Added, Locked, Intact,
       WritingTree, RecordingTree
  <2> QED BY <2>8, <2>9, <2>10 DEF Relied
<1>11. ASSUME NEW p \in Processes, Worktrees!Write(p)
      PROVE  Relied'
  <2>1. process[p].at = "write" /\ "replace" \in TreePoints
        /\ process' = [process EXCEPT ![p].at = "replace"]
    BY <1>11 DEF Worktrees!Write, TreePoints
  <2>2. /\ \A q \in Processes \ {p} : process'[q] = process[q]
        /\ process'[p].at = "replace" /\ process'[p].op = process[p].op
        /\ process'[p].base = process[p].base /\ process'[p].through = process[p].through
    BY ONLY <2>1, TreeTyped, StepEffect
  <2>3. process[p].base \in Nat /\ <<process[p].base>> # <<>> /\ <<process[p].base>> #
     Worktrees!Torn
    BY <2>1, AtPoint, TreeFiles
  <2>4. /\ UNCHANGED <<worktree, holder, unsure>>
        /\ process[p].through =>
             /\ temporary' = temporary
             /\ record' = IF record = <<>> THEN <<>> ELSE <<process[p].base>>
        /\ ~process[p].through => temporary' = <<process[p].base>> /\ record' = record
    BY <1>11 DEF Worktrees!Write
  <2>8. Locked'
    BY ONLY <2>1, <2>2, <2>3, <2>4, <1>0 DEF Locked
  <2>9. Intact'
    BY ONLY <2>1, <2>2, <2>3, <2>4, <1>0 DEF Intact, WritingTree
  <2>10. Kept'
    BY ONLY <2>1, <2>2, <2>3, <2>4, <1>0 DEF Kept, Sure, Present, Absent, Added, Locked, Intact,
       WritingTree, RecordingTree
  <2> QED BY <2>8, <2>9, <2>10 DEF Relied
<1>12. ASSUME NEW p \in Processes, Worktrees!Replace(p)
      PROVE  Relied'
  <2>1. /\ process[p].at = "replace" /\ temporary # <<>>
        /\ record' = temporary /\ temporary' = <<>> /\ UNCHANGED <<worktree, unsure>>
        /\ holder' = IF process[p].op = "create" THEN holder \ {p} ELSE holder
    BY <1>12 DEF Worktrees!Replace
  <2>2. process[p] \in TreeBusy /\ process[p].base \in Nat /\ <<process[p].base>> # Worktrees!Torn
    BY <2>1, AtPoint, TreeFiles
  <2>3. ASSUME NEW q \in Processes \ {p}
        PROVE  /\ process'[q].at = process[q].at
               /\ process[q].at # "idle" =>
                    process'[q].op = process[q].op /\ process'[q].base = process[q].base
               /\ process[q].at \notin {"idle", "write"} =>
                    process'[q].through = process[q].through
    <3>1. process'[q] = IF process[q].at = "write" THEN [process[q] EXCEPT !.through = TRUE]
                        ELSE process[q]
      BY <1>12 DEF Worktrees!Replace
    <3>2. process[q].at = "write" =>
            LET x == [process[q] EXCEPT !.through = TRUE]
            IN  x.at = process[q].at /\ x.op = process[q].op /\ x.base = process[q].base
      BY AtPoint, Shapes
    <3> QED BY ONLY <3>1, <3>2
  <2>4. /\ process[p].op = "remove" =>
             /\ process'[p].at = "remove" /\ process'[p].op = "remove"
             /\ process'[p].through = process[p].through
        /\ process[p].op # "remove" => process'[p].at = "idle"
    <3>1. process'[p] = IF process[p].op = "remove" THEN [process[p] EXCEPT !.at = "remove"]
                        ELSE Worktrees!Idle
      BY <1>12 DEF Worktrees!Replace
    <3>2. LET x == [process[p] EXCEPT !.at = "remove"]
          IN  x.at = "remove" /\ x.op = process[p].op /\ x.through = process[p].through
      BY <2>2, Shapes DEF TreePoints
    <3> QED BY ONLY <3>1, <3>2, Shapes
  <2>8. Locked'
    BY ONLY <2>1, <2>2, <2>3, <2>4, <1>0 DEF Locked
  <2>9. Intact'
    BY ONLY <2>1, <2>2, <2>3, <2>4, <1>0 DEF Intact, WritingTree
  <2>10. Kept'
    BY ONLY <2>1, <2>2, <2>3, <2>4, <1>0 DEF Kept, Sure, Present, Absent, Added, Locked, Intact,
       WritingTree, RecordingTree
  <2> QED BY <2>8, <2>9, <2>10 DEF Relied
<1>13. ASSUME NEW p \in Processes, Worktrees!ReplaceGone(p)
      PROVE  Relied'
  <2>1. /\ \A q \in Processes \ {p} : process'[q] = process[q]
        /\ process'[p].at = "idle" /\ holder' = holder \ {p}
    BY <1>13, OverEffect DEF Worktrees!ReplaceGone
  <2>2. /\ process[p].at = "replace" /\ temporary = <<>>
        /\ UNCHANGED <<worktree, record, temporary, unsure>>
    BY <1>13 DEF Worktrees!ReplaceGone, Worktrees!files
  <2>8. Locked'
    BY ONLY <2>1, <2>2, <1>0 DEF Locked
  <2>9. Intact'
    BY ONLY <2>1, <2>2, <1>0 DEF Intact, WritingTree
  <2>10. Kept'
    BY ONLY <2>1, <2>2, <1>0 DEF Kept, Sure, Present, Absent, Added, Locked, Intact, WritingTree,
       RecordingTree
  <2> QED BY <2>8, <2>9, <2>10 DEF Relied
<1>14. ASSUME NEW p \in Processes, Worktrees!Kill(p)
      PROVE  Relied'
  <2>1. /\ \A q \in Processes \ {p} : process'[q] = process[q]
        /\ process'[p].at = "idle" /\ holder' = holder \ {p}
    BY <1>14, OverEffect DEF Worktrees!Kill
  <2>2. /\ UNCHANGED <<worktree, record, temporary>>
        /\ unsure \subseteq unsure' /\ unsure' \subseteq unsure \cup {"abandoned"}
        /\ "abandoned" \notin unsure' => record # <<>> /\ process[p].at # "unlink"
    BY <1>14 DEF Worktrees!Kill, Worktrees!files
  <2>8. Locked'
    BY ONLY <2>1, <2>2, <1>0 DEF Locked
  <2>9. Intact'
    BY ONLY <2>1, <2>2, <1>0 DEF Intact, WritingTree
  <2>10. Kept'
    BY ONLY <2>1, <2>2, <1>0 DEF Kept, Sure, Present, Absent, Added, Locked, Intact, WritingTree,
       RecordingTree
  <2> QED BY <2>8, <2>9, <2>10 DEF Relied
<1> QED BY <1>1, <1>2, <1>3, <1>4, <1>5, <1>6, <1>7, <1>8, <1>9, <1>10, <1>11, <1>12, <1>13,
           <1>14 DEF Worktrees!Next

(* What the record of a task says can be relied on: it parses, and its base is
   the one the worktree was added at. *)
THEOREM RecordRelied == SpecAll => []RecordReliable
<1>1. InitAll => TreeTyped /\ Relied
  BY TypesStart, ReliedStart DEF InitAll
<1>2. TreeTyped /\ Relied /\ [NextAll]_allVars => TreeTyped' /\ Relied'
  BY TypesStep, ReliedStep, PartSteps
<1>3. TreeTyped /\ Relied => RecordReliable
  <2> SUFFICES ASSUME TreeTyped, Relied PROVE Worktrees!BaseKept /\ Worktrees!RecordReadable
    BY DEF RecordReliable, Worktrees!RecordReliable
  <2>1. Worktrees!BaseKept
    BY DEF Relied, Worktrees!BaseKept, Sure, Present, RecordingTree
  <2>2. Worktrees!RecordReadable
    BY DEF Relied, Worktrees!RecordReadable, Intact
  <2> QED BY <2>1, <2>2
<1> QED BY <1>1, <1>2, <1>3, PTL DEF SpecAll

(***************************************************************************)
(* Skills.                                                                 *)
(***************************************************************************)
OnRecord(s) == Skills!Selection(s.task, s.pin[1]) \in selections

(* A pinned task stays pinned: an invocation of the stored task has the      *)
(* stored skills if there are any, and the packets have no others.           *)
SessionSound ==
  /\ given # {} => /\ state.pin # <<>> /\ given = {state.pin[1]}
                   /\ state.task \in DOMAIN Goals /\ OnRecord(state)
InvocationSound ==
  run.at # "none" =>
    /\ DOMAIN run = {"at", "state", "defs", "stored"}
    /\ DOMAIN run.state = {"task", "pin"}
    /\ run.state.task \in DOMAIN Goals
    /\ (run.state.task = state.task /\ state.pin # <<>>) => run.state = state
    /\ run.at \in {"discover", "select"} => run.state.pin = <<>>
    /\ run.at \notin {"discover", "select"} => run.state.pin # <<>>
    /\ run.at \in {"yield", "work"} => OnRecord(run.state)
    /\ (run.at = "work" \/ (run.stored /\ run.at = "record")) => run.state = state
SkillsSound == /\ DOMAIN state = {"task", "pin"}
               /\ SessionSound
               /\ InvocationSound

LEMMA SkillsStart == Skills!Init => SkillsSound
BY DEF Skills!Init, Skills!NoRun, SkillsSound, SessionSound, InvocationSound

LEMMA SkillsBegun ==
  ASSUME SkillsSound, NEW t \in DOMAIN Goals, Skills!Begin(t)
  PROVE  SkillsSound'
<1>1. PICK mine : mine = IF state.task = t THEN state ELSE [task |-> t, pin |-> <<>>]
  OBVIOUS
<1>2. /\ run' = [at |-> IF mine.pin = <<>> THEN "discover" ELSE "record",
                 state |-> mine, defs |-> {}, stored |-> mine = state]
      /\ UNCHANGED <<state, selections, given>>
  BY <1>1 DEF Skills!Begin
<1>3. /\ DOMAIN mine = {"task", "pin"} /\ mine.task = t
      /\ (mine.task = state.task /\ state.pin # <<>>) => mine = state
  BY <1>1 DEF SkillsSound
<1>4. SessionSound'
  BY <1>2 DEF SkillsSound, SessionSound, OnRecord
<1>5. InvocationSound'
  <2>1. /\ run'.state = mine /\ run'.stored = (mine = state)
        /\ run'.at = IF mine.pin = <<>> THEN "discover" ELSE "record"
        /\ DOMAIN run' = {"at", "state", "defs", "stored"}
    BY <1>2
  <2>2. run'.at \in {"discover", "record"} /\ (run'.at = "discover" <=> mine.pin = <<>>)
    BY <2>1
  <2>3. run'.at = "record" => mine.pin # <<>>
    BY <2>1
  <2> QED BY <1>2, <1>3, <2>1, <2>2, <2>3 DEF InvocationSound
<1> QED BY <1>2, <1>4, <1>5 DEF SkillsSound

(* The skills of an invocation are pinned, whatever they are.               *)
LEMMA SkillsPut ==
  ASSUME SkillsSound, run.at \in {"discover", "select"}, NEW skills,
         run' = Skills!Pinned(skills), UNCHANGED <<state, selections, given>>
  PROVE  SkillsSound'
<1>1. /\ DOMAIN run = {"at", "state", "defs", "stored"} /\ DOMAIN run.state = {"task", "pin"}
      /\ run.state.pin = <<>> /\ run.state.task \in DOMAIN Goals
  BY DEF SkillsSound, InvocationSound
<1>2. /\ run'.at = "record" /\ run'.stored = FALSE
      /\ run'.state = [run.state EXCEPT !.pin = <<skills>>]
      /\ DOMAIN run' = {"at", "state", "defs", "stored"}
  BY <1>1 DEF Skills!Pinned
<1>3. /\ DOMAIN run'.state = {"task", "pin"} /\ run'.state.task = run.state.task
      /\ run'.state.pin = <<skills>> /\ <<skills>> # <<>>
  BY <1>1, <1>2
<1>4. ~ (run.state.task = state.task /\ state.pin # <<>>)
  BY <1>1 DEF SkillsSound, InvocationSound
<1> QED BY <1>1, <1>2, <1>3, <1>4 DEF SkillsSound, SessionSound, InvocationSound, OnRecord

LEMMA SkillsRecorded ==
  ASSUME SkillsSound, Skills!RecordSelection
  PROVE  SkillsSound'
<1>1. /\ run.at = "record" /\ selections \subseteq selections' /\ UNCHANGED <<state, given>>
      /\ Skills!Selection(run.state.task, run.state.pin[1]) \in selections'
      /\ run' = [run EXCEPT !.at = IF run.stored THEN "work" ELSE "yield"]
  BY DEF Skills!RecordSelection
<1>2. DOMAIN run = {"at", "state", "defs", "stored"}
  BY <1>1 DEF SkillsSound, InvocationSound
<1>3. /\ run'.at = IF run.stored THEN "work" ELSE "yield"
      /\ run'.state = run.state /\ run'.stored = run.stored /\ DOMAIN run' = DOMAIN run
  BY <1>1, <1>2
<1>4. SessionSound'
  BY <1>1 DEF SkillsSound, SessionSound, OnRecord
<1>5. OnRecord(run.state)'
  BY <1>1, <1>3 DEF OnRecord
<1>6. InvocationSound'
  BY <1>1, <1>2, <1>3, <1>5 DEF SkillsSound, InvocationSound, OnRecord
<1> QED BY <1>1, <1>4, <1>6 DEF SkillsSound

LEMMA SkillsYielded ==
  ASSUME SkillsSound, Skills!Yield
  PROVE  SkillsSound'
<1>1. /\ run.at = "yield" /\ state' = run.state /\ selections' = selections
      /\ given' = IF state.task # run.state.task THEN {} ELSE given
      /\ run' = [run EXCEPT !.at = "work", !.stored = TRUE]
  BY DEF Skills!Yield
<1>2. /\ DOMAIN run = {"at", "state", "defs", "stored"} /\ DOMAIN run.state = {"task", "pin"}
      /\ run.state.task \in DOMAIN Goals /\ run.state.pin # <<>> /\ OnRecord(run.state)
      /\ (run.state.task = state.task /\ state.pin # <<>>) => run.state = state
  BY <1>1 DEF SkillsSound, InvocationSound
<1>3. /\ run'.at = "work" /\ run'.state = run.state
      /\ DOMAIN run' = {"at", "state", "defs", "stored"}
  BY <1>1, <1>2
<1>4. given' # {} => given' = given /\ state' = state
  BY <1>1, <1>2 DEF SkillsSound, SessionSound
<1>5. SessionSound'
  BY <1>1, <1>4 DEF SkillsSound, SessionSound, OnRecord
<1>6. InvocationSound'
  BY <1>1, <1>2, <1>3 DEF InvocationSound, OnRecord
<1> QED BY <1>1, <1>2, <1>5, <1>6 DEF SkillsSound

LEMMA SkillsGiven ==
  ASSUME SkillsSound, Skills!Packet
  PROVE  SkillsSound'
<1>1. /\ run.at = "work" /\ given' = given \cup {run.state.pin[1]}
      /\ UNCHANGED <<state, run, selections>>
  BY DEF Skills!Packet
<1>2. /\ run.state = state /\ run.state.task \in DOMAIN Goals /\ run.state.pin # <<>>
      /\ OnRecord(run.state)
  BY <1>1 DEF SkillsSound, InvocationSound
<1>3. given' = {state.pin[1]}
  BY <1>1, <1>2 DEF SkillsSound, SessionSound
<1> QED BY <1>1, <1>2, <1>3 DEF SkillsSound, SessionSound, InvocationSound, OnRecord

LEMMA SkillsKept == SkillsSound /\ [Skills!Next]_skillVars => SkillsSound'
<1> SUFFICES ASSUME SkillsSound, [Skills!Next]_skillVars PROVE SkillsSound'
  OBVIOUS
<1>1. ASSUME UNCHANGED <<state, run, selections, given>> PROVE SkillsSound'
  BY <1>1 DEF SkillsSound, SessionSound, InvocationSound, OnRecord
<1>2. CASE Skills!Discover
  <2>1. run.at \in {"discover", "select"} /\ UNCHANGED <<state, selections, given>>
    BY <1>2 DEF Skills!Discover
  <2>2. CASE run' = Skills!Pinned(Skills!NoSkills)
    BY <2>1, <2>2, SkillsPut
  <2>3. CASE run.at = "discover" /\ run' = [run EXCEPT !.at = "select", !.defs = Skills!Discovered]
    <3>1. DOMAIN run = {"at", "state", "defs", "stored"}
      BY <2>1, <2>3 DEF SkillsSound, InvocationSound
    <3>2. /\ run'.at = "select" /\ run'.state = run.state /\ run'.stored = run.stored
          /\ DOMAIN run' = DOMAIN run
      BY <2>3, <3>1
    <3> QED BY <2>1, <2>3, <3>1, <3>2 DEF SkillsSound, SessionSound, InvocationSound, OnRecord
  <2> QED BY <1>2, <2>2, <2>3 DEF Skills!Discover, Skills!LoadingFails
<1>3. CASE Skills!Select
  <2>1. run.at \in {"discover", "select"} /\ UNCHANGED <<state, selections, given>>
    BY <1>3 DEF Skills!Select
  <2>2. \E skills : run' = Skills!Pinned(skills)
    BY <1>3 DEF Skills!Select, Skills!LoadingFails
  <2> QED BY <2>1, <2>2, SkillsPut
<1>4. ASSUME run' = Skills!NoRun, UNCHANGED <<state, selections, given>> PROVE SkillsSound'
  BY <1>4 DEF SkillsSound, SessionSound, InvocationSound, OnRecord, Skills!NoRun
<1>5. CASE Skills!Return
  BY <1>4, <1>5 DEF Skills!Return
<1>6. CASE Skills!Crash
  BY <1>4, <1>6 DEF Skills!Crash
<1>7. ASSUME NEW e \in Skills!Places, Skills!Edit(e) PROVE SkillsSound'
  BY <1>1, <1>7 DEF Skills!Edit
<1>8. CASE UNCHANGED skillVars
  BY <1>1, <1>8 DEF skillVars
<1> QED BY <1>2, <1>3, <1>5, <1>6, <1>7, <1>8, SkillsBegun, SkillsRecorded, SkillsYielded,
        SkillsGiven DEF Skills!Next

(* The instance counts as the library's facts do.                            *)
LEMMA SkillsCount == ASSUME NEW S PROVE Skills!Cardinality(S) = Cardinality(S)
BY DEF Skills!Cardinality, Cardinality

(* All packets of a task in a session have the same skills, and these are on
   record in the task's ledger. *)
THEOREM SkillsStayPinned == SpecAll => []SkillsPinned
<1>1. InitAll => SkillsSound
  BY SkillsStart DEF InitAll
<1>3. SkillsSound /\ [NextAll]_allVars => SkillsSound'
  BY PartSteps, SkillsKept
<1>4. SkillsSound => SkillsPinned
  <2> SUFFICES ASSUME SkillsSound PROVE SkillsPinned
    OBVIOUS
  <2>1. CASE given = {}
    <3>1. Cardinality({}) = 0
      BY FS_EmptySet
    <3> QED BY <2>1, <3>1, SkillsCount DEF SkillsPinned, Skills!SkillsPinned
  <2>2. CASE given # {}
    <3>1. given = {state.pin[1]} /\ state.task \in DOMAIN Goals /\ OnRecord(state)
      BY <2>2 DEF SkillsSound, SessionSound
    <3>2. Cardinality({state.pin[1]}) = 1
      BY FS_Singleton
    <3> QED BY <3>1, <3>2, SkillsCount DEF SkillsPinned, Skills!SkillsPinned, OnRecord
  <2> QED BY <2>1, <2>2
<1> QED BY <1>1, <1>3, <1>4, PTL DEF SpecAll

(***************************************************************************)
(* The skills' budget.                                                     *)
(***************************************************************************)
(* The definitions that a manifest may give.                                *)
Definitions == [entry : Skills!Places, name : {Entries[e] : e \in Skills!Places},
                version : 0 .. MaxSkillEdits + 2]

LEMMA PlacesFinite ==
  /\ Skills!Places = DOMAIN Entries /\ Skills!Places \subseteq Nat
  /\ IsFiniteSet(Skills!Places)
<1>1. Skills!Places = 1..Len(Entries) /\ Len(Entries) \in Nat
  BY SkillsAssumption, LenProperties DEF Skills!Places
<1> QED BY <1>1, FS_Interval DEF Skills!Places

(* The sort key orders definitions of different directories.                *)
LEMMA PrecedesOrders ==
  ASSUME NEW t \in DOMAIN Goals, NEW defs \in SUBSET Definitions,
         \A c, d \in defs : c.entry = d.entry => c = d
  PROVE  /\ \A c \in defs : ~ Skills!Precedes(Goals[t], c, c)
         /\ \A c, d \in defs : \/ c = d \/ Skills!Precedes(Goals[t], c, d)
                               \/ Skills!Precedes(Goals[t], d, c)
         /\ \A c, d, e \in defs : Skills!Precedes(Goals[t], c, d) /\ Skills!Precedes(Goals[t], d, e)
                                    => Skills!Precedes(Goals[t], c, e)
<1>1. PICK goal : goal = Goals[t]
  OBVIOUS
<1>2. PICK first : first = [d \in defs |-> Skills!Least(Skills!Mentions(goal, d))]
  OBVIOUS
<1>3. PICK said : said = {d \in defs : Skills!Mentions(goal, d) # {}}
  OBVIOUS
<1>4. PICK score : score = [d \in defs |-> goal.score[d.name]]
  OBVIOUS
<1>5. \A d \in defs : d.entry \in Nat /\ score[d] \in Nat
  BY <1>1, <1>4, SkillsAssumption, PlacesFinite DEF Definitions
<1>6. \A d \in said : first[d] \in Nat
  <2> SUFFICES ASSUME NEW d \in said PROVE first[d] \in Nat
    OBVIOUS
  <2>1. PICK S : S = Skills!Mentions(goal, d)
    OBVIOUS
  <2>2. DOMAIN goal.explicit \subseteq Nat
    <3>1. PICK A : goal.explicit \in Seq(A)
      BY <1>1, SkillsAssumption
    <3> QED BY <3>1, LenProperties
  <2>3. S \in SUBSET Nat /\ S # {}
    BY <1>3, <2>1, <2>2 DEF Skills!Mentions
  <2>4. Skills!Least(S) \in S
    BY <2>3, LeastExists DEF Skills!Least
  <2> QED BY <1>2, <1>3, <2>1, <2>3, <2>4
<1>7. \A c, d \in defs :
        Skills!Precedes(goal, c, d) <=>
          IF c \in said /\ d \in said
          THEN first[c] < first[d] \/ (first[c] = first[d] /\ c.entry < d.entry)
          ELSE \/ c \in said
               \/ d \notin said /\ (score[c] > score[d] \/ (score[c] = score[d] /\ c.entry < d.entry))
  <2> SUFFICES ASSUME NEW c \in defs, NEW d \in defs
               PROVE  Skills!Precedes(goal, c, d) <=>
                 IF c \in said /\ d \in said
                 THEN first[c] < first[d] \/ (first[c] = first[d] /\ c.entry < d.entry)
                 ELSE \/ c \in said
                      \/ d \notin said /\ (score[c] > score[d] \/ (score[c] = score[d] /\ c.entry < d.entry))
    OBVIOUS
  <2>1. score[c] - score[d] > 0 <=> score[c] > score[d]
    BY <1>5
  <2>2. score[c] - score[d] = 0 <=> score[c] = score[d]
    BY <1>5
  <2>3. /\ Skills!Mentions(goal, c) # {} <=> c \in said
        /\ Skills!Mentions(goal, d) # {} <=> d \in said
        /\ first[c] = Skills!Least(Skills!Mentions(goal, c))
        /\ first[d] = Skills!Least(Skills!Mentions(goal, d))
        /\ score[c] = goal.score[c.name] /\ score[d] = goal.score[d.name]
    BY <1>2, <1>3, <1>4
  <2> HIDE <1>2
  <2> QED BY <2>1, <2>2, <2>3 DEF Skills!Precedes
<1>8. PICK entry : entry = [d \in defs |-> d.entry]
  OBVIOUS
<1>9. \A d \in defs : entry[d] \in Nat /\ entry[d] = d.entry
  BY <1>5, <1>8
<1>10. \A c, d \in defs : entry[c] = entry[d] => c = d
  BY <1>9
<1>11. \A c \in defs : ~ Skills!Precedes(goal, c, c)
  BY <1>5, <1>6, <1>7
<1>12. \A c, d \in defs : c = d \/ Skills!Precedes(goal, c, d) \/ Skills!Precedes(goal, d, c)
  BY <1>5, <1>6, <1>7, <1>9, <1>10
<1>13. \A c, d, e \in defs : Skills!Precedes(goal, c, d) /\ Skills!Precedes(goal, d, e)
                                => Skills!Precedes(goal, c, e)
  BY <1>5, <1>6, <1>7, <1>9, <1>10
<1> QED BY <1>1, <1>11, <1>12, <1>13

(* The ranking is a sequence of definitions.                                *)
LEMMA RankedTyped ==
  ASSUME NEW t \in DOMAIN Goals, NEW defs \in SUBSET Definitions, IsFiniteSet(defs),
         \A c, d \in defs : c.entry = d.entry => c = d
  PROVE  Skills!Ranked(defs, Goals[t]) \in Seq(Definitions)
<1>1. PICK goal : goal = Goals[t]
  OBVIOUS
<1>2. PICK S : S = {d \in defs : Skills!Mentions(goal, d) # {} \/ goal.score[d.name] > 0}
  OBVIOUS
<1>3. PICK before : before = [d \in S |-> {c \in S : Skills!Precedes(goal, c, d)}]
  OBVIOUS
<1>4. /\ before \in [S -> SUBSET S]
      /\ \A c, d \in S : c \in before[d] <=> Skills!Precedes(goal, c, d)
  BY <1>3
<1>5. S \in SUBSET defs
  BY <1>2
<1>6. IsFiniteSet(S)
  BY <1>5, FS_Subset
<1>7. PICK n : n = Cardinality(S)
  OBVIOUS
<1>8. n \in Nat /\ Skills!Cardinality(S) = n
  BY <1>6, <1>7, FS_CardinalityType, SkillsCount
<1>9. \A i \in 1..n : \E d \in S : Skills!Cardinality({c \in S : Skills!Precedes(goal, c, d)}) = i - 1
  <2> SUFFICES ASSUME NEW i \in 1..n
               PROVE  \E d \in S : Skills!Cardinality({c \in S : Skills!Precedes(goal, c, d)}) = i - 1
    OBVIOUS
  <2>1. /\ \A x \in S : x \notin before[x]
        /\ \A x, y \in S : x = y \/ x \in before[y] \/ y \in before[x]
        /\ \A x, y, z \in S : x \in before[y] /\ y \in before[z] => x \in before[z]
    BY <1>1, <1>4, <1>5, PrecedesOrders
  <2>2. i \in 1..Cardinality(S)
    BY <1>7
  <2>3. PICK d \in S : Cardinality(before[d]) = i - 1
    BY <1>4, <1>6, <2>1, <2>2, PlacesTaken
  <2>4. before[d] = {c \in S : Skills!Precedes(goal, c, d)}
    BY <1>3
  <2> QED BY <2>3, <2>4, SkillsCount
<1>10. Skills!Ranked(defs, goal) =
        [i \in 1..n |-> CHOOSE d \in S : Skills!Cardinality({c \in S : Skills!Precedes(goal, c, d)}) = i - 1]
  BY <1>2, <1>8 DEF Skills!Ranked, Skills!InOrder
<1>11. Skills!Ranked(defs, goal) \in [1..n -> S]
  BY <1>9, <1>10
<1> QED BY <1>1, <1>5, <1>8, <1>11

LEMMA LeastOfTwo ==
  ASSUME NEW a \in Nat, NEW b \in Nat
  PROVE  /\ Skills!Least({a, b}) \in {a, b} /\ Skills!Least({a, b}) \in Nat
         /\ Skills!Least({a, b}) <= a /\ Skills!Least({a, b}) <= b
<1>1. \E n \in {a, b} : \A m \in {a, b} : n <= m
  OBVIOUS
<1>2. Skills!Least({a, b}) \in {a, b} /\ \A m \in {a, b} : Skills!Least({a, b}) <= m
  BY <1>1 DEF Skills!Least
<1> QED BY <1>2

LEMMA MinusTyped ==
  ASSUME NEW n \in Nat, NEW m \in Nat
  PROVE  /\ Skills!Minus(n, m) \in Nat /\ Skills!Minus(n, m) <= n
         /\ Skills!Minus(n, m) # 0 => Skills!Minus(n, m) + m = n
BY DEF Skills!Minus

LEMMA TokensTyped ==
  ASSUME NEW n \in Nat
  PROVE  Skills!Tokens(n) \in Nat /\ Skills!TokenRoom(n) \in Nat
<1>1. (n + 3) \div 4 \in Nat /\ n \div 4 \in Nat
  OBVIOUS
<1> QED BY <1>1 DEF Skills!Tokens, Skills!TokenRoom

Portions == [name : {Entries[e] : e \in Skills!Places}, version : 0 .. MaxSkillEdits + 2,
             linked : {linked[e] : e \in Skills!Places}, bytes : Nat]
(* What the loop over the candidates may have made of a room of bytes.      *)
Texts(room) == [bytes : 0 .. room, full : BOOLEAN, read : Nat, shown : Seq(Portions)]

LEMMA AddedFits ==
  ASSUME NEW room \in Nat, NEW t \in DOMAIN Goals, NEW acc \in Texts(room),
         NEW d \in Definitions
  PROVE  Skills!Added(acc, d, Goals[t], room) \in Texts(room)
<1>1. PICK used : used = acc.bytes + (IF acc.shown = <<>> THEN 0 ELSE 1)
  OBVIOUS
<1>2. acc.bytes \in Nat /\ acc.bytes <= room /\ used \in Nat /\ acc.read \in Nat
      /\ acc.shown \in Seq(Portions)
  BY <1>1 DEF Texts
<1>3. PICK left : left = Skills!Minus(room, used)
  OBVIOUS
<1>4. left \in Nat /\ (left # 0 => left + used = room)
  BY <1>2, <1>3, MinusTyped
<1>5. PICK tokens : tokens = 4 * Skills!Minus(Skills!TokenRoom(room), Skills!Tokens(used))
  OBVIOUS
<1>6. tokens \in Nat
  <2>1. Skills!TokenRoom(room) \in Nat /\ Skills!Tokens(used) \in Nat
    BY <1>2, TokensTyped
  <2>2. Skills!Minus(Skills!TokenRoom(room), Skills!Tokens(used)) \in Nat
    BY <2>1, MinusTyped
  <2> QED BY <1>5, <2>2
<1>7. PICK limit : limit = Skills!Least({left, tokens})
  OBVIOUS
<1>8. limit \in Nat /\ limit <= left
  BY <1>4, <1>6, <1>7, LeastOfTwo
<1>9. PICK size : size = Skills!RenderedSize(d, Goals[t])
  OBVIOUS
<1>10. size \in Nat
  <2>1. d.entry \in DOMAIN Entries /\ d.version \in 0 .. MaxSkillEdits + 2
    BY PlacesFinite DEF Definitions
  <2>2. BodySize(d.entry, d.version) \in Nat /\ ReferenceSize \in Nat
    BY <2>1, SkillsAssumption
  <2> QED BY <1>9, <2>2 DEF Skills!RenderedSize
<1>11. PICK kept : kept = Skills!Least({size, limit})
  OBVIOUS
<1>12. kept \in Nat /\ kept <= limit
  BY <1>8, <1>10, <1>11, LeastOfTwo
<1>13. Skills!Added(acc, d, Goals[t], room) =
        IF acc.full THEN acc
        ELSE IF kept = 0 THEN [acc EXCEPT !.full = TRUE, !.read = @ + 1]
        ELSE [bytes |-> used + kept, full |-> kept < size, read |-> acc.read + 1,
              shown |-> Append(acc.shown, [name |-> d.name, version |-> d.version,
                                           linked |-> linked[d.entry], bytes |-> kept])]
  BY <1>1, <1>3, <1>5, <1>7, <1>9, <1>11 DEF Skills!Added
<1>14. CASE acc.full
  BY <1>13, <1>14
<1>15. CASE ~ acc.full /\ kept = 0
  <2>1. [acc EXCEPT !.full = TRUE, !.read = @ + 1] \in Texts(room)
    <3>1. acc.read + 1 \in Nat
      BY <1>2
    <3> QED BY <3>1 DEF Texts
  <2> QED BY <1>13, <1>15, <2>1
<1>16. CASE ~ acc.full /\ kept # 0
  <2>1. used + kept \in 0..room
    BY <1>2, <1>4, <1>8, <1>12, <1>16
  <2>2. [name |-> d.name, version |-> d.version, linked |-> linked[d.entry], bytes |-> kept]
          \in Portions
    BY <1>12 DEF Definitions, Portions
  <2>3. PICK part : part = [name |-> d.name, version |-> d.version, linked |-> linked[d.entry],
                            bytes |-> kept]
    OBVIOUS
  <2>4. Append(acc.shown, part) \in Seq(Portions)
    BY <1>2, <2>2, <2>3, AppendProperties
  <2>5. acc.read + 1 \in Nat /\ (kept < size) \in BOOLEAN
    BY <1>2
  <2>6. Skills!Added(acc, d, Goals[t], room) =
          [bytes |-> used + kept, full |-> kept < size, read |-> acc.read + 1,
           shown |-> Append(acc.shown, part)]
    BY <1>13, <1>16, <2>3
  <2> QED BY <2>1, <2>4, <2>5, <2>6 DEF Texts
<1> QED BY <1>14, <1>15, <1>16

LEMMA CandidatesTyped ==
  ASSUME NEW t \in DOMAIN Goals, NEW defs \in SUBSET Definitions, IsFiniteSet(defs),
         \A c, d \in defs : c.entry = d.entry => c = d
  PROVE  Skills!Candidates(defs, Goals[t]) \in Seq(Definitions)
<1>1. PICK ranked : ranked = Skills!Ranked(defs, Goals[t])
  OBVIOUS
<1>2. ranked \in Seq(Definitions) /\ Len(ranked) \in Nat
      /\ \A i \in 1..Len(ranked) : ranked[i] \in Definitions
  BY <1>1, RankedTyped, LenProperties, ElementOfSeq
<1>3. PICK n : n = Skills!Least({Len(ranked), MaxSelected})
  OBVIOUS
<1>4. n \in Nat /\ n <= Len(ranked)
  BY <1>2, <1>3, SkillsAssumption, LeastOfTwo
<1>5. SubSeq(ranked, 1, n) \in Seq(Definitions)
  <2>1. \A i \in 1..n : i \in 1..Len(ranked)
    BY <1>2, <1>4
  <2>2. \A i \in 1..n : ranked[i] \in Definitions
    BY <1>2, <2>1
  <2>3. 1 \in Int /\ n \in Int
    BY <1>4
  <2> QED BY <2>2, <2>3, SubSeqProperties
<1>6. Skills!Candidates(defs, Goals[t]) \in {<<>>, SubSeq(ranked, 1, n)}
  BY <1>1, <1>3 DEF Skills!Candidates
<1>7. <<>> \in Seq(Definitions)
  OBVIOUS
<1> QED BY <1>5, <1>6, <1>7

LEMMA ChosenFits ==
  ASSUME NEW t \in DOMAIN Goals, NEW defs, Skills!SelectionRoom(defs) \in Nat,
         Skills!Candidates(defs, Goals[t]) \in Seq(Definitions)
  PROVE  Skills!Chosen(defs, Goals[t]) \in Texts(Skills!SelectionRoom(defs))
<1> DEFINE room == Skills!SelectionRoom(defs)
<1> DEFINE goal == Goals[t]
<1> DEFINE all == Skills!Candidates(defs, goal)
<1>4. PICK N : N = Len(all)
  OBVIOUS
<1>5. room \in Nat /\ N \in Nat /\ DOMAIN all = 1..N /\ \A n \in 1..N : all[n] \in Definitions
  BY <1>4, LenProperties, ElementOfSeq
<1>6. PICK X : X = Texts(room)
  OBVIOUS
<1>7. Skills!NoneAdded \in X
  BY <1>5, <1>6 DEF Texts, Skills!NoneAdded
<1>8. \A acc \in X, n \in 1..N : Skills!Added(acc, all[n], goal, room) \in X
  BY <1>5, <1>6, AddedFits
<1>9. PICK step : step = [p \in X \X (1..N) |-> Skills!Added(p[1], all[p[2]], goal, room)]
  OBVIOUS
<1>10. step \in [X \X (1..N) -> X]
  BY <1>8, <1>9
<1>11. PICK g \in [SUBSET (1..N) -> X] : \A S \in SUBSET (1..N) :
         g[S] = IF S = {} THEN Skills!NoneAdded ELSE step[<<g[S \ {Largest(S)}], Largest(S)>>]
  <2>1. PICK base : base = Skills!NoneAdded
    OBVIOUS
  <2>2. base \in X /\ N \in Nat
    BY <1>5, <1>7, <2>1
  <2>3. PICK g : Folding(g, N, X, base, step)
    BY <1>10, <2>2, FoldExists
  <2> QED BY <2>1, <2>3 DEF Folding
<1> DEFINE Folds(f) ==
      f = [S \in SUBSET (1..N) |-> IF S = {} THEN Skills!NoneAdded
             ELSE Skills!Added(f[S \ {Largest(S)}], all[Largest(S)], goal, room)]
<1>12. \A S \in SUBSET (1..N) :
         g[S] = IF S = {} THEN Skills!NoneAdded
                ELSE Skills!Added(g[S \ {Largest(S)}], all[Largest(S)], goal, room)
  <2> SUFFICES ASSUME NEW S \in SUBSET (1..N), S # {}
               PROVE  g[S] = Skills!Added(g[S \ {Largest(S)}], all[Largest(S)], goal, room)
    BY <1>11
  <2>1. PICK m : m = Largest(S)
    OBVIOUS
  <2>2. m \in 1..N
    BY <1>5, <2>1, LargestIn
  <2>3. PICK acc : acc = g[S \ {m}]
    OBVIOUS
  <2>4. acc \in X
    BY <1>11, <2>3
  <2>5. g[S] = step[<<acc, m>>]
    BY <1>11, <2>1, <2>3
  <2>6. step[<<acc, m>>] = Skills!Added(acc, all[m], goal, room)
    BY <1>9, <2>2, <2>4
  <2> QED BY <2>1, <2>3, <2>5, <2>6
<1>13. Folds(g)
  <2>1. g = [S \in SUBSET (1..N) |-> g[S]]
    BY <1>11
  <2> QED BY <1>12, <2>1
<1>14. PICK f : f = CHOOSE h : Folds(h)
  OBVIOUS
<1>15. Folds(f)
  <2> HIDE DEF Folds
  <2> QED BY <1>13, <1>14
<1>16. Skills!Chosen(defs, goal) = f[1..N]
  BY <1>5, <1>14, Zenon DEF Skills!Chosen, Skills!FoldLeft, Skills!MapThenFoldSet,
     Skills!Max, Largest
<1>17. \A S \in SUBSET (1..N) :
         f[S] = IF S = {} THEN Skills!NoneAdded
                ELSE Skills!Added(f[S \ {Largest(S)}], all[Largest(S)], goal, room)
  BY <1>15
<1>18. PICK T : T = {n \in 0..N : f[1..n] \in X}
  OBVIOUS
<1>19. 0 \in T
  <2>1. 1..0 = {} /\ {} \in SUBSET (1..N) /\ 0 \in 0..N
    BY <1>5
  <2>2. f[{}] = Skills!NoneAdded
    BY <1>17, <2>1
  <2> QED BY <1>7, <1>18, <2>1, <2>2
<1>20. \A n \in 1..N : n - 1 \in T => n \in T
  <2> SUFFICES ASSUME NEW n \in 1..N, n - 1 \in T PROVE n \in T
    OBVIOUS
  <2>1. n \in Nat /\ n # 0 /\ n \in 0..N /\ 1..n \in SUBSET (1..N)
    BY <1>5
  <2>2. Largest(1..n) = n /\ (1..n) \ {n} = 1..(n - 1) /\ 1..n # {}
    BY <2>1, Downward
  <2>3. f[1..n] = Skills!Added(f[1..(n - 1)], all[n], goal, room)
    BY <1>17, <2>1, <2>2
  <2>4. f[1..(n - 1)] \in X
    BY <1>18
  <2> QED BY <1>8, <1>18, <2>1, <2>3, <2>4
<1>21. f[1..N] \in X
  <2>1. N \in 0..N
    BY <1>5
  <2>2. \A n \in 0..N : n \in T
    BY <1>5, <1>19, <1>20, InductionTo
  <2> QED BY <1>18, <2>1, <2>2
<1> QED BY <1>6, <1>16, <1>21

LEMMA RemainingTyped ==
  ASSUME budget \in Nat, NEW used \in Nat, NEW heading \in Nat
  PROVE  /\ Skills!Remaining(used, heading) \in Nat
         /\ Skills!Remaining(used, heading) # 0 =>
              used + (IF used > 0 THEN 2 ELSE 0) + heading + Skills!Remaining(used, heading)
                = budget
<1>1. PICK m : m = used + (IF used > 0 THEN 2 ELSE 0) + heading
  OBVIOUS
<1>2. m \in Nat
  BY <1>1
<1>3. PICK n : n = Skills!Minus(budget, m)
  OBVIOUS
<1>4. n \in Nat /\ (n # 0 => n + m = budget)
  BY <1>2, <1>3, MinusTyped
<1>5. Skills!Remaining(used, heading) = n
  BY <1>1, <1>3 DEF Skills!Remaining
<1> QED BY <1>1, <1>4, <1>5

LEMMA CatalogFits ==
  ASSUME budget \in Nat, NEW defs, IsFiniteSet(defs)
  PROVE  Skills!CatalogBytes(defs) \in Nat /\ Skills!CatalogBytes(defs) <= budget
<1>1. PICK rest : rest = Skills!Remaining(0, 25)
  OBVIOUS
<1>2. rest \in Nat /\ (rest # 0 => 25 + rest = budget)
  <2>1. 0 \in Nat /\ 25 \in Nat
    OBVIOUS
  <2> QED BY <1>1, <2>1, RemainingTyped
<1>3. PICK room : room = Skills!Least({4096, rest})
  OBVIOUS
<1>4. room \in Nat /\ room <= rest
  <2>1. 4096 \in Nat
    OBVIOUS
  <2> QED BY <1>2, <1>3, <2>1, LeastOfTwo
<1>5. PICK tokens : tokens = 4 * Skills!TokenRoom(room)
  OBVIOUS
<1>6. tokens \in Nat
  <2>1. Skills!TokenRoom(room) \in Nat
    BY <1>4, TokensTyped
  <2> QED BY <1>5, <2>1
<1>7. PICK space : space = Skills!Least({room, tokens})
  OBVIOUS
<1>8. space \in Nat /\ space <= room
  BY <1>4, <1>6, <1>7, LeastOfTwo
<1>9. PICK number : number = Cardinality(defs)
  OBVIOUS
<1>10. number \in Nat
  BY <1>9, FS_CardinalityType
<1>11. PICK whole : whole = space \div LineSize
  OBVIOUS
<1>12. whole \in Nat /\ whole * LineSize <= space
  <2>1. LineSize \in Nat \ {0}
    BY SkillsAssumption
  <2>2. space \div LineSize \in Nat /\ (space \div LineSize) * LineSize <= space
    BY <1>8, <2>1
  <2> QED BY <1>11, <2>2
<1>13. PICK shown : shown = Skills!Least({number, whole})
  OBVIOUS
<1>14. shown \in Nat /\ shown <= whole
  BY <1>10, <1>12, <1>13, LeastOfTwo
<1>15. PICK bytes : bytes = shown * LineSize
  OBVIOUS
<1>16. bytes \in Nat /\ bytes <= space /\ (shown # 0 => bytes > 0)
  <2>1. LineSize \in Nat \ {0}
    BY SkillsAssumption
  <2>2. shown * LineSize <= whole * LineSize /\ shown * LineSize \in Nat
    BY <1>12, <1>14, <2>1
  <2>3. shown # 0 => shown * LineSize > 0
    BY <1>14, <2>1
  <2> QED BY <1>8, <1>12, <1>14, <1>15, <2>1, <2>2, <2>3
<1>17. Skills!CatalogBytes(defs) = IF shown = 0 THEN 0 ELSE 25 + bytes - 1
  <2>1. Skills!Cardinality(defs) = number
    BY <1>9, SkillsCount
  <2> QED BY <1>1, <1>3, <1>5, <1>7, <1>11, <1>13, <1>15, <2>1
     DEF Skills!CatalogBytes, Skills!MaxCatalog, Skills!CatalogHeading
<1> QED BY <1>2, <1>4, <1>8, <1>16, <1>17

LEMMA RoomTyped ==
  ASSUME budget \in Nat, NEW defs, IsFiniteSet(defs)
  PROVE  /\ Skills!SelectionRoom(defs) \in Nat
         /\ Skills!SelectionRoom(defs) # 0 =>
              Skills!CatalogBytes(defs) + (IF Skills!CatalogBytes(defs) > 0 THEN 2 ELSE 0) + 29
                + Skills!SelectionRoom(defs) = budget
<1>1. PICK catalog : catalog = Skills!CatalogBytes(defs)
  OBVIOUS
<1>2. catalog \in Nat /\ 29 \in Nat
  BY <1>1, CatalogFits
<1>3. PICK rest : rest = Skills!Remaining(catalog, 29)
  OBVIOUS
<1>4. rest \in Nat /\ (rest # 0 => catalog + (IF catalog > 0 THEN 2 ELSE 0) + 29 + rest = budget)
  BY <1>2, <1>3, RemainingTyped
<1>5. Skills!SelectionRoom(defs) = IF MaxSelected > 0 THEN rest ELSE 0
  BY <1>1, <1>3 DEF Skills!SelectionRoom, Skills!SelectedHeading
<1> QED BY <1>1, <1>4, <1>5

(* What discovery may return.                                               *)
Discoveries(defs) == /\ defs \in SUBSET Definitions /\ IsFiniteSet(defs)
                     /\ \A c, d \in defs : c.entry = d.entry => c = d

LEMMA UnmatchedCounted ==
  ASSUME NEW t \in DOMAIN Goals, NEW defs
  PROVE  Skills!Cardinality(Skills!Unmatched(defs, Goals[t])) \in Nat
<1>1. PICK said : said = Goals[t].explicit
  OBVIOUS
<1>2. PICK A : said \in Seq(A)
  BY <1>1, SkillsAssumption
<1>3. PICK n \in Nat : DOMAIN said = 1..n
  BY <1>2, LenProperties
<1>4. PICK D : D = 1..n
  OBVIOUS
<1>5. IsFiniteSet(D)
  BY <1>3, <1>4, FS_Interval
<1>6. PICK all : all = {said[i] : i \in D}
  OBVIOUS
<1>7. IsFiniteSet(all)
  <2>1. PICK f : f = [i \in D |-> said[i]]
    OBVIOUS
  <2>2. all = {f[i] : i \in D}
    BY <1>6, <2>1
  <2> QED BY <1>5, <2>2, ImageFinite
<1>8. PICK rest : rest = Skills!Unmatched(defs, Goals[t])
  OBVIOUS
<1>9. rest \in SUBSET all
  BY <1>1, <1>3, <1>4, <1>6, <1>8 DEF Skills!Unmatched, Skills!ToSet
<1>10. Cardinality(rest) \in Nat
  BY <1>7, <1>9, FS_Subset, FS_CardinalityType
<1> QED BY <1>8, <1>10, SkillsCount

(* The assertion of build_skill_context.                                    *)
LEMMA WholeFits ==
  ASSUME budget \in Nat, NEW t \in DOMAIN Goals, NEW defs, Discoveries(defs)
  PROVE  Skills!Context(defs, Goals[t]).bytes <= budget
<1>1. PICK goal : goal = Goals[t]
  OBVIOUS
<1>2. defs \in SUBSET Definitions /\ IsFiniteSet(defs)
      /\ \A c, d \in defs : c.entry = d.entry => c = d
  BY DEF Discoveries
<1>3. PICK catalog : catalog = Skills!CatalogBytes(defs)
  OBVIOUS
<1>4. catalog \in Nat /\ catalog <= budget
  BY <1>2, <1>3, CatalogFits
<1>5. PICK room : room = Skills!SelectionRoom(defs)
  OBVIOUS
<1>6. /\ room \in Nat
      /\ room # 0 => catalog + (IF catalog > 0 THEN 2 ELSE 0) + 29 + room = budget
  BY <1>2, <1>3, <1>5, RoomTyped
<1>7. PICK chosen : chosen = Skills!Chosen(defs, goal)
  OBVIOUS
<1>8. chosen.bytes \in 0..room
  <2>1. Skills!Candidates(defs, Goals[t]) \in Seq(Definitions)
    BY <1>2, CandidatesTyped
  <2>2. Skills!SelectionRoom(defs) \in Nat
    BY <1>5, <1>6
  <2>3. Skills!Chosen(defs, Goals[t]) \in Texts(Skills!SelectionRoom(defs))
    BY <2>1, <2>2, ChosenFits
  <2>4. chosen \in Texts(room)
    BY <1>1, <1>5, <1>7, <2>3
  <2> QED BY <2>4 DEF Texts
<1>9. PICK upper : upper = IF chosen.bytes = 0 THEN catalog
                ELSE catalog + (IF catalog > 0 THEN 2 ELSE 0) + 29 + chosen.bytes
  OBVIOUS
<1>10. upper \in Nat /\ upper <= budget
  BY <1>4, <1>6, <1>8, <1>9
<1>11. PICK missing : missing = Skills!Cardinality(Skills!Unmatched(defs, goal))
  OBVIOUS
<1>12. missing \in Nat
  BY <1>1, <1>11, UnmatchedCounted
<1>13. PICK named : named = 35 + missing * (NameSize + 1) + 2 * Skills!Minus(missing, 1)
  OBVIOUS
<1>14. named \in Nat
  <2>1. Skills!Minus(missing, 1) \in Nat
    BY <1>12, MinusTyped
  <2>2. NameSize + 1 \in Nat \ {0}
    BY SkillsAssumption
  <2>3. PICK k : k = NameSize + 1
    OBVIOUS
  <2>4. missing * k \in Nat
    BY <1>12, <2>2, <2>3
  <2> QED BY <1>13, <2>1, <2>3, <2>4
<1>15. PICK rest : rest = Skills!Remaining(upper, 0)
  OBVIOUS
<1>16. rest \in Nat /\ (rest # 0 => upper + (IF upper > 0 THEN 2 ELSE 0) + 0 + rest = budget)
  <2>1. 0 \in Nat
    OBVIOUS
  <2> QED BY <1>10, <1>15, <2>1, RemainingTyped
<1>17. PICK least : least = Skills!Least({named, rest})
  OBVIOUS
<1>18. least \in Nat /\ least <= rest
  BY <1>14, <1>16, <1>17, LeastOfTwo
<1>19. PICK tail : tail = IF missing = 0 \/ room = 0 THEN 0 ELSE least
  OBVIOUS
<1>20. Skills!Context(defs, goal).bytes =
         IF tail = 0 THEN upper ELSE upper + (IF upper > 0 THEN 2 ELSE 0) + tail
  BY <1>3, <1>5, <1>7, <1>9, <1>11, <1>13, <1>15, <1>17, <1>19
     DEF Skills!Context, Skills!SelectedHeading, Skills!UnmatchedHeading
<1> QED BY <1>1, <1>10, <1>16, <1>18, <1>19, <1>20

LEMMA DiscoveredSound ==
  ASSUME disk \in [Skills!Places -> 0 .. MaxSkillEdits + 2]
  PROVE  Discoveries(Skills!Discovered)
<1>1. PICK there : there = {d \in Skills!Places : disk[d] # 0}
  OBVIOUS
<1>2. there \in SUBSET Skills!Places
  BY <1>1
<1>3. IsFiniteSet(there)
  BY <1>2, PlacesFinite, FS_Subset
<1>4. PICK found : found = {[entry |-> e, name |-> Entries[e], version |-> disk[e]] : e \in there}
  OBVIOUS
<1>5. IsFiniteSet(found)
  <2>1. PICK f : f = [e \in there |-> [entry |-> e, name |-> Entries[e], version |-> disk[e]]]
    OBVIOUS
  <2>2. found = {f[e] : e \in there}
    BY <1>4, <2>1
  <2> QED BY <1>3, <2>2, ImageFinite
<1>6. Skills!Discovered = found
  BY <1>1, <1>4 DEF Skills!Discovered, Skills!Definition, Skills!Absent
<1>7. found \in SUBSET Definitions
  <2> SUFFICES ASSUME NEW e \in there
               PROVE  [entry |-> e, name |-> Entries[e], version |-> disk[e]] \in Definitions
    BY <1>4
  <2>1. e \in Skills!Places /\ disk[e] \in 0 .. MaxSkillEdits + 2
    BY <1>2
  <2> QED BY <2>1 DEF Definitions
<1>8. \A c, d \in found : c.entry = d.entry => c = d
  BY <1>4
<1> QED BY <1>5, <1>6, <1>7, <1>8 DEF Discoveries

(* The pinned skills fit the budget, which the settings fix.                *)
Fits(pin) == pin # <<>> => pin[1].bytes <= budget
SkillsFit == /\ budget \in Nat /\ skillEdits \in Nat
             /\ disk \in [Skills!Places -> 0 .. MaxSkillEdits + 2]
             /\ Fits(state.pin)
             /\ run.at # "none" => Fits(run.state.pin)
             /\ run.at = "select" => Discoveries(run.defs)

LEMMA FitsStart == Skills!Init => SkillsFit
<1> SUFFICES ASSUME Skills!Init PROVE SkillsFit
  OBVIOUS
<1>1. budget \in Nat /\ skillEdits \in Nat
  BY SkillsAssumption DEF Skills!Init
<1>2. disk \in [Skills!Places -> 0 .. MaxSkillEdits + 2]
  <2>1. 0 \in 0 .. MaxSkillEdits + 2 /\ 1 \in 0 .. MaxSkillEdits + 2
    BY SkillsAssumption
  <2> QED BY <2>1 DEF Skills!Init, Skills!Absent
<1>3. state.pin = <<>> /\ run.at = "none"
  BY DEF Skills!Init, Skills!NoRun
<1> QED BY <1>1, <1>2, <1>3 DEF SkillsFit, Fits

LEMMA FitsPut ==
  ASSUME SkillsFit, SkillsSound, run.at \in {"discover", "select"}, NEW skills,
         skills.bytes <= budget, run' = Skills!Pinned(skills),
         UNCHANGED <<budget, skillEdits, disk, state>>
  PROVE  SkillsFit'
<1>1. DOMAIN run = {"at", "state", "defs", "stored"} /\ DOMAIN run.state = {"task", "pin"}
  BY DEF SkillsSound, InvocationSound
<1>2. run'.at = "record" /\ run'.state = [run.state EXCEPT !.pin = <<skills>>]
  BY <1>1 DEF Skills!Pinned
<1>3. run'.state.pin = <<skills>>
  BY <1>1, <1>2
<1>4. run'.state.pin[1] = skills
  BY <1>3
<1> QED BY <1>2, <1>4 DEF SkillsFit, Fits

LEMMA FitsKept == SkillsFit /\ SkillsSound /\ [Skills!Next]_skillVars => SkillsFit'
<1> SUFFICES ASSUME SkillsFit, SkillsSound, [Skills!Next]_skillVars PROVE SkillsFit'
  OBVIOUS
<1>1. run.at # "none" => DOMAIN run = {"at", "state", "defs", "stored"}
                         /\ DOMAIN run.state = {"task", "pin"}
  BY DEF SkillsSound, InvocationSound
<1>2. ASSUME UNCHANGED <<budget, skillEdits, disk, state>>,
             run'.at # "none" => Fits(run'.state.pin), run'.at # "select"
      PROVE  SkillsFit'
  BY <1>2 DEF SkillsFit, Fits
<1>3. ASSUME NEW t \in DOMAIN Goals, Skills!Begin(t) PROVE SkillsFit'
  <2>1. PICK mine : mine = IF state.task = t THEN state ELSE [task |-> t, pin |-> <<>>]
    OBVIOUS
  <2>2. run' = [at |-> IF mine.pin = <<>> THEN "discover" ELSE "record",
                state |-> mine, defs |-> {}, stored |-> mine = state]
        /\ UNCHANGED <<budget, skillEdits, disk, state>>
    BY <1>3, <2>1 DEF Skills!Begin, Skills!files
  <2>3. run'.state = mine /\ run'.at # "select"
    BY <2>2
  <2>4. mine.pin \in {state.pin, <<>>}
    BY <2>1
  <2>5. Fits(mine.pin)
    BY <2>4 DEF SkillsFit, Fits
  <2> QED BY <1>2, <2>2, <2>3, <2>5
<1>4. CASE Skills!Discover
  <2>1. run.at \in {"discover", "select"} /\ run.at # "none"
        /\ UNCHANGED <<budget, skillEdits, disk, state>>
    BY <1>4 DEF Skills!Discover, Skills!files
  <2>2. CASE run' = Skills!Pinned(Skills!NoSkills)
    <3>1. PICK skills : skills = Skills!NoSkills
      OBVIOUS
    <3>2. skills.bytes <= budget
      BY <3>1 DEF Skills!NoSkills, SkillsFit
    <3> QED BY <2>1, <2>2, <3>1, <3>2, FitsPut
  <2>3. CASE run' = [run EXCEPT !.at = "select", !.defs = Skills!Discovered]
    <3>1. run'.at = "select" /\ run'.state = run.state /\ run'.defs = Skills!Discovered
      BY <1>1, <2>1, <2>3
    <3>2. Discoveries(Skills!Discovered)
      BY DiscoveredSound DEF SkillsFit
    <3>3. Discoveries(run'.defs)
      BY <3>1, <3>2
    <3>4. Discoveries(run.defs)'
      BY <3>3 DEF Discoveries, Definitions, Skills!Places
    <3> QED BY <2>1, <3>1, <3>4 DEF SkillsFit, Fits
  <2> QED BY <1>4, <2>2, <2>3 DEF Skills!Discover, Skills!LoadingFails
<1>5. CASE Skills!Select
  <2>1. run.at \in {"discover", "select"} /\ run.at = "select"
        /\ UNCHANGED <<budget, skillEdits, disk, state>>
    BY <1>5 DEF Skills!Select, Skills!files
  <2>2. PICK t : t = run.state.task
    OBVIOUS
  <2>3. t \in DOMAIN Goals
    BY <2>1, <2>2 DEF SkillsSound, InvocationSound
  <2>4. PICK defs : defs = run.defs
    OBVIOUS
  <2>5. PICK skills : skills = Skills!Context(defs, Goals[t])
    OBVIOUS
  <2>6. skills.bytes <= budget
    <3>1. Discoveries(defs) /\ budget \in Nat
      BY <2>1, <2>4 DEF SkillsFit
    <3> QED BY <2>3, <2>5, <3>1, WholeFits
  <2>7. PICK none : none = Skills!NoSkills
    OBVIOUS
  <2>8. none.bytes <= budget
    BY <2>7 DEF Skills!NoSkills, SkillsFit
  <2>9. run' = Skills!Pinned(skills) \/ run' = Skills!Pinned(none)
    BY <1>5, <2>2, <2>4, <2>5, <2>7 DEF Skills!Select, Skills!LoadingFails
  <2>10. CASE run' = Skills!Pinned(skills)
    BY <2>1, <2>6, <2>10, FitsPut
  <2>11. CASE run' = Skills!Pinned(none)
    BY <2>1, <2>8, <2>11, FitsPut
  <2> QED BY <2>9, <2>10, <2>11
<1>6. CASE Skills!RecordSelection
  <2>1. run.at = "record" /\ UNCHANGED <<budget, skillEdits, disk, state>>
        /\ run' = [run EXCEPT !.at = IF run.stored THEN "work" ELSE "yield"]
    BY <1>6 DEF Skills!RecordSelection, Skills!files
  <2>2. run'.at \in {"work", "yield"} /\ run'.state = run.state
    BY <1>1, <2>1
  <2> QED BY <1>2, <2>1, <2>2 DEF SkillsFit
<1>7. CASE Skills!Yield
  <2>1. run.at = "yield" /\ state' = run.state /\ UNCHANGED <<budget, skillEdits, disk>>
        /\ run' = [run EXCEPT !.at = "work", !.stored = TRUE]
    BY <1>7 DEF Skills!Yield, Skills!files
  <2>2. run'.at = "work" /\ run'.state = run.state
    BY <1>1, <2>1
  <2> QED BY <2>1, <2>2 DEF SkillsFit, Fits
<1>8. CASE Skills!Packet
  BY <1>8 DEF Skills!Packet, Skills!files, SkillsFit, Fits, Discoveries, Definitions, Skills!Places
<1>9. ASSUME run' = Skills!NoRun, UNCHANGED <<budget, skillEdits, disk, state>>
      PROVE  SkillsFit'
  BY <1>2, <1>9 DEF Skills!NoRun
<1>10. CASE Skills!Return
  BY <1>9, <1>10 DEF Skills!Return, Skills!files
<1>11. CASE Skills!Crash
  BY <1>9, <1>11 DEF Skills!Crash, Skills!files
<1>12. ASSUME NEW e \in Skills!Places, Skills!Edit(e) PROVE SkillsFit'
  <2>1. /\ skillEdits < MaxSkillEdits /\ skillEdits' = skillEdits + 1
        /\ UNCHANGED <<budget, state, run>>
    BY <1>12 DEF Skills!Edit
  <2>2. \A v \in {skillEdits + 2, 0, MaxSkillEdits + 2} : v \in 0 .. MaxSkillEdits + 2
    BY <2>1, SkillsAssumption DEF SkillsFit
  <2>3. disk' = disk \/ \E v \in {skillEdits + 2, 0, MaxSkillEdits + 2} : disk' = [disk EXCEPT ![e] = v]
    BY <1>12 DEF Skills!Edit, Skills!Absent, Skills!Broken
  <2>4. disk' \in [Skills!Places -> 0 .. MaxSkillEdits + 2]
    BY <2>2, <2>3 DEF SkillsFit
  <2>5. skillEdits' \in Nat
    BY <2>1 DEF SkillsFit
  <2> QED BY <2>1, <2>4, <2>5 DEF SkillsFit, Fits, Discoveries, Definitions, Skills!Places
<1>13. CASE UNCHANGED skillVars
  BY <1>13 DEF skillVars, SkillsFit, Fits, Discoveries, Definitions, Skills!Places
<1> QED BY <1>3, <1>4, <1>5, <1>6, <1>7, <1>8, <1>10, <1>11, <1>12, <1>13 DEF Skills!Next

(* The skills' context never exceeds its budget: the assertion at the end of
   build_skill_context does not fail, whatever the roots hold. *)
THEOREM ContextsFit == SpecAll => []ContextFits
<1>1. InitAll => SkillsSound /\ SkillsFit
  BY SkillsStart, FitsStart DEF InitAll
<1>2. (SkillsSound /\ SkillsFit) /\ [NextAll]_allVars => (SkillsSound /\ SkillsFit)'
  BY PartSteps, SkillsKept, FitsKept
<1>3. SkillsSound /\ SkillsFit => ContextFits
  BY DEF ContextFits, Skills!ContextFits, SkillsFit, Fits
<1> QED BY <1>1, <1>2, <1>3, PTL DEF SpecAll

(***************************************************************************)
(* Trace ledger.  Types.                                                   *)
(***************************************************************************)
Statuses == {"event", "span", "none", "started", "failed", "completed", "queued", "leased",
             "acked", "pending", "approved", "denied", "expired", "recorded"}

LedgerFacts == [task : Tasks, key : (Keys \cup Items) \X Statuses, version : Nat]

(* A fact is about its key's task, and an event has one version.            *)
Good(f) == /\ f \in LedgerFacts /\ f.task = TaskOf[f.key[1]]
           /\ f.key[1] \in Keys => f = Fact(f.key[1], "event", 1)

FilesTyped ==
  /\ files \in [Tasks -> Seq(Keys)]
  /\ \A t \in Tasks : \A n \in DOMAIN files[t] : TaskOf[files[t][n]] = t
  /\ \A t \in Tasks : \A m, n \in DOMAIN files[t] : files[t][m] = files[t][n] => m = n
RowsTyped ==
  /\ table \in [Items -> [status : Statuses, version : Nat]]
  /\ \A i \in Items : table[i].version \in (0 .. MaxVersion) \cup (1 .. MaxStarts)
JournalTyped ==
  /\ ledger \in Seq(LedgerFacts)
  /\ \A i \in DOMAIN ledger : Good(ledger[i])
  /\ \A i, j \in DOMAIN ledger : ledger[i].key = ledger[j].key => i = j
WriterStates ==
  {Idle} \cup [stage : {"append"}, key : Keys] \cup [stage : {"import"}, fact : LedgerFacts]
    \cup [stage : {"commit"}, item : Items]
WritersTyped ==
  /\ writer \in [Writers -> WriterStates]
  /\ \A w \in Writers : writer[w].stage = "import" => Good(writer[w].fact)
ReaderTyped ==
  /\ reader \in [stage : {"idle", "repairing"}, task : Tasks \cup {NoValue},
                 left : Seq(Keys), want : Seq(Keys)]
  /\ reader.stage = "repairing" => reader.task \in Tasks
EraserTyped ==
  /\ DOMAIN eraser = {"stage", "task", "next", "doomed", "named"}
  /\ eraser.stage \in {"idle", "ledger", "tables", "file", "artifacts", "done", "cut"}
  /\ eraser.stage \in {"ledger", "tables", "file", "artifacts"} => eraser.task \in Tasks
CountersTyped ==
  /\ starts \in 1 .. MaxStarts /\ writes \in 0 .. MaxWrites
  /\ objects \subseteq {ArtifactOf[k] : k \in Keys}
  /\ sealed \in [Tasks -> {"none", "bare", "listed"}]
  /\ orderly \in BOOLEAN /\ calm \in BOOLEAN

LedgerTyped == /\ FilesTyped /\ RowsTyped /\ JournalTyped /\ WritersTyped /\ ReaderTyped
               /\ EraserTyped /\ CountersTyped

LEMMA FactsOf ==
  ASSUME NEW s \in Statuses, NEW v \in Nat
  PROVE  /\ \A i \in Items : Good(Fact(i, s, v))
         /\ \A k \in Keys : Good(Fact(k, "event", 1))
<1>1. \A x \in Keys \cup Items : TaskOf[x] \in Tasks
  BY LedgerAssumption
<1>2. Keys \cap Items = {}
  BY LedgerAssumption
<1>3. \A i \in Items : Good(Fact(i, s, v))
  BY <1>1, <1>2 DEF Good, Fact, LedgerFacts
<1>4. \A k \in Keys : Good(Fact(k, "event", 1))
  <2> SUFFICES ASSUME NEW k \in Keys PROVE Good(Fact(k, "event", 1))
    OBVIOUS
  <2>1. PICK e : e = "event"
    OBVIOUS
  <2>2. e \in Statuses /\ TaskOf[k] \in Tasks
    BY <1>1, <2>1 DEF Statuses
  <2>3. PICK f : f = [task |-> TaskOf[k], key |-> <<k, e>>, version |-> 1]
    OBVIOUS
  <2>4. f \in LedgerFacts /\ f.key[1] = k /\ f.task = TaskOf[k]
    BY <2>2, <2>3 DEF LedgerFacts
  <2>5. f = Fact(k, "event", 1)
    BY <2>1, <2>3 DEF Fact
  <2> QED BY <2>4, <2>5 DEF Good
<1> QED BY <1>3, <1>4

(* The order of a backfill.                                                 *)
LEMMA FilePlaces ==
  ASSUME FilesTyped, NEW t \in Tasks, NEW k \in ToSet(files[t])
  PROVE  /\ k \in Keys /\ TaskOf[k] = t
         /\ Position(k) \in DOMAIN files[t] /\ Position(k) \in Nat /\ files[t][Position(k)] = k
<1>1. files[t] \in Seq(Keys)
  BY DEF FilesTyped
<1>2. PICK s : s = files[t]
  OBVIOUS
<1>3. DOMAIN s \subseteq Nat /\ \A n \in DOMAIN s : s[n] \in Keys
  BY <1>1, <1>2, LenProperties, ElementOfSeq
<1>4. PICK n \in DOMAIN s : s[n] = k
  BY <1>2 DEF ToSet
<1>5. TaskOf[k] = t
  BY <1>2, <1>4 DEF FilesTyped
<1>6. Position(k) \in DOMAIN s /\ s[Position(k)] = k
  BY <1>2, <1>4, <1>5 DEF Position
<1> QED BY <1>2, <1>3, <1>4, <1>5, <1>6

LEMMA FileFactsAre ==
  ASSUME FilesTyped, NEW f \in FileFacts
  PROVE  /\ f.key[1] \in Keys /\ f = Fact(f.key[1], "event", 1) /\ f.task \in Tasks
         /\ f.task = TaskOf[f.key[1]] /\ f.key[1] \in ToSet(files[f.task])
<1>0. PICK t \in Tasks : \E k \in ToSet(files[t]) : f = Fact(k, "event", 1)
  BY DEF FileFacts
<1>1. PICK k \in ToSet(files[t]) : f = Fact(k, "event", 1)
  BY <1>0
<1>2. k \in Keys /\ TaskOf[k] = t
  BY <1>1, FilePlaces
<1> QED BY <1>1, <1>2 DEF Fact

LEMMA RowFactsAre ==
  ASSUME NEW f \in RowFacts
  PROVE  /\ f.key[1] \in Items /\ f.key[1] \notin Keys
         /\ f = Fact(f.key[1], table[f.key[1]].status,
                     Content(table[f.key[1]].status, table[f.key[1]].version))
<1>1. PICK i \in Items : f = Fact(i, table[i].status, Content(table[i].status, table[i].version))
  BY DEF RowFacts
<1>2. f.key[1] = i
  BY <1>1 DEF Fact
<1> QED BY <1>1, <1>2, LedgerAssumption

LEMMA FactsDiffer ==
  ASSUME FilesTyped
  PROVE  /\ \A f \in FileFacts \cup RowFacts : f.key[1] \in Keys \cup Items
         /\ \A f, g \in FileFacts \cup RowFacts : f.key[1] = g.key[1] => f = g
         /\ \A f \in FileFacts \cup RowFacts : f.key[1] \in Keys => f \in FileFacts
<1>1. \A f \in FileFacts : f.key[1] \in Keys /\ f = Fact(f.key[1], "event", 1)
  BY FileFactsAre
<1>2. \A f \in RowFacts :
        /\ f.key[1] \in Items /\ f.key[1] \notin Keys
        /\ f = Fact(f.key[1], table[f.key[1]].status,
                     Content(table[f.key[1]].status, table[f.key[1]].version))
  BY RowFactsAre
<1>3. \A f, g \in FileFacts : f.key[1] = g.key[1] => f = g
  BY <1>1
<1>4. \A f, g \in RowFacts : f.key[1] = g.key[1] => f = g
  BY <1>2
<1> QED BY <1>1, <1>2, <1>3, <1>4

LEMMA EarlierOrders ==
  ASSUME FilesTyped, NEW S, S = FileFacts \cup RowFacts
  PROVE  /\ \A f \in S : ~ Earlier(f, f)
         /\ \A f, g \in S : f = g \/ Earlier(f, g) \/ Earlier(g, f)
         /\ \A f, g, h \in S : Earlier(f, g) /\ Earlier(g, h) => Earlier(f, h)
<1>1. PICK key : key = [f \in S |-> f.key[1]]
  OBVIOUS
<1>2. PICK said : said = {f \in S : f.key[1] \in Keys}
  OBVIOUS
<1>3. PICK rank : rank = [f \in S |-> IF f.key[1] \in Keys THEN Rank[f.task] ELSE Rank[f.key[1]]]
  OBVIOUS
<1>4. PICK place : place = [f \in S |-> Position(f.key[1])]
  OBVIOUS
<1>5. \A f, g \in S :
        Earlier(f, g) <=>
          IF f \in said /\ g \in said
          THEN rank[f] < rank[g] \/ (f.task = g.task /\ place[f] < place[g])
          ELSE f \in said \/ (g \notin said /\ rank[f] < rank[g])
  BY <1>2, <1>3, <1>4 DEF Earlier
<1>6. \A f \in said : f \in FileFacts
  BY <1>2, FactsDiffer
<1>7. \A f \in said : /\ f.task \in Tasks /\ rank[f] = Rank[f.task]
                      /\ place[f] \in Nat
  <2> SUFFICES ASSUME NEW f \in said PROVE f.task \in Tasks /\ rank[f] = Rank[f.task] /\ place[f] \in Nat
    OBVIOUS
  <2>1. f \in S /\ f.key[1] \in Keys /\ f \in FileFacts
    BY <1>2, <1>6
  <2>2. f.task \in Tasks /\ f.key[1] \in ToSet(files[f.task])
    BY <2>1, FileFactsAre
  <2>3. Position(f.key[1]) \in Nat
    BY <2>2, FilePlaces
  <2> QED BY <1>3, <1>4, <2>1, <2>2, <2>3
<1>8. \A f, g \in said : f.task = g.task /\ place[f] = place[g] => f = g
  <2> SUFFICES ASSUME NEW f \in said, NEW g \in said, f.task = g.task, place[f] = place[g]
               PROVE  f = g
    OBVIOUS
  <2>1. f \in S /\ g \in S /\ f \in FileFacts /\ g \in FileFacts
    BY <1>2, <1>6
  <2>2. f.task \in Tasks /\ f.key[1] \in ToSet(files[f.task])
    BY <2>1, FileFactsAre
  <2>3. g.task \in Tasks /\ g.key[1] \in ToSet(files[g.task])
    BY <2>1, FileFactsAre
  <2>4. files[f.task][Position(f.key[1])] = f.key[1]
    BY <2>2, FilePlaces
  <2>5. files[g.task][Position(g.key[1])] = g.key[1]
    BY <2>3, FilePlaces
  <2>6. f.key[1] = g.key[1]
    BY <1>4, <2>1, <2>4, <2>5
  <2> QED BY <2>1, <2>6, FactsDiffer
<1>9. \A f, g \in said : rank[f] = rank[g] => f.task = g.task
  BY <1>7, LedgerAssumption
<1>10. \A f \in S \ said : f.key[1] \in Items /\ rank[f] = Rank[f.key[1]]
  BY <1>2, <1>3, FactsDiffer
<1>11. \A f \in S : rank[f] \in Nat
  BY <1>2, <1>7, <1>10, LedgerAssumption
<1>12. \A f, g \in S \ said : rank[f] = rank[g] => f = g
  <2> SUFFICES ASSUME NEW f \in S \ said, NEW g \in S \ said, rank[f] = rank[g] PROVE f = g
    OBVIOUS
  <2>1. f.key[1] = g.key[1]
    BY <1>10, LedgerAssumption
  <2> QED BY <2>1, FactsDiffer
<1>13. PICK about : about = [f \in said |-> f.task]
  OBVIOUS
<1>14. \A f, g \in said : (f.task = g.task <=> about[f] = about[g])
                          /\ (rank[f] = rank[g] <=> about[f] = about[g])
  BY <1>7, <1>9, <1>13
<1>15. \A f \in S : ~ Earlier(f, f)
  BY <1>5, <1>7, <1>11
<1>16. \A f, g \in S : f = g \/ Earlier(f, g) \/ Earlier(g, f)
  BY <1>5, <1>7, <1>8, <1>11, <1>12, <1>14
<1>17. \A f, g, h \in S : Earlier(f, g) /\ Earlier(g, h) => Earlier(f, h)
  BY <1>2, <1>5, <1>7, <1>11, <1>14
<1> QED BY <1>15, <1>16, <1>17

FactsSorted(n) ==
  /\ n \in Nat /\ Facts \in [1..n -> FileFacts \cup RowFacts]
  /\ \A j, k \in 1..n : j < k => Earlier(Facts[j], Facts[k])

LEMMA FactsFinite == ASSUME FilesTyped PROVE IsFiniteSet(FileFacts \cup RowFacts)
<1>1. PICK g : g = [k \in Keys |-> Fact(k, "event", 1)]
  OBVIOUS
<1>2. PICK h : h = [i \in Items |-> Fact(i, table[i].status, Content(table[i].status, table[i].version))]
  OBVIOUS
<1>3. PICK G : G = {g[k] : k \in Keys}
  OBVIOUS
<1>4. PICK H : H = {h[i] : i \in Items}
  OBVIOUS
<1>5. IsFiniteSet(G) /\ IsFiniteSet(H)
  <2>1. IsFiniteSet(Keys) /\ IsFiniteSet(Items)
    BY LedgerAssumption
  <2>2. IsFiniteSet({g[k] : k \in Keys})
    BY <2>1, ImageFinite
  <2>3. IsFiniteSet({h[i] : i \in Items})
    BY <2>1, ImageFinite
  <2> QED BY <1>3, <1>4, <2>2, <2>3
<1>6. FileFacts \in SUBSET G
  <2> SUFFICES ASSUME NEW f \in FileFacts PROVE f \in G
    OBVIOUS
  <2>1. f.key[1] \in Keys /\ f = Fact(f.key[1], "event", 1)
    BY FileFactsAre
  <2> QED BY <1>1, <1>3, <2>1
<1>7. RowFacts \in SUBSET H
  <2> SUFFICES ASSUME NEW f \in RowFacts PROVE f \in H
    OBVIOUS
  <2>1. f.key[1] \in Items /\ f = Fact(f.key[1], table[f.key[1]].status,
                     Content(table[f.key[1]].status, table[f.key[1]].version))
    BY RowFactsAre
  <2> QED BY <1>2, <1>4, <2>1
<1>8. IsFiniteSet(G \cup H)
  BY <1>5, FS_Union
<1>9. FileFacts \cup RowFacts \in SUBSET (G \cup H)
  BY <1>6, <1>7
<1> QED BY <1>8, <1>9, FS_Subset

LEMMA FactsListed == ASSUME FilesTyped PROVE \E n : FactsSorted(n)
<1>1. PICK S : S = FileFacts \cup RowFacts
  OBVIOUS
<1>2. IsFiniteSet(S)
  BY <1>1, FactsFinite
<1>3. PICK before : before = [f \in S |-> {g \in S : Earlier(g, f)}]
  OBVIOUS
<1>4. /\ before \in [S -> SUBSET S]
      /\ \A f, g \in S : g \in before[f] <=> Earlier(g, f)
  BY <1>3
<1>5. /\ \A f \in S : ~ Earlier(f, f)
      /\ \A f, g \in S : f = g \/ Earlier(f, g) \/ Earlier(g, f)
      /\ \A f, g, h \in S : Earlier(f, g) /\ Earlier(g, h) => Earlier(f, h)
  BY <1>1, EarlierOrders
<1>6. /\ \A x \in S : x \notin before[x]
      /\ \A x, y \in S : x = y \/ x \in before[y] \/ y \in before[x]
      /\ \A x, y, z \in S : x \in before[y] /\ y \in before[z] => x \in before[z]
  <2> HIDE <1>3
  <2> QED BY <1>4, <1>5
<1>7. PICK n : n = Cardinality(S)
  OBVIOUS
<1>8. n \in Nat
  BY <1>2, <1>7, FS_CardinalityType
<1>9. PICK spot : spot = Facts
  OBVIOUS
<1>10. spot = [i \in 1..n |-> CHOOSE d \in S : Cardinality({c \in S : Earlier(c, d)}) = i - 1]
  BY <1>1, <1>7, <1>9 DEF Facts, InOrder
<1>11. \A k \in 1..n : spot[k] \in S /\ Cardinality(before[spot[k]]) = k - 1
  <2> SUFFICES ASSUME NEW k \in 1..n PROVE spot[k] \in S /\ Cardinality(before[spot[k]]) = k - 1
    OBVIOUS
  <2>2. k \in 1..Cardinality(S)
    BY <1>7
  <2>3. PICK d \in S : Cardinality(before[d]) = k - 1
    BY <1>2, <1>4, <1>6, <2>2, PlacesTaken
  <2>4. before[d] = {c \in S : Earlier(c, d)}
    BY <1>3
  <2>5. spot[k] \in S /\ Cardinality({c \in S : Earlier(c, spot[k])}) = k - 1
    BY <1>10, <2>3, <2>4
  <2>6. before[spot[k]] = {c \in S : Earlier(c, spot[k])}
    BY <1>3, <2>5
  <2> QED BY <2>5, <2>6
<1>12. \A k \in 1..Cardinality(S) : spot[k] \in S /\ Cardinality(before[spot[k]]) = k - 1
  BY <1>7, <1>11
<1>13. Laid(spot, S, before)
  BY <1>2, <1>4, <1>6, <1>12, OrderedPlaces
<1>14. \A j, k \in 1..n : j < k => Earlier(spot[j], spot[k])
  BY <1>4, <1>7, <1>11, <1>13 DEF Laid
<1>15. spot \in [1..n -> S]
  BY <1>10, <1>11
<1>16. FactsSorted(n)
  BY <1>1, <1>8, <1>9, <1>14, <1>15 DEF FactsSorted
<1> QED BY <1>16

LEMMA FactsGood ==
  ASSUME FilesTyped, RowsTyped, NEW f \in FileFacts \cup RowFacts
  PROVE  Good(f)
<1>1. CASE f \in FileFacts
  <2>1. f.key[1] \in Keys /\ f = Fact(f.key[1], "event", 1)
    BY <1>1, FileFactsAre
  <2>2. "event" \in Statuses /\ 1 \in Nat
    BY DEF Statuses
  <2> QED BY <2>1, <2>2, FactsOf
<1>2. CASE f \in RowFacts
  <2>1. PICK i : i = f.key[1]
    OBVIOUS
  <2>2. i \in Items /\ f = Fact(i, table[i].status, Content(table[i].status, table[i].version))
    BY <1>2, <2>1, RowFactsAre
  <2>3. table[i].status \in Statuses /\ Content(table[i].status, table[i].version) \in Nat
    BY <2>2 DEF RowsTyped, Content
  <2>4. PICK s : s = table[i].status
    OBVIOUS
  <2>5. PICK v : v = Content(table[i].status, table[i].version)
    OBVIOUS
  <2>6. s \in Statuses /\ v \in Nat /\ f = Fact(i, s, v)
    BY <2>2, <2>3, <2>4, <2>5
  <2> QED BY <2>2, <2>6, FactsOf
<1> QED BY <1>1, <1>2

(***************************************************************************)
(* Every import adds facts that the ledger does not have.                   *)
(***************************************************************************)
Adding(add) ==
  /\ add \in Seq(LedgerFacts) /\ ledger' = ledger \o add
  /\ \A n \in DOMAIN add : Good(add[n])
  /\ \A n \in DOMAIN add : \A i \in DOMAIN ledger : ledger[i].key # add[n].key
  /\ \A m, n \in DOMAIN add : add[m].key = add[n].key => m = n

(* The events it adds are in the files, in their order.                     *)
FromFiles(add) ==
  /\ \A n \in DOMAIN add : add[n].key[1] \in Keys => add[n].key[1] \in ToSet(files[add[n].task])
  /\ \A t \in Tasks : \A m, n \in DOMAIN add : \A j, k \in DOMAIN files[t] :
       add[m].key[1] = files[t][j] /\ add[n].key[1] = files[t][k] /\ j < k => m < n

LEMMA SameIsByKey ==
  ASSUME JournalTyped, NEW f, Good(f)
  PROVE  Same(f) = {i \in DOMAIN ledger : ledger[i].key = f.key}
<1>1. \A i \in DOMAIN ledger : ledger[i].key = f.key => ledger[i].task = f.task
  BY DEF JournalTyped, Good
<1> QED BY <1>1 DEF Same

LEMMA ImportAdds ==
  ASSUME JournalTyped, NEW f, Good(f), Import(f)
  PROVE  \E add : Adding(add) /\ add \in {<<>>, <<f>>}
                  /\ \E i \in DOMAIN ledger' : ledger'[i].key = f.key
<1>1. ledger \in Seq(LedgerFacts) /\ f \in LedgerFacts
  BY DEF JournalTyped, Good
<1>2. PICK same : same = Same(f)
  OBVIOUS
<1>3. same = {i \in DOMAIN ledger : ledger[i].key = f.key}
  BY <1>2, SameIsByKey
<1>4. CASE same # {}
  <2>1. ledger' = ledger
    BY <1>2, <1>4 DEF Import, Extended
  <2>2. ledger \o <<>> = ledger
    BY <1>1, ConcatEmptySeq
  <2>3. <<>> \in Seq(LedgerFacts)
    BY EmptySeq
  <2>4. Adding(<<>>)
    BY <2>1, <2>2, <2>3 DEF Adding
  <2>5. \E i \in DOMAIN ledger' : ledger'[i].key = f.key
    BY <1>3, <1>4, <2>1
  <2> QED BY <2>4, <2>5
<1>5. CASE same = {}
  <2>1. ledger' = Append(ledger, f)
    BY <1>2, <1>5 DEF Import, Extended
  <2>2. ledger' = ledger \o <<f>>
    BY <1>1, <2>1, AppendIsConcat
  <2>3. <<f>> \in Seq(LedgerFacts) /\ DOMAIN <<f>> = {1} /\ <<f>>[1] = f
    BY <1>1
  <2>4. \A i \in DOMAIN ledger : ledger[i].key # f.key
    BY <1>3, <1>5
  <2>5. Adding(<<f>>)
    BY <2>2, <2>3, <2>4 DEF Adding
  <2>6. \E i \in DOMAIN ledger' : ledger'[i].key = f.key
    <3>1. ledger' \in Seq(LedgerFacts) /\ Len(ledger') = Len(ledger) + 1 /\ ledger'[Len(ledger) + 1] = f
      BY <1>1, <2>1, AppendProperties
    <3>2. Len(ledger) \in Nat /\ DOMAIN ledger' = 1..Len(ledger')
      BY <1>1, <3>1, LenProperties
    <3>3. Len(ledger) + 1 \in DOMAIN ledger'
      BY <3>1, <3>2
    <3> QED BY <3>1, <3>3
  <2> QED BY <2>5, <2>6
<1> QED BY <1>4, <1>5

LEMMA BackfillAdds ==
  ASSUME FilesTyped, RowsTyped, JournalTyped, Backfill
  PROVE  \E add : Adding(add) /\ FromFiles(add)
<1>1. PICK S : S = FileFacts \cup RowFacts
  OBVIOUS
<1>2. PICK n : FactsSorted(n)
  BY FactsListed
<1>3. PICK facts : facts = Facts
  OBVIOUS
<1>4. /\ n \in Nat /\ facts \in [1..n -> S]
      /\ \A j, k \in 1..n : j < k => Earlier(facts[j], facts[k])
  BY <1>1, <1>2, <1>3 DEF FactsSorted
<1>5. PICK good : good = {k \in DOMAIN facts : \A m \in 1 .. k : ~ Conflicts(facts[m])}
  OBVIOUS
<1>6. PICK new : new = {f \in S : Same(f) = {}}
  OBVIOUS
<1>7. PICK c : c = Cardinality(good)
  OBVIOUS
<1>8. PICK add : add = Only(SubSeq(facts, 1, c), new)
  OBVIOUS
<1>9. ledger' = ledger \o add
  BY <1>1, <1>3, <1>5, <1>6, <1>7, <1>8 DEF Backfill
<1>10. c \in 0..n
  <2>1. PICK D : D = 1..n
    OBVIOUS
  <2>2. IsFiniteSet(D) /\ Cardinality(D) = n
    BY <1>4, <2>1, FS_Interval
  <2>3. good \in SUBSET D
    BY <1>4, <1>5, <2>1
  <2>4. Cardinality(good) <= Cardinality(D) /\ IsFiniteSet(good)
    BY <2>2, <2>3, FS_Subset
  <2>5. Cardinality(good) \in Nat
    BY <2>4, FS_CardinalityType
  <2> QED BY <1>4, <1>7, <2>2, <2>4, <2>5
<1>11. PICK p : p = SubSeq(facts, 1, c)
  OBVIOUS
<1>12. /\ p \in Seq(S) /\ DOMAIN p = 1..c
       /\ \A k \in 1..c : p[k] = facts[k]
  <2>1. \A k \in 1..c : facts[k] \in S
    BY <1>4, <1>10
  <2>2. /\ p \in Seq(S) /\ Len(p) = (IF 1 <= c THEN c - 1 + 1 ELSE 0)
        /\ \A k \in 1 .. c - 1 + 1 : p[k] = facts[1 + k - 1]
    BY <1>10, <1>11, <2>1, SubSeqProperties
  <2>3. Len(p) = c
    BY <1>10, <2>2
  <2>4. DOMAIN p = 1..c
    BY <2>2, <2>3, LenProperties
  <2>5. \A k \in 1..c : 1 + k - 1 = k /\ k \in 1 .. c - 1 + 1
    BY <1>10
  <2> QED BY <2>2, <2>4, <2>5
<1>12a. PICK spot, m : Drawn(spot, m, p, new)
  <2>1. p \in Seq(S)
    BY <1>12
  <2> QED BY <2>1, Picking
<1>13. Picks(spot, m, p, new) /\ Only(p, new) = [k \in 1..m |-> p[spot[k]]]
  BY <1>12a DEF Drawn
<1>14. add = [k \in 1..m |-> p[spot[k]]]
  BY <1>8, <1>11, <1>13
<1>15. /\ m \in Nat /\ DOMAIN add = 1..m
       /\ \A k \in 1..m : add[k] \in new /\ add[k] \in S /\ spot[k] \in 1..n /\ add[k] = facts[spot[k]]
       /\ \A j, k \in 1..m : j < k => spot[j] < spot[k]
  <2>1. /\ m \in Nat /\ spot \in [1..m -> 1..c]
        /\ \A k \in 1..m : p[spot[k]] \in new
        /\ \A j, k \in 1..m : j < k => spot[j] < spot[k]
    BY <1>12, <1>13 DEF Picks
  <2>2. DOMAIN add = 1..m /\ \A k \in 1..m : add[k] = p[spot[k]]
    BY <1>14
  <2>3. \A k \in 1..m : spot[k] \in 1..c /\ spot[k] \in 1..n
    BY <1>4, <1>10, <2>1
  <2>4. \A k \in 1..m : add[k] \in new /\ add[k] = facts[spot[k]]
    BY <1>12, <2>1, <2>2, <2>3
  <2>5. \A k \in 1..m : add[k] \in S
    BY <1>6, <2>4
  <2> QED BY <2>1, <2>2, <2>3, <2>4, <2>5
<1>16. \A j, k \in 1..m : j < k => Earlier(add[j], add[k])
  BY <1>4, <1>15
<1>17. \A k \in 1..m : Good(add[k])
  <2>1. \A f \in S : Good(f)
    BY <1>1, FactsGood
  <2> QED BY <1>15, <2>1
<1>18. add \in Seq(LedgerFacts)
  <2>1. \A k \in 1..m : add[k] \in LedgerFacts
    BY <1>17 DEF Good
  <2>2. add = [k \in 1..m |-> add[k]]
    BY <1>14, <1>15
  <2> QED BY <1>15, <2>1, <2>2
<1>19. \A k \in 1..m : \A i \in DOMAIN ledger : ledger[i].key # add[k].key
  <2> SUFFICES ASSUME NEW k \in 1..m, NEW i \in DOMAIN ledger, ledger[i].key = add[k].key
               PROVE  FALSE
    OBVIOUS
  <2>1. PICK f : f = add[k]
    OBVIOUS
  <2>2. Good(f) /\ Same(f) = {} /\ ledger[i].key = f.key
    BY <1>6, <1>15, <1>17, <2>1
  <2>3. Same(f) = {l \in DOMAIN ledger : ledger[l].key = f.key}
    BY <2>2, SameIsByKey
  <2> QED BY <2>2, <2>3
<1>20. \A f \in S : ~ Earlier(f, f)
  BY <1>1, EarlierOrders
<1>21. \A f, g \in S : f.key[1] = g.key[1] => f = g
  BY <1>1, FactsDiffer
<1>22. \A j, k \in 1..m : add[j].key[1] = add[k].key[1] => j = k
  <2> SUFFICES ASSUME NEW j \in 1..m, NEW k \in 1..m, add[j].key[1] = add[k].key[1], j < k
               PROVE  FALSE
    BY <1>15
  <2> QED BY <1>15, <1>16, <1>20, <1>21
<1>23. Adding(add)
  <2>1. \A j, k \in 1..m : add[j].key = add[k].key => j = k
    BY <1>22
  <2> QED BY <1>9, <1>15, <1>17, <1>18, <1>19, <2>1 DEF Adding
<1>24. \A k \in 1..m : add[k].key[1] \in Keys =>
         add[k].task \in Tasks /\ add[k].key[1] \in ToSet(files[add[k].task])
  <2> SUFFICES ASSUME NEW k \in 1..m, add[k].key[1] \in Keys
               PROVE  add[k].task \in Tasks /\ add[k].key[1] \in ToSet(files[add[k].task])
    OBVIOUS
  <2>1. PICK f : f = add[k]
    OBVIOUS
  <2>2. f \in FileFacts
    BY <1>1, <1>15, <2>1, FactsDiffer
  <2> QED BY <2>1, <2>2, FileFactsAre
<1>25. ASSUME NEW t \in Tasks, NEW x \in 1..m, NEW y \in 1..m,
              NEW j \in DOMAIN files[t], NEW k \in DOMAIN files[t],
              add[x].key[1] = files[t][j], add[y].key[1] = files[t][k], j < k
       PROVE  x < y
  <2>1. files[t] \in Seq(Keys)
    BY DEF FilesTyped
  <2>2. PICK s : s = files[t]
    OBVIOUS
  <2>3. /\ DOMAIN s \subseteq Nat /\ s[j] \in Keys /\ s[k] \in Keys
        /\ s[j] \in ToSet(files[t]) /\ s[k] \in ToSet(files[t])
    BY <2>1, <2>2, LenProperties, ElementOfSeq DEF ToSet
  <2>4. Position(s[j]) = j /\ Position(s[k]) = k
    <3>1. /\ Position(s[j]) \in DOMAIN files[t] /\ files[t][Position(s[j])] = s[j]
          /\ Position(s[k]) \in DOMAIN files[t] /\ files[t][Position(s[k])] = s[k]
      BY <2>3, FilePlaces
    <3> QED BY <2>2, <3>1 DEF FilesTyped
  <2>5. add[x].task = t /\ add[y].task = t
    <3>1. TaskOf[s[j]] = t /\ TaskOf[s[k]] = t
      BY <2>2 DEF FilesTyped
    <3>2. Good(add[x]) /\ Good(add[y])
      BY <1>17
    <3> QED BY <1>25, <2>2, <3>1, <3>2 DEF Good
  <2>6. ~ Earlier(add[y], add[x])
    <3>1. add[x].key[1] = s[j] /\ add[y].key[1] = s[k]
      BY <1>25, <2>2
    <3>2. Rank[t] \in Nat
      BY LedgerAssumption
    <3>3. j \in Nat /\ k \in Nat
      BY <2>2, <2>3
    <3> QED BY <1>25, <2>3, <2>4, <2>5, <3>1, <3>2, <3>3 DEF Earlier
  <2>7. x # y
    <3>1. x = y => s[j] = s[k]
      BY <1>25, <2>2
    <3>2. j \in Nat /\ k \in Nat
      BY <2>2, <2>3
    <3> QED BY <1>25, <2>4, <3>1, <3>2
  <2> QED BY <1>15, <1>16, <2>6, <2>7
<1>26. FromFiles(add)
  BY <1>15, <1>24, <1>25 DEF FromFiles
<1> QED BY <1>23, <1>26

LEMMA AddingPlaces ==
  ASSUME JournalTyped, NEW add, Adding(add)
  PROVE  /\ Len(ledger) \in Nat /\ DOMAIN ledger = 1 .. Len(ledger)
         /\ Len(add) \in Nat /\ DOMAIN add = 1 .. Len(add)
         /\ ledger' \in Seq(LedgerFacts) /\ DOMAIN ledger' = 1 .. (Len(ledger) + Len(add))
         /\ \A i \in DOMAIN ledger : ledger'[i] = ledger[i]
         /\ \A n \in DOMAIN add : ledger'[Len(ledger) + n] = add[n]
<1>1. ledger \in Seq(LedgerFacts) /\ add \in Seq(LedgerFacts) /\ ledger' = ledger \o add
  BY DEF JournalTyped, Adding
<1>2. PICK l : l = ledger
  OBVIOUS
<1>3. /\ Len(l) \in Nat /\ DOMAIN l = 1 .. Len(l)
      /\ Len(add) \in Nat /\ DOMAIN add = 1 .. Len(add)
  BY <1>1, <1>2, LenProperties
<1>4. /\ l \o add \in Seq(LedgerFacts) /\ Len(l \o add) = Len(l) + Len(add)
      /\ \A i \in 1 .. Len(l) + Len(add) :
           (l \o add)[i] = IF i <= Len(l) THEN l[i] ELSE add[i - Len(l)]
  BY <1>1, <1>2, ConcatProperties
<1>5. DOMAIN (l \o add) = 1 .. (Len(l) + Len(add))
  BY <1>4, LenProperties
<1>6. \A i \in DOMAIN l : (l \o add)[i] = l[i]
  BY <1>3, <1>4
<1>7. \A n \in DOMAIN add : (l \o add)[Len(l) + n] = add[n]
  BY <1>3, <1>4
<1> QED BY <1>1, <1>2, <1>3, <1>4, <1>5, <1>6, <1>7

LEMMA AddingKeeps ==
  ASSUME JournalTyped, NEW add, Adding(add)
  PROVE  JournalTyped'
<1>1. /\ Len(ledger) \in Nat /\ DOMAIN ledger = 1 .. Len(ledger)
      /\ Len(add) \in Nat /\ DOMAIN add = 1 .. Len(add)
      /\ ledger' \in Seq(LedgerFacts) /\ DOMAIN ledger' = 1 .. (Len(ledger) + Len(add))
      /\ \A i \in DOMAIN ledger : ledger'[i] = ledger[i]
      /\ \A n \in DOMAIN add : ledger'[Len(ledger) + n] = add[n]
  BY AddingPlaces
<1>2. \A i \in DOMAIN ledger' :
        \/ i \in DOMAIN ledger /\ ledger'[i] = ledger[i]
        \/ i - Len(ledger) \in DOMAIN add /\ ledger'[i] = add[i - Len(ledger)]
  <2> SUFFICES ASSUME NEW i \in DOMAIN ledger', i \notin DOMAIN ledger
               PROVE  i - Len(ledger) \in DOMAIN add /\ ledger'[i] = add[i - Len(ledger)]
    BY <1>1
  <2>1. i - Len(ledger) \in DOMAIN add /\ i = Len(ledger) + (i - Len(ledger))
    BY <1>1
  <2> QED BY <1>1, <2>1
<1>3. \A i \in DOMAIN ledger' : Good(ledger'[i])
  BY <1>2 DEF JournalTyped, Adding
<1>4. \A i, j \in DOMAIN ledger' : ledger'[i].key = ledger'[j].key => i = j
  <2> SUFFICES ASSUME NEW i \in DOMAIN ledger', NEW j \in DOMAIN ledger',
                      ledger'[i].key = ledger'[j].key
               PROVE  i = j
    OBVIOUS
  <2>1. /\ \A x, y \in DOMAIN ledger : ledger[x].key = ledger[y].key => x = y
        /\ \A x, y \in DOMAIN add : add[x].key = add[y].key => x = y
        /\ \A x \in DOMAIN ledger : \A y \in DOMAIN add : ledger[x].key # add[y].key
    BY DEF JournalTyped, Adding
  <2>2. CASE i \in DOMAIN ledger /\ ledger'[i] = ledger[i] /\ j \in DOMAIN ledger /\ ledger'[j] = ledger[j]
    BY <2>1, <2>2
  <2>3. PICK a : a = i - Len(ledger)
    OBVIOUS
  <2>4. PICK b : b = j - Len(ledger)
    OBVIOUS
  <2>5. CASE a \in DOMAIN add /\ ledger'[i] = add[a] /\ b \in DOMAIN add /\ ledger'[j] = add[b]
    <3>1. a = b
      BY <2>1, <2>5
    <3> QED BY <1>1, <2>3, <2>4, <3>1
  <2>6. CASE i \in DOMAIN ledger /\ ledger'[i] = ledger[i] /\ b \in DOMAIN add /\ ledger'[j] = add[b]
    BY <2>1, <2>6
  <2>7. CASE a \in DOMAIN add /\ ledger'[i] = add[a] /\ j \in DOMAIN ledger /\ ledger'[j] = ledger[j]
    BY <2>1, <2>7
  <2> QED BY <1>2, <2>2, <2>3, <2>4, <2>5, <2>6, <2>7
<1> QED BY <1>1, <1>3, <1>4 DEF JournalTyped

LEMMA OnlyKeeps ==
  ASSUME JournalTyped, NEW S, ledger' = Only(ledger, S)
  PROVE  JournalTyped'
<1>1. ledger \in Seq(LedgerFacts)
  BY DEF JournalTyped
<1>2. PICK spot, n : Drawn(spot, n, ledger, S)
  BY <1>1, Picking
<1>3. Picks(spot, n, ledger, S) /\ ledger' = [k \in 1..n |-> ledger[spot[k]]]
  BY <1>2 DEF Drawn
<1>4. /\ n \in Nat /\ DOMAIN ledger' = 1..n
      /\ \A k \in 1..n : spot[k] \in DOMAIN ledger /\ ledger'[k] = ledger[spot[k]]
      /\ \A j, k \in 1..n : j < k => spot[j] < spot[k]
  BY <1>3 DEF Picks
<1>5. ledger' \in Seq(LedgerFacts)
  BY <1>1, OnlySound
<1>6. DOMAIN ledger \subseteq Nat
  BY <1>1, LenProperties
<1>7. \A j, k \in 1..n : spot[j] = spot[k] => j = k
  BY <1>4, <1>6
<1>8. \A i \in DOMAIN ledger' : Good(ledger'[i])
  BY <1>4 DEF JournalTyped
<1>9. \A i, j \in DOMAIN ledger' : ledger'[i].key = ledger'[j].key => i = j
  BY <1>4, <1>7 DEF JournalTyped
<1> QED BY <1>5, <1>8, <1>9 DEF JournalTyped

LEMMA WriterImports ==
  ASSUME JournalTyped, WritersTyped, NEW w \in Writers, writer[w].stage = "import",
         Import(writer[w].fact)
  PROVE  JournalTyped'
<1>1. PICK f : f = writer[w].fact
  OBVIOUS
<1>2. Good(f) /\ Import(f)
  BY <1>1 DEF WritersTyped
<1>3. PICK add : Adding(add)
  BY <1>2, ImportAdds
<1> QED BY <1>3, AddingKeeps

(* A thread that moves to another state.                                    *)
LEMMA WriterMoves ==
  ASSUME WritersTyped, NEW w \in Writers, NEW to \in WriterStates,
         to.stage = "import" => Good(to.fact),
         writer' = [writer EXCEPT ![w] = to]
  PROVE  WritersTyped'
<1>1. writer' \in [Writers -> WriterStates]
  BY DEF WritersTyped
<1>2. \A v \in Writers : writer'[v] = IF v = w THEN to ELSE writer[v]
  BY DEF WritersTyped
<1> QED BY <1>1, <1>2 DEF WritersTyped

LEMMA StatesOfWriters ==
  /\ Idle \in WriterStates /\ Idle.stage # "import"
  /\ \A k \in Keys : [stage |-> "append", key |-> k] \in WriterStates
  /\ \A f \in LedgerFacts : [stage |-> "import", fact |-> f] \in WriterStates
  /\ \A i \in Items : [stage |-> "commit", item |-> i] \in WriterStates
BY DEF WriterStates, Idle

LEMMA LedgerBounds == MaxVersion \in Nat /\ MaxWrites \in Nat /\ MaxStarts \in Nat /\ MaxStarts > 0
BY LedgerAssumption

LEMMA LedgerTypesBegin == LedgerInit => LedgerTyped
<1> SUFFICES ASSUME LedgerInit PROVE LedgerTyped
  OBVIOUS
<1>1. FilesTyped
  BY DEF LedgerInit, FilesTyped
<1>2. RowsTyped
  <2>1. NoRow \in [status : Statuses, version : Nat] /\ NoRow.version = 0
    BY DEF NoRow, Statuses
  <2>2. 0 \in 0 .. MaxVersion
    BY LedgerAssumption
  <2> QED BY <2>1, <2>2 DEF LedgerInit, RowsTyped
<1>3. JournalTyped
  BY DEF LedgerInit, JournalTyped
<1>4. WritersTyped
  BY StatesOfWriters DEF LedgerInit, WritersTyped
<1>5. ReaderTyped
  BY DEF LedgerInit, ReaderTyped, NoRead
<1>6. EraserTyped
  BY DEF LedgerInit, EraserTyped, NoErasure
<1>7. CountersTyped
  <2>1. starts \in 1 .. MaxStarts /\ writes \in 0 .. MaxWrites
    BY LedgerBounds DEF LedgerInit
  <2> QED BY <2>1 DEF LedgerInit, CountersTyped
<1> QED BY <1>1, <1>2, <1>3, <1>4, <1>5, <1>6, <1>7 DEF LedgerTyped

LEMMA LedgerTypesHold == LedgerTyped /\ [LedgerNext]_ledgerVars => LedgerTyped'
<1> SUFFICES ASSUME LedgerTyped, [LedgerNext]_ledgerVars PROVE LedgerTyped'
  OBVIOUS
<1> USE DEF LedgerTyped
<1>a. /\ ledger \in Seq(LedgerFacts) /\ \A t \in Tasks : files[t] \in Seq(Keys)
      /\ files \in [Tasks -> Seq(Keys)]
  BY DEF JournalTyped, FilesTyped
<1>b. ASSUME files' = files PROVE FilesTyped'
  BY <1>b DEF FilesTyped
<1>c. ASSUME table' = table PROVE RowsTyped'
  BY <1>c DEF RowsTyped
<1>d. ASSUME ledger' = ledger PROVE JournalTyped'
  BY <1>d DEF JournalTyped
<1>e. ASSUME writer' = writer PROVE WritersTyped'
  BY <1>e DEF WritersTyped
<1>f. ASSUME reader' = reader PROVE ReaderTyped'
  BY <1>f DEF ReaderTyped
<1>g. ASSUME eraser' = eraser PROVE EraserTyped'
  BY <1>g DEF EraserTyped
<1>1. ASSUME NEW w \in Writers, NEW k \in Keys, Put(w, k) PROVE LedgerTyped'
  <2>1. WritersTyped'
    BY <1>1, WriterMoves, StatesOfWriters DEF Put
  <2>2. CountersTyped'
    <3>1. {ArtifactOf[k]} \in SUBSET {ArtifactOf[l] : l \in Keys}
      OBVIOUS
    <3>2. writes' \in 0 .. MaxWrites
      BY <1>1, LedgerAssumption DEF Put, CountersTyped
    <3> QED BY <1>1, <3>1, <3>2 DEF Put, Moved, CountersTyped
  <2> QED BY <1>1, <1>b, <1>c, <1>d, <1>f, <1>g, <2>1, <2>2 DEF Put
<1>2. ASSUME NEW w \in Writers, NEW i \in Items, Change(w, i) PROVE LedgerTyped'
  <2>1. PICK change \in Changes(StoreOf[i]) :
          /\ change[1] = table[i].status
          /\ table' = [table EXCEPT ![i] = [status |-> change[2], version |-> @.version + 1]]
          /\ writer' = [writer EXCEPT ![w] =
                [stage |-> "import",
                 fact |-> Fact(i, change[2], Content(change[2], table[i].version + 1))]]
    BY <1>2 DEF Change
  <2>2. PICK status : status = change[2]
    OBVIOUS
  <2>3. status \in Statuses
    BY <2>1, <2>2 DEF Changes, Statuses
  <2>4. PICK version : version = table[i].version + 1
    OBVIOUS
  <2>5. version \in Nat /\ version \in 0 .. MaxVersion
    BY <1>2, <2>4, LedgerAssumption DEF Change, RowsTyped
  <2>6. PICK content : content = Content(status, version)
    OBVIOUS
  <2>7. content \in Nat
    BY <2>5, <2>6 DEF Content
  <2>8. PICK fact : fact = Fact(i, status, content)
    OBVIOUS
  <2>9. Good(fact) /\ fact \in LedgerFacts
    BY <2>3, <2>7, <2>8, FactsOf DEF Good
  <2>10. RowsTyped'
    <3>1. table' = [table EXCEPT ![i] = [status |-> status, version |-> version]]
      BY <2>1, <2>2, <2>4
    <3> QED BY <2>3, <2>5, <3>1 DEF RowsTyped
  <2>11. WritersTyped'
    <3>1. PICK to : to = [stage |-> "import", fact |-> fact]
      OBVIOUS
    <3>2. to \in WriterStates /\ Good(to.fact)
      BY <2>9, <3>1, StatesOfWriters
    <3>3. writer' = [writer EXCEPT ![w] = to]
      BY <2>1, <2>2, <2>4, <2>6, <2>8, <3>1
    <3> QED BY <3>2, <3>3, WriterMoves
  <2>12. CountersTyped'
    <3>1. writes' \in 0 .. MaxWrites
      BY <1>2, LedgerBounds DEF Change, CountersTyped
    <3> QED BY <1>2, <3>1 DEF Change, Moved, CountersTyped
  <2> QED BY <1>2, <1>b, <1>d, <1>f, <1>g, <2>10, <2>11, <2>12 DEF Change
<1>3. ASSUME NEW w \in Writers, NEW i \in Items, Observe(w, i) PROVE LedgerTyped'
  <2>1. PICK fact : fact = Fact(i, "span", starts)
    OBVIOUS
  <2>2. Good(fact)
    <3>1. PICK status : status = "span"
      OBVIOUS
    <3>2. status \in Statuses
      BY <3>1 DEF Statuses
    <3>3. starts \in Nat
      BY LedgerAssumption DEF CountersTyped
    <3> QED BY <2>1, <3>1, <3>2, <3>3, FactsOf
  <2>3. JournalTyped'
    <3>1. Import(fact)
      BY <1>3, <2>1 DEF Observe
    <3>2. PICK add : Adding(add)
      BY <2>2, <3>1, ImportAdds
    <3> QED BY <3>2, AddingKeeps
  <2>4. WritersTyped'
    <3>1. PICK to : to = IF Conflicts(Fact(i, "span", starts)) THEN Idle
                         ELSE [stage |-> "commit", item |-> i]
      OBVIOUS
    <3>2. to \in WriterStates /\ to.stage # "import"
      BY <3>1, StatesOfWriters
    <3>3. writer' = [writer EXCEPT ![w] = to]
      BY <1>3, <3>1 DEF Observe
    <3> QED BY <3>2, <3>3, WriterMoves
  <2>5. CountersTyped'
    <3>1. writes' \in 0 .. MaxWrites
      BY <1>3, LedgerBounds DEF Observe, CountersTyped
    <3> QED BY <1>3, <3>1 DEF Observe, Moved, stores, CountersTyped
  <2> QED BY <1>3, <1>b, <1>c, <1>f, <1>g, <2>3, <2>4, <2>5 DEF Observe, stores
<1>4. ASSUME NEW w \in Writers, AppendEvent(w) PROVE LedgerTyped'
  <2>1. PICK k : k = writer[w].key
    OBVIOUS
  <2>2. k \in Keys
    BY <1>4, <2>1 DEF AppendEvent, WritersTyped, WriterStates, Idle
  <2>3. PICK t : t = TaskOf[k]
    OBVIOUS
  <2>4. t \in Tasks
    BY <2>2, <2>3, LedgerAssumption
  <2>5. PICK new : new = ~ Contains(files[t], k)
    OBVIOUS
  <2>6. /\ files' = IF new THEN [files EXCEPT ![t] = Append(@, k)] ELSE files
        /\ writer' = [writer EXCEPT ![w] = [stage |-> "import", fact |-> Fact(k, "event", 1)]]
    BY <1>4, <2>1, <2>3, <2>5 DEF AppendEvent
  <2>7. FilesTyped'
    <3>1. CASE new
      <4>1. PICK s : s = files[t]
        OBVIOUS
      <4>2. s \in Seq(Keys)
        BY <1>a, <2>4, <4>1
      <4>3. PICK r : r = Append(s, k)
        OBVIOUS
      <4>4. /\ r \in Seq(Keys) /\ Len(r) = Len(s) + 1
            /\ \A n \in 1 .. Len(s) : r[n] = s[n]
            /\ r[Len(s) + 1] = k
        BY <2>2, <4>2, <4>3, AppendProperties
      <4>5. DOMAIN r = 1 .. (Len(s) + 1) /\ DOMAIN s = 1 .. Len(s) /\ Len(s) \in Nat
        BY <4>2, <4>4, LenProperties
      <4>6. \A n \in DOMAIN s : s[n] # k /\ TaskOf[s[n]] = t
        BY <2>4, <2>5, <3>1, <4>1, <4>5 DEF Contains, FilesTyped
      <4>7. \A m, n \in DOMAIN s : s[m] = s[n] => m = n
        BY <2>4, <4>1 DEF FilesTyped
      <4>8. \A n \in DOMAIN r : TaskOf[r[n]] = t
        BY <2>3, <4>4, <4>5, <4>6
      <4>9. \A m, n \in DOMAIN r : r[m] = r[n] => m = n
        BY <4>4, <4>5, <4>6, <4>7
      <4>10. files' = [files EXCEPT ![t] = r]
        BY <2>6, <3>1, <4>1, <4>3
      <4>11. files' \in [Tasks -> Seq(Keys)]
        BY <1>a, <4>4, <4>10
      <4>12. \A u \in Tasks : files'[u] = IF u = t THEN r ELSE files[u]
        BY <1>a, <2>4, <4>10
      <4> QED BY <4>8, <4>9, <4>11, <4>12 DEF FilesTyped
    <3>2. CASE ~ new
      BY <1>b, <2>6, <3>2
    <3> QED BY <3>1, <3>2
  <2>8. WritersTyped'
    <3>1. PICK fact : fact = Fact(k, "event", 1)
      OBVIOUS
    <3>2. Good(fact) /\ fact \in LedgerFacts
      <4>1. "event" \in Statuses /\ 1 \in Nat
        BY DEF Statuses
      <4>2. Good(fact)
        BY <2>2, <3>1, <4>1, FactsOf
      <4> QED BY <4>2 DEF Good
    <3>3. PICK to : to = [stage |-> "import", fact |-> fact]
      OBVIOUS
    <3>4. to \in WriterStates /\ Good(to.fact)
      BY <3>2, <3>3, StatesOfWriters
    <3>5. writer' = [writer EXCEPT ![w] = to]
      BY <2>6, <3>1, <3>3
    <3> QED BY <3>4, <3>5, WriterMoves
  <2>9. CountersTyped'
    BY <1>4 DEF AppendEvent, Moved, CountersTyped
  <2> QED BY <1>4, <1>c, <1>d, <1>f, <1>g, <2>7, <2>8, <2>9 DEF AppendEvent
<1>5. ASSUME NEW w \in Writers, Record(w) PROVE LedgerTyped'
  <2>1. JournalTyped'
    BY <1>5, WriterImports DEF Record
  <2>2. WritersTyped'
    BY <1>5, WriterMoves, StatesOfWriters DEF Record
  <2>3. CountersTyped'
    BY <1>5 DEF Record, Moved, stores, CountersTyped
  <2> QED BY <1>5, <1>b, <1>c, <1>f, <1>g, <2>1, <2>2, <2>3 DEF Record, stores
<1>6. ASSUME NEW w \in Writers, CommitSpan(w) PROVE LedgerTyped'
  <2>1. RowsTyped'
    <3>1. starts \in 1 .. MaxStarts /\ starts \in Nat
      BY LedgerAssumption DEF CountersTyped
    <3>2. PICK row : row = [status |-> "span", version |-> starts]
      OBVIOUS
    <3>3. row \in [status : Statuses, version : Nat] /\ row.version \in 1 .. MaxStarts
      BY <3>1, <3>2 DEF Statuses
    <3>4. table' = [table EXCEPT ![writer[w].item] = row]
      BY <1>6, <3>2 DEF CommitSpan
    <3> QED BY <3>3, <3>4 DEF RowsTyped
  <2>2. WritersTyped'
    BY <1>6, WriterMoves, StatesOfWriters DEF CommitSpan
  <2>3. CountersTyped'
    BY <1>6 DEF CommitSpan, Moved, CountersTyped
  <2> QED BY <1>6, <1>b, <1>d, <1>f, <1>g, <2>1, <2>2, <2>3 DEF CommitSpan
<1>7. ASSUME NEW t \in Tasks, BeginRead(t) PROVE LedgerTyped'
  <2>1. ReaderTyped'
    BY <1>a, <1>7 DEF BeginRead, ReaderTyped, NoRead
  <2>2. CountersTyped'
    BY <1>7 DEF BeginRead, Moved, stores, CountersTyped
  <2> QED BY <1>7, <1>b, <1>c, <1>d, <1>e, <1>g, <2>1, <2>2 DEF BeginRead, stores
<1>8. ASSUME NEW t \in Tasks, Seal(t) PROVE LedgerTyped'
  <2>1. CountersTyped'
    BY <1>8 DEF Seal, Moved, CountersTyped
  <2> QED BY <1>8, <1>b, <1>c, <1>d, <1>e, <1>f, <1>g, <2>1 DEF Seal
<1>9. ASSUME NEW t \in Tasks, List(t) PROVE LedgerTyped'
  <2>1. CountersTyped'
    BY <1>9 DEF List, Moved, CountersTyped
  <2> QED BY <1>9, <1>b, <1>c, <1>d, <1>e, <1>f, <1>g, <2>1 DEF List
<1>10. ASSUME NEW t \in Tasks, Scan(t) PROVE LedgerTyped'
  <2>1. EraserTyped'
    BY <1>10 DEF Scan, Begin, EraserTyped
  <2>2. CountersTyped'
    <3>1. Quiet \in BOOLEAN
      BY DEF Quiet
    <3> QED BY <1>10, <3>1 DEF Scan, Begin, stores, CountersTyped
  <2> QED BY <1>10, <1>b, <1>c, <1>d, <1>e, <1>f, <2>1, <2>2 DEF Scan, Begin, stores
<1>11. ASSUME Repair PROVE LedgerTyped'
  <2>1. PICK k : k = Head(reader.left)
    OBVIOUS
  <2>2. reader.left \in Seq(Keys) /\ reader.left # <<>>
    BY <1>11 DEF Repair, ReaderTyped
  <2>3. k \in Keys /\ Tail(reader.left) \in Seq(Keys)
    BY <2>1, <2>2, HeadTailProperties
  <2>4. PICK fact : fact = Fact(k, "event", 1)
    OBVIOUS
  <2>5. JournalTyped'
    <3>1. "event" \in Statuses /\ 1 \in Nat
      BY DEF Statuses
    <3>2. Good(fact)
      BY <2>3, <2>4, <3>1, FactsOf
    <3>3. Import(fact)
      BY <1>11, <2>1, <2>4 DEF Repair
    <3>4. PICK add : Adding(add)
      BY <3>2, <3>3, ImportAdds
    <3> QED BY <3>4, AddingKeeps
  <2>6. ReaderTyped'
    BY <1>11, <2>3 DEF Repair, ReaderTyped
  <2>7. CountersTyped'
    BY <1>11 DEF Repair, Moved, stores, CountersTyped
  <2> QED BY <1>11, <1>b, <1>c, <1>e, <1>g, <2>5, <2>6, <2>7 DEF Repair, stores
<1>12. ASSUME Serve PROVE LedgerTyped'
  <2>1. ReaderTyped'
    BY <1>12 DEF Serve, ReaderTyped, NoRead
  <2>2. CountersTyped'
    BY <1>12 DEF Serve, Moved, stores, CountersTyped
  <2> QED BY <1>12, <1>b, <1>c, <1>d, <1>e, <1>g, <2>1, <2>2 DEF Serve, stores
<1>13. ASSUME Backfill PROVE LedgerTyped'
  <2>1. PICK add : Adding(add) /\ FromFiles(add)
    BY <1>13, BackfillAdds
  <2>2. JournalTyped'
    BY <2>1, AddingKeeps
  <2>3. CountersTyped'
    BY <1>13 DEF Backfill, stores, CountersTyped
  <2> QED BY <1>13, <1>b, <1>c, <1>e, <1>f, <1>g, <2>2, <2>3 DEF Backfill, stores
<1>14. ASSUME EraseLedger PROVE LedgerTyped'
  <2>1. JournalTyped'
    BY <1>14, OnlyKeeps DEF EraseLedger
  <2>2. EraserTyped'
    BY <1>14 DEF EraseLedger, EraserTyped
  <2>3. CountersTyped'
    BY <1>14 DEF EraseLedger, stores, CountersTyped
  <2> QED BY <1>14, <1>b, <1>c, <1>e, <1>f, <2>1, <2>2, <2>3 DEF EraseLedger, stores
<1>15. ASSUME EraseTable PROVE LedgerTyped'
  <2>1. RowsTyped'
    <3>1. NoRow \in [status : Statuses, version : Nat] /\ NoRow.version = 0
      BY DEF NoRow, Statuses
    <3>2. 0 \in 0 .. MaxVersion
      BY LedgerAssumption
    <3> QED BY <1>15, <3>1, <3>2 DEF EraseTable, RowsTyped
  <2>2. EraserTyped'
    BY <1>15 DEF EraseTable, EraserTyped
  <2>3. CountersTyped'
    BY <1>15 DEF EraseTable, CountersTyped
  <2> QED BY <1>15, <1>b, <1>d, <1>e, <1>f, <2>1, <2>2, <2>3 DEF EraseTable
<1>16. ASSUME EraseFile PROVE LedgerTyped'
  <2>1. FilesTyped'
    <3>1. PICK t : t = eraser.task
      OBVIOUS
    <3>2. files' = [files EXCEPT ![t] = <<>>]
      BY <1>16, <3>1 DEF EraseFile
    <3>3. <<>> \in Seq(Keys) /\ DOMAIN <<>> = {}
      BY EmptySeq
    <3>4. \A u \in Tasks : files'[u] = <<>> \/ files'[u] = files[u]
      BY <1>a, <3>2
    <3>5. files' \in [Tasks -> Seq(Keys)]
      BY <1>a, <3>2, <3>3
    <3> QED BY <3>3, <3>4, <3>5 DEF FilesTyped
  <2>2. EraserTyped'
    BY <1>16 DEF EraseFile, EraserTyped
  <2>3. CountersTyped'
    BY <1>16 DEF EraseFile, CountersTyped
  <2> QED BY <1>16, <1>c, <1>d, <1>e, <1>f, <2>1, <2>2, <2>3 DEF EraseFile
<1>17. ASSUME EraseArtifacts PROVE LedgerTyped'
  <2>1. EraserTyped'
    BY <1>17 DEF EraseArtifacts, EraserTyped, NoErasure
  <2>2. CountersTyped'
    BY <1>17 DEF EraseArtifacts, CountersTyped
  <2> QED BY <1>17, <1>b, <1>c, <1>d, <1>e, <1>f, <2>1, <2>2 DEF EraseArtifacts
<1>18. ASSUME ProcessStops PROVE LedgerTyped'
  <2>1. WritersTyped'
    BY <1>18, StatesOfWriters DEF ProcessStops, WritersTyped
  <2>2. ReaderTyped'
    BY <1>18 DEF ProcessStops, ReaderTyped, NoRead
  <2>3. EraserTyped'
    BY <1>18 DEF ProcessStops, EraserTyped, NoErasure
  <2>4. CountersTyped'
    <3>1. starts' \in 1 .. MaxStarts
      BY <1>18, LedgerBounds DEF ProcessStops, CountersTyped
    <3> QED BY <1>18, <3>1 DEF ProcessStops, Moved, stores, CountersTyped
  <2> QED BY <1>18, <1>b, <1>c, <1>d, <2>1, <2>2, <2>3, <2>4 DEF ProcessStops, stores
<1>19. ASSUME UNCHANGED ledgerVars PROVE LedgerTyped'
  <2>1. CountersTyped'
    BY <1>19 DEF ledgerVars, stores, CountersTyped
  <2> QED BY <1>19, <1>b, <1>c, <1>d, <1>e, <1>f, <1>g, <2>1 DEF ledgerVars, stores
<1> QED BY <1>1, <1>2, <1>3, <1>4, <1>5, <1>6, <1>7, <1>8, <1>9, <1>10, <1>11, <1>12, <1>13,
          <1>14, <1>15, <1>16, <1>17, <1>18, <1>19 DEF LedgerNext

(* The state of the ledger and the stores keeps its shape (LedgerTypeOK).   *)
THEOREM LedgerTypes == LedgerSpec => []LedgerTypeOK
<1>1. LedgerTyped => LedgerTypeOK
  <2> SUFFICES ASSUME LedgerTyped PROVE LedgerTypeOK
    OBVIOUS
  <2>1. \A t \in Tasks : ToSet(files[t]) \subseteq {k \in Keys : TaskOf[k] = t}
    <3> SUFFICES ASSUME NEW t \in Tasks, NEW k \in ToSet(files[t]) PROVE k \in Keys /\ TaskOf[k] = t
      OBVIOUS
    <3> QED BY FilePlaces DEF LedgerTyped
  <2>2. \A i \in DOMAIN ledger : ledger[i].task \in Tasks
    BY DEF LedgerTyped, JournalTyped, Good, LedgerFacts
  <2>3. \A w \in Writers : writer[w].stage \in {"idle", "append", "import", "commit"}
    BY DEF LedgerTyped, WritersTyped, WriterStates, Idle
  <2>4. reader.stage \in {"idle", "repairing"}
    BY DEF LedgerTyped, ReaderTyped
  <2> QED BY <2>1, <2>2, <2>3, <2>4
          DEF LedgerTypeOK, LedgerTyped, RowsTyped, EraserTyped, CountersTyped
<1>2. LedgerInit => LedgerTyped
  BY LedgerTypesBegin
<1>3. LedgerTyped /\ [LedgerNext]_ledgerVars => LedgerTyped'
  BY LedgerTypesHold
<1> QED BY <1>1, <1>2, <1>3, PTL DEF LedgerSpec

(***************************************************************************)
(* Trace ledger.  An erasure that nothing disturbs.                         *)
(***************************************************************************)

(* Until an erasure is done, what a file names is in the store, and what is
   about to be named.                                                       *)
NamedAreStored ==
  eraser.stage # "done" =>
    /\ \A t \in Tasks : \A n \in DOMAIN files[t] : ArtifactOf[files[t][n]] \in objects \cup {NoValue}
    /\ \A w \in Writers : writer[w].stage = "append" =>
         ArtifactOf[writer[w].key] \in objects \cup {NoValue}

Others == UNION {NamedInFile(u) : u \in Tasks \ {eraser.task}}

(* What each stage of an erasure leaves for the next.                       *)
ErasureUnderWay ==
  (calm /\ eraser.stage # "done") =>
    /\ eraser.stage \in {"ledger", "tables", "file", "artifacts"}
    /\ sealed[eraser.task] # "bare"
    /\ eraser.named \subseteq eraser.doomed \cup Others
    /\ eraser.doomed \cap Others = {}
    /\ eraser.stage # "ledger" => \A i \in DOMAIN ledger : ledger[i].task # eraser.task
    /\ eraser.stage = "tables" => eraser.next \in 1 .. 5
    /\ eraser.stage = "tables" => \A i \in Items : TaskOf[i] = eraser.task =>
         \A m \in 1 .. (eraser.next - 1) : StoreOf[i] = Stores[m] => table[i] = NoRow
    /\ eraser.stage \in {"file", "artifacts"} =>
         \A i \in Items : TaskOf[i] = eraser.task => table[i] = NoRow
    /\ eraser.stage = "artifacts" => files[eraser.task] = <<>>
    /\ eraser.stage = "ledger" => eraser.next = 1

LEMMA NamedStay ==
  ASSUME LedgerTyped, NamedAreStored, [LedgerNext]_ledgerVars
  PROVE  NamedAreStored'
<1> USE DEF LedgerTyped
<1>b. ASSUME eraser'.stage # "done" => eraser.stage # "done", files' = files, objects' = objects,
             \A w \in Writers : writer'[w] = writer[w] \/ writer'[w].stage # "append"
      PROVE  NamedAreStored'
  BY <1>b DEF NamedAreStored
<1>w. /\ Idle.stage # "append" /\ DOMAIN writer = Writers
  BY DEF Idle, WritersTyped
<1>1. ASSUME NEW w \in Writers, NEW k \in Keys, Put(w, k) PROVE NamedAreStored'
  <2>1. PICK to : to = [stage |-> "append", key |-> k]
    OBVIOUS
  <2>2. /\ \A v \in Writers : writer'[v] = IF v = w THEN to ELSE writer[v]
        /\ to.stage = "append" /\ to.key = k
    BY <1>w, <1>1, <2>1 DEF Put
  <2>3. ArtifactOf[k] \in objects' \cup {NoValue} /\ objects \in SUBSET objects'
    BY <1>1 DEF Put
  <2>4. files' = files /\ eraser' = eraser
    BY <1>1 DEF Put
  <2> QED BY <2>2, <2>3, <2>4 DEF NamedAreStored
<1>2. ASSUME NEW w \in Writers, NEW i \in Items, Change(w, i) PROVE NamedAreStored'
  <2>1. \A v \in Writers : writer'[v] = writer[v] \/ writer'[v].stage = "import"
    BY <1>w, <1>2 DEF Change
  <2> QED BY <1>b, <1>2, <2>1 DEF Change
<1>3. ASSUME NEW w \in Writers, NEW i \in Items, Observe(w, i) PROVE NamedAreStored'
  <2>1. PICK to : to = IF Conflicts(Fact(i, "span", starts)) THEN Idle
                       ELSE [stage |-> "commit", item |-> i]
    OBVIOUS
  <2>2. \A v \in Writers : writer'[v] = IF v = w THEN to ELSE writer[v]
    BY <1>w, <1>3, <2>1 DEF Observe
  <2>3. to.stage # "append"
    BY <1>w, <2>1
  <2> QED BY <1>b, <1>3, <2>2, <2>3 DEF Observe, stores
<1>4. ASSUME NEW w \in Writers, AppendEvent(w) PROVE NamedAreStored'
  <2>1. PICK k : k = writer[w].key
    OBVIOUS
  <2>2. k \in Keys
    BY <1>4, <2>1 DEF AppendEvent, WritersTyped, WriterStates, Idle
  <2>3. PICK t : t = TaskOf[k]
    OBVIOUS
  <2>4. t \in Tasks
    BY <2>2, <2>3, LedgerAssumption
  <2>5. PICK s : s = files[t]
    OBVIOUS
  <2>6. s \in Seq(Keys)
    BY <2>4, <2>5 DEF FilesTyped
  <2>7. files' = files \/ files' = [files EXCEPT ![t] = Append(s, k)]
    BY <1>4, <2>1, <2>3, <2>5 DEF AppendEvent
  <2>8. \A n \in DOMAIN Append(s, k) : Append(s, k)[n] = k \/ (n \in DOMAIN s /\ Append(s, k)[n] = s[n])
    <3>1. /\ Append(s, k) \in Seq(Keys) /\ Len(Append(s, k)) = Len(s) + 1
          /\ \A n \in 1 .. Len(s) : Append(s, k)[n] = s[n]
          /\ Append(s, k)[Len(s) + 1] = k
      BY <2>2, <2>6, AppendProperties
    <3>2. DOMAIN Append(s, k) = 1 .. (Len(s) + 1) /\ DOMAIN s = 1 .. Len(s) /\ Len(s) \in Nat
      BY <2>6, <3>1, LenProperties
    <3> QED BY <3>1, <3>2
  <2>9. \A u \in Tasks : \A n \in DOMAIN files'[u] :
          files'[u][n] = k \/ (n \in DOMAIN files[u] /\ files'[u][n] = files[u][n])
    <3>1. DOMAIN files = Tasks
      BY DEF FilesTyped
    <3>2. \A u \in Tasks : files'[u] = files[u] \/ (u = t /\ files'[u] = Append(s, k))
      BY <2>7, <3>1
    <3> QED BY <2>5, <2>8, <3>2
  <2>10. \A v \in Writers : writer'[v] = writer[v] \/ writer'[v].stage = "import"
    BY <1>w, <1>4 DEF AppendEvent
  <2>11. eraser.stage # "done" => ArtifactOf[k] \in objects \cup {NoValue}
    BY <1>4, <2>1 DEF AppendEvent, NamedAreStored
  <2>12. objects' = objects /\ eraser' = eraser
    BY <1>4 DEF AppendEvent
  <2> QED BY <2>9, <2>10, <2>11, <2>12 DEF NamedAreStored
<1>5. ASSUME NEW w \in Writers, Record(w) \/ CommitSpan(w) PROVE NamedAreStored'
  <2>1. \A v \in Writers : writer'[v] = writer[v] \/ writer'[v] = Idle
    BY <1>w, <1>5 DEF Record, CommitSpan
  <2> QED BY <1>b, <1>w, <1>5, <2>1 DEF Record, CommitSpan, stores
<1>6. ASSUME NEW t \in Tasks, BeginRead(t) \/ Seal(t) \/ List(t) \/ Scan(t) PROVE NamedAreStored'
  BY <1>b, <1>6 DEF BeginRead, Seal, List, Scan, Begin, stores
<1>7. ASSUME Repair \/ Serve \/ Backfill PROVE NamedAreStored'
  BY <1>b, <1>7 DEF Repair, Serve, Backfill, stores
<1>8. ASSUME EraseLedger \/ EraseTable PROVE NamedAreStored'
  BY <1>b, <1>8 DEF EraseLedger, EraseTable, stores
<1>9. ASSUME EraseFile PROVE NamedAreStored'
  <2>1. \A u \in Tasks : files'[u] = files[u] \/ files'[u] = <<>>
    BY <1>9 DEF EraseFile, FilesTyped
  <2>2. DOMAIN <<>> = {}
    OBVIOUS
  <2>3. /\ \A u \in Tasks : \A n \in DOMAIN files'[u] : n \in DOMAIN files[u] /\ files'[u][n] = files[u][n]
    BY <2>1, <2>2
  <2>4. objects' = objects /\ eraser.stage # "done" /\ writer' = writer
    BY <1>9 DEF EraseFile
  <2> QED BY <2>3, <2>4 DEF NamedAreStored
<1>10. ASSUME EraseArtifacts PROVE NamedAreStored'
  BY <1>10 DEF EraseArtifacts, NoErasure, NamedAreStored
<1>11. ASSUME ProcessStops PROVE NamedAreStored'
  <2>1. \A v \in Writers : writer'[v] = Idle
    BY <1>11 DEF ProcessStops
  <2>2. eraser'.stage # "done" => eraser.stage # "done"
    BY <1>11 DEF ProcessStops
  <2> QED BY <1>b, <1>w, <1>11, <2>1, <2>2 DEF ProcessStops, stores
<1>12. ASSUME UNCHANGED ledgerVars PROVE NamedAreStored'
  BY <1>12 DEF ledgerVars, stores, NamedAreStored
<1> QED BY <1>1, <1>2, <1>3, <1>4, <1>5, <1>6, <1>7, <1>8, <1>9, <1>10, <1>11, <1>12 DEF LedgerNext

(* What the ledger has of a task is what its file has, in a quiet state.    *)
LEMMA NamedAgree ==
  ASSUME LedgerTyped, Quiet, NEW t \in Tasks
  PROVE  Named(Events(t)) = NamedInFile(t)
<1>1. ledger \in Seq(LedgerFacts)
  BY DEF LedgerTyped, JournalTyped
<1>2. PICK e : e = Events(t)
  OBVIOUS
<1>3. ToSet(e) = ToSet(ledger) \cap {f \in ToSet(ledger) : f.task = t /\ f.key[1] \in Keys}
  BY <1>1, <1>2, OnlySound DEF Events
<1>4. \A i \in DOMAIN e : e[i].key[1] \in Keys
  BY <1>3 DEF ToSet
<1>5. ToSet(KeysOf(e)) = {e[i].key[1] : i \in DOMAIN e}
  BY DEF KeysOf, ToSet
<1>6. ToSet(files[t]) = ToSet(KeysOf(e))
  BY <1>2 DEF Quiet
<1>7. Named(e) = {ArtifactOf[e[i].key[1]] : i \in DOMAIN e} \ {NoValue}
  BY <1>4 DEF Named
<1>8. {ArtifactOf[e[i].key[1]] : i \in DOMAIN e} = {ArtifactOf[k] : k \in ToSet(files[t])}
  BY <1>5, <1>6
<1>9. {ArtifactOf[files[t][n]] : n \in DOMAIN files[t]} = {ArtifactOf[k] : k \in ToSet(files[t])}
  BY DEF ToSet
<1> QED BY <1>2, <1>7, <1>8, <1>9 DEF NamedInFile

LEMMA ErasureGoesOn ==
  ASSUME LedgerTyped, ErasureUnderWay, [LedgerNext]_ledgerVars
  PROVE  ErasureUnderWay'
<1> USE DEF LedgerTyped
<1>a. ASSUME calm' = FALSE PROVE ErasureUnderWay'
  BY <1>a DEF ErasureUnderWay
<1>1. ASSUME NEW w \in Writers,
             \/ \E k \in Keys : Put(w, k)
             \/ \E i \in Items : Change(w, i) \/ Observe(w, i)
             \/ AppendEvent(w) \/ Record(w) \/ CommitSpan(w)
      PROVE  ErasureUnderWay'
  BY <1>a, <1>1 DEF Put, Change, Observe, AppendEvent, Record, CommitSpan, Moved
<1>2. ASSUME NEW t \in Tasks, BeginRead(t) \/ Seal(t) \/ List(t) PROVE ErasureUnderWay'
  BY <1>a, <1>2 DEF BeginRead, Seal, List, Moved
<1>3. ASSUME Repair \/ Serve \/ ProcessStops PROVE ErasureUnderWay'
  BY <1>a, <1>3 DEF Repair, Serve, ProcessStops, Moved
<1>4. ASSUME NEW t \in Tasks, Scan(t) PROVE ErasureUnderWay'
  <2> SUFFICES ASSUME Quiet PROVE ErasureUnderWay'
    BY <1>a, <1>4 DEF Scan, Begin, Quiet
  <2>1. PICK mine : mine = Named(Events(t))
    OBVIOUS
  <2>2. PICK theirs : theirs = UNION {Named(Events(u)) : u \in Tasks \ {t}}
    OBVIOUS
  <2>3. PICK others : others = UNION {NamedInFile(u) : u \in Tasks \ {t}}
    OBVIOUS
  <2>4. \A u \in Tasks : Named(Events(u)) = NamedInFile(u)
    BY NamedAgree
  <2>5. mine = NamedInFile(t)
    BY <2>1, <2>4
  <2>6. {Named(Events(u)) : u \in Tasks \ {t}} = {NamedInFile(u) : u \in Tasks \ {t}}
    BY <2>4
  <2>7. theirs = others
    BY <2>2, <2>3, <2>6
  <2>8. eraser' = [stage |-> "ledger", task |-> t, next |-> 1, doomed |-> mine \ theirs, named |-> mine]
    BY <1>4, <2>1, <2>2, <2>5 DEF Scan, Begin
  <2>9. /\ eraser'.stage = "ledger" /\ eraser'.task = t /\ eraser'.next = 1
        /\ eraser'.doomed = mine \ theirs /\ eraser'.named = mine
    BY <2>8
  <2>10. files' = files /\ sealed' = sealed
    BY <1>4 DEF Scan, Begin, stores
  <2>11. Others' = others
    BY <2>3, <2>9, <2>10 DEF Others, NamedInFile
  <2>12. sealed'[eraser'.task] # "bare"
    BY <2>9, <2>10 DEF Quiet
  <2> QED BY <2>7, <2>9, <2>11, <2>12 DEF ErasureUnderWay
<1>5. ASSUME Backfill PROVE ErasureUnderWay'
  BY <1>5 DEF Backfill, ErasureUnderWay
<1>6. ASSUME EraseLedger PROVE ErasureUnderWay'
  <2>1. ledger \in Seq(LedgerFacts)
    BY DEF JournalTyped
  <2>2. PICK S : S = {f \in ToSet(ledger) : f.task # eraser.task}
    OBVIOUS
  <2>3. ledger' = Only(ledger, S)
    BY <1>6, <2>2 DEF EraseLedger
  <2>4. ToSet(Only(ledger, S)) = ToSet(ledger) \cap S
    BY <2>1, OnlySound
  <2>5. \A i \in DOMAIN ledger' : ledger'[i].task # eraser.task
    <3>1. \A i \in DOMAIN ledger' : ledger'[i] \in S
      BY <2>3, <2>4 DEF ToSet
    <3> QED BY <2>2, <3>1
  <2>6. /\ eraser'.stage = "tables" /\ eraser'.task = eraser.task /\ eraser'.next = eraser.next
        /\ eraser'.doomed = eraser.doomed /\ eraser'.named = eraser.named
        /\ eraser.stage = "ledger"
    BY <1>6 DEF EraseLedger, EraserTyped
  <2>7. files' = files /\ sealed' = sealed /\ calm' = calm /\ table' = table
    BY <1>6 DEF EraseLedger, stores
  <2>8. Others' = Others
    BY <2>6, <2>7 DEF Others, NamedInFile
  <2> QED BY <2>5, <2>6, <2>7, <2>8 DEF ErasureUnderWay
<1>7. ASSUME EraseTable PROVE ErasureUnderWay'
  <2> SUFFICES ASSUME calm PROVE ErasureUnderWay'
    BY <1>7 DEF EraseTable, ErasureUnderWay
  <2>1. eraser.stage = "tables"
    BY <1>7 DEF EraseTable
  <2>2. PICK t : t = eraser.task
    OBVIOUS
  <2>3. PICK next : next = eraser.next
    OBVIOUS
  <2>4. next \in 1 .. 5
    BY <2>1, <2>3 DEF ErasureUnderWay
  <2>5. Len(Stores) = 5 /\ ToSet(Stores) = {Stores[m] : m \in 1 .. 5}
    BY DEF Stores, ToSet
  <2>6. /\ eraser'.stage = IF next = 5 THEN "file" ELSE "tables"
        /\ eraser'.task = t /\ eraser'.next = next + 1
        /\ eraser'.doomed = eraser.doomed /\ eraser'.named = eraser.named
    BY <1>7, <2>1, <2>2, <2>3, <2>5 DEF EraseTable, EraserTyped
  <2>7. files' = files /\ sealed' = sealed /\ ledger' = ledger /\ calm' = calm
    BY <1>7 DEF EraseTable
  <2>8. Others' = Others
    BY <2>2, <2>6, <2>7 DEF Others, NamedInFile
  <2>9. \A i \in Items : table'[i] = IF TaskOf[i] = t /\ StoreOf[i] = Stores[next] THEN NoRow ELSE table[i]
    BY <1>7, <2>2, <2>3 DEF EraseTable
  <2>10. \A i \in Items : TaskOf[i] = t => \A m \in 1 .. (next - 1) : StoreOf[i] = Stores[m] => table[i] = NoRow
    BY <2>1, <2>2, <2>3 DEF ErasureUnderWay
  <2>11. \A i \in Items : TaskOf[i] = t => \A m \in 1 .. next : StoreOf[i] = Stores[m] => table'[i] = NoRow
    <3> SUFFICES ASSUME NEW i \in Items, TaskOf[i] = t, NEW m \in 1 .. next, StoreOf[i] = Stores[m]
                 PROVE  table'[i] = NoRow
      OBVIOUS
    <3>1. m = next \/ m \in 1 .. (next - 1)
      BY <2>4
    <3> QED BY <2>9, <2>10, <3>1
  <2>12. \A i \in Items : \E m \in 1 .. 5 : StoreOf[i] = Stores[m]
    BY <2>5, LedgerAssumption
  <2>13. next = 5 => \A i \in Items : TaskOf[i] = t => table'[i] = NoRow
    BY <2>11, <2>12
  <2>14. next # 5 => next + 1 \in 1 .. 5 /\ next + 1 - 1 = next
    BY <2>4
  <2>15. sealed[t] # "bare" /\ eraser.named \subseteq eraser.doomed \cup Others
         /\ eraser.doomed \cap Others = {} /\ \A i \in DOMAIN ledger : ledger[i].task # t
    BY <2>1, <2>2 DEF ErasureUnderWay
  <2>16. CASE next = 5
    <3>1. eraser'.stage = "file"
      BY <2>6, <2>16
    <3> QED BY <2>6, <2>7, <2>8, <2>13, <2>15, <2>16, <3>1 DEF ErasureUnderWay
  <2>17. CASE next # 5
    <3>1. eraser'.stage = "tables" /\ eraser'.next \in 1 .. 5
      BY <2>6, <2>14, <2>17
    <3>2. 1 .. (eraser'.next - 1) = 1 .. next
      BY <2>4, <2>6
    <3>3. \A i \in Items : TaskOf[i] = eraser'.task =>
            \A m \in 1 .. (eraser'.next - 1) : StoreOf[i] = Stores[m] => table'[i] = NoRow
      BY <2>6, <2>11, <3>2
    <3> QED BY <2>6, <2>7, <2>8, <2>15, <3>1, <3>3 DEF ErasureUnderWay
  <2> QED BY <2>16, <2>17
<1>8. ASSUME EraseFile PROVE ErasureUnderWay'
  <2> SUFFICES ASSUME calm PROVE ErasureUnderWay'
    BY <1>8 DEF EraseFile, ErasureUnderWay
  <2>1. eraser.stage = "file"
    BY <1>8 DEF EraseFile
  <2>2. PICK t : t = eraser.task
    OBVIOUS
  <2>3. t \in Tasks
    BY <2>1, <2>2 DEF EraserTyped
  <2>4. /\ eraser'.stage = "artifacts" /\ eraser'.task = t
        /\ eraser'.doomed = eraser.doomed /\ eraser'.named = eraser.named
    BY <1>8, <2>2 DEF EraseFile, EraserTyped
  <2>5. sealed' = sealed /\ ledger' = ledger /\ calm' = calm /\ table' = table
    BY <1>8 DEF EraseFile
  <2>6. files'[t] = <<>> /\ \A u \in Tasks \ {t} : files'[u] = files[u]
    BY <1>8, <2>2, <2>3 DEF EraseFile, FilesTyped
  <2>7. {NamedInFile(u)' : u \in Tasks \ {t}} = {NamedInFile(u) : u \in Tasks \ {t}}
    BY <2>6 DEF NamedInFile
  <2>8. Others' = Others
    BY <2>2, <2>4, <2>7 DEF Others
  <2> QED BY <2>1, <2>2, <2>4, <2>5, <2>6, <2>8 DEF ErasureUnderWay
<1>9. ASSUME EraseArtifacts PROVE ErasureUnderWay'
  BY <1>9 DEF EraseArtifacts, NoErasure, ErasureUnderWay
<1>10. ASSUME UNCHANGED ledgerVars PROVE ErasureUnderWay'
  BY <1>10 DEF ledgerVars, stores, ErasureUnderWay, Others, NamedInFile
<1> QED BY <1>1, <1>2, <1>3, <1>4, <1>5, <1>6, <1>7, <1>8, <1>9, <1>10 DEF LedgerNext

(* An erasure of which nothing was under way when it began and nothing else
   moved leaves nothing of its task, and takes no artifact that a line of
   another task's file names (erase_task_state).                            *)
THEOREM ErasuresExact == LedgerSpec => ErasureIsExact
<1>1. LedgerTyped /\ NamedAreStored /\ ErasureUnderWay /\ [LedgerNext]_ledgerVars
        => [(EraseArtifacts /\ calm) =>
              LET t == eraser.task
                  others == UNION {NamedInFile(u) : u \in Tasks \ {t}}
              IN  /\ \A i \in DOMAIN ledger' : ledger'[i].task # t
                  /\ \A i \in Items : TaskOf[i] = t => table'[i] = NoRow
                  /\ files'[t] = <<>> /\ sealed'[t] = "none"
                  /\ eraser.named \cap objects' \subseteq others
                  /\ others \subseteq objects']_ledgerVars
  <2> SUFFICES ASSUME LedgerTyped, NamedAreStored, ErasureUnderWay, EraseArtifacts, calm
               PROVE  /\ \A i \in DOMAIN ledger' : ledger'[i].task # eraser.task
                      /\ \A i \in Items : TaskOf[i] = eraser.task => table'[i] = NoRow
                      /\ files'[eraser.task] = <<>> /\ sealed'[eraser.task] = "none"
                      /\ eraser.named \cap objects' \subseteq Others
                      /\ Others \subseteq objects'
    BY DEF Others
  <2>1. eraser.stage = "artifacts"
    BY DEF EraseArtifacts
  <2>2. PICK t : t = eraser.task
    OBVIOUS
  <2>3. t \in Tasks
    BY <2>1, <2>2 DEF LedgerTyped, EraserTyped
  <2>4. ledger' = ledger /\ table' = table /\ files' = files /\ objects' = objects \ eraser.doomed
    BY DEF EraseArtifacts
  <2>5. /\ sealed[t] # "bare" /\ eraser.named \subseteq eraser.doomed \cup Others
        /\ eraser.doomed \cap Others = {} /\ \A i \in DOMAIN ledger : ledger[i].task # t
        /\ \A i \in Items : TaskOf[i] = t => table[i] = NoRow
        /\ files[t] = <<>>
    BY <2>1, <2>2 DEF ErasureUnderWay
  <2>6. sealed'[t] = "none"
    <3>1. sealed \in [Tasks -> {"none", "bare", "listed"}]
      BY DEF LedgerTyped, CountersTyped
    <3>2. sealed' = [sealed EXCEPT ![t] = IF @ = "listed" THEN "none" ELSE @]
      BY <2>2 DEF EraseArtifacts
    <3> QED BY <2>3, <2>5, <3>1, <3>2
  <2>7. Others \subseteq objects
    <3> SUFFICES ASSUME NEW u \in Tasks, NEW a \in NamedInFile(u) PROVE a \in objects
      BY DEF Others
    <3> QED BY <2>1 DEF NamedInFile, NamedAreStored
  <2> QED BY <2>2, <2>4, <2>5, <2>6, <2>7
<1>2. LedgerInit => LedgerTyped /\ NamedAreStored /\ ErasureUnderWay
  <2> SUFFICES ASSUME LedgerInit PROVE NamedAreStored /\ ErasureUnderWay
    BY LedgerTypesBegin
  <2>1. NamedAreStored
    BY DEF LedgerInit, NamedAreStored, Idle
  <2>2. ErasureUnderWay
    BY DEF LedgerInit, ErasureUnderWay
  <2> QED BY <2>1, <2>2
<1>3. LedgerTyped /\ NamedAreStored /\ ErasureUnderWay /\ [LedgerNext]_ledgerVars
        => (LedgerTyped /\ NamedAreStored /\ ErasureUnderWay)'
  BY LedgerTypesHold, NamedStay, ErasureGoesOn
<1> QED BY <1>1, <1>2, <1>3, PTL DEF LedgerSpec, ErasureIsExact

(***************************************************************************)
(* Trace ledger.  What a read serves.                                       *)
(***************************************************************************)

(* The ledger's events, and those on their way into it, are in the files.   *)
EventsAreFiled ==
  eraser.stage = "idle" =>
    /\ \A i \in DOMAIN ledger : ledger[i].key[1] \in Keys =>
         ledger[i].key[1] \in ToSet(files[ledger[i].task])
    /\ \A w \in Writers : writer[w].stage = "import" /\ writer[w].fact.key[1] \in Keys =>
         writer[w].fact.key[1] \in ToSet(files[writer[w].fact.task])

(* A read has imported the part of the file that it is past.                *)
ReadIsPast ==
  (eraser.stage = "idle" /\ reader.stage = "repairing") =>
    /\ Len(reader.want) <= Len(files[reader.task])
    /\ \A n \in 1 .. Len(reader.want) : files[reader.task][n] = reader.want[n]
    /\ Len(reader.left) <= Len(reader.want)
    /\ \A n \in 1 .. Len(reader.left) :
         reader.left[n] = reader.want[Len(reader.want) - Len(reader.left) + n]
    /\ \A n \in 1 .. (Len(reader.want) - Len(reader.left)) : Imported(reader.want[n])

(* Only the last of a file can be missing, and what is there is in order.   *)
FiledInOrder ==
  (eraser.stage = "idle" /\ orderly) =>
    \A t \in Tasks :
      /\ \A n \in DOMAIN files[t] : n < Len(files[t]) => Imported(files[t][n])
      /\ \A i, j \in DOMAIN ledger : \A m, n \in DOMAIN files[t] :
           ledger[i].key[1] = files[t][m] /\ ledger[j].key[1] = files[t][n] /\ m < n => i < j

Filed == EventsAreFiled /\ ReadIsPast /\ FiledInOrder

LEMMA FilePlacesAre ==
  ASSUME FilesTyped, NEW t \in Tasks
  PROVE  /\ files[t] \in Seq(Keys) /\ Len(files[t]) \in Nat /\ DOMAIN files[t] = 1 .. Len(files[t])
         /\ \A n \in DOMAIN files[t] : files[t][n] \in Keys /\ TaskOf[files[t][n]] = t
         /\ \A m, n \in DOMAIN files[t] : files[t][m] = files[t][n] => m = n
<1>1. PICK s : s = files[t]
  OBVIOUS
<1>2. s \in Seq(Keys)
  BY <1>1 DEF FilesTyped
<1>3. Len(s) \in Nat /\ DOMAIN s = 1 .. Len(s) /\ \A n \in DOMAIN s : s[n] \in Keys
  BY <1>2, LenProperties, ElementOfSeq
<1> QED BY <1>1, <1>2, <1>3 DEF FilesTyped

(* An event has one identity.                                               *)
LEMMA OneFact ==
  ASSUME NEW f, NEW g, Good(f), Good(g), f.key[1] = g.key[1], f.key[1] \in Keys
  PROVE  f = g
BY DEF Good

LEMMA AddingImports ==
  ASSUME JournalTyped, NEW add, Adding(add), NEW k, Imported(k)
  PROVE  Imported(k)'
<1>1. PICK i \in DOMAIN ledger : ledger[i].key[1] = k
  BY DEF Imported
<1>2. i \in DOMAIN ledger' /\ ledger'[i] = ledger[i]
  BY AddingPlaces
<1> QED BY <1>1, <1>2 DEF Imported

LEMMA AddingFiles ==
  ASSUME LedgerTyped, EventsAreFiled, FiledInOrder, NEW add, Adding(add), FromFiles(add),
         files' = files, eraser' = eraser, orderly' = orderly,
         \A w \in Writers : writer'[w] = writer[w] \/ writer'[w].stage # "import"
  PROVE  EventsAreFiled' /\ FiledInOrder'
<1> USE DEF LedgerTyped
<1>1. /\ Len(ledger) \in Nat /\ DOMAIN ledger = 1 .. Len(ledger)
      /\ Len(add) \in Nat /\ DOMAIN add = 1 .. Len(add)
      /\ DOMAIN ledger' = 1 .. (Len(ledger) + Len(add))
      /\ \A i \in DOMAIN ledger : ledger'[i] = ledger[i]
      /\ \A n \in DOMAIN add : ledger'[Len(ledger) + n] = add[n]
  BY AddingPlaces
<1>2. \A i \in DOMAIN ledger' :
        \/ i \in DOMAIN ledger /\ ledger'[i] = ledger[i]
        \/ i - Len(ledger) \in DOMAIN add /\ ledger'[i] = add[i - Len(ledger)]
  <2> SUFFICES ASSUME NEW i \in DOMAIN ledger', i \notin DOMAIN ledger
               PROVE  i - Len(ledger) \in DOMAIN add /\ ledger'[i] = add[i - Len(ledger)]
    BY <1>1
  <2>1. i - Len(ledger) \in DOMAIN add /\ i = Len(ledger) + (i - Len(ledger))
    BY <1>1
  <2> QED BY <1>1, <2>1
<1>3. EventsAreFiled'
  <2> SUFFICES ASSUME eraser.stage = "idle"
               PROVE  /\ \A i \in DOMAIN ledger' : ledger'[i].key[1] \in Keys =>
                           ledger'[i].key[1] \in ToSet(files[ledger'[i].task])
                      /\ \A w \in Writers : writer'[w].stage = "import" /\ writer'[w].fact.key[1] \in Keys =>
                           writer'[w].fact.key[1] \in ToSet(files[writer'[w].fact.task])
    BY DEF EventsAreFiled
  <2>1. /\ \A i \in DOMAIN ledger : ledger[i].key[1] \in Keys =>
             ledger[i].key[1] \in ToSet(files[ledger[i].task])
        /\ \A w \in Writers : writer[w].stage = "import" /\ writer[w].fact.key[1] \in Keys =>
             writer[w].fact.key[1] \in ToSet(files[writer[w].fact.task])
    BY DEF EventsAreFiled
  <2>2. \A n \in DOMAIN add : add[n].key[1] \in Keys => add[n].key[1] \in ToSet(files[add[n].task])
    BY DEF FromFiles
  <2> QED BY <1>2, <2>1, <2>2
<1>4. FiledInOrder'
  <2> SUFFICES ASSUME eraser.stage = "idle", orderly, NEW t \in Tasks
               PROVE  /\ \A n \in DOMAIN files[t] : n < Len(files[t]) => Imported(files[t][n])'
                      /\ \A i, j \in DOMAIN ledger' : \A m, n \in DOMAIN files[t] :
                           ledger'[i].key[1] = files[t][m] /\ ledger'[j].key[1] = files[t][n] /\ m < n => i < j
    BY DEF FiledInOrder
  <2>1. /\ \A n \in DOMAIN files[t] : n < Len(files[t]) => Imported(files[t][n])
        /\ \A i, j \in DOMAIN ledger : \A m, n \in DOMAIN files[t] :
             ledger[i].key[1] = files[t][m] /\ ledger[j].key[1] = files[t][n] /\ m < n => i < j
    BY DEF FiledInOrder
  <2>2. \A n \in DOMAIN files[t] : n < Len(files[t]) => Imported(files[t][n])'
    BY <2>1, AddingImports
  <2>3. ASSUME NEW i \in DOMAIN ledger', NEW j \in DOMAIN ledger',
               NEW m \in DOMAIN files[t], NEW n \in DOMAIN files[t],
               ledger'[i].key[1] = files[t][m], ledger'[j].key[1] = files[t][n], m < n
        PROVE  i < j
    <3>1. PICK a : a = i - Len(ledger)
      OBVIOUS
    <3>2. PICK b : b = j - Len(ledger)
      OBVIOUS
    <3>3. CASE i \in DOMAIN ledger /\ ledger'[i] = ledger[i] /\ j \in DOMAIN ledger /\ ledger'[j] = ledger[j]
      BY <2>1, <2>3, <3>3
    <3>4. CASE i \in DOMAIN ledger /\ b \in DOMAIN add
      BY <1>1, <3>2, <3>4
    <3>5. CASE a \in DOMAIN add /\ ledger'[i] = add[a] /\ j \in DOMAIN ledger /\ ledger'[j] = ledger[j]
      <4>1. /\ Len(files[t]) \in Nat /\ DOMAIN files[t] = 1 .. Len(files[t])
            /\ files[t][m] \in Keys
        BY FilePlacesAre
      <4>2. m < Len(files[t])
        BY <2>3, <4>1
      <4>3. PICK l \in DOMAIN ledger : ledger[l].key[1] = files[t][m]
        BY <2>1, <4>2 DEF Imported
      <4>4. PICK f : f = ledger[l]
        OBVIOUS
      <4>5. PICK g : g = add[a]
        OBVIOUS
      <4>6. Good(f) /\ Good(g) /\ f.key[1] = g.key[1] /\ f.key[1] \in Keys
        BY <2>3, <3>5, <4>1, <4>3, <4>4, <4>5 DEF JournalTyped, Adding
      <4>7. f = g
        BY <4>6, OneFact
      <4> QED BY <3>5, <4>3, <4>4, <4>5, <4>7 DEF Adding
    <3>6. CASE a \in DOMAIN add /\ ledger'[i] = add[a] /\ b \in DOMAIN add /\ ledger'[j] = add[b]
      <4>1. a < b
        BY <2>3, <3>6 DEF FromFiles
      <4> QED BY <1>1, <3>1, <3>2, <4>1
    <3> QED BY <1>2, <3>1, <3>2, <3>3, <3>4, <3>5, <3>6
  <2> QED BY <2>2, <2>3
<1> QED BY <1>3, <1>4

LEMMA AddingReads ==
  ASSUME LedgerTyped, ReadIsPast, NEW add, Adding(add),
         files' = files, eraser' = eraser, reader' = reader
  PROVE  ReadIsPast'
<1>1. \A k : Imported(k) => Imported(k)'
  BY AddingImports DEF LedgerTyped
<1> QED BY <1>1 DEF ReadIsPast

LEMMA ImportFiles ==
  ASSUME FilesTyped, NEW f, f.key[1] \in Keys => f.key[1] \in ToSet(files[f.task]),
         NEW add, add \in {<<>>, <<f>>}
  PROVE  FromFiles(add)
<1>1. \A n \in DOMAIN add : n = 1 /\ add[n] = f
  OBVIOUS
<1>2. ASSUME NEW t \in Tasks, NEW x \in DOMAIN add, NEW y \in DOMAIN add,
             NEW m \in DOMAIN files[t], NEW n \in DOMAIN files[t],
             add[x].key[1] = files[t][m], add[y].key[1] = files[t][n], m < n
      PROVE  FALSE
  <2>1. m = n
    BY <1>1, <1>2 DEF FilesTyped
  <2>2. m \in Nat /\ n \in Nat
    BY FilePlacesAre
  <2> QED BY <1>2, <2>1, <2>2
<1> QED BY <1>1, <1>2 DEF FromFiles

(* An import of a fact whose event is in its file.                          *)
LEMMA ImportHolds ==
  ASSUME LedgerTyped, EventsAreFiled, FiledInOrder, NEW f, Good(f), Import(f),
         eraser.stage = "idle" /\ f.key[1] \in Keys => f.key[1] \in ToSet(files[f.task]),
         files' = files, eraser' = eraser, orderly' = orderly,
         \A w \in Writers : writer'[w] = writer[w] \/ writer'[w].stage # "import"
  PROVE  EventsAreFiled' /\ FiledInOrder'
<1>1. CASE eraser.stage = "idle"
  <2>1. PICK add : Adding(add) /\ add \in {<<>>, <<f>>}
    BY ImportAdds DEF LedgerTyped
  <2>2. FromFiles(add)
    BY <1>1, <2>1, ImportFiles DEF LedgerTyped
  <2> QED BY <2>1, <2>2, AddingFiles
<1>2. CASE eraser.stage # "idle"
  BY <1>2 DEF EventsAreFiled, FiledInOrder
<1> QED BY <1>1, <1>2

LEMMA FiledHolds ==
  ASSUME LedgerTyped, Filed, [LedgerNext]_ledgerVars
  PROVE  Filed'
<1> USE DEF LedgerTyped, Filed
<1>b. ASSUME ledger' = ledger, files' = files, eraser'.stage = "idle" => eraser.stage = "idle",
             orderly' => orderly,
             \A w \in Writers : writer'[w] = writer[w] \/ writer'[w].stage # "import"
      PROVE  EventsAreFiled' /\ FiledInOrder'
  BY <1>b DEF EventsAreFiled, FiledInOrder, Imported
<1>r. ASSUME ledger' = ledger, files' = files, eraser'.stage = "idle" => eraser.stage = "idle",
             reader' = reader \/ reader'.stage # "repairing"
      PROVE  ReadIsPast'
  BY <1>r DEF ReadIsPast, Imported
<1>w. /\ Idle.stage # "import" /\ DOMAIN writer = Writers
  BY DEF Idle, WritersTyped
<1>e. \A x \in {"ledger", "tables", "file", "artifacts", "done", "cut"} : x # "idle"
  OBVIOUS
<1>1. ASSUME NEW w \in Writers, NEW k \in Keys, Put(w, k) PROVE Filed'
  <2>1. \A v \in Writers : writer'[v] = writer[v] \/ writer'[v].stage = "append"
    BY <1>w, <1>1 DEF Put
  <2> QED BY <1>b, <1>r, <1>1, <2>1 DEF Put
<1>2. ASSUME NEW w \in Writers, NEW i \in Items, Change(w, i) PROVE Filed'
  <2>1. PICK change : writer' = [writer EXCEPT ![w] =
                [stage |-> "import",
                 fact |-> Fact(i, change[2], Content(change[2], table[i].version + 1))]]
    BY <1>2 DEF Change
  <2>2. PICK fact : fact = Fact(i, change[2], Content(change[2], table[i].version + 1))
    OBVIOUS
  <2>3. fact.key[1] \notin Keys
    BY <2>2, LedgerAssumption DEF Fact
  <2>4. \A v \in Writers : writer'[v] = writer[v] \/ writer'[v].fact = fact
    BY <1>w, <2>1, <2>2
  <2>5. ledger' = ledger /\ files' = files /\ eraser' = eraser /\ orderly' = orderly /\ reader' = reader
    BY <1>2 DEF Change
  <2>6. EventsAreFiled'
    BY <2>3, <2>4, <2>5 DEF EventsAreFiled
  <2>7. FiledInOrder'
    BY <2>5 DEF FiledInOrder, Imported
  <2> QED BY <1>r, <2>5, <2>6, <2>7
<1>3. ASSUME NEW w \in Writers, NEW i \in Items, Observe(w, i) PROVE Filed'
  <2>1. PICK fact : fact = Fact(i, "span", starts)
    OBVIOUS
  <2>2. Good(fact) /\ fact.key[1] \notin Keys
    <3>1. PICK status : status = "span"
      OBVIOUS
    <3>2. status \in Statuses
      BY <3>1 DEF Statuses
    <3>3. starts \in Nat
      BY LedgerAssumption DEF CountersTyped
    <3>4. Good(fact)
      BY <2>1, <3>1, <3>2, <3>3, FactsOf
    <3> QED BY <2>1, <3>4, LedgerAssumption DEF Fact
  <2>3. Import(fact)
    BY <1>3, <2>1 DEF Observe
  <2>4. \A v \in Writers : writer'[v] = writer[v] \/ writer'[v].stage # "import"
    <3>1. PICK to : to = IF Conflicts(Fact(i, "span", starts)) THEN Idle
                         ELSE [stage |-> "commit", item |-> i]
      OBVIOUS
    <3>2. to.stage # "import"
      BY <1>w, <3>1
    <3>3. writer' = [writer EXCEPT ![w] = to]
      BY <1>3, <3>1 DEF Observe
    <3> QED BY <1>w, <3>2, <3>3
  <2>5. files' = files /\ eraser' = eraser /\ orderly' = orderly /\ reader' = reader
    BY <1>3 DEF Observe, stores
  <2>6. EventsAreFiled' /\ FiledInOrder'
    BY <2>2, <2>3, <2>4, <2>5, ImportHolds
  <2>7. PICK add : Adding(add)
    BY <2>2, <2>3, ImportAdds
  <2> QED BY <2>5, <2>6, <2>7, AddingReads
<1>4. ASSUME NEW w \in Writers, AppendEvent(w) PROVE Filed'
  <2>1. PICK k : k = writer[w].key
    OBVIOUS
  <2>2. k \in Keys
    BY <1>4, <2>1 DEF AppendEvent, WritersTyped, WriterStates, Idle
  <2>3. PICK t : t = TaskOf[k]
    OBVIOUS
  <2>4. t \in Tasks
    BY <2>2, <2>3, LedgerAssumption
  <2>5. PICK new : new = ~ Contains(files[t], k)
    OBVIOUS
  <2>6. /\ files' = IF new THEN [files EXCEPT ![t] = Append(@, k)] ELSE files
        /\ orderly' = (orderly /\ (new => \A i \in DOMAIN files[t] : Imported(files[t][i])))
        /\ writer' = [writer EXCEPT ![w] = [stage |-> "import", fact |-> Fact(k, "event", 1)]]
        /\ ledger' = ledger /\ eraser' = eraser /\ reader' = reader
    BY <1>4, <2>1, <2>3, <2>5 DEF AppendEvent
  <2>7. PICK s : s = files[t]
    OBVIOUS
  <2>8. PICK r : r = files'[t]
    OBVIOUS
  <2>9. /\ s \in Seq(Keys) /\ Len(s) \in Nat /\ DOMAIN s = 1 .. Len(s)
    BY <2>4, <2>7, FilePlacesAre
  <2>10. \A u \in Tasks \ {t} : files'[u] = files[u]
    BY <2>6 DEF FilesTyped
  <2>11. \/ r = s /\ files' = files /\ k \in ToSet(s)
         \/ new /\ r = Append(s, k) /\ k \notin ToSet(s)
    BY <2>4, <2>5, <2>6, <2>7, <2>8, <2>9 DEF FilesTyped, Contains, ToSet
  <2>12. /\ Len(r) \in Nat /\ DOMAIN r = 1 .. Len(r)
         /\ \A n \in DOMAIN s : n \in DOMAIN r /\ r[n] = s[n]
         /\ Len(r) >= Len(s) /\ k \in ToSet(r)
         /\ r = Append(s, k) => Len(r) = Len(s) + 1 /\ r[Len(s) + 1] = k
    <3>1. CASE r = s /\ k \in ToSet(s) /\ r # Append(s, k)
      <4>1. /\ Len(r) \in Nat /\ DOMAIN r = 1 .. Len(r) /\ k \in ToSet(r)
            /\ \A n \in DOMAIN s : n \in DOMAIN r /\ r[n] = s[n]
        BY <2>9, <3>1
      <4>2. Len(r) >= Len(s)
        <5>1. PICK p : p = Len(s)
          OBVIOUS
        <5>2. p \in Nat /\ Len(r) = p
          BY <2>9, <3>1, <5>1
        <5> QED BY <5>1, <5>2
      <4> QED BY <3>1, <4>1, <4>2
    <3>2. CASE r = Append(s, k)
      <4>1. /\ r \in Seq(Keys) /\ Len(r) = Len(s) + 1
            /\ \A n \in 1 .. Len(s) : r[n] = s[n]
            /\ r[Len(s) + 1] = k
        BY <2>2, <2>9, <3>2, AppendProperties
      <4>2. DOMAIN r = 1 .. (Len(s) + 1)
        BY <4>1, LenProperties
      <4>3. Len(s) + 1 \in DOMAIN r
        BY <2>9, <4>2
      <4>4. k \in ToSet(r)
        BY <4>1, <4>3 DEF ToSet
      <4> QED BY <2>9, <4>1, <4>2, <4>4
    <3> QED BY <2>11, <3>1, <3>2
  <2>12a. PICK p : p = Len(r)
    OBVIOUS
  <2>12b. PICK q : q = Len(s)
    OBVIOUS
  <2>12c. p \in Nat /\ q \in Nat /\ p >= q /\ DOMAIN r = 1 .. p /\ DOMAIN s = 1 .. q
    BY <2>9, <2>12, <2>12a, <2>12b
  <2>13. \A u \in Tasks : ToSet(files[u]) \subseteq ToSet(files'[u])
    <3>1. ToSet(s) \subseteq ToSet(r)
      BY <2>12 DEF ToSet
    <3> QED BY <2>7, <2>8, <2>10, <3>1
  <2>14. EventsAreFiled'
    <3> SUFFICES ASSUME eraser.stage = "idle" PROVE EventsAreFiled'
      BY <2>6 DEF EventsAreFiled
    <3>1. \A i \in DOMAIN ledger : ledger[i].key[1] \in Keys => ledger[i].key[1] \in ToSet(files'[ledger[i].task])
      BY <2>13 DEF EventsAreFiled, JournalTyped, Good, LedgerFacts
    <3>2. PICK fact : fact = Fact(k, "event", 1)
      OBVIOUS
    <3>3. fact.key[1] = k /\ fact.task = t
      BY <2>3, <3>2 DEF Fact
    <3>4. \A v \in Writers : writer'[v] = writer[v] \/ writer'[v].fact = fact
      BY <1>w, <2>6, <3>2
    <3>5. \A v \in Writers : writer[v].stage = "import" /\ writer[v].fact.key[1] \in Keys =>
            writer[v].fact.key[1] \in ToSet(files'[writer[v].fact.task])
      BY <2>13 DEF EventsAreFiled, WritersTyped, Good, LedgerFacts
    <3> QED BY <2>6, <2>8, <2>12, <3>1, <3>3, <3>4, <3>5 DEF EventsAreFiled
  <2>15. FiledInOrder'
    <3> SUFFICES ASSUME eraser.stage = "idle", orderly, new => \A i \in DOMAIN s : Imported(s[i]), NEW u \in Tasks
                 PROVE  /\ \A n \in DOMAIN files'[u] : n < Len(files'[u]) => Imported(files'[u][n])
                        /\ \A i, j \in DOMAIN ledger : \A m, n \in DOMAIN files'[u] :
                             ledger[i].key[1] = files'[u][m] /\ ledger[j].key[1] = files'[u][n] /\ m < n => i < j
      <4>1. \A x : Imported(x)' <=> Imported(x)
        BY <2>6 DEF Imported
      <4>2. orderly' => orderly /\ (new => \A i \in DOMAIN s : Imported(s[i]))
        BY <2>6, <2>7
      <4>3. ledger' = ledger /\ eraser' = eraser
        BY <2>6
      <4> QED BY <4>1, <4>2, <4>3 DEF FiledInOrder
    <3>1. /\ \A n \in DOMAIN files[u] : n < Len(files[u]) => Imported(files[u][n])
          /\ \A i, j \in DOMAIN ledger : \A m, n \in DOMAIN files[u] :
             ledger[i].key[1] = files[u][m] /\ ledger[j].key[1] = files[u][n] /\ m < n => i < j
      BY DEF FiledInOrder
    <3>2. CASE files'[u] = files[u]
      BY <3>1, <3>2
    <3>3. CASE u = t /\ new /\ r = Append(s, k) /\ k \notin ToSet(s)
      <4>1. Len(r) = Len(s) + 1 /\ r[Len(s) + 1] = k
        BY <2>12, <3>3
      <4>2. \A n \in DOMAIN r : n < Len(r) => n \in DOMAIN s /\ r[n] = s[n]
        BY <2>9, <2>12, <4>1
      <4>3. \A i \in DOMAIN ledger : ledger[i].key[1] # k
        <5> SUFFICES ASSUME NEW i \in DOMAIN ledger, ledger[i].key[1] = k PROVE FALSE
          OBVIOUS
        <5>1. ledger[i].task = t
          BY <2>3 DEF JournalTyped, Good
        <5> QED BY <2>2, <2>7, <3>3, <5>1 DEF EventsAreFiled
      <4>4. \A n \in DOMAIN r : n < Len(r) => Imported(r[n])
        BY <3>3, <4>2
      <4>5. \A i, j \in DOMAIN ledger : \A m, n \in DOMAIN r :
              ledger[i].key[1] = r[m] /\ ledger[j].key[1] = r[n] /\ m < n => i < j
        <5> SUFFICES ASSUME NEW i \in DOMAIN ledger, NEW j \in DOMAIN ledger,
                            NEW m \in DOMAIN r, NEW n \in DOMAIN r,
                            ledger[i].key[1] = r[m], ledger[j].key[1] = r[n], m < n
                     PROVE  i < j
          OBVIOUS
        <5>1. n # Len(r)
          BY <4>1, <4>3
        <5>2. n < Len(r) /\ m < Len(r)
          BY <2>12a, <2>12c, <5>1
        <5>3. m \in DOMAIN s /\ r[m] = s[m] /\ n \in DOMAIN s /\ r[n] = s[n]
          BY <4>2, <5>2
        <5> QED BY <2>7, <3>1, <3>3, <5>3
      <4> QED BY <2>8, <3>3, <4>4, <4>5
    <3> QED BY <2>8, <2>7, <2>10, <2>11, <3>2, <3>3
  <2>16. ReadIsPast'
    <3> SUFFICES ASSUME eraser.stage = "idle", reader.stage = "repairing"
                 PROVE  /\ Len(reader.want) <= Len(files'[reader.task])
                        /\ \A n \in 1 .. Len(reader.want) : files'[reader.task][n] = reader.want[n]
      BY <2>6 DEF ReadIsPast, Imported
    <3>1. reader.task \in Tasks /\ Len(reader.want) \in Nat
      BY LenProperties DEF ReaderTyped
    <3>2. /\ Len(reader.want) <= Len(files[reader.task])
          /\ \A n \in 1 .. Len(reader.want) : files[reader.task][n] = reader.want[n]
      BY DEF ReadIsPast
    <3>3. CASE reader.task # t
      BY <2>10, <3>1, <3>2, <3>3
    <3>4. CASE reader.task = t
      <4>1. Len(reader.want) <= Len(s) /\ \A n \in 1 .. Len(reader.want) : s[n] = reader.want[n]
        BY <2>7, <3>2, <3>4
      <4>2. Len(reader.want) <= Len(r)
        <5>1. Len(reader.want) <= q
          BY <2>12b, <4>1
        <5> QED BY <2>12a, <2>12c, <3>1, <5>1
      <4>3. \A n \in 1 .. Len(reader.want) : r[n] = reader.want[n]
        <5>1. \A n \in 1 .. Len(reader.want) : n \in DOMAIN s
          BY <2>12b, <2>12c, <3>1, <4>1
        <5> QED BY <2>12, <4>1, <5>1
      <4> QED BY <2>8, <3>4, <4>2, <4>3
    <3> QED BY <3>3, <3>4
  <2> QED BY <2>14, <2>15, <2>16
<1>5. ASSUME NEW w \in Writers, Record(w) PROVE Filed'
  <2>1. PICK f : f = writer[w].fact
    OBVIOUS
  <2>2. Good(f) /\ Import(f)
    BY <1>5, <2>1 DEF Record, WritersTyped
  <2>3. eraser.stage = "idle" /\ f.key[1] \in Keys => f.key[1] \in ToSet(files[f.task])
    BY <1>5, <2>1 DEF Record, EventsAreFiled
  <2>4. \A v \in Writers : writer'[v] = writer[v] \/ writer'[v] = Idle
    BY <1>w, <1>5 DEF Record
  <2>5. \A v \in Writers : writer'[v] = writer[v] \/ writer'[v].stage # "import"
    BY <1>w, <2>4
  <2>6. files' = files /\ eraser' = eraser /\ orderly' = orderly /\ reader' = reader
    BY <1>5 DEF Record, stores
  <2>7. EventsAreFiled' /\ FiledInOrder'
    BY <2>2, <2>3, <2>5, <2>6, ImportHolds
  <2>8. PICK add : Adding(add)
    BY <2>2, ImportAdds
  <2> QED BY <2>6, <2>7, <2>8, AddingReads
<1>6. ASSUME NEW w \in Writers, CommitSpan(w) PROVE Filed'
  <2>1. \A v \in Writers : writer'[v] = writer[v] \/ writer'[v] = Idle
    BY <1>w, <1>6 DEF CommitSpan
  <2>2. \A v \in Writers : writer'[v] = writer[v] \/ writer'[v].stage # "import"
    BY <1>w, <2>1
  <2> QED BY <1>b, <1>r, <1>6, <2>2 DEF CommitSpan
<1>7. ASSUME NEW t \in Tasks, BeginRead(t) PROVE Filed'
  <2>1. /\ reader'.task = t /\ reader'.left = files[t] /\ reader'.want = files[t]
    BY <1>7 DEF BeginRead, NoRead
  <2>2. ledger' = ledger /\ files' = files /\ eraser' = eraser /\ orderly' = orderly /\ writer' = writer
    BY <1>7 DEF BeginRead, stores
  <2>3. Len(files[t]) \in Nat
    BY FilePlacesAre
  <2>4. ReadIsPast'
    <3>1. PICK s : s = files[t]
      OBVIOUS
    <3>2. PICK l : l = Len(s)
      OBVIOUS
    <3>3. l \in Nat /\ l - l = 0 /\ 1 .. 0 = {} /\ \A n \in 1 .. l : 0 + n = n
      BY <2>3, <3>1, <3>2
    <3>4. /\ reader'.task = t /\ reader'.left = s /\ reader'.want = s /\ files'[t] = s
      BY <2>1, <2>2, <3>1
    <3>5. /\ Len(reader'.left) = l /\ Len(reader'.want) = l /\ Len(files'[reader'.task]) = l
      BY <3>2, <3>4
    <3> QED BY <3>3, <3>4, <3>5 DEF ReadIsPast
  <2> QED BY <1>b, <2>2, <2>4
<1>8. ASSUME NEW t \in Tasks, Seal(t) \/ List(t) PROVE Filed'
  BY <1>b, <1>r, <1>8 DEF Seal, List
<1>9. ASSUME NEW t \in Tasks, Scan(t) PROVE Filed'
  BY <1>b, <1>r, <1>9 DEF Scan, Begin, stores
<1>10. ASSUME Repair PROVE Filed'
  <2>1. PICK k : k = Head(reader.left)
    OBVIOUS
  <2>2. PICK l : l = reader.left
    OBVIOUS
  <2>3. PICK want : want = reader.want
    OBVIOUS
  <2>4. l \in Seq(Keys) /\ l # <<>> /\ want \in Seq(Keys) /\ reader.task \in Tasks
    BY <1>10, <2>2, <2>3 DEF Repair, ReaderTyped
  <2>5. /\ k \in Keys /\ Tail(l) \in Seq(Keys) /\ Len(Tail(l)) = Len(l) - 1
        /\ \A n \in 1 .. Len(Tail(l)) : Tail(l)[n] = l[n + 1]
        /\ Len(l) \in Nat /\ Len(want) \in Nat /\ k = l[1]
    BY <2>1, <2>2, <2>4, HeadTailProperties, LenProperties
  <2>5a. Len(l) >= 1
    BY <2>4, EmptySeq
  <2>6. PICK fact : fact = Fact(k, "event", 1)
    OBVIOUS
  <2>7. Good(fact) /\ fact.key[1] = k /\ fact.task = TaskOf[k]
    <3>1. "event" \in Statuses /\ 1 \in Nat
      BY DEF Statuses
    <3>2. Good(fact)
      BY <2>5, <2>6, <3>1, FactsOf
    <3> QED BY <2>6, <3>2 DEF Fact
  <2>8. Import(fact)
    BY <1>10, <2>1, <2>6 DEF Repair
  <2>9. files' = files /\ eraser' = eraser /\ orderly' = orderly /\ writer' = writer
    BY <1>10 DEF Repair, stores
  <2>10. eraser.stage = "idle" =>
           /\ Len(want) <= Len(files[reader.task])
           /\ \A n \in 1 .. Len(want) : files[reader.task][n] = want[n]
           /\ Len(l) <= Len(want)
           /\ \A n \in 1 .. Len(l) : l[n] = want[Len(want) - Len(l) + n]
           /\ \A n \in 1 .. (Len(want) - Len(l)) : Imported(want[n])
    BY <1>10, <2>2, <2>3 DEF Repair, ReadIsPast
  <2>11. eraser.stage = "idle" => k \in ToSet(files[TaskOf[k]])
    <3> SUFFICES ASSUME eraser.stage = "idle" PROVE k \in ToSet(files[TaskOf[k]])
      OBVIOUS
    <3>1. PICK n : n = Len(want) - Len(l) + 1
      OBVIOUS
    <3>2. n \in 1 .. Len(want) /\ 1 \in 1 .. Len(l)
      BY <2>5, <2>5a, <2>10, <3>1
    <3>3. k = want[n] /\ files[reader.task][n] = want[n]
      BY <2>5, <2>10, <3>1, <3>2
    <3>4. n \in DOMAIN files[reader.task]
      <4>1. Len(files[reader.task]) \in Nat /\ DOMAIN files[reader.task] = 1 .. Len(files[reader.task])
        BY <2>4, FilePlacesAre
      <4> QED BY <2>5, <2>10, <3>2, <4>1
    <3>5. TaskOf[k] = reader.task
      BY <2>4, <3>3, <3>4 DEF FilesTyped
    <3> QED BY <3>3, <3>4, <3>5 DEF ToSet
  <2>12. EventsAreFiled' /\ FiledInOrder'
    <3>1. eraser.stage = "idle" /\ fact.key[1] \in Keys => fact.key[1] \in ToSet(files[fact.task])
      BY <2>7, <2>11
    <3> QED BY <2>7, <2>8, <2>9, <3>1, ImportHolds
  <2>13. PICK add : Adding(add) /\ \E i \in DOMAIN ledger' : ledger'[i].key = fact.key
    BY <2>7, <2>8, ImportAdds
  <2>14. \A x : Imported(x) => Imported(x)'
    BY <2>13, AddingImports
  <2>15. Imported(k)'
    BY <2>7, <2>13 DEF Imported
  <2>16. reader'.left = Tail(l) /\ reader'.want = want /\ reader'.task = reader.task
    BY <1>10, <2>2, <2>3 DEF Repair, ReaderTyped
  <2>17. ReadIsPast'
    <3> SUFFICES ASSUME eraser.stage = "idle"
                 PROVE  /\ Len(want) <= Len(files[reader.task])
                        /\ \A n \in 1 .. Len(want) : files[reader.task][n] = want[n]
                        /\ Len(Tail(l)) <= Len(want)
                        /\ \A n \in 1 .. Len(Tail(l)) : Tail(l)[n] = want[Len(want) - Len(Tail(l)) + n]
                        /\ \A n \in 1 .. (Len(want) - Len(Tail(l))) : Imported(want[n])'
      BY <2>9, <2>16 DEF ReadIsPast
    <3>1. PICK p : p = Len(l)
      OBVIOUS
    <3>2. PICK q : q = Len(want)
      OBVIOUS
    <3>3. p \in Nat /\ q \in Nat /\ p >= 1 /\ p <= q /\ Len(Tail(l)) = p - 1
      BY <2>5, <2>5a, <2>10, <3>1, <3>2
    <3>4. \A n \in 1 .. (p - 1) : Tail(l)[n] = want[q - (p - 1) + n]
      <4> SUFFICES ASSUME NEW n \in 1 .. (p - 1) PROVE Tail(l)[n] = want[q - (p - 1) + n]
        OBVIOUS
      <4>1. n + 1 \in 1 .. p /\ q - p + (n + 1) = q - (p - 1) + n
        BY <3>3
      <4>2. Tail(l)[n] = l[n + 1]
        BY <2>5, <3>3
      <4>3. l[n + 1] = want[q - p + (n + 1)]
        BY <2>10, <3>1, <3>2, <4>1
      <4> QED BY <4>1, <4>2, <4>3
    <3>5. \A n \in 1 .. (q - (p - 1)) : Imported(want[n])'
      <4> SUFFICES ASSUME NEW n \in 1 .. (q - (p - 1)) PROVE Imported(want[n])'
        OBVIOUS
      <4>1. CASE n \in 1 .. (q - p)
        BY <2>10, <2>14, <3>1, <3>2, <4>1
      <4>2. CASE n \notin 1 .. (q - p)
        <5>1. n = q - p + 1 /\ 1 \in 1 .. p
          BY <3>3, <4>2
        <5>2. l[1] = want[n]
          BY <2>10, <3>1, <3>2, <5>1
        <5> QED BY <2>5, <2>15, <5>2
      <4> QED BY <4>1, <4>2
    <3>6. /\ q <= Len(files[reader.task])
          /\ \A n \in 1 .. q : files[reader.task][n] = want[n]
      BY <2>10, <3>2
    <3>7. Len(Tail(l)) <= q
      BY <3>3
    <3>8. \A n \in 1 .. Len(Tail(l)) : Tail(l)[n] = want[q - Len(Tail(l)) + n]
      BY <3>3, <3>4
    <3>9. \A n \in 1 .. (q - Len(Tail(l))) : Imported(want[n])'
      BY <3>3, <3>5
    <3> QED BY <3>2, <3>6, <3>7, <3>8, <3>9
  <2> QED BY <2>12, <2>17
<1>11. ASSUME Serve PROVE Filed'
  <2>1. reader'.stage # "repairing"
    BY <1>11 DEF Serve, NoRead
  <2> QED BY <1>b, <1>r, <1>11, <2>1 DEF Serve, stores
<1>12. ASSUME Backfill PROVE Filed'
  <2>1. PICK add : Adding(add) /\ FromFiles(add)
    BY <1>12, BackfillAdds
  <2>2. /\ files' = files /\ eraser' = eraser /\ orderly' = orderly /\ writer' = writer
        /\ reader' = reader
    BY <1>12 DEF Backfill, stores
  <2>3. EventsAreFiled' /\ FiledInOrder'
    BY <2>1, <2>2, AddingFiles
  <2> QED BY <2>1, <2>2, <2>3, AddingReads
<1>13. ASSUME eraser'.stage # "idle" PROVE Filed'
  BY <1>13 DEF EventsAreFiled, ReadIsPast, FiledInOrder
<1>14. ASSUME EraseLedger \/ EraseTable \/ EraseFile \/ EraseArtifacts PROVE Filed'
  <2>1. eraser'.stage # "idle"
    BY <1>14 DEF EraseLedger, EraseTable, EraseFile, EraseArtifacts, NoErasure, EraserTyped
  <2> QED BY <1>13, <2>1
<1>15. ASSUME ProcessStops PROVE Filed'
  <2>1. reader'.stage # "repairing"
    BY <1>15 DEF ProcessStops, NoRead
  <2>2. \A v \in Writers : writer'[v].stage # "import"
    BY <1>w, <1>15 DEF ProcessStops
  <2>3. eraser'.stage = "idle" => eraser.stage = "idle"
    BY <1>15 DEF ProcessStops
  <2> QED BY <1>b, <1>r, <1>15, <2>1, <2>2, <2>3 DEF ProcessStops, stores
<1>16. ASSUME UNCHANGED ledgerVars PROVE Filed'
  BY <1>b, <1>r, <1>16 DEF ledgerVars, stores
<1> QED BY <1>1, <1>2, <1>3, <1>4, <1>5, <1>6, <1>7, <1>8, <1>9, <1>10, <1>11, <1>12, <1>14,
          <1>15, <1>16 DEF LedgerNext

(* What is served: the events of the ledger at increasing places.           *)
ServedFrom(spot, n, t) ==
  /\ n \in Nat /\ DOMAIN Served(t) = 1 .. n
  /\ \A x \in 1 .. n : spot[x] \in DOMAIN ledger /\ ledger[spot[x]].task = t
                      /\ ledger[spot[x]].key[1] \in Keys
                      /\ Served(t)[x] = ledger[spot[x]].key[1]
  /\ \A x, y \in 1 .. n : x < y => spot[x] < spot[y]
  /\ \A i \in DOMAIN ledger : ledger[i].task = t /\ ledger[i].key[1] \in Keys =>
      \E x \in 1 .. n : spot[x] = i
  /\ Served(t) \in Seq(Keys)

LEMMA ServedIs ==
  ASSUME JournalTyped, NEW t \in Tasks
  PROVE  \E spot, n : ServedFrom(spot, n, t)
<1>1. ledger \in Seq(LedgerFacts)
  BY DEF JournalTyped
<1>2. PICK S : S = {f \in ToSet(ledger) : f.task = t /\ f.key[1] \in Keys}
  OBVIOUS
<1>3. PICK spot, n : Drawn(spot, n, ledger, S)
  BY <1>1, Picking
<1>4. Picks(spot, n, ledger, S) /\ Only(ledger, S) = [k \in 1..n |-> ledger[spot[k]]]
  BY <1>3 DEF Drawn
<1>5. PICK e : e = Events(t)
  OBVIOUS
<1>6. e = [k \in 1..n |-> ledger[spot[k]]]
  BY <1>2, <1>4, <1>5 DEF Events
<1>7. PICK got : got = Served(t)
  OBVIOUS
<1>8. got = [x \in 1..n |-> ledger[spot[x]].key[1]]
  BY <1>5, <1>6, <1>7 DEF Served, KeysOf
<1>9. /\ n \in Nat
      /\ \A x \in 1 .. n : spot[x] \in DOMAIN ledger /\ ledger[spot[x]] \in S
      /\ \A x, y \in 1 .. n : x < y => spot[x] < spot[y]
      /\ \A i \in DOMAIN ledger : ledger[i] \in S => \E x \in 1 .. n : spot[x] = i
  BY <1>4 DEF Picks
<1>10. \A x \in 1 .. n : ledger[spot[x]].task = t /\ ledger[spot[x]].key[1] \in Keys
  BY <1>2, <1>9
<1>11. \A i \in DOMAIN ledger : ledger[i].task = t /\ ledger[i].key[1] \in Keys => ledger[i] \in S
  BY <1>2 DEF ToSet
<1>12. got \in Seq(Keys)
  BY <1>8, <1>9, <1>10
<1>13. DOMAIN got = 1 .. n /\ \A x \in 1 .. n : got[x] = ledger[spot[x]].key[1]
  BY <1>8
<1>14. \A i \in DOMAIN ledger : ledger[i].task = t /\ ledger[i].key[1] \in Keys =>
                         \E x \in 1 .. n : spot[x] = i
  BY <1>9, <1>11
<1>15. ServedFrom(spot, n, t)
  BY <1>7, <1>9, <1>10, <1>12, <1>13, <1>14 DEF ServedFrom
<1> QED BY <1>15

LEMMA ReadsServe ==
  ASSUME LedgerTyped, Filed, eraser.stage = "idle", Serve, NEW got, got = Served(reader.task)
  PROVE  /\ ToSet(reader.want) \subseteq ToSet(got)
         /\ ToSet(got) \subseteq ToSet(files[reader.task])
         /\ IsInjective(got)
         /\ orderly => IsPrefix(reader.want, got)
<1>1. PICK t : t = reader.task
  OBVIOUS
<1>2. PICK want : want = reader.want
  OBVIOUS
<1>3. t \in Tasks /\ want \in Seq(Keys) /\ reader.left = <<>> /\ reader.stage = "repairing"
  BY <1>1, <1>2 DEF Serve, LedgerTyped, ReaderTyped
<1>4a. PICK spot, n : ServedFrom(spot, n, t)
  BY <1>3, ServedIs DEF LedgerTyped
<1>4.   /\ n \in Nat /\ DOMAIN Served(t) = 1 .. n
        /\ \A x \in 1 .. n : spot[x] \in DOMAIN ledger /\ ledger[spot[x]].task = t
                             /\ ledger[spot[x]].key[1] \in Keys
                             /\ Served(t)[x] = ledger[spot[x]].key[1]
        /\ \A x, y \in 1 .. n : x < y => spot[x] < spot[y]
        /\ \A i \in DOMAIN ledger : ledger[i].task = t /\ ledger[i].key[1] \in Keys =>
             \E x \in 1 .. n : spot[x] = i
        /\ Served(t) \in Seq(Keys)
  BY <1>4a DEF ServedFrom
<1>5. /\ n \in Nat /\ DOMAIN got = 1 .. n /\ got \in Seq(Keys)
      /\ \A x \in 1 .. n : spot[x] \in DOMAIN ledger /\ ledger[spot[x]].task = t
                           /\ ledger[spot[x]].key[1] \in Keys /\ got[x] = ledger[spot[x]].key[1]
  BY <1>1, <1>4
<1>6. PICK filed : filed = files[t]
  OBVIOUS
<1>7. /\ Len(filed) \in Nat /\ DOMAIN filed = 1 .. Len(filed)
      /\ \A m \in DOMAIN filed : filed[m] \in Keys /\ TaskOf[filed[m]] = t
      /\ \A m, l \in DOMAIN filed : filed[m] = filed[l] => m = l
  BY <1>3, <1>6, FilePlacesAre DEF LedgerTyped
<1>8. PICK w : w = Len(want)
  OBVIOUS
<1>9. w \in Nat /\ DOMAIN want = 1 .. w
  BY <1>3, <1>8, LenProperties
<1>10. /\ w <= Len(filed) /\ \A m \in 1 .. w : filed[m] = want[m] /\ Imported(want[m])
  <2>1. Len(reader.left) = 0 /\ w - 0 = w
    BY <1>3, <1>9, EmptySeq
  <2> QED BY <1>1, <1>2, <1>3, <1>6, <1>8, <2>1 DEF Filed, ReadIsPast
<1>11. \A m \in 1 .. w : m \in DOMAIN filed
  BY <1>7, <1>9, <1>10
<1>12. \A m \in 1 .. w : \E x \in 1 .. n : got[x] = filed[m]
  <2> SUFFICES ASSUME NEW m \in 1 .. w PROVE \E x \in 1 .. n : got[x] = filed[m]
    OBVIOUS
  <2>1. PICK i \in DOMAIN ledger : ledger[i].key[1] = filed[m]
    BY <1>10 DEF Imported
  <2>2. ledger[i].key[1] \in Keys /\ ledger[i].task = t
    BY <1>7, <1>11, <2>1 DEF LedgerTyped, JournalTyped, Good
  <2>3. PICK x \in 1 .. n : spot[x] = i
    BY <1>4, <2>2
  <2> QED BY <1>5, <2>1, <2>3
<1>13. \A x \in 1 .. n : \E l \in DOMAIN filed : got[x] = filed[l]
  <2>1. \A x \in 1 .. n : got[x] \in ToSet(filed)
    BY <1>5, <1>6 DEF Filed, EventsAreFiled
  <2> QED BY <2>1 DEF ToSet
<1>14. \A x, y \in 1 .. n : got[x] = got[y] => x = y
  <2> SUFFICES ASSUME NEW x \in 1 .. n, NEW y \in 1 .. n, got[x] = got[y], x < y
               PROVE  FALSE
    BY <1>5
  <2>1. spot[x] < spot[y]
    BY <1>4
  <2>2. PICK f : f = ledger[spot[x]]
    OBVIOUS
  <2>3. PICK g : g = ledger[spot[y]]
    OBVIOUS
  <2>4. Good(f) /\ Good(g) /\ f.key[1] = g.key[1] /\ f.key[1] \in Keys
    BY <1>5, <2>2, <2>3 DEF LedgerTyped, JournalTyped
  <2>5. f = g
    BY <2>4, OneFact
  <2>6. spot[x] = spot[y]
    BY <1>5, <2>2, <2>3, <2>5 DEF LedgerTyped, JournalTyped
  <2>7. spot[x] \in Nat
    <3>1. ledger \in Seq(LedgerFacts)
      BY DEF LedgerTyped, JournalTyped
    <3> QED BY <1>5, <3>1, LenProperties
  <2> QED BY <2>1, <2>6, <2>7
<1>15. ASSUME orderly PROVE IsPrefix(want, got)
  <2>1. \A x, y \in 1 .. n : \A l, m \in DOMAIN filed :
          got[x] = filed[l] /\ got[y] = filed[m] /\ l < m => spot[x] < spot[y]
    <3>1. \A i, j \in DOMAIN ledger : \A l, m \in DOMAIN filed :
            ledger[i].key[1] = filed[l] /\ ledger[j].key[1] = filed[m] /\ l < m => i < j
      BY <1>3, <1>6, <1>15 DEF Filed, FiledInOrder
    <3> QED BY <1>5, <3>1
  <2>2. \A x \in 1 .. n : spot[x] \in Nat
    <3>1. ledger \in Seq(LedgerFacts)
      BY DEF LedgerTyped, JournalTyped
    <3> QED BY <1>5, <3>1, LenProperties
  <2>3. \A m \in 1 .. w : m \in 1 .. n /\ got[m] = filed[m]
    <3> SUFFICES ASSUME ~ \A m \in 1 .. w : m \in 1 .. n /\ got[m] = filed[m]
                 PROVE  FALSE
      OBVIOUS
    <3>1. PICK bad : bad = {m \in 1 .. w : ~ (m \in 1 .. n /\ got[m] = filed[m])}
      OBVIOUS
    <3>2. bad \in SUBSET Nat /\ bad # {}
      BY <1>9, <3>1
    <3>3. PICK b \in bad : \A m \in bad : b <= m
      BY <3>2, LeastExists
    <3>4. b \in 1 .. w /\ b \in Nat /\ ~ (b \in 1 .. n /\ got[b] = filed[b])
      BY <1>9, <3>1, <3>3
    <3>5. \A m \in 1 .. w : m < b => m \in 1 .. n /\ got[m] = filed[m]
      BY <1>9, <3>1, <3>3, <3>4
    <3>6. PICK x \in 1 .. n : got[x] = filed[b]
      BY <1>12, <3>4
    <3>7. x # b
      BY <3>4, <3>6
    <3>8. ~ (x < b)
      <4> SUFFICES ASSUME x < b PROVE FALSE
        OBVIOUS
      <4>1. x \in 1 .. w
        BY <1>9, <3>4
      <4>2. got[x] = filed[x]
        BY <3>5, <4>1
      <4>3. x = b
        BY <1>7, <1>11, <3>4, <3>6, <4>1, <4>2
      <4> QED BY <3>7, <4>3
    <3>9. b < x /\ b \in 1 .. n
      BY <1>5, <3>4, <3>7, <3>8
    <3>10. PICK l \in DOMAIN filed : got[b] = filed[l]
      BY <1>13, <3>9
    <3>11. spot[b] < spot[x]
      BY <1>4, <3>9
    <3>12. ~ (b < l)
      <4>1. b < l => spot[x] < spot[b]
        BY <1>11, <2>1, <3>4, <3>6, <3>9, <3>10
      <4> QED BY <2>2, <3>9, <3>11, <4>1
    <3>13. l # b
      BY <3>4, <3>9, <3>10
    <3>14. l < b
      BY <1>7, <3>4, <3>12, <3>13
    <3>15. l \in 1 .. w
      BY <1>7, <1>9, <3>4, <3>14
    <3>16. l \in 1 .. n /\ got[l] = filed[l]
      BY <3>5, <3>14, <3>15
    <3>17. l = b
      BY <1>14, <3>9, <3>10, <3>16
    <3> QED BY <3>13, <3>17
  <2>4. w <= n
    <3>1. w # 0 => w \in 1 .. w
      BY <1>9
    <3> QED BY <1>5, <1>9, <2>3, <3>1
  <2>5. Len(got) = n
    BY <1>5, LenProperties
  <2>6. \A m \in 1 .. w : want[m] \in Keys /\ got[m] \in Keys /\ want[m] = got[m]
    BY <1>3, <1>8, <1>10, <2>3, <1>5, ElementOfSeq
  <2>7. SubSeq(want, 1, w) = SubSeq(got, 1, w)
    <3>1. \A m \in 1 .. w : want[m] \in Keys
      BY <2>6
    <3>2. \A m \in 1 .. w : got[m] \in Keys
      BY <2>6
    <3>3. /\ SubSeq(want, 1, w) \in Seq(Keys) /\ Len(SubSeq(want, 1, w)) = (IF 1 <= w THEN w - 1 + 1 ELSE 0)
          /\ \A i \in 1 .. w - 1 + 1 : SubSeq(want, 1, w)[i] = want[1 + i - 1]
      BY <1>9, <3>1, SubSeqProperties
    <3>4. /\ SubSeq(got, 1, w) \in Seq(Keys) /\ Len(SubSeq(got, 1, w)) = (IF 1 <= w THEN w - 1 + 1 ELSE 0)
          /\ \A i \in 1 .. w - 1 + 1 : SubSeq(got, 1, w)[i] = got[1 + i - 1]
      BY <1>9, <3>2, SubSeqProperties
    <3>5. PICK p : p = SubSeq(want, 1, w)
      OBVIOUS
    <3>6. PICK q : q = SubSeq(got, 1, w)
      OBVIOUS
    <3>7. p \in Seq(Keys) /\ q \in Seq(Keys) /\ Len(p) = w /\ Len(q) = w
      BY <1>9, <3>3, <3>4, <3>5, <3>6
    <3>8. \A i \in 1 .. w : p[i] = q[i]
      <4>1. \A i \in 1 .. w : i \in 1 .. w - 1 + 1 /\ 1 + i - 1 = i
        BY <1>9
      <4> QED BY <2>6, <3>3, <3>4, <3>5, <3>6, <4>1
    <3> QED BY <3>5, <3>6, <3>7, <3>8, SeqEqual
  <2> QED BY <1>8, <2>4, <2>5, <2>7 DEF IsPrefix
<1>16. ToSet(want) \subseteq ToSet(got)
  <2>1. \A m \in 1 .. w : want[m] \in ToSet(got)
    BY <1>5, <1>10, <1>12 DEF ToSet
  <2> QED BY <1>9, <2>1 DEF ToSet
<1>17. ToSet(got) \subseteq ToSet(filed)
  BY <1>5, <1>13 DEF ToSet
<1>18. IsInjective(got)
  BY <1>5, <1>14 DEF IsInjective
<1> QED BY <1>1, <1>2, <1>6, <1>15, <1>16, <1>17, <1>18

(* A read repairs what a stop left out (shadow.py): what it serves of a task
   holds what the file held when it began, each event once and nothing else,
   in the order of the file when no event overtook another.                 *)
THEOREM ReadsServeTheTask == LedgerSpec => ServesTheTask
<1>1. LedgerTyped /\ Filed /\ [LedgerNext]_ledgerVars
        => [(Serve /\ eraser.stage = "idle") =>
              LET got == Served(reader.task)
              IN  /\ ToSet(reader.want) \subseteq ToSet(got)
                  /\ ToSet(got) \subseteq ToSet(files[reader.task])
                  /\ IsInjective(got)
                  /\ orderly => IsPrefix(reader.want, got)]_ledgerVars
  BY ReadsServe
<1>2. LedgerInit => LedgerTyped /\ Filed
  <2> SUFFICES ASSUME LedgerInit PROVE Filed
    BY LedgerTypesBegin
  <2>1. DOMAIN <<>> = {}
    OBVIOUS
  <2>2. EventsAreFiled
    BY <2>1 DEF LedgerInit, EventsAreFiled, Idle
  <2>3. ReadIsPast
    BY DEF LedgerInit, ReadIsPast, NoRead
  <2>4. FiledInOrder
    BY <2>1 DEF LedgerInit, FiledInOrder
  <2> QED BY <2>2, <2>3, <2>4 DEF Filed
<1>3. LedgerTyped /\ Filed /\ [LedgerNext]_ledgerVars => (LedgerTyped /\ Filed)'
  BY LedgerTypesHold, FiledHolds
<1> QED BY <1>1, <1>2, <1>3, PTL DEF LedgerSpec, ServesTheTask
=============================================================================
