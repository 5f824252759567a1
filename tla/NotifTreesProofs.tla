-------------------------- MODULE NotifTreesProofs --------------------------
(***************************************************************************)
(* The balanced trees of the stores, for any set of intervals: what the    *)
(* routines of AvlTree do to a tree, and what saves, waits and clears do   *)
(* to the two trees of a window and to the list.                           *)
(***************************************************************************)
EXTENDS NotifTrees, FiniteSetTheorems, TLAPS

----------------------------------------------------------------------------
(* Trees and induction on them. *)

\* A set of natural numbers has a least element.
LEMMA LeastNat ==
  ASSUME NEW S \in SUBSET Nat, S # {} PROVE \E i \in S : \A j \in S : i <= j
<1>1. IsWellFoundedOn(StrictSubsetOrdering(Nat), FiniteSubsetsOf(Nat))
  BY FS_StrictSubsetOrderingWellFounded, Zenon
<1>2. {0 .. i - 1 : i \in S} \subseteq FiniteSubsetsOf(Nat)
  <2> SUFFICES ASSUME NEW i \in S PROVE 0 .. i - 1 \in FiniteSubsetsOf(Nat) OBVIOUS
  <2>1. i - 1 \in Int OBVIOUS
  <2>2. IsFiniteSet(0 .. i - 1) BY <2>1, FS_Interval
  <2>3. 0 .. i - 1 \in SUBSET Nat OBVIOUS
  <2> QED BY <2>2, <2>3 DEF FiniteSubsetsOf
<1>3. {0 .. i - 1 : i \in S} # {} OBVIOUS
<1>4. \E X \in {0 .. i - 1 : i \in S} : \A Y \in {0 .. i - 1 : i \in S} :
        ~ (<<Y, X>> \in StrictSubsetOrdering(Nat))
  BY <1>1, <1>2, <1>3, WFMin, Zenon
<1>5. PICK i \in S : \A Y \in {0 .. k - 1 : k \in S} : ~ (<<Y, 0 .. i - 1>> \in StrictSubsetOrdering(Nat))
  BY <1>4
<1>6. ASSUME NEW j \in S, j < i PROVE FALSE
  <2>1. ~ (<<0 .. j - 1, 0 .. i - 1>> \in StrictSubsetOrdering(Nat)) BY <1>5
  <2>2. 0 .. j - 1 \in SUBSET Nat /\ 0 .. i - 1 \in SUBSET Nat /\ 0 .. j - 1 \subseteq 0 .. i - 1
    BY <1>6
  <2>3. j \in 0 .. i - 1 /\ j \notin 0 .. j - 1 BY <1>6
  <2> QED BY <2>1, <2>2, <2>3 DEF StrictSubsetOrdering
<1> QED BY <1>6

\* A node with these fields, its height true.
Node(k, i, l, r) == [key |-> k, itv |-> i, left |-> l, right |-> r, height |-> 1 + Taller(l, r)]

\* A set that has the subtrees of its trees, their heights true.
Whole(S) ==
  \A u \in S :
    /\ height(u) \in Nat
    /\ u # Nil => /\ u.key \in Int /\ u.left \in S /\ u.right \in S
                  /\ u = Node(u.key, u.itv, u.left, u.right)

IsTree(t) == \E S : t \in S /\ Whole(S)

LEMMA NilIs == IsTree(Nil) /\ height(Nil) = 0
<1>1. height(Nil) = 0 BY DEF height, Nil
<1>2. Whole({Nil}) BY <1>1 DEF Whole
<1> QED BY <1>1, <1>2 DEF IsTree

\* The higher of two heights, below that of the node.
LEMMA Heights ==
  ASSUME NEW S, Whole(S), NEW u \in S, u # Nil
  PROVE  /\ height(u) \in Nat \ {0} /\ height(u.left) \in Nat /\ height(u.right) \in Nat
         /\ height(u) = 1 + Taller(u.left, u.right)
         /\ height(u.left) < height(u) /\ height(u.right) < height(u)
<1>1. u = Node(u.key, u.itv, u.left, u.right) /\ u.left \in S /\ u.right \in S BY DEF Whole
<1>2. height(u) \in Nat /\ height(u.left) \in Nat /\ height(u.right) \in Nat BY <1>1 DEF Whole
<1>3. height(u) = 1 + Taller(u.left, u.right) BY <1>1 DEF Node, height
<1> QED BY <1>2, <1>3 DEF Taller

\* Induction: what holds of Nil, and of a node when it holds of its subtrees,
\* holds of every tree.
LEMMA Induct ==
  ASSUME NEW S, Whole(S), NEW X, Nil \in S => Nil \in X,
         \A u \in S : u # Nil /\ u.left \in X /\ u.right \in X => u \in X
  PROVE  S \subseteq X
<1> DEFINE H == {height(u) : u \in S \ X}
<1> SUFFICES ASSUME S \ X # {} PROVE FALSE OBVIOUS
<1>1. H \in SUBSET Nat /\ H # {} BY DEF Whole
<1>2. PICK h \in H : \A k \in H : h <= k
  <2> HIDE DEF H
  <2> QED BY <1>1, LeastNat
<1>3. PICK u \in S \ X : height(u) = h BY <1>2
<1>4. u # Nil BY <1>3
<1>5. u.left \in S /\ u.right \in S BY <1>3, <1>4 DEF Whole
<1>6. height(u.left) < height(u) /\ height(u.right) < height(u) /\ height(u) \in Nat
      /\ height(u.left) \in Nat /\ height(u.right) \in Nat BY <1>3, <1>4, Heights
<1>7. ASSUME NEW v \in S, height(v) < height(u), height(v) \in Nat PROVE v \in X
  <2>1. ~ h <= height(v) BY <1>3, <1>6, <1>7
  <2> QED BY <1>2, <2>1
<1> QED BY <1>3, <1>4, <1>5, <1>6, <1>7

\* The trees found within n steps below t.
BelowTo(f, t, h) ==
  f = [n \in 0 .. h |->
         IF n = 0 THEN {t}
         ELSE LET above == f[n - 1] \ {Nil}
              IN  f[n - 1] \union {u.left : u \in above} \union {u.right : u \in above}]

LEMMA BelowExist == ASSUME NEW t, NEW h \in Nat PROVE \E f : BelowTo(f, t, h)
<1> DEFINE S == {k \in Nat : ~ \E f : BelowTo(f, t, k)}
<1> SUFFICES ASSUME h \in S PROVE FALSE OBVIOUS
<1>1. PICK k \in S : \A j \in S : k <= j BY LeastNat
<1>2. k # 0
  <2>1. BelowTo([n \in 0 .. 0 |-> {t}], t, 0) BY DEF BelowTo
  <2> QED BY <2>1
<1>3. k \in Nat /\ k - 1 \in Nat /\ k - 1 \notin S BY <1>1, <1>2
<1>4. PICK f : BelowTo(f, t, k - 1) BY <1>3
<1> DEFINE Next(B) == B \union {u.left : u \in B \ {Nil}} \union {u.right : u \in B \ {Nil}}
<1> HIDE DEF Next
<1>5. ASSUME NEW n \in 0 .. k - 1 PROVE f[n] = IF n = 0 THEN {t} ELSE Next(f[n - 1])
  BY <1>3, <1>4 DEF BelowTo, Next
<1>6. PICK g : g = [n \in 0 .. k |-> IF n = k THEN Next(f[k - 1]) ELSE f[n]] OBVIOUS
<1>7. ASSUME NEW n \in 0 .. k PROVE g[n] = IF n = 0 THEN {t} ELSE Next(g[n - 1])
  <2>1. CASE n = k
    <3>1. g[n - 1] = f[n - 1] /\ n - 1 \in 0 .. k BY <1>3, <1>6, <2>1
    <3> QED BY <1>2, <1>6, <2>1, <3>1
  <2>2. CASE n # k
    <3>1. n \in 0 .. k - 1 /\ g[n] = f[n] BY <1>3, <1>6, <2>2
    <3>2. n # 0 => n - 1 \in 0 .. k /\ n - 1 # k BY <1>3, <3>1
    <3>3. n # 0 => g[n - 1] = f[n - 1] BY <1>6, <3>2
    <3> QED BY <1>5, <3>1, <3>3
  <2> QED BY <2>1, <2>2
<1>8. g = [n \in 0 .. k |-> IF n = 0 THEN {t} ELSE Next(g[n - 1])] BY <1>6, <1>7
<1>9. BelowTo(g, t, k) BY <1>8 DEF BelowTo, Next
<1> QED BY <1>1, <1>9

\* The subtrees of a tree: the least whole set that it is in.
LEMMA SubtreesLeast ==
  ASSUME NEW t, NEW S, Whole(S), t \in S
  PROVE  /\ t \in Subtrees(t) /\ Whole(Subtrees(t)) /\ Subtrees(t) \subseteq S
<1> DEFINE h == height(t)
           Next(B) == B \union {u.left : u \in B \ {Nil}} \union {u.right : u \in B \ {Nil}}
<1>1. h \in Nat BY DEF Whole
<1>2. PICK f : BelowTo(f, t, h) /\ Subtrees(t) = f[h]
  <2>1. \E f : BelowTo(f, t, h) BY <1>1, BelowExist
  <2>2. Subtrees(t) = (CHOOSE f : BelowTo(f, t, h))[h] BY DEF Subtrees, BelowTo
  <2> QED BY <2>1, <2>2
<1>3. f[0] = {t} /\ \A n \in 1 .. h : f[n] = Next(f[n - 1])
  <2> HIDE DEF h
  <2>1. f[0] = {t} BY <1>1, <1>2 DEF BelowTo
  <2>2. ASSUME NEW n \in 1 .. h PROVE f[n] = Next(f[n - 1])
    <3>1. n \in 0 .. h /\ n # 0 BY <1>1
    <3> QED BY <1>2, <3>1 DEF BelowTo
  <2> QED BY <2>1, <2>2
<1> HIDE DEF h, Next
<1>4. ASSUME NEW B, NEW u \in B
      PROVE  u \in Next(B) /\ (u # Nil => u.left \in Next(B) /\ u.right \in Next(B)) BY DEF Next
<1>5. ASSUME NEW B, NEW v \in Next(B), v \notin B
      PROVE  \E u \in B : u # Nil /\ (v = u.left \/ v = u.right)
  <2>1. v \in {u.left : u \in B \ {Nil}} \/ v \in {u.right : u \in B \ {Nil}} BY <1>5 DEF Next
  <2> QED BY <2>1
\* What is found is in S, and where there is room below it.
<1> DEFINE Fits(n) == \A v \in f[n] : v \in S /\ \E m \in 0 .. n : v \in f[m] /\ height(v) <= h - m
           Bad == {n \in 0 .. h : ~ Fits(n)}
<1>6. ASSUME NEW n \in 0 .. h PROVE Fits(n)
  <2> SUFFICES ASSUME Bad # {} PROVE FALSE OBVIOUS
  <2>1. PICK k \in Bad : \A j \in Bad : k <= j
    <3>1. Bad \in SUBSET Nat BY <1>1
    <3> HIDE DEF Bad
    <3> QED BY <3>1, LeastNat
  <2>2. k # 0
    <3>1. ASSUME k = 0 PROVE Fits(0)
      <4>1. 0 \in 0 .. 0 /\ height(t) <= h - 0 BY <1>1 DEF h
      <4> QED BY <1>3, <4>1
    <3> QED BY <2>1, <3>1
  <2>3. k \in 1 .. h /\ k - 1 \in 0 .. h /\ k - 1 \notin Bad
    <3>1. k \in 0 .. h BY <2>1
    <3>2. k \in Int /\ ~ k <= k - 1 BY <1>1, <3>1
    <3>3. k - 1 \notin Bad BY <2>1, <3>2
    <3> QED BY <1>1, <2>2, <3>1, <3>3
  <2>4. Fits(k - 1) BY <2>3
  <2>5. ASSUME NEW v \in f[k] PROVE v \in S /\ \E m \in 0 .. k : v \in f[m] /\ height(v) <= h - m
    <3>1. f[k] = Next(f[k - 1]) BY <1>3, <2>3
    <3>2. CASE v \in f[k - 1]
      <4>1. PICK m \in 0 .. k - 1 : v \in f[m] /\ height(v) <= h - m BY <2>4, <3>2
      <4>2. m \in 0 .. k BY <1>1, <2>3
      <4> QED BY <2>4, <3>2, <4>1, <4>2
    <3>3. CASE v \notin f[k - 1]
      <4>1. PICK u \in f[k - 1] : u # Nil /\ (v = u.left \/ v = u.right) BY <1>5, <3>1, <3>3
      <4>2. PICK m \in 0 .. k - 1 : u \in f[m] /\ height(u) <= h - m BY <2>4
      <4>3. u \in S BY <2>4
      <4>4. v \in S BY <4>1, <4>3 DEF Whole
      <4>5. height(v) < height(u) /\ height(v) \in Nat /\ height(u) \in Nat BY <4>1, <4>3, Heights
      <4>6. m + 1 \in 1 .. h /\ m + 1 \in 0 .. k /\ m \in 0 .. h /\ (m + 1) - 1 = m /\ m \in Int
        BY <1>1, <2>3
      <4>7. v \in Next(f[m]) BY <1>4, <4>1, <4>2
      <4>8. v \in f[m + 1] BY <1>3, <4>6, <4>7
      <4>9. height(v) <= h - (m + 1) BY <1>1, <4>2, <4>5, <4>6
      <4> QED BY <4>4, <4>6, <4>8, <4>9
    <3> QED BY <3>2, <3>3
  <2> QED BY <2>1, <2>5
<1>7. ASSUME NEW m \in 0 .. h PROVE f[m] \subseteq f[h]
  <2> DEFINE Less == {n \in 0 .. h : m <= n /\ ~ f[m] \subseteq f[n]}
  <2> SUFFICES ASSUME Less # {} PROVE FALSE
    <3>1. h \in 0 .. h /\ m <= h BY <1>1
    <3> QED BY <3>1
  <2>1. PICK k \in Less : \A j \in Less : k <= j
    <3>1. Less \in SUBSET Nat BY <1>1
    <3> HIDE DEF Less
    <3> QED BY <3>1, LeastNat
  <2>2. k \in 0 .. h /\ m <= k /\ ~ f[m] \subseteq f[k] BY <2>1
  <2>3. k # m BY <2>2
  <2>4. k \in 1 .. h /\ k - 1 \in 0 .. h /\ m <= k - 1 /\ ~ k <= k - 1 BY <1>1, <2>2, <2>3
  <2>5. k - 1 \notin Less BY <2>1, <2>4
  <2>6. f[m] \subseteq f[k - 1] BY <2>4, <2>5
  <2>7. f[k] = Next(f[k - 1]) BY <1>3, <2>4
  <2>8. f[k - 1] \subseteq Next(f[k - 1]) BY <1>4
  <2> QED BY <2>2, <2>6, <2>7, <2>8
<1>8. ASSUME NEW v \in f[h] PROVE v # Nil => v.left \in f[h] /\ v.right \in f[h]
  <2>1. h \in 0 .. h BY <1>1
  <2>2. PICK m \in 0 .. h : v \in f[m] /\ height(v) <= h - m BY <1>6, <2>1
  <2>3. v \in S BY <1>6, <2>1
  <2> SUFFICES ASSUME v # Nil PROVE v.left \in f[h] /\ v.right \in f[h] OBVIOUS
  <2>4. height(v) \in Nat \ {0} BY <2>3, Heights
  <2>5. m + 1 \in 1 .. h /\ (m + 1) - 1 = m /\ m \in Int BY <1>1, <2>2, <2>4
  <2>6. v.left \in f[m + 1] /\ v.right \in f[m + 1] BY <1>3, <1>4, <2>2, <2>5
  <2>7. f[m + 1] \subseteq f[h] BY <1>1, <1>7, <2>5
  <2> QED BY <2>6, <2>7
<1>9. f[h] \subseteq S /\ t \in f[h]
  <2>1. h \in 0 .. h /\ 0 \in 0 .. h BY <1>1
  <2>2. f[h] \subseteq S BY <1>6, <2>1
  <2>3. t \in f[h] BY <1>3, <1>7, <2>1
  <2> QED BY <2>2, <2>3
<1>10. Whole(f[h]) BY <1>8, <1>9 DEF Whole
<1> QED BY <1>2, <1>9, <1>10

\* A tree is in the set of its subtrees, which are trees no higher than it.
LEMMA SubtreesIs ==
  ASSUME NEW t, IsTree(t)
  PROVE  /\ t \in Subtrees(t) /\ Whole(Subtrees(t)) /\ height(t) \in Nat
         /\ \A u \in Subtrees(t) : IsTree(u) /\ height(u) \in Nat /\ height(u) <= height(t)
<1>1. PICK S : t \in S /\ Whole(S) BY DEF IsTree
<1>2. t \in Subtrees(t) /\ Whole(Subtrees(t)) BY <1>1, SubtreesLeast
<1> DEFINE L == {u \in S : height(u) <= height(t)}
<1>3. Whole(L) /\ t \in L
  <2>1. t \in L BY <1>1 DEF Whole
  <2>2. ASSUME NEW u \in L, u # Nil PROVE u.left \in L /\ u.right \in L
    <3>1. u.left \in S /\ u.right \in S /\ height(t) \in Nat BY <1>1, <2>2 DEF Whole
    <3>2. height(u.left) < height(u) /\ height(u.right) < height(u) /\ height(u) \in Nat
          /\ height(u.left) \in Nat /\ height(u.right) \in Nat BY <1>1, <2>2, Heights
    <3>3. height(u) <= height(t) OBVIOUS
    <3> QED BY <3>1, <3>2, <3>3
  <2> QED BY <1>1, <2>1, <2>2 DEF Whole
<1>4. Subtrees(t) \subseteq L BY <1>3, SubtreesLeast
<1> QED BY <1>1, <1>2, <1>4 DEF IsTree, Whole

\* What is known of a tree that is not empty.
LEMMA TreeIs ==
  ASSUME NEW t, IsTree(t), t # Nil
  PROVE  /\ t.key \in Int /\ IsTree(t.left) /\ IsTree(t.right)
         /\ t = Node(t.key, t.itv, t.left, t.right)
         /\ height(t) \in Nat \ {0} /\ height(t.left) \in Nat /\ height(t.right) \in Nat
         /\ height(t) = 1 + Taller(t.left, t.right)
<1>1. PICK S : t \in S /\ Whole(S) BY DEF IsTree
<1>2. /\ height(t) \in Nat \ {0} /\ height(t.left) \in Nat /\ height(t.right) \in Nat
      /\ height(t) = 1 + Taller(t.left, t.right) BY <1>1, Heights
<1>3. /\ t.key \in Int /\ t.left \in S /\ t.right \in S
      /\ t = Node(t.key, t.itv, t.left, t.right) BY <1>1 DEF Whole
<1> QED BY <1>1, <1>2, <1>3 DEF IsTree

\* A node made of two trees is a tree.
LEMMA NodeTree ==
  ASSUME NEW k \in Int, NEW i, NEW l, IsTree(l), NEW r, IsTree(r)
  PROVE  LET n == Node(k, i, l, r)
         IN  /\ IsTree(n) /\ n # Nil
             /\ n.key = k /\ n.itv = i /\ n.left = l /\ n.right = r
             /\ height(n) = 1 + Taller(l, r) /\ height(n) \in Nat \ {0}
             /\ height(l) \in Nat /\ height(r) \in Nat
<1> DEFINE n == Node(k, i, l, r)
           S == {n} \union Subtrees(l) \union Subtrees(r)
<1>1. n.key = k /\ n.itv = i /\ n.left = l /\ n.right = r BY DEF Node
<1>2. height(n) = 1 + Taller(l, r) BY DEF Node, height
<1>3. height(l) \in Nat /\ height(r) \in Nat BY SubtreesIs
<1>4. height(n) \in Nat \ {0} BY <1>2, <1>3 DEF Taller
<1>5. n # Nil BY <1>4, NilIs
<1>6. /\ l \in Subtrees(l) /\ Whole(Subtrees(l)) /\ r \in Subtrees(r) /\ Whole(Subtrees(r))
  BY SubtreesIs
<1>7. n = Node(n.key, n.itv, n.left, n.right) BY <1>1
<1> HIDE DEF n
<1>8. Whole(S)
  <2>1. ASSUME NEW u \in S
        PROVE  /\ height(u) \in Nat
               /\ u # Nil => /\ u.key \in Int /\ u.left \in S /\ u.right \in S
                             /\ u = Node(u.key, u.itv, u.left, u.right)
    <3>1. CASE u = n BY <1>1, <1>4, <1>6, <1>7, <3>1
    <3>2. CASE u \in Subtrees(l) BY <1>6, <3>2 DEF Whole
    <3>3. CASE u \in Subtrees(r) BY <1>6, <3>3 DEF Whole
    <3> QED BY <3>1, <3>2, <3>3
  <2> QED BY <2>1 DEF Whole
<1>9. IsTree(n) BY <1>8 DEF IsTree
<1> QED BY <1>1, <1>2, <1>3, <1>4, <1>5, <1>9 DEF n

\* Its subtrees are itself and theirs.
LEMMA BelowNode ==
  ASSUME NEW k \in Int, NEW i, NEW l, IsTree(l), NEW r, IsTree(r)
  PROVE  /\ Subtrees(l) \subseteq Subtrees(Node(k, i, l, r))
         /\ Subtrees(r) \subseteq Subtrees(Node(k, i, l, r))
<1> DEFINE n == Node(k, i, l, r)
<1>1. IsTree(n) /\ n # Nil /\ n.left = l /\ n.right = r BY NodeTree
<1>2. n \in Subtrees(n) /\ Whole(Subtrees(n)) BY <1>1, SubtreesIs
<1>3. l \in Subtrees(n) /\ r \in Subtrees(n) BY <1>1, <1>2 DEF Whole
<1> QED BY <1>2, <1>3, SubtreesLeast

LEMMA NodesNode ==
  ASSUME NEW k \in Int, NEW i, NEW l, IsTree(l), NEW r, IsTree(r)
  PROVE  Nodes(Node(k, i, l, r)) = {Node(k, i, l, r)} \union (Nodes(l) \union Nodes(r))
<1> DEFINE n == Node(k, i, l, r)
           S == {n} \union Subtrees(l) \union Subtrees(r)
<1>1. IsTree(n) /\ n # Nil /\ n.left = l /\ n.right = r /\ n.key = k /\ n.itv = i
      /\ height(n) \in Nat BY NodeTree
<1>2. n \in Subtrees(n) BY <1>1, SubtreesIs
<1>3. /\ l \in Subtrees(l) /\ Whole(Subtrees(l)) /\ r \in Subtrees(r) /\ Whole(Subtrees(r))
  BY SubtreesIs
<1>4. n = Node(n.key, n.itv, n.left, n.right) BY <1>1
<1>5. Subtrees(l) \subseteq Subtrees(n) /\ Subtrees(r) \subseteq Subtrees(n) BY BelowNode
<1> HIDE DEF n
<1>6. Whole(S)
  <2>1. ASSUME NEW u \in S
        PROVE  /\ height(u) \in Nat
               /\ u # Nil => /\ u.key \in Int /\ u.left \in S /\ u.right \in S
                             /\ u = Node(u.key, u.itv, u.left, u.right)
    <3>1. CASE u = n BY <1>1, <1>3, <1>4, <3>1
    <3>2. CASE u \in Subtrees(l) BY <1>3, <3>2 DEF Whole
    <3>3. CASE u \in Subtrees(r) BY <1>3, <3>3 DEF Whole
    <3> QED BY <3>1, <3>2, <3>3
  <2> QED BY <2>1 DEF Whole
<1>7. Subtrees(n) \subseteq S BY <1>6, SubtreesLeast
<1>8. Nodes(n) = {n} \union (Nodes(l) \union Nodes(r)) BY <1>1, <1>2, <1>5, <1>7 DEF Nodes
<1> QED BY <1>8 DEF n

LEMMA NodesNil == Nodes(Nil) = {}
<1>1. Whole({Nil}) BY NilIs DEF Whole
<1>2. Subtrees(Nil) \subseteq {Nil} BY <1>1, SubtreesLeast
<1> QED BY <1>2 DEF Nodes

----------------------------------------------------------------------------
(* What a tree holds, and its order. *)

\* The keys of a tree with their intervals.
Entries(t) == {<<n.key, n.itv>> : n \in Nodes(t)}

AllBelow(t, x) == \A e \in Entries(t) : e[1] <= x
AllAbove(t, x) == \A e \in Entries(t) : x <= e[1]

\* A search tree: between two keys of a path lies d at least; d is 0 where keys
\* may be equal, and 1 where they may not.
OrderedBy(t, d) == \A n \in Nodes(t) : AllBelow(n.left, n.key - d) /\ AllAbove(n.right, n.key + d)

\* The entry of a node with those of its subtrees.
Around(e, L, R) == {e} \union (L \union R)

LEMMA EntriesNode ==
  ASSUME NEW k \in Int, NEW i, NEW l, IsTree(l), NEW r, IsTree(r)
  PROVE  /\ Entries(Node(k, i, l, r)) = Around(<<k, i>>, Entries(l), Entries(r))
         /\ \A x : AllBelow(Node(k, i, l, r), x) <=> AllBelow(l, x) /\ k <= x /\ AllBelow(r, x)
         /\ \A x : AllAbove(Node(k, i, l, r), x) <=> AllAbove(l, x) /\ x <= k /\ AllAbove(r, x)
<1> DEFINE n == Node(k, i, l, r)
<1>1. n.key = k /\ n.itv = i BY NodeTree
<1>2. Nodes(n) = {n} \union (Nodes(l) \union Nodes(r)) BY NodesNode
<1> HIDE DEF n
<1>3. Entries(n) = Around(<<k, i>>, Entries(l), Entries(r)) BY <1>1, <1>2 DEF Entries, Around
<1>4. ASSUME NEW x PROVE AllBelow(n, x) <=> AllBelow(l, x) /\ k <= x /\ AllBelow(r, x)
  <2>1. <<k, i>>[1] = k OBVIOUS
  <2> QED BY <1>3, <2>1, Zenon DEF AllBelow, Around
<1>5. ASSUME NEW x PROVE AllAbove(n, x) <=> AllAbove(l, x) /\ x <= k /\ AllAbove(r, x)
  <2>1. <<k, i>>[1] = k OBVIOUS
  <2> QED BY <1>3, <2>1, Zenon DEF AllAbove, Around
<1> QED BY <1>3, <1>4, <1>5 DEF n

\* The keys are integers.
LEMMA EntriesKeys ==
  ASSUME NEW t, IsTree(t), NEW e \in Entries(t)
  PROVE  \E n \in Nodes(t) : IsTree(n) /\ e = <<n.key, n.itv>> /\ e[1] = n.key /\ e[2] = n.itv /\ n.key \in Int
<1>1. PICK n \in Nodes(t) : e = <<n.key, n.itv>> BY DEF Entries
<1>2. n # Nil /\ n \in Subtrees(t) BY DEF Nodes
<1>3. IsTree(n) BY <1>2, SubtreesIs
<1>4. n.key \in Int BY <1>2, <1>3, TreeIs
<1> QED BY <1>1, <1>3, <1>4

LEMMA EntriesNil ==
  Entries(Nil) = {} /\ \A x : AllBelow(Nil, x) /\ AllAbove(Nil, x)
BY NodesNil DEF Entries, AllBelow, AllAbove

LEMMA ShapeNode ==
  ASSUME NEW k \in Int, NEW i, NEW l, IsTree(l), NEW r, IsTree(r)
  PROVE  /\ \A d : OrderedBy(Node(k, i, l, r), d) <=>
                     /\ OrderedBy(l, d) /\ OrderedBy(r, d)
                     /\ AllBelow(l, k - d) /\ AllAbove(r, k + d)
         /\ Balanced(Node(k, i, l, r)) <=>
              Balanced(l) /\ Balanced(r) /\ height(l) - height(r) \in -1 .. 1
<1> DEFINE n == Node(k, i, l, r)
<1>1. n.key = k /\ n.left = l /\ n.right = r /\ n # Nil BY NodeTree
<1>2. Nodes(n) = {n} \union (Nodes(l) \union Nodes(r)) BY NodesNode
<1>3. getBalance(n) = height(l) - height(r) BY <1>1 DEF getBalance
<1> HIDE DEF n
<1>4. ASSUME NEW d
      PROVE  OrderedBy(n, d) <=> /\ OrderedBy(l, d) /\ OrderedBy(r, d)
                                 /\ AllBelow(l, k - d) /\ AllAbove(r, k + d)
  BY <1>1, <1>2 DEF OrderedBy
<1>5. Balanced(n) <=> Balanced(l) /\ Balanced(r) /\ height(l) - height(r) \in -1 .. 1
  BY <1>2, <1>3 DEF Balanced
<1> QED BY <1>4, <1>5 DEF n

LEMMA ShapeNil == Balanced(Nil) /\ \A d : OrderedBy(Nil, d)
BY NodesNil DEF Balanced, OrderedBy

----------------------------------------------------------------------------
(* The number of nodes. *)

\* The trees of S that are less than n high.
Lower(S, n) == {u \in S : height(u) < n}

LEMMA NatInduct ==
  ASSUME NEW G, 0 \in G, \A n \in Nat : n \in G => n + 1 \in G PROVE Nat \subseteq G
<1> DEFINE Bad == Nat \ G
<1> SUFFICES ASSUME Bad # {} PROVE FALSE OBVIOUS
<1>1. PICK k \in Bad : \A j \in Bad : k <= j
  <2>1. Bad \in SUBSET Nat OBVIOUS
  <2> HIDE DEF Bad
  <2> QED BY <2>1, LeastNat
<1>2. k \in Nat /\ k # 0 /\ k - 1 \in Nat /\ (k - 1) + 1 = k /\ ~ k <= k - 1 BY <1>1
<1>3. k - 1 \in G BY <1>1, <1>2
<1> QED BY <1>1, <1>2, <1>3

\* A recursive function is defined on lower trees before it is on higher ones.
LEMMA LowerIs ==
  ASSUME NEW t, IsTree(t)
  PROVE  /\ Lower(Subtrees(t), 0) = {} /\ Lower(Subtrees(t), height(t) + 1) = Subtrees(t)
         /\ height(t) + 1 \in Nat
         /\ \A n \in Nat : Lower(Subtrees(t), n) \subseteq Lower(Subtrees(t), n + 1)
         /\ \A n \in Nat : \A u \in Lower(Subtrees(t), n + 1) :
              u # Nil => /\ u.left \in Lower(Subtrees(t), n)
                         /\ u.right \in Lower(Subtrees(t), n)
<1> DEFINE S == Subtrees(t)
<1>1. /\ Whole(S) /\ height(t) \in Nat
      /\ \A u \in S : height(u) \in Nat /\ height(u) <= height(t) BY SubtreesIs
<1> HIDE DEF S
<1>2. Lower(S, 0) = {} BY <1>1 DEF Lower
<1>3. Lower(S, height(t) + 1) = S BY <1>1 DEF Lower
<1>4. ASSUME NEW n \in Nat PROVE Lower(S, n) \subseteq Lower(S, n + 1) BY <1>1 DEF Lower
<1>5. ASSUME NEW n \in Nat, NEW u \in Lower(S, n + 1), u # Nil
      PROVE  u.left \in Lower(S, n) /\ u.right \in Lower(S, n)
  <2>1. u \in S /\ height(u) < n + 1 BY DEF Lower
  <2>2. u.left \in S /\ u.right \in S BY <1>1, <1>5, <2>1 DEF Whole
  <2>3. height(u.left) < height(u) /\ height(u.right) < height(u) BY <1>1, <1>5, <2>1, Heights
  <2>4. height(u) \in Nat /\ height(u.left) \in Nat /\ height(u.right) \in Nat BY <1>1, <2>1, <2>2
  <2> QED BY <2>1, <2>2, <2>3, <2>4 DEF Lower
<1> QED BY <1>1, <1>2, <1>3, <1>4, <1>5 DEF S

CountOf(u, a, b) == IF u = Nil THEN 0 ELSE 1 + a + b
CountTo(f, D) == f = [u \in D |-> CountOf(u, f[u.left], f[u.right])]

LEMMA CountExists == ASSUME NEW t, IsTree(t) PROVE \E f : CountTo(f, Subtrees(t))
<1> DEFINE D(n) == Lower(Subtrees(t), n)
           G == {n \in Nat : \E f : CountTo(f, D(n))}
<1>1. 0 \in G
  <2>1. D(0) = {} BY LowerIs
  <2>2. CountTo([u \in {} |-> 0], {}) BY DEF CountTo
  <2> QED BY <2>1, <2>2
<1>2. ASSUME NEW n \in Nat, n \in G PROVE n + 1 \in G
  <2>1. PICK f : CountTo(f, D(n)) BY <1>2
  <2>2. D(n) \subseteq D(n + 1) BY LowerIs
  <2>3. \A u \in D(n + 1) : u # Nil => u.left \in D(n) /\ u.right \in D(n) BY LowerIs
  <2> HIDE DEF D
  <2>4. PICK g : g = [u \in D(n + 1) |-> IF u \in D(n) THEN f[u] ELSE CountOf(u, f[u.left], f[u.right])]
    OBVIOUS
  <2>5. ASSUME NEW u \in D(n + 1) PROVE g[u] = CountOf(u, g[u.left], g[u.right])
    <3>1. g[u] = CountOf(u, f[u.left], f[u.right]) BY <2>1, <2>4 DEF CountTo
    <3>2. CASE u = Nil BY <3>1, <3>2 DEF CountOf
    <3>3. CASE u # Nil
      <4>1. g[u.left] = f[u.left] /\ g[u.right] = f[u.right] BY <2>2, <2>3, <2>4, <3>3
      <4> QED BY <3>1, <4>1
    <3> QED BY <3>2, <3>3
  <2>6. CountTo(g, D(n + 1)) BY <2>4, <2>5 DEF CountTo
  <2> QED BY <2>6
<1>3. height(t) + 1 \in G
  <2> HIDE DEF G
  <2> QED BY <1>1, <1>2, NatInduct, LowerIs
<1> QED BY <1>3, LowerIs

LEMMA CountIs ==
  ASSUME NEW t, IsTree(t) PROVE \E f : CountTo(f, Subtrees(t)) /\ Count(t) = f[t]
<1>1. \E f : CountTo(f, Subtrees(t)) BY CountExists
<1>2. Count(t) = (CHOOSE f : CountTo(f, Subtrees(t)))[t] BY DEF Count, CountTo, CountOf
<1> QED BY <1>1, <1>2

\* A subtree counts the same in every tree it is in.
LEMMA CountBelow ==
  ASSUME NEW t, IsTree(t), NEW u, IsTree(u), Subtrees(u) \subseteq Subtrees(t),
         NEW f, CountTo(f, Subtrees(t))
  PROVE  Count(u) = f[u] /\ Count(u) \in Nat
<1>1. PICK g : CountTo(g, Subtrees(u)) /\ Count(u) = g[u] BY CountIs
<1> DEFINE X == {v \in Subtrees(u) : f[v] = g[v] /\ f[v] \in Nat}
<1>2. Whole(Subtrees(u)) /\ u \in Subtrees(u) BY SubtreesIs
<1>3. ASSUME NEW v \in Subtrees(u)
      PROVE  f[v] = CountOf(v, f[v.left], f[v.right]) /\ g[v] = CountOf(v, g[v.left], g[v.right])
  BY <1>1 DEF CountTo
<1>4. ASSUME NEW v \in Subtrees(u), v = Nil PROVE v \in X
  BY <1>3, <1>4 DEF CountOf
<1>5. ASSUME NEW v \in Subtrees(u), v # Nil, v.left \in X, v.right \in X PROVE v \in X
  <2>1. f[v.left] = g[v.left] /\ f[v.right] = g[v.right] BY <1>5
  <2>2. f[v.left] \in Nat /\ f[v.right] \in Nat BY <1>5
  <2>3. f[v] = 1 + f[v.left] + f[v.right] /\ g[v] = 1 + g[v.left] + g[v.right]
    BY <1>3, <1>5 DEF CountOf
  <2> QED BY <2>1, <2>2, <2>3
<1>6. Subtrees(u) \subseteq X
  <2> HIDE DEF X
  <2> QED BY <1>2, <1>4, <1>5, Induct
<1> QED BY <1>1, <1>2, <1>6

LEMMA CountNode ==
  ASSUME NEW k \in Int, NEW i, NEW l, IsTree(l), NEW r, IsTree(r)
  PROVE  /\ Count(Node(k, i, l, r)) = 1 + Count(l) + Count(r)
         /\ Count(l) \in Nat /\ Count(r) \in Nat
<1> DEFINE n == Node(k, i, l, r)
<1>1. IsTree(n) /\ n # Nil /\ n.left = l /\ n.right = r BY NodeTree
<1>2. Subtrees(l) \subseteq Subtrees(n) /\ Subtrees(r) \subseteq Subtrees(n) BY BelowNode
<1>3. n \in Subtrees(n) BY <1>1, SubtreesIs
<1> HIDE DEF n
<1>4. PICK f : CountTo(f, Subtrees(n)) BY <1>1, CountExists
<1>5. /\ Count(l) = f[l] /\ Count(l) \in Nat /\ Count(r) = f[r] /\ Count(r) \in Nat
      /\ Count(n) = f[n]
  BY <1>1, <1>2, <1>4, CountBelow
<1>6. f[n] = CountOf(n, f[l], f[r]) BY <1>1, <1>3, <1>4 DEF CountTo
<1>7. Count(n) = 1 + Count(l) + Count(r) BY <1>1, <1>5, <1>6 DEF CountOf
<1> QED BY <1>5, <1>7 DEF n

LEMMA CountTypes == Count(Nil) = 0 /\ \A t : IsTree(t) => Count(t) \in Nat
<1>1. ASSUME NEW t, IsTree(t) PROVE Count(t) \in Nat
  <2>1. PICK f : CountTo(f, Subtrees(t)) BY <1>1, CountExists
  <2> QED BY <1>1, <2>1, CountBelow
<1>2. Count(Nil) = 0
  <2>1. IsTree(Nil) BY NilIs
  <2>2. PICK f : CountTo(f, Subtrees(Nil)) /\ Count(Nil) = f[Nil] BY <2>1, CountIs
  <2>3. Nil \in Subtrees(Nil) BY <2>1, SubtreesIs
  <2>4. f[Nil] = CountOf(Nil, f[Nil.left], f[Nil.right]) BY <2>2, <2>3 DEF CountTo
  <2> QED BY <2>2, <2>4 DEF CountOf
<1> QED BY <1>1, <1>2

----------------------------------------------------------------------------
(* Rotations. *)

\* Two trees with the same contents, of which one is in order when the other is.
Alike(s, t) ==
  /\ IsTree(s) /\ IsTree(t)
  /\ Entries(s) = Entries(t) /\ Count(s) = Count(t)
  /\ \A d \in {0, 1} : OrderedBy(s, d) <=> OrderedBy(t, d)

LEMMA SameBounds ==
  ASSUME NEW s, NEW t, Entries(s) = Entries(t), NEW x
  PROVE  (AllBelow(s, x) <=> AllBelow(t, x)) /\ (AllAbove(s, x) <=> AllAbove(t, x))
BY DEF AllBelow, AllAbove

LEMMA AlikeTrans ==
  ASSUME NEW s, NEW t, NEW u, Alike(s, t), Alike(t, u) PROVE Alike(s, u)
BY DEF Alike

LEMMA AlikeNode ==
  ASSUME NEW k \in Int, NEW i, NEW l, NEW m, Alike(l, m), NEW r, NEW s, Alike(r, s)
  PROVE  Alike(Node(k, i, l, r), Node(k, i, m, s))
<1> DEFINE a == Node(k, i, l, r)
           b == Node(k, i, m, s)
<1>1. IsTree(l) /\ IsTree(m) /\ IsTree(r) /\ IsTree(s) BY DEF Alike
<1>2. Entries(l) = Entries(m) /\ Entries(r) = Entries(s) BY DEF Alike
<1>3. IsTree(a) /\ IsTree(b) BY <1>1, NodeTree
<1>4. Entries(a) = Around(<<k, i>>, Entries(l), Entries(r)) BY <1>1, EntriesNode
<1>5. Entries(b) = Around(<<k, i>>, Entries(m), Entries(s)) BY <1>1, EntriesNode
<1>6. Count(a) = 1 + Count(l) + Count(r) /\ Count(b) = 1 + Count(m) + Count(s)
  BY <1>1, CountNode
<1>7. ASSUME NEW d \in {0, 1} PROVE OrderedBy(a, d) <=> OrderedBy(b, d)
  <2>1. OrderedBy(l, d) <=> OrderedBy(m, d) BY DEF Alike
  <2>2. OrderedBy(r, d) <=> OrderedBy(s, d) BY DEF Alike
  <2>3. AllBelow(l, k - d) <=> AllBelow(m, k - d) BY <1>2, SameBounds
  <2>4. AllAbove(r, k + d) <=> AllAbove(s, k + d) BY <1>2, SameBounds
  <2> QED BY <1>1, <2>1, <2>2, <2>3, <2>4, ShapeNode
<1> HIDE DEF a, b
<1>8. Entries(a) = Entries(b) BY <1>2, <1>4, <1>5
<1>9. Count(a) = Count(b) BY <1>6 DEF Alike
<1> QED BY <1>3, <1>7, <1>8, <1>9 DEF Alike, a, b

LEMMA AlikeSame == ASSUME NEW t, IsTree(t) PROVE Alike(t, t)
BY DEF Alike

\* The two sides of a rotation.
LEMMA Rotated ==
  ASSUME NEW j \in Int, NEW x, NEW k \in Int, NEW y,
         NEW a, IsTree(a), NEW b, IsTree(b), NEW c, IsTree(c)
  PROVE  Alike(Node(k, y, Node(j, x, a, b), c), Node(j, x, a, Node(k, y, b, c)))
<1> DEFINE l == Node(j, x, a, b)
           r == Node(k, y, b, c)
           s == Node(k, y, l, c)
           t == Node(j, x, a, r)
<1>1. IsTree(l) /\ IsTree(r) BY NodeTree
<1>2. IsTree(s) /\ IsTree(t) BY <1>1, NodeTree
<1>3. Entries(l) = Around(<<j, x>>, Entries(a), Entries(b)) BY EntriesNode
<1>4. Entries(r) = Around(<<k, y>>, Entries(b), Entries(c)) BY EntriesNode
<1>5. /\ Count(l) = 1 + Count(a) + Count(b) /\ Count(r) = 1 + Count(b) + Count(c)
      /\ Count(a) \in Nat /\ Count(b) \in Nat /\ Count(c) \in Nat BY CountNode
<1>6. ASSUME NEW d \in {0, 1}
      PROVE  /\ OrderedBy(l, d) <=> /\ OrderedBy(a, d) /\ OrderedBy(b, d)
                                    /\ AllBelow(a, j - d) /\ AllAbove(b, j + d)
             /\ OrderedBy(r, d) <=> /\ OrderedBy(b, d) /\ OrderedBy(c, d)
                                    /\ AllBelow(b, k - d) /\ AllAbove(c, k + d)
             /\ AllBelow(l, k - d) <=> AllBelow(a, k - d) /\ j <= k - d /\ AllBelow(b, k - d)
             /\ AllAbove(r, j + d) <=> AllAbove(b, j + d) /\ j + d <= k /\ AllAbove(c, j + d)
  BY ShapeNode, EntriesNode
<1> HIDE DEF l, r
<1>7. Entries(s) = Around(<<k, y>>, Entries(l), Entries(c)) BY <1>1, EntriesNode
<1>8. Entries(t) = Around(<<j, x>>, Entries(a), Entries(r)) BY <1>1, EntriesNode
<1>9. Count(s) = 1 + Count(l) + Count(c) /\ Count(t) = 1 + Count(a) + Count(r)
  BY <1>1, CountNode
<1>10. ASSUME NEW d \in {0, 1} PROVE OrderedBy(s, d) <=> OrderedBy(t, d)
  <2>1. OrderedBy(s, d) <=> /\ OrderedBy(l, d) /\ OrderedBy(c, d)
                            /\ AllBelow(l, k - d) /\ AllAbove(c, k + d)
    BY <1>1, ShapeNode
  <2>2. OrderedBy(t, d) <=> /\ OrderedBy(a, d) /\ OrderedBy(r, d)
                            /\ AllBelow(a, j - d) /\ AllAbove(r, j + d)
    BY <1>1, ShapeNode
  <2>3. j <= k - d => (AllBelow(a, j - d) => AllBelow(a, k - d))
    <3>1. ASSUME NEW e \in Entries(a) PROVE e[1] \in Int BY EntriesKeys
    <3> QED BY <3>1 DEF AllBelow
  <2>4. j + d <= k => (AllAbove(c, k + d) => AllAbove(c, j + d))
    <3>1. ASSUME NEW e \in Entries(c) PROVE e[1] \in Int BY EntriesKeys
    <3> QED BY <3>1 DEF AllAbove
  <2>5. j <= k - d <=> j + d <= k OBVIOUS
  <2> QED BY <1>6, <2>1, <2>2, <2>3, <2>4, <2>5
<1> HIDE DEF s, t
<1>11. Entries(s) = Entries(t) BY <1>3, <1>4, <1>7, <1>8 DEF Around
<1>12. Count(s) = Count(t) BY <1>5, <1>9
<1> QED BY <1>2, <1>10, <1>11, <1>12 DEF Alike, s, t, l, r

\* A node, whatever its height.
IsNode(t) ==
  t = [key |-> t.key, itv |-> t.itv, left |-> t.left, right |-> t.right, height |-> t.height]

LEMMA NodeIs == ASSUME NEW t, IsTree(t), t # Nil PROVE IsNode(t)
<1>1. t = Node(t.key, t.itv, t.left, t.right) BY TreeIs
<1> QED BY <1>1 DEF Node, IsNode

LEMMA RebuildIs ==
  ASSUME NEW t, IsNode(t), NEW l, NEW r PROVE Rebuild(t, l, r) = Node(t.key, t.itv, l, r)
<1>1. PICK k, i, a, b, g : t = [key |-> k, itv |-> i, left |-> a, right |-> b, height |-> g]
  BY DEF IsNode
<1>2. t.key = k /\ t.itv = i BY <1>1
<1>3. PICK h : h = 1 + Taller(l, r) OBVIOUS
<1>4. PICK v : v = Rebuild(t, l, r) OBVIOUS
<1>5. v = [t EXCEPT !.left = l, !.right = r, !.height = h] BY <1>3, <1>4 DEF Rebuild
<1>6. v = [key |-> k, itv |-> i, left |-> l, right |-> r, height |-> h] BY <1>1, <1>5
<1> QED BY <1>2, <1>3, <1>4, <1>6 DEF Node

\* rightRotate and leftRotate look at the subtrees, not at the height, of the
\* node they are given.
LEMMA RightRotateIs ==
  ASSUME NEW t, IsNode(t), t # Nil, t.left # Nil, IsNode(t.left)
  PROVE  rightRotate(t) = Node(t.left.key, t.left.itv, t.left.left,
                               Node(t.key, t.itv, t.left.right, t.right))
<1>1. rightRotate(t) = Rebuild(t.left, t.left.left, Rebuild(t, t.left.right, t.right))
  BY DEF rightRotate
<1> QED BY <1>1, RebuildIs

LEMMA LeftRotateIs ==
  ASSUME NEW t, IsNode(t), t # Nil, t.right # Nil, IsNode(t.right)
  PROVE  leftRotate(t) = Node(t.right.key, t.right.itv,
                              Node(t.key, t.itv, t.left, t.right.left), t.right.right)
<1>1. leftRotate(t) = Rebuild(t.right, Rebuild(t, t.left, t.right.left), t.right.right)
  BY DEF leftRotate
<1> QED BY <1>1, RebuildIs

\* A single rotation, and the double ones, of a node made of trees.
LEMMA RotateRight ==
  ASSUME NEW k \in Int, NEW i, NEW l, IsTree(l), NEW r, IsTree(r), l # Nil
  PROVE  /\ rightRotate(Node(k, i, l, r)) = Node(l.key, l.itv, l.left, Node(k, i, l.right, r))
         /\ Alike(rightRotate(Node(k, i, l, r)), Node(k, i, l, r))
<1> DEFINE t == Node(k, i, l, r)
<1>1. IsTree(t) /\ t # Nil /\ t.key = k /\ t.itv = i /\ t.left = l /\ t.right = r BY NodeTree
<1>2. IsNode(t) /\ IsNode(l) BY <1>1, NodeIs
<1> HIDE DEF t
<1>3. rightRotate(t) = Node(l.key, l.itv, l.left, Node(k, i, l.right, r))
  BY <1>1, <1>2, RightRotateIs
<1>4. l.key \in Int /\ IsTree(l.left) /\ IsTree(l.right) /\ l = Node(l.key, l.itv, l.left, l.right)
  BY TreeIs
<1>5. Alike(Node(k, i, Node(l.key, l.itv, l.left, l.right), r), rightRotate(t))
  BY <1>3, <1>4, Rotated
<1>6. Alike(t, rightRotate(t)) BY <1>4, <1>5 DEF t
<1> QED BY <1>3, <1>6 DEF t, Alike

LEMMA RotateLeft ==
  ASSUME NEW k \in Int, NEW i, NEW l, IsTree(l), NEW r, IsTree(r), r # Nil
  PROVE  /\ leftRotate(Node(k, i, l, r)) = Node(r.key, r.itv, Node(k, i, l, r.left), r.right)
         /\ Alike(leftRotate(Node(k, i, l, r)), Node(k, i, l, r))
<1> DEFINE t == Node(k, i, l, r)
<1>1. IsTree(t) /\ t # Nil /\ t.key = k /\ t.itv = i /\ t.left = l /\ t.right = r BY NodeTree
<1>2. IsNode(t) /\ IsNode(r) BY <1>1, NodeIs
<1> HIDE DEF t
<1>3. leftRotate(t) = Node(r.key, r.itv, Node(k, i, l, r.left), r.right)
  BY <1>1, <1>2, LeftRotateIs
<1>4. r.key \in Int /\ IsTree(r.left) /\ IsTree(r.right) /\ r = Node(r.key, r.itv, r.left, r.right)
  BY TreeIs
<1>5. Alike(leftRotate(t), Node(k, i, l, Node(r.key, r.itv, r.left, r.right)))
  BY <1>3, <1>4, Rotated
<1>6. Alike(leftRotate(t), t) BY <1>4, <1>5 DEF t
<1> QED BY <1>3, <1>6 DEF t

\* A child may be rotated first.
LEMMA RotateTree ==
  ASSUME NEW t, IsTree(t), t # Nil
  PROVE  /\ Alike(rightRotate(t), t) /\ IsTree(rightRotate(t)) /\ rightRotate(t) # Nil
         /\ Alike(leftRotate(t), t) /\ IsTree(leftRotate(t)) /\ leftRotate(t) # Nil
<1>1. /\ t = Node(t.key, t.itv, t.left, t.right) /\ t.key \in Int
      /\ IsTree(t.left) /\ IsTree(t.right) BY TreeIs
<1>2. /\ t.left = Nil => rightRotate(t) = t
      /\ t.right = Nil => leftRotate(t) = t BY DEF rightRotate, leftRotate
<1>3. Alike(rightRotate(t), t) /\ rightRotate(t) # Nil
  <2>1. CASE t.left = Nil BY <1>2, <2>1, AlikeSame
  <2>2. CASE t.left # Nil
    <3>1. /\ rightRotate(t) = Node(t.left.key, t.left.itv, t.left.left, Node(t.key, t.itv, t.left.right, t.right))
          /\ Alike(rightRotate(t), t)
      BY <1>1, <2>2, RotateRight
    <3>2. t.left.key \in Int /\ IsTree(t.left.left) /\ IsTree(t.left.right) BY <1>1, <2>2, TreeIs
    <3> QED BY <1>1, <3>1, <3>2, NodeTree
  <2> QED BY <2>1, <2>2
<1>4. Alike(leftRotate(t), t) /\ leftRotate(t) # Nil
  <2>1. CASE t.right = Nil BY <1>2, <2>1, AlikeSame
  <2>2. CASE t.right # Nil
    <3>1. /\ leftRotate(t) = Node(t.right.key, t.right.itv, Node(t.key, t.itv, t.left, t.right.left), t.right.right)
          /\ Alike(leftRotate(t), t)
      BY <1>1, <2>2, RotateLeft
    <3>2. t.right.key \in Int /\ IsTree(t.right.left) /\ IsTree(t.right.right) BY <1>1, <2>2, TreeIs
    <3> QED BY <1>1, <3>1, <3>2, NodeTree
  <2> QED BY <2>1, <2>2
<1> QED BY <1>3, <1>4 DEF Alike

\* The double rotations.
TwiceRight(t) == rightRotate([t EXCEPT !.left = leftRotate(@)])
TwiceLeft(t)  == leftRotate([t EXCEPT !.right = rightRotate(@)])

LEMMA RotateTwice ==
  ASSUME NEW k \in Int, NEW i, NEW l, IsTree(l), NEW r, IsTree(r)
  PROVE  /\ l # Nil => /\ TwiceRight(Node(k, i, l, r)) = rightRotate(Node(k, i, leftRotate(l), r))
                       /\ Alike(TwiceRight(Node(k, i, l, r)), Node(k, i, l, r))
         /\ r # Nil => /\ TwiceLeft(Node(k, i, l, r)) = leftRotate(Node(k, i, l, rightRotate(r)))
                       /\ Alike(TwiceLeft(Node(k, i, l, r)), Node(k, i, l, r))
<1> DEFINE t == Node(k, i, l, r)
<1>1. IsTree(t) /\ t # Nil /\ t.key = k /\ t.itv = i /\ t.left = l /\ t.right = r BY NodeTree
<1>2. t = [key |-> k, itv |-> i, left |-> l, right |-> r, height |-> t.height] BY <1>1, NodeIs DEF IsNode
<1>3. ASSUME l # Nil
      PROVE  /\ TwiceRight(t) = rightRotate(Node(k, i, leftRotate(l), r))
             /\ Alike(TwiceRight(t), t)
  <2>1. PICK m : m = leftRotate(l) /\ Alike(m, l) /\ IsTree(m) /\ m # Nil BY <1>3, RotateTree
  <2>2. PICK v : v = [t EXCEPT !.left = leftRotate(@)] OBVIOUS
  <2>3. PICK h : h = t.height OBVIOUS
  <2>4. v = [t EXCEPT !.left = m] BY <1>1, <2>1, <2>2
  <2> HIDE DEF t
  <2>5. v = [key |-> k, itv |-> i, left |-> m, right |-> r, height |-> h] BY <1>2, <2>3, <2>4
  <2>6. /\ v.key = k /\ v.itv = i /\ v.left = m /\ v.right = r
        /\ v.height = h BY <2>5
  <2>7. IsNode(v) BY <2>5, <2>6 DEF IsNode
  <2>8. v # Nil
    <3>1. "key" \in DOMAIN v BY <2>5
    <3>2. "key" \notin DOMAIN Nil BY DEF Nil
    <3> QED BY <3>1, <3>2
  <2>9. rightRotate(v) = Node(m.key, m.itv, m.left, Node(k, i, m.right, r))
    BY <2>1, <2>6, <2>7, <2>8, NodeIs, RightRotateIs
  <2>10. /\ rightRotate(Node(k, i, m, r)) = Node(m.key, m.itv, m.left, Node(k, i, m.right, r))
         /\ Alike(rightRotate(Node(k, i, m, r)), Node(k, i, m, r)) BY <2>1, RotateRight
  <2>11. Alike(Node(k, i, m, r), Node(k, i, l, r)) BY <2>1, AlikeNode, AlikeSame
  <2>12. Alike(rightRotate(v), t) BY <2>9, <2>10, <2>11, AlikeTrans DEF t
  <2>13. TwiceRight(t) = rightRotate(v) BY <2>2 DEF TwiceRight
  <2> QED BY <2>1, <2>9, <2>10, <2>12, <2>13
<1>4. ASSUME r # Nil
      PROVE  /\ TwiceLeft(t) = leftRotate(Node(k, i, l, rightRotate(r)))
             /\ Alike(TwiceLeft(t), t)
  <2>1. PICK m : m = rightRotate(r) /\ Alike(m, r) /\ IsTree(m) /\ m # Nil BY <1>4, RotateTree
  <2>2. PICK v : v = [t EXCEPT !.right = rightRotate(@)] OBVIOUS
  <2>3. PICK h : h = t.height OBVIOUS
  <2>4. v = [t EXCEPT !.right = m] BY <1>1, <2>1, <2>2
  <2> HIDE DEF t
  <2>5. v = [key |-> k, itv |-> i, left |-> l, right |-> m, height |-> h] BY <1>2, <2>3, <2>4
  <2>6. /\ v.key = k /\ v.itv = i /\ v.left = l /\ v.right = m
        /\ v.height = h BY <2>5
  <2>7. IsNode(v) BY <2>5, <2>6 DEF IsNode
  <2>8. v # Nil
    <3>1. "key" \in DOMAIN v BY <2>5
    <3>2. "key" \notin DOMAIN Nil BY DEF Nil
    <3> QED BY <3>1, <3>2
  <2>9. leftRotate(v) = Node(m.key, m.itv, Node(k, i, l, m.left), m.right)
    BY <2>1, <2>6, <2>7, <2>8, NodeIs, LeftRotateIs
  <2>10. /\ leftRotate(Node(k, i, l, m)) = Node(m.key, m.itv, Node(k, i, l, m.left), m.right)
         /\ Alike(leftRotate(Node(k, i, l, m)), Node(k, i, l, m)) BY <2>1, RotateLeft
  <2>11. Alike(Node(k, i, l, m), Node(k, i, l, r)) BY <2>1, AlikeNode, AlikeSame
  <2>12. Alike(leftRotate(v), t) BY <2>9, <2>10, <2>11, AlikeTrans DEF t
  <2>13. TwiceLeft(t) = leftRotate(v) BY <2>2 DEF TwiceLeft
  <2> QED BY <2>1, <2>9, <2>10, <2>12, <2>13
<1> QED BY <1>3, <1>4

LEMMA NodeHeight ==
  ASSUME NEW k \in Int, NEW i, NEW l, IsTree(l), NEW r, IsTree(r)
  PROVE  IsTree(Node(k, i, l, r)) /\ height(Node(k, i, l, r)) = 1 + Taller(l, r)
BY NodeTree

\* The balance of a node; a tree that leans has the subtree it leans to.
LEMMA Leans ==
  ASSUME NEW k \in Int, NEW i, NEW l, IsTree(l), NEW r, IsTree(r)
  PROVE  /\ getBalance(Node(k, i, l, r)) = height(l) - height(r)
         /\ height(l) \in Nat /\ height(r) \in Nat
         /\ getBalance(Node(k, i, l, r)) > 0 => l # Nil
         /\ getBalance(Node(k, i, l, r)) < 0 => r # Nil
<1> DEFINE t == Node(k, i, l, r)
<1>1. t # Nil /\ t.left = l /\ t.right = r /\ height(l) \in Nat /\ height(r) \in Nat BY NodeTree
<1>2. getBalance(t) = height(l) - height(r) BY <1>1 DEF getBalance
<1> QED BY <1>1, <1>2, NilIs

\* The rotations after an insertion or a deletion keep the contents.
LEMMA BalanceAlike ==
  ASSUME NEW k \in Int, NEW i, NEW l, IsTree(l), NEW r, IsTree(r), NEW key
  PROVE  /\ Alike(BalanceInserted(Node(k, i, l, r), key), Node(k, i, l, r))
         /\ Alike(BalanceDeleted(Node(k, i, l, r)), Node(k, i, l, r))
<1> DEFINE t == Node(k, i, l, r)
<1>1. IsTree(t) /\ t # Nil /\ t.left = l /\ t.right = r BY NodeTree
<1>2. getBalance(t) \in Int BY Leans
<1>3. /\ getBalance(t) > 1 => l # Nil
      /\ getBalance(t) < -1 => r # Nil
  BY <1>2, Leans
<1>4. Alike(t, t) BY <1>1, AlikeSame
<1>5. getBalance(t) > 1 => /\ Alike(rightRotate(t), t)
                           /\ Alike(TwiceRight(t), t)
  BY <1>3, RotateRight, RotateTwice
<1>6. getBalance(t) < -1 => /\ Alike(leftRotate(t), t)
                            /\ Alike(TwiceLeft(t), t)
  BY <1>3, RotateLeft, RotateTwice
<1> HIDE DEF t
<1>7. Alike(BalanceInserted(t, key), t) BY <1>4, <1>5, <1>6 DEF BalanceInserted, TwiceRight, TwiceLeft
<1>8. Alike(BalanceDeleted(t), t) BY <1>4, <1>5, <1>6 DEF BalanceDeleted, TwiceRight, TwiceLeft
<1> QED BY <1>7, <1>8 DEF t

----------------------------------------------------------------------------
(* Balance. *)

\* What a balanced node of some height has below it.
LEMMA BalancedIs ==
  ASSUME NEW t, IsTree(t), t # Nil, Balanced(t)
  PROVE  /\ Balanced(t.left) /\ Balanced(t.right)
         /\ getBalance(t) = height(t.left) - height(t.right) /\ getBalance(t) \in -1 .. 1
<1>1. /\ t = Node(t.key, t.itv, t.left, t.right) /\ t.key \in Int
      /\ IsTree(t.left) /\ IsTree(t.right) BY TreeIs
<1>2. PICK k, i, l, r : k = t.key /\ i = t.itv /\ l = t.left /\ r = t.right OBVIOUS
<1>3. Balanced(Node(k, i, l, r)) BY <1>1, <1>2
<1>4. k \in Int /\ IsTree(l) /\ IsTree(r) /\ t = Node(k, i, l, r) BY <1>1, <1>2
<1>5. Balanced(l) /\ Balanced(r) /\ height(l) - height(r) \in -1 .. 1 BY <1>3, <1>4, ShapeNode
<1>6. getBalance(t) = height(l) - height(r) BY <1>4, Leans
<1> QED BY <1>2, <1>5, <1>6

\* A node whose left subtree is two higher is balanced by one rotation, or by
\* two where that subtree leans to the right.
LEMMA HeavyLeft ==
  ASSUME NEW k \in Int, NEW i, NEW l, IsTree(l), NEW r, IsTree(r), l # Nil,
         Balanced(l), Balanced(r), height(l) = height(r) + 2
  PROVE  /\ getBalance(l) >= 0 => Balanced(rightRotate(Node(k, i, l, r)))
         /\ getBalance(l) = 0 => height(rightRotate(Node(k, i, l, r))) = 1 + height(l)
         /\ getBalance(l) > 0 => height(rightRotate(Node(k, i, l, r))) = height(l)
         /\ getBalance(l) < 0 => /\ Balanced(TwiceRight(Node(k, i, l, r)))
                                 /\ height(TwiceRight(Node(k, i, l, r))) = height(l)
<1> DEFINE u == rightRotate(Node(k, i, l, r))
           v == TwiceRight(Node(k, i, l, r))
<1>1. /\ l.key \in Int /\ IsTree(l.left) /\ IsTree(l.right) /\ l = Node(l.key, l.itv, l.left, l.right)
      /\ height(l.left) \in Nat /\ height(l.right) \in Nat /\ height(l) = 1 + Taller(l.left, l.right)
  BY TreeIs
<1>2. /\ Balanced(l.left) /\ Balanced(l.right) /\ getBalance(l) \in -1 .. 1
      /\ getBalance(l) = height(l.left) - height(l.right) BY BalancedIs
<1>3. height(r) \in Nat BY SubtreesIs
<1>4. PICK a, b, n : a = height(l.left) /\ b = height(l.right) /\ n = height(r) OBVIOUS
<1>5. a \in Nat /\ b \in Nat /\ n \in Nat /\ height(l) = n + 2 /\ a - b \in -1 .. 1
      /\ getBalance(l) = a - b BY <1>1, <1>2, <1>3, <1>4
<1>6. n + 2 = 1 + (IF a > b THEN a ELSE b) BY <1>1, <1>4, <1>5 DEF Taller
<1>7. ASSUME getBalance(l) >= 0
      PROVE  /\ Balanced(u)
             /\ getBalance(l) = 0 => height(u) = 1 + height(l)
             /\ getBalance(l) > 0 => height(u) = height(l)
  <2> DEFINE s == Node(k, i, l.right, r)
  <2>1. u = Node(l.key, l.itv, l.left, s) BY RotateRight
  <2>2. IsTree(s) /\ height(s) = 1 + Taller(l.right, r) BY <1>1, NodeTree
  <2>3. Balanced(s) <=> Balanced(l.right) /\ Balanced(r) /\ height(l.right) - height(r) \in -1 .. 1
    BY <1>1, ShapeNode
  <2> HIDE DEF s
  <2>4. height(Node(l.key, l.itv, l.left, s)) = 1 + Taller(l.left, s) BY <1>1, <2>2, NodeTree
  <2>5. Balanced(Node(l.key, l.itv, l.left, s)) <=>
          Balanced(l.left) /\ Balanced(s) /\ height(l.left) - height(s) \in -1 .. 1
    BY <1>1, <2>2, ShapeNode
  <2>6. a = n + 1 /\ (b = n \/ b = n + 1) /\ (b = n <=> getBalance(l) > 0) /\ (b = n + 1 <=> getBalance(l) = 0)
    BY <1>5, <1>6, <1>7
  <2>7. height(s) = b + 1
    <3>1. b >= n BY <1>5, <2>6
    <3> QED BY <1>4, <1>5, <2>2, <3>1 DEF Taller
  <2>8. Balanced(s) BY <1>2, <1>4, <1>5, <2>3, <2>6
  <2>9. Balanced(u) BY <1>2, <1>4, <1>5, <2>1, <2>5, <2>6, <2>7, <2>8
  <2>10. height(u) = b + 2
    <3>1. Taller(l.left, s) = b + 1 BY <1>4, <1>5, <2>6, <2>7 DEF Taller
    <3> QED BY <1>5, <2>1, <2>4, <3>1
  <2> HIDE DEF u
  <2> QED BY <1>5, <2>6, <2>9, <2>10
<1>8. ASSUME getBalance(l) < 0 PROVE Balanced(v) /\ height(v) = height(l)
  <2>1. l.right # Nil /\ b = n + 1 /\ a = n
    <3>1. b = n + 1 /\ a = n BY <1>5, <1>6, <1>8
    <3>2. height(l.right) # 0 BY <1>4, <1>5, <3>1
    <3> QED BY <3>1, <3>2, NilIs
  <2>2. PICK m : m = l.right OBVIOUS
  <2>3. /\ m.key \in Int /\ IsTree(m.left) /\ IsTree(m.right)
        /\ height(m.left) \in Nat /\ height(m.right) \in Nat /\ height(m) = 1 + Taller(m.left, m.right)
    BY <1>1, <2>1, <2>2, TreeIs
  <2>4. /\ Balanced(m.left) /\ Balanced(m.right) /\ height(m.left) - height(m.right) \in -1 .. 1
    BY <1>1, <1>2, <2>1, <2>2, BalancedIs
  <2>5. PICK c, d : c = height(m.left) /\ d = height(m.right) OBVIOUS
  <2>6. c \in Nat /\ d \in Nat /\ c - d \in -1 .. 1 /\ n = (IF c > d THEN c ELSE d)
    <3>1. Taller(m.left, m.right) = IF c > d THEN c ELSE d BY <2>5 DEF Taller
    <3>2. height(m) = n + 1 BY <1>4, <2>1, <2>2
    <3> QED BY <1>5, <2>3, <2>4, <2>5, <3>1, <3>2
  <2>7. v = rightRotate(Node(k, i, leftRotate(l), r)) BY RotateTwice
  <2> DEFINE p == Node(l.key, l.itv, l.left, m.left)
             q == Node(k, i, m.right, r)
             o == Node(m.key, m.itv, p, m.right)
  <2>8. leftRotate(l) = o
    <3>1. leftRotate(Node(l.key, l.itv, l.left, l.right)) =
            Node(l.right.key, l.right.itv, Node(l.key, l.itv, l.left, l.right.left), l.right.right)
      BY <1>1, <2>1, RotateLeft
    <3> QED BY <1>1, <2>2, <3>1
  <2>9. IsTree(p) /\ height(p) = 1 + Taller(l.left, m.left) BY <1>1, <2>3, NodeHeight
  <2>10. IsTree(q) /\ height(q) = 1 + Taller(m.right, r) BY <2>3, NodeTree
  <2>11. Balanced(p) <=> Balanced(l.left) /\ Balanced(m.left) /\ height(l.left) - height(m.left) \in -1 .. 1
    BY <1>1, <2>3, ShapeNode
  <2>12. Balanced(q) <=> Balanced(m.right) /\ Balanced(r) /\ height(m.right) - height(r) \in -1 .. 1
    BY <2>3, ShapeNode
  <2>13. IsTree(o) /\ o # Nil /\ o.key = m.key /\ o.itv = m.itv /\ o.left = p /\ o.right = m.right
    BY <2>3, <2>9, NodeTree
  <2>14. rightRotate(Node(k, i, o, r)) = Node(o.key, o.itv, o.left, Node(k, i, o.right, r))
    BY <2>13, RotateRight
  <2>15. v = Node(m.key, m.itv, p, q) BY <2>7, <2>8, <2>13, <2>14
  <2> HIDE DEF p, q, o, v
  <2>16. height(v) = 1 + Taller(p, q) BY <2>3, <2>9, <2>10, <2>15, NodeTree
  <2>17. Balanced(v) <=> Balanced(p) /\ Balanced(q) /\ height(p) - height(q) \in -1 .. 1
    BY <2>3, <2>9, <2>10, <2>15, ShapeNode
  <2>18. height(p) = n + 1
    <3>1. Taller(l.left, m.left) = IF n > c THEN n ELSE c BY <1>4, <2>1, <2>5 DEF Taller
    <3> QED BY <1>5, <2>6, <2>9, <3>1
  <2>19. height(q) = n + 1
    <3>1. Taller(m.right, r) = IF d > n THEN d ELSE n BY <1>4, <2>5 DEF Taller
    <3> QED BY <1>5, <2>6, <2>10, <3>1
  <2>20. Balanced(p) BY <1>2, <1>4, <1>5, <2>1, <2>4, <2>5, <2>6, <2>11
  <2>21. Balanced(q) BY <1>4, <1>5, <2>4, <2>5, <2>6, <2>12
  <2>22. Balanced(v) BY <1>5, <2>17, <2>18, <2>19, <2>20, <2>21
  <2>23. height(v) = n + 2 BY <1>5, <2>16, <2>18, <2>19 DEF Taller
  <2> QED BY <1>5, <2>22, <2>23
<1> QED BY <1>2, <1>7, <1>8

LEMMA HeavyRight ==
  ASSUME NEW k \in Int, NEW i, NEW l, IsTree(l), NEW r, IsTree(r), r # Nil,
         Balanced(l), Balanced(r), height(r) = height(l) + 2
  PROVE  /\ getBalance(r) <= 0 => Balanced(leftRotate(Node(k, i, l, r)))
         /\ getBalance(r) = 0 => height(leftRotate(Node(k, i, l, r))) = 1 + height(r)
         /\ getBalance(r) < 0 => height(leftRotate(Node(k, i, l, r))) = height(r)
         /\ getBalance(r) > 0 => /\ Balanced(TwiceLeft(Node(k, i, l, r)))
                                 /\ height(TwiceLeft(Node(k, i, l, r))) = height(r)
<1> DEFINE u == leftRotate(Node(k, i, l, r))
           v == TwiceLeft(Node(k, i, l, r))
<1>1. /\ r.key \in Int /\ IsTree(r.left) /\ IsTree(r.right) /\ r = Node(r.key, r.itv, r.left, r.right)
      /\ height(r.left) \in Nat /\ height(r.right) \in Nat /\ height(r) = 1 + Taller(r.left, r.right)
  BY TreeIs
<1>2. /\ Balanced(r.left) /\ Balanced(r.right) /\ getBalance(r) \in -1 .. 1
      /\ getBalance(r) = height(r.left) - height(r.right) BY BalancedIs
<1>3. height(l) \in Nat BY SubtreesIs
<1>4. PICK a, b, n : a = height(r.right) /\ b = height(r.left) /\ n = height(l) OBVIOUS
<1>5. a \in Nat /\ b \in Nat /\ n \in Nat /\ height(r) = n + 2 /\ b - a \in -1 .. 1
      /\ getBalance(r) = b - a BY <1>1, <1>2, <1>3, <1>4
<1>6. n + 2 = 1 + (IF b > a THEN b ELSE a) BY <1>1, <1>4, <1>5 DEF Taller
<1>7. ASSUME getBalance(r) <= 0
      PROVE  /\ Balanced(u)
             /\ getBalance(r) = 0 => height(u) = 1 + height(r)
             /\ getBalance(r) < 0 => height(u) = height(r)
  <2> DEFINE s == Node(k, i, l, r.left)
  <2>1. u = Node(r.key, r.itv, s, r.right) BY RotateLeft
  <2>2. IsTree(s) /\ height(s) = 1 + Taller(l, r.left) BY <1>1, NodeTree
  <2>3. Balanced(s) <=> Balanced(l) /\ Balanced(r.left) /\ height(l) - height(r.left) \in -1 .. 1
    BY <1>1, ShapeNode
  <2> HIDE DEF s
  <2>4. height(Node(r.key, r.itv, s, r.right)) = 1 + Taller(s, r.right) BY <1>1, <2>2, NodeTree
  <2>5. Balanced(Node(r.key, r.itv, s, r.right)) <=>
          Balanced(s) /\ Balanced(r.right) /\ height(s) - height(r.right) \in -1 .. 1
    BY <1>1, <2>2, ShapeNode
  <2>6. a = n + 1 /\ (b = n \/ b = n + 1) /\ (b = n <=> getBalance(r) < 0) /\ (b = n + 1 <=> getBalance(r) = 0)
    BY <1>5, <1>6, <1>7
  <2>7. height(s) = b + 1
    <3>1. b >= n BY <1>5, <2>6
    <3> QED BY <1>4, <1>5, <2>2, <3>1 DEF Taller
  <2>8. Balanced(s) BY <1>2, <1>4, <1>5, <2>3, <2>6
  <2>9. Balanced(u) BY <1>2, <1>4, <1>5, <2>1, <2>5, <2>6, <2>7, <2>8
  <2>10. height(u) = b + 2
    <3>1. Taller(s, r.right) = b + 1 BY <1>4, <1>5, <2>6, <2>7 DEF Taller
    <3> QED BY <1>5, <2>1, <2>4, <3>1
  <2> HIDE DEF u
  <2> QED BY <1>5, <2>6, <2>9, <2>10
<1>8. ASSUME getBalance(r) > 0 PROVE Balanced(v) /\ height(v) = height(r)
  <2>1. r.left # Nil /\ b = n + 1 /\ a = n
    <3>1. b = n + 1 /\ a = n BY <1>5, <1>6, <1>8
    <3>2. height(r.left) # 0 BY <1>4, <1>5, <3>1
    <3> QED BY <3>1, <3>2, NilIs
  <2>2. PICK m : m = r.left OBVIOUS
  <2>3. /\ m.key \in Int /\ IsTree(m.left) /\ IsTree(m.right)
        /\ height(m.left) \in Nat /\ height(m.right) \in Nat /\ height(m) = 1 + Taller(m.left, m.right)
    BY <1>1, <2>1, <2>2, TreeIs
  <2>4. /\ Balanced(m.left) /\ Balanced(m.right) /\ height(m.left) - height(m.right) \in -1 .. 1
    BY <1>1, <1>2, <2>1, <2>2, BalancedIs
  <2>5. PICK c, d : c = height(m.left) /\ d = height(m.right) OBVIOUS
  <2>6. c \in Nat /\ d \in Nat /\ c - d \in -1 .. 1 /\ n = (IF c > d THEN c ELSE d)
    <3>1. Taller(m.left, m.right) = IF c > d THEN c ELSE d BY <2>5 DEF Taller
    <3>2. height(m) = n + 1 BY <1>4, <2>1, <2>2
    <3> QED BY <1>5, <2>3, <2>4, <2>5, <3>1, <3>2
  <2>7. v = leftRotate(Node(k, i, l, rightRotate(r))) BY RotateTwice
  <2> DEFINE p == Node(k, i, l, m.left)
             q == Node(r.key, r.itv, m.right, r.right)
             o == Node(m.key, m.itv, m.left, q)
  <2>8. rightRotate(r) = o
    <3>1. rightRotate(Node(r.key, r.itv, r.left, r.right)) =
            Node(r.left.key, r.left.itv, r.left.left, Node(r.key, r.itv, r.left.right, r.right))
      BY <1>1, <2>1, RotateRight
    <3> QED BY <1>1, <2>2, <3>1
  <2>9. IsTree(p) /\ height(p) = 1 + Taller(l, m.left) BY <2>3, NodeHeight
  <2>10. IsTree(q) /\ height(q) = 1 + Taller(m.right, r.right) BY <1>1, <2>3, NodeHeight
  <2>11. Balanced(p) <=> Balanced(l) /\ Balanced(m.left) /\ height(l) - height(m.left) \in -1 .. 1
    BY <2>3, ShapeNode
  <2>12. Balanced(q) <=> Balanced(m.right) /\ Balanced(r.right) /\ height(m.right) - height(r.right) \in -1 .. 1
    BY <1>1, <2>3, ShapeNode
  <2>13. IsTree(o) /\ o # Nil /\ o.key = m.key /\ o.itv = m.itv /\ o.left = m.left /\ o.right = q
    BY <2>3, <2>10, NodeTree
  <2>14. leftRotate(Node(k, i, l, o)) = Node(o.key, o.itv, Node(k, i, l, o.left), o.right)
    BY <2>13, RotateLeft
  <2>15. v = Node(m.key, m.itv, p, q) BY <2>7, <2>8, <2>13, <2>14
  <2> HIDE DEF p, q, o, v
  <2>16. height(v) = 1 + Taller(p, q) BY <2>3, <2>9, <2>10, <2>15, NodeTree
  <2>17. Balanced(v) <=> Balanced(p) /\ Balanced(q) /\ height(p) - height(q) \in -1 .. 1
    BY <2>3, <2>9, <2>10, <2>15, ShapeNode
  <2>18. height(p) = n + 1
    <3>1. Taller(l, m.left) = IF n > c THEN n ELSE c BY <1>4, <2>5 DEF Taller
    <3> QED BY <1>5, <2>6, <2>9, <3>1
  <2>19. height(q) = n + 1
    <3>1. Taller(m.right, r.right) = IF d > n THEN d ELSE n BY <1>4, <2>1, <2>5 DEF Taller
    <3> QED BY <1>5, <2>6, <2>10, <3>1
  <2>20. Balanced(p) BY <1>4, <1>5, <2>4, <2>5, <2>6, <2>11
  <2>21. Balanced(q) BY <1>2, <1>4, <1>5, <2>1, <2>4, <2>5, <2>6, <2>12
  <2>22. Balanced(v) BY <1>5, <2>17, <2>18, <2>19, <2>20, <2>21
  <2>23. height(v) = n + 2 BY <1>5, <2>16, <2>18, <2>19 DEF Taller
  <2> QED BY <1>5, <2>22, <2>23
<1> QED BY <1>2, <1>7, <1>8

\* The rotations after a deletion balance a node whose subtrees differ by two at
\* most in height.
LEMMA DeletedBalanced ==
  ASSUME NEW k \in Int, NEW i, NEW l, IsTree(l), NEW r, IsTree(r),
         Balanced(l), Balanced(r), height(l) - height(r) \in -2 .. 2
  PROVE  /\ Balanced(BalanceDeleted(Node(k, i, l, r)))
         /\ \/ height(BalanceDeleted(Node(k, i, l, r))) = Taller(l, r)
            \/ height(BalanceDeleted(Node(k, i, l, r))) = 1 + Taller(l, r)
         /\ height(l) - height(r) \in -1 .. 1 => BalanceDeleted(Node(k, i, l, r)) = Node(k, i, l, r)
<1> DEFINE t == Node(k, i, l, r)
<1>1. /\ IsTree(t) /\ t # Nil /\ t.left = l /\ t.right = r
      /\ height(t) = 1 + Taller(l, r) /\ height(l) \in Nat /\ height(r) \in Nat BY NodeTree
<1>2. getBalance(t) = height(l) - height(r) BY Leans
<1>3. Balanced(t) <=> Balanced(l) /\ Balanced(r) /\ height(l) - height(r) \in -1 .. 1
  BY ShapeNode
<1>4. CASE height(l) - height(r) \in -1 .. 1
  <2>1. ~ getBalance(t) > 1 /\ ~ getBalance(t) < -1 BY <1>1, <1>2, <1>4
  <2> HIDE DEF t
  <2>2. BalanceDeleted(t) = t BY <2>1 DEF BalanceDeleted
  <2> QED BY <1>1, <1>3, <1>4, <2>2 DEF t
<1>5. CASE height(l) = height(r) + 2
  <2>1. Taller(l, r) = height(l) /\ getBalance(t) > 1 /\ ~ getBalance(t) < -1
    BY <1>1, <1>2, <1>5 DEF Taller
  <2>2. l # Nil
    <3>1. height(l) # 0 BY <1>1, <1>5
    <3> QED BY <3>1, NilIs
  <2>3. getBalance(l) \in -1 .. 1 BY <2>2, BalancedIs
  <2>4. /\ getBalance(l) >= 0 => Balanced(rightRotate(t))
        /\ getBalance(l) = 0 => height(rightRotate(t)) = 1 + height(l)
        /\ getBalance(l) > 0 => height(rightRotate(t)) = height(l)
        /\ getBalance(l) < 0 => Balanced(TwiceRight(t)) /\ height(TwiceRight(t)) = height(l)
    BY <1>5, <2>2, HeavyLeft
  <2>5. ~ height(l) - height(r) \in -1 .. 1 BY <1>1, <1>5
  <2> HIDE DEF t
  <2>6. CASE getBalance(l) >= 0
    <3>1. BalanceDeleted(t) = rightRotate(t) BY <1>1, <2>1, <2>3, <2>6 DEF BalanceDeleted
    <3> QED BY <2>1, <2>3, <2>4, <2>5, <2>6, <3>1 DEF t
  <2>7. CASE getBalance(l) < 0
    <3>1. ~ getBalance(l) >= 0 BY <2>3, <2>7
    <3>2. BalanceDeleted(t) = TwiceRight(t) BY <1>1, <2>1, <2>7, <3>1 DEF BalanceDeleted, TwiceRight
    <3> QED BY <2>1, <2>4, <2>5, <2>7, <3>2 DEF t
  <2> QED BY <2>3, <2>6, <2>7
<1>6. CASE height(r) = height(l) + 2
  <2>1. Taller(l, r) = height(r) /\ getBalance(t) < -1 /\ ~ getBalance(t) > 1
    BY <1>1, <1>2, <1>6 DEF Taller
  <2>2. r # Nil
    <3>1. height(r) # 0 BY <1>1, <1>6
    <3> QED BY <3>1, NilIs
  <2>3. getBalance(r) \in -1 .. 1 BY <2>2, BalancedIs
  <2>4. /\ getBalance(r) <= 0 => Balanced(leftRotate(t))
        /\ getBalance(r) = 0 => height(leftRotate(t)) = 1 + height(r)
        /\ getBalance(r) < 0 => height(leftRotate(t)) = height(r)
        /\ getBalance(r) > 0 => Balanced(TwiceLeft(t)) /\ height(TwiceLeft(t)) = height(r)
    BY <1>6, <2>2, HeavyRight
  <2>5. ~ height(l) - height(r) \in -1 .. 1 BY <1>1, <1>6
  <2> HIDE DEF t
  <2>6. CASE getBalance(r) <= 0
    <3>1. BalanceDeleted(t) = leftRotate(t) BY <1>1, <2>1, <2>3, <2>6 DEF BalanceDeleted
    <3> QED BY <2>1, <2>3, <2>4, <2>5, <2>6, <3>1 DEF t
  <2>7. CASE getBalance(r) > 0
    <3>1. ~ getBalance(r) <= 0 BY <2>3, <2>7
    <3>2. BalanceDeleted(t) = TwiceLeft(t) BY <1>1, <2>1, <2>7, <3>1 DEF BalanceDeleted, TwiceLeft
    <3> QED BY <2>1, <2>4, <2>5, <2>7, <3>2 DEF t
  <2> QED BY <2>3, <2>6, <2>7
<1> HIDE DEF t
<1>7. \/ height(l) - height(r) \in -1 .. 1 \/ height(l) = height(r) + 2 \/ height(r) = height(l) + 2
  BY <1>1
<1> QED BY <1>4, <1>5, <1>6, <1>7

\* A node is higher on the side of a key.
LeansTo(t, key) ==
  /\ key < t.key => getBalance(t) > 0
  /\ key > t.key => getBalance(t) < 0

\* The rotations after an insertion, by the key inserted, balance a node of
\* which one subtree has grown on the side of that key.
LEMMA InsertedBalanced ==
  ASSUME NEW k \in Int, NEW i, NEW l, IsTree(l), NEW r, IsTree(r), NEW key \in Int,
         Balanced(l), Balanced(r), height(l) - height(r) \in -2 .. 2,
         height(l) = height(r) + 2 => l.key # key /\ LeansTo(l, key),
         height(r) = height(l) + 2 => r.key # key /\ LeansTo(r, key)
  PROVE  /\ Balanced(BalanceInserted(Node(k, i, l, r), key))
         /\ height(l) - height(r) \in -1 .. 1 => BalanceInserted(Node(k, i, l, r), key) = Node(k, i, l, r)
         /\ ~ height(l) - height(r) \in -1 .. 1
              => height(BalanceInserted(Node(k, i, l, r), key)) = Taller(l, r)
<1> DEFINE t == Node(k, i, l, r)
<1>1. /\ IsTree(t) /\ t # Nil /\ t.left = l /\ t.right = r
      /\ height(t) = 1 + Taller(l, r) /\ height(l) \in Nat /\ height(r) \in Nat BY NodeTree
<1>2. getBalance(t) = height(l) - height(r) BY Leans
<1>3. Balanced(t) <=> Balanced(l) /\ Balanced(r) /\ height(l) - height(r) \in -1 .. 1
  BY ShapeNode
<1>4. CASE height(l) - height(r) \in -1 .. 1
  <2>1. ~ getBalance(t) > 1 /\ ~ getBalance(t) < -1 BY <1>1, <1>2, <1>4
  <2> HIDE DEF t
  <2>2. BalanceInserted(t, key) = t BY <2>1 DEF BalanceInserted
  <2> QED BY <1>1, <1>3, <1>4, <2>2 DEF t
<1>5. CASE height(l) = height(r) + 2
  <2>1. Taller(l, r) = height(l) /\ getBalance(t) > 1 /\ ~ getBalance(t) < -1
    BY <1>1, <1>2, <1>5 DEF Taller
  <2>2. l # Nil
    <3>1. height(l) # 0 BY <1>1, <1>5
    <3> QED BY <3>1, NilIs
  <2>3. getBalance(l) \in -1 .. 1 /\ l.key \in Int BY <2>2, BalancedIs, TreeIs
  <2>4. /\ getBalance(l) > 0 => Balanced(rightRotate(t)) /\ height(rightRotate(t)) = height(l)
        /\ getBalance(l) < 0 => Balanced(TwiceRight(t)) /\ height(TwiceRight(t)) = height(l)
    <3>1. getBalance(l) > 0 => getBalance(l) >= 0 BY <2>3
    <3> QED BY <1>5, <2>2, <3>1, HeavyLeft
  <2>5. ~ height(l) - height(r) \in -1 .. 1 BY <1>1, <1>5
  <2>6. l.key # key /\ (key < l.key => getBalance(l) > 0) /\ (key > l.key => getBalance(l) < 0)
    BY <1>5 DEF LeansTo
  <2> HIDE DEF t
  <2>7. CASE key < l.key
    <3>1. BalanceInserted(t, key) = rightRotate(t) BY <1>1, <2>1, <2>3, <2>7 DEF BalanceInserted
    <3> QED BY <2>1, <2>4, <2>5, <2>6, <2>7, <3>1 DEF t
  <2>8. CASE key > l.key
    <3>1. ~ key < l.key BY <2>3, <2>8
    <3>2. BalanceInserted(t, key) = TwiceRight(t) BY <1>1, <2>1, <2>8, <3>1 DEF BalanceInserted, TwiceRight
    <3> QED BY <2>1, <2>4, <2>5, <2>6, <2>8, <3>2 DEF t
  <2> QED BY <2>3, <2>6, <2>7, <2>8
<1>6. CASE height(r) = height(l) + 2
  <2>1. Taller(l, r) = height(r) /\ getBalance(t) < -1 /\ ~ getBalance(t) > 1
    BY <1>1, <1>2, <1>6 DEF Taller
  <2>2. r # Nil
    <3>1. height(r) # 0 BY <1>1, <1>6
    <3> QED BY <3>1, NilIs
  <2>3. getBalance(r) \in -1 .. 1 /\ r.key \in Int BY <2>2, BalancedIs, TreeIs
  <2>4. /\ getBalance(r) < 0 => Balanced(leftRotate(t)) /\ height(leftRotate(t)) = height(r)
        /\ getBalance(r) > 0 => Balanced(TwiceLeft(t)) /\ height(TwiceLeft(t)) = height(r)
    <3>1. getBalance(r) < 0 => getBalance(r) <= 0 BY <2>3
    <3> QED BY <1>6, <2>2, <3>1, HeavyRight
  <2>5. ~ height(l) - height(r) \in -1 .. 1 BY <1>1, <1>6
  <2>6. r.key # key /\ (key < r.key => getBalance(r) > 0) /\ (key > r.key => getBalance(r) < 0)
    BY <1>6 DEF LeansTo
  <2> HIDE DEF t
  <2>7. CASE key > r.key
    <3>1. BalanceInserted(t, key) = leftRotate(t) BY <1>1, <2>1, <2>3, <2>7 DEF BalanceInserted
    <3> QED BY <2>1, <2>4, <2>5, <2>6, <2>7, <3>1 DEF t
  <2>8. CASE key < r.key
    <3>1. ~ key > r.key BY <2>3, <2>8
    <3>2. BalanceInserted(t, key) = TwiceLeft(t) BY <1>1, <2>1, <2>8, <3>1 DEF BalanceInserted, TwiceLeft
    <3> QED BY <2>1, <2>4, <2>5, <2>6, <2>8, <3>2 DEF t
  <2> QED BY <2>3, <2>6, <2>7, <2>8
<1> HIDE DEF t
<1>7. \/ height(l) - height(r) \in -1 .. 1 \/ height(l) = height(r) + 2 \/ height(r) = height(l) + 2
  BY <1>1
<1> QED BY <1>4, <1>5, <1>6, <1>7

----------------------------------------------------------------------------
(* Insertion. *)

\* A key that is not in a tree.
Fresh(t, key) == \A e \in Entries(t) : e[1] # key

\* Entries with one more.
With(E, e) == E \union {e}

\* s is t with one entry more, in order as t is; and balanced as t is when the
\* key is new, higher by one at most and then on the side of the key.
Inserted(t, s, key, itv) ==
  /\ IsTree(s) /\ s # Nil
  /\ Entries(s) = With(Entries(t), <<key, itv>>)
  /\ OrderedBy(t, 0) => OrderedBy(s, 0)
  /\ OrderedBy(t, 1) /\ Fresh(t, key) => OrderedBy(s, 1)
  /\ Balanced(t) /\ Fresh(t, key) =>
       /\ Balanced(s)
       /\ \/ height(s) = height(t)
          \/ height(s) = height(t) + 1 /\ (t = Nil \/ (s.key # key /\ LeansTo(s, key)))

\* A step of the recursion of insert, from what it gives for the subtrees.
InsertOf(u, a, b, key, itv) ==
  IF u = Nil THEN Leaf(key, itv)
  ELSE BalanceInserted(IF key < u.key THEN Rebuild(u, a, u.right) ELSE Rebuild(u, u.left, b), key)

InsertTo(f, D, key, itv) == f = [u \in D |-> InsertOf(u, f[u.left], f[u.right], key, itv)]

LEMMA InsertExists == ASSUME NEW t, IsTree(t), NEW key, NEW itv PROVE \E f : InsertTo(f, Subtrees(t), key, itv)
<1> DEFINE D(n) == Lower(Subtrees(t), n)
           G == {n \in Nat : \E f : InsertTo(f, D(n), key, itv)}
<1>1. 0 \in G
  <2>1. D(0) = {} BY LowerIs
  <2>2. InsertTo([u \in {} |-> 0], {}, key, itv) BY DEF InsertTo
  <2> QED BY <2>1, <2>2
<1>2. ASSUME NEW n \in Nat, n \in G PROVE n + 1 \in G
  <2>1. PICK f : InsertTo(f, D(n), key, itv) BY <1>2
  <2>2. D(n) \subseteq D(n + 1) BY LowerIs
  <2>3. \A u \in D(n + 1) : u # Nil => u.left \in D(n) /\ u.right \in D(n) BY LowerIs
  <2> HIDE DEF D
  <2>4. PICK g : g = [u \in D(n + 1) |-> IF u \in D(n) THEN f[u] ELSE InsertOf(u, f[u.left], f[u.right], key, itv)]
    OBVIOUS
  <2>5. ASSUME NEW u \in D(n + 1) PROVE g[u] = InsertOf(u, g[u.left], g[u.right], key, itv)
    <3>1. g[u] = InsertOf(u, f[u.left], f[u.right], key, itv) BY <2>1, <2>4 DEF InsertTo
    <3>2. CASE u = Nil BY <3>1, <3>2 DEF InsertOf
    <3>3. CASE u # Nil
      <4>1. g[u.left] = f[u.left] /\ g[u.right] = f[u.right] BY <2>2, <2>3, <2>4, <3>3
      <4> QED BY <3>1, <4>1
    <3> QED BY <3>2, <3>3
  <2>6. InsertTo(g, D(n + 1), key, itv) BY <2>4, <2>5 DEF InsertTo
  <2> QED BY <2>6
<1>3. height(t) + 1 \in G
  <2> HIDE DEF G
  <2> QED BY <1>1, <1>2, NatInduct, LowerIs
<1> QED BY <1>3, LowerIs

LEMMA InsertLeaf ==
  ASSUME NEW key \in Int, NEW itv PROVE Inserted(Nil, Leaf(key, itv), key, itv)
<1> DEFINE s == Leaf(key, itv)
<1>1. s = Node(key, itv, Nil, Nil)
  <2>1. 1 + Taller(Nil, Nil) = 1 BY NilIs DEF Taller
  <2> QED BY <2>1 DEF Leaf, Node
<1>2. IsTree(Nil) /\ height(Nil) = 0 BY NilIs
<1>3. IsTree(s) /\ s # Nil BY <1>1, <1>2, NodeTree
<1>4. height(s) = 1 BY DEF Leaf, height
<1>5. Entries(s) = {<<key, itv>>}
  <2>1. Entries(s) = Around(<<key, itv>>, Entries(Nil), Entries(Nil)) BY <1>1, <1>2, EntriesNode
  <2> QED BY <2>1, EntriesNil DEF Around
<1>6. \A d : OrderedBy(s, d) BY <1>1, <1>2, ShapeNode, ShapeNil, EntriesNil
<1>7. Balanced(s)
  <2>1. height(Nil) - height(Nil) \in -1 .. 1 BY <1>2
  <2> QED BY <1>1, <1>2, <2>1, ShapeNode, ShapeNil
<1> HIDE DEF s
<1>8. Entries(s) = With(Entries(Nil), <<key, itv>>) BY <1>5, EntriesNil DEF With
<1>9. height(s) = height(Nil) + 1 BY <1>2, <1>4
<1>10. PICK v : v = Nil OBVIOUS
<1>11. /\ Entries(s) = With(Entries(v), <<key, itv>>) /\ height(s) = height(v) + 1
       /\ IsTree(s) /\ s # v BY <1>3, <1>8, <1>9, <1>10
<1>12. OrderedBy(s, 0) /\ OrderedBy(s, 1) BY <1>6
<1>13. Inserted(v, s, key, itv) BY <1>7, <1>10, <1>11, <1>12 DEF Inserted
<1> QED BY <1>10, <1>13 DEF s

Higher(m, n) == IF m > n THEN m ELSE n

\* When a subtree m high, next to one n high, has become o high.
LEMMA HigherIs ==
  ASSUME NEW m \in Nat, NEW n \in Nat, NEW o \in Nat, o = m \/ o = m + 1, m - n \in -1 .. 1
  PROVE  /\ o - n \in -1 .. 1 => \/ Higher(o, n) = Higher(m, n)
                                 \/ Higher(o, n) = Higher(m, n) + 1 /\ o > n
         /\ ~ o - n \in -1 .. 1 => Higher(o, n) = Higher(m, n) + 1
         /\ Higher(n, o) = Higher(o, n) /\ Higher(n, m) = Higher(m, n)
         /\ Higher(m, n) \in Nat /\ Higher(o, n) \in Nat
BY DEF Higher

LEMMA InsertStep ==
  ASSUME NEW u, IsTree(u), u # Nil, NEW key \in Int, NEW itv, NEW a, NEW b,
         Inserted(u.left, a, key, itv), Inserted(u.right, b, key, itv)
  PROVE  Inserted(u, InsertOf(u, a, b, key, itv), key, itv)
<1>1. PICK k, i, l, r : k = u.key /\ i = u.itv /\ l = u.left /\ r = u.right OBVIOUS
<1>2. /\ k \in Int /\ IsTree(l) /\ IsTree(r) /\ u = Node(k, i, l, r) /\ IsNode(u)
      /\ height(u) = 1 + Taller(l, r) /\ height(l) \in Nat /\ height(r) \in Nat
  BY <1>1, TreeIs, NodeIs
<1>3. Entries(u) = Around(<<k, i>>, Entries(l), Entries(r)) BY <1>2, EntriesNode
<1>4. ASSUME Fresh(u, key) PROVE Fresh(l, key) /\ Fresh(r, key) /\ k # key
  <2>1. <<k, i>>[1] = k OBVIOUS
  <2>2. /\ \A e \in Entries(l) : e \in Entries(u)
        /\ \A e \in Entries(r) : e \in Entries(u)
        /\ <<k, i>> \in Entries(u) BY <1>3 DEF Around
  <2> QED BY <1>4, <2>1, <2>2 DEF Fresh
<1>5. ASSUME NEW d \in {0, 1}
      PROVE  OrderedBy(u, d) <=> /\ OrderedBy(l, d) /\ OrderedBy(r, d)
                                 /\ AllBelow(l, k - d) /\ AllAbove(r, k + d)
  BY <1>2, ShapeNode
<1>6. Balanced(u) => /\ Balanced(l) /\ Balanced(r) /\ height(l) - height(r) \in -1 .. 1
  BY <1>2, ShapeNode
<1>7. CASE key < k
  <2> DEFINE t == Node(k, i, a, r)
             s == BalanceInserted(t, key)
  <2>1. InsertOf(u, a, b, key, itv) = s BY <1>1, <1>2, <1>7, RebuildIs DEF InsertOf
  <2>2. IsTree(a) /\ a # Nil BY <1>1 DEF Inserted
  <2>13. Entries(a) = With(Entries(l), <<key, itv>>) BY <1>1 DEF Inserted
  <2>3. Alike(s, t) /\ IsTree(t) /\ t # Nil /\ t.left = a /\ t.right = r /\ t.key = k
        /\ height(t) = 1 + Taller(a, r) /\ height(a) \in Nat
    BY <1>2, <2>2, BalanceAlike, NodeTree
  <2>4. Entries(t) = Around(<<k, i>>, Entries(a), Entries(r)) BY <1>2, <2>2, EntriesNode
  <2>5. ASSUME NEW d \in {0, 1}
        PROVE  OrderedBy(t, d) <=> /\ OrderedBy(a, d) /\ OrderedBy(r, d)
                                   /\ AllBelow(a, k - d) /\ AllAbove(r, k + d)
    BY <1>2, <2>2, ShapeNode
  <2>6. ASSUME NEW d \in {0, 1}, AllBelow(l, k - d) PROVE AllBelow(a, k - d)
    <3>1. <<key, itv>>[1] = key /\ key <= k - d BY <1>2, <1>7
    <3> QED BY <2>6, <2>13, <3>1 DEF AllBelow, With
  <2>7. getBalance(t) = height(a) - height(r) BY <1>2, <2>2, Leans
  <2> HIDE DEF t, s
  <2>8. Entries(s) = With(Entries(u), <<key, itv>>)
    BY <1>3, <2>3, <2>4, <2>13 DEF Around, Alike, With
  <2>9. IsTree(s) /\ s # Nil
    <3>1. IsTree(s) BY <2>3 DEF Alike
    <3>2. Entries(s) # {} BY <2>8 DEF With
    <3> QED BY <3>1, <3>2, EntriesNil
  <2>10. OrderedBy(u, 0) => OrderedBy(s, 0)
    BY <1>1, <1>5, <2>3, <2>5, <2>6 DEF Alike, Inserted
  <2>11. OrderedBy(u, 1) /\ Fresh(u, key) => OrderedBy(s, 1)
    BY <1>1, <1>4, <1>5, <2>3, <2>5, <2>6 DEF Alike, Inserted
  <2>12. ASSUME Balanced(u), Fresh(u, key)
         PROVE  /\ Balanced(s)
                /\ \/ height(s) = height(u)
                   \/ height(s) = height(u) + 1 /\ s.key # key /\ LeansTo(s, key)
    <3>1. Balanced(a) /\ \/ height(a) = height(l)
                         \/ height(a) = height(l) + 1 /\ (l = Nil \/ (a.key # key /\ LeansTo(a, key)))
      BY <1>1, <1>4, <1>6, <2>12 DEF Inserted
    <3>2. Balanced(r) /\ height(l) - height(r) \in -1 .. 1 BY <1>6, <2>12
    <3>3. height(a) - height(r) \in -2 .. 2 BY <1>2, <2>3, <3>1, <3>2
    <3>4. height(a) = height(r) + 2 => a.key # key /\ LeansTo(a, key)
      <4>1. ASSUME height(a) = height(r) + 2 PROVE l # Nil /\ height(a) = height(l) + 1
        <5>1. height(l) # 0 /\ height(a) # height(l) BY <1>2, <2>3, <3>1, <3>2, <4>1
        <5> QED BY <3>1, <5>1, NilIs
      <4>2. height(l) + 1 # height(l) BY <1>2
      <4> QED BY <3>1, <4>1, <4>2
    <3>5. ~ height(r) = height(a) + 2 BY <1>2, <2>3, <3>1, <3>2
    <3>6. /\ Balanced(s)
          /\ height(a) - height(r) \in -1 .. 1 => s = t
          /\ ~ height(a) - height(r) \in -1 .. 1 => height(s) = Taller(a, r)
      BY <1>2, <2>2, <3>1, <3>2, <3>3, <3>4, <3>5, InsertedBalanced DEF s, t
    <3>7. PICK m, n, o : m = height(l) /\ n = height(r) /\ o = height(a) OBVIOUS
    <3>8. /\ m \in Nat /\ n \in Nat /\ o \in Nat /\ (o = m \/ o = m + 1) /\ m - n \in -1 .. 1
      BY <1>2, <3>1, <3>2, <3>7
    <3>9. height(u) = 1 + Higher(m, n) BY <1>2, <3>7 DEF Taller, Higher
    <3>13. /\ o - n \in -1 .. 1 => \/ Higher(o, n) = Higher(m, n)
                                   \/ Higher(o, n) = Higher(m, n) + 1 /\ o > n
           /\ ~ o - n \in -1 .. 1 => Higher(o, n) = Higher(m, n) + 1
           /\ Higher(n, o) = Higher(o, n) /\ Higher(n, m) = Higher(m, n)
           /\ Higher(m, n) \in Nat /\ Higher(o, n) \in Nat
      BY <3>8, HigherIs
    <3>10. CASE o - n \in -1 .. 1
      <4>1. s = t BY <3>6, <3>7, <3>10
      <4>2. height(s) = 1 + Higher(o, n) BY <2>3, <3>7, <4>1 DEF Taller, Higher
      <4>3. height(s) = height(u) \/ (height(s) = height(u) + 1 /\ o - n > 0)
        BY <3>8, <3>9, <3>10, <3>13, <4>2
      <4>4. o - n > 0 => LeansTo(s, key) /\ s.key # key
        BY <1>2, <1>7, <2>3, <2>7, <3>7, <4>1 DEF LeansTo
      <4> QED BY <3>6, <4>3, <4>4
    <3>11. CASE ~ o - n \in -1 .. 1
      <4>1. height(s) = Higher(o, n) BY <3>6, <3>7, <3>11 DEF Taller, Higher
      <4>2. height(s) = height(u) BY <3>9, <3>11, <3>13, <4>1
      <4> QED BY <3>6, <4>2
    <3> QED BY <3>10, <3>11
  <2> QED BY <2>1, <2>8, <2>9, <2>10, <2>11, <2>12 DEF Inserted
<1>8. CASE ~ key < k
  <2> DEFINE t == Node(k, i, l, b)
             s == BalanceInserted(t, key)
  <2>1. InsertOf(u, a, b, key, itv) = s BY <1>1, <1>2, <1>8, RebuildIs DEF InsertOf
  <2>2. IsTree(b) /\ b # Nil BY <1>1 DEF Inserted
  <2>13. Entries(b) = With(Entries(r), <<key, itv>>) BY <1>1 DEF Inserted
  <2>3. Alike(s, t) /\ IsTree(t) /\ t # Nil /\ t.left = l /\ t.right = b /\ t.key = k
        /\ height(t) = 1 + Taller(l, b) /\ height(b) \in Nat
    BY <1>2, <2>2, BalanceAlike, NodeTree
  <2>4. Entries(t) = Around(<<k, i>>, Entries(l), Entries(b)) BY <1>2, <2>2, EntriesNode
  <2>5. ASSUME NEW d \in {0, 1}
        PROVE  OrderedBy(t, d) <=> /\ OrderedBy(l, d) /\ OrderedBy(b, d)
                                   /\ AllBelow(l, k - d) /\ AllAbove(b, k + d)
    BY <1>2, <2>2, ShapeNode
  <2>6. ASSUME NEW d \in {0, 1}, AllAbove(r, k + d), d = 1 => k # key PROVE AllAbove(b, k + d)
    <3>1. <<key, itv>>[1] = key /\ k + d <= key BY <1>2, <1>8, <2>6
    <3> QED BY <2>6, <2>13, <3>1 DEF AllAbove, With
  <2>7. getBalance(t) = height(l) - height(b) BY <1>2, <2>2, Leans
  <2> HIDE DEF t, s
  <2>8. Entries(s) = With(Entries(u), <<key, itv>>)
    BY <1>3, <2>3, <2>4, <2>13 DEF Around, Alike, With
  <2>9. IsTree(s) /\ s # Nil
    <3>1. IsTree(s) BY <2>3 DEF Alike
    <3>2. Entries(s) # {} BY <2>8 DEF With
    <3> QED BY <3>1, <3>2, EntriesNil
  <2>10. OrderedBy(u, 0) => OrderedBy(s, 0)
    BY <1>1, <1>5, <2>3, <2>5, <2>6 DEF Alike, Inserted
  <2>11. OrderedBy(u, 1) /\ Fresh(u, key) => OrderedBy(s, 1)
    BY <1>1, <1>4, <1>5, <2>3, <2>5, <2>6 DEF Alike, Inserted
  <2>12. ASSUME Balanced(u), Fresh(u, key)
         PROVE  /\ Balanced(s)
                /\ \/ height(s) = height(u)
                   \/ height(s) = height(u) + 1 /\ s.key # key /\ LeansTo(s, key)
    <3>1. Balanced(b) /\ \/ height(b) = height(r)
                         \/ height(b) = height(r) + 1 /\ (r = Nil \/ (b.key # key /\ LeansTo(b, key)))
      BY <1>1, <1>4, <1>6, <2>12 DEF Inserted
    <3>2. Balanced(l) /\ height(l) - height(r) \in -1 .. 1 BY <1>6, <2>12
    <3>3. height(l) - height(b) \in -2 .. 2 BY <1>2, <2>3, <3>1, <3>2
    <3>4. height(b) = height(l) + 2 => b.key # key /\ LeansTo(b, key)
      <4>1. ASSUME height(b) = height(l) + 2 PROVE r # Nil /\ height(b) = height(r) + 1
        <5>1. height(r) # 0 /\ height(b) # height(r) BY <1>2, <2>3, <3>1, <3>2, <4>1
        <5> QED BY <3>1, <5>1, NilIs
      <4>2. height(r) + 1 # height(r) BY <1>2
      <4> QED BY <3>1, <4>1, <4>2
    <3>5. ~ height(l) = height(b) + 2 BY <1>2, <2>3, <3>1, <3>2
    <3>6. /\ Balanced(s)
          /\ height(l) - height(b) \in -1 .. 1 => s = t
          /\ ~ height(l) - height(b) \in -1 .. 1 => height(s) = Taller(l, b)
      BY <1>2, <2>2, <3>1, <3>2, <3>3, <3>4, <3>5, InsertedBalanced DEF s, t
    <3>7. PICK m, n, o : m = height(r) /\ n = height(l) /\ o = height(b) OBVIOUS
    <3>8. /\ m \in Nat /\ n \in Nat /\ o \in Nat /\ (o = m \/ o = m + 1) /\ m - n \in -1 .. 1
      BY <1>2, <3>1, <3>2, <3>7
    <3>9. height(u) = 1 + Higher(n, m) BY <1>2, <3>7 DEF Taller, Higher
    <3>13. /\ o - n \in -1 .. 1 => \/ Higher(o, n) = Higher(m, n)
                                   \/ Higher(o, n) = Higher(m, n) + 1 /\ o > n
           /\ ~ o - n \in -1 .. 1 => Higher(o, n) = Higher(m, n) + 1
           /\ Higher(n, o) = Higher(o, n) /\ Higher(n, m) = Higher(m, n)
           /\ Higher(m, n) \in Nat /\ Higher(o, n) \in Nat
      BY <3>8, HigherIs
    <3>14. n - o \in -1 .. 1 <=> o - n \in -1 .. 1 BY <3>8
    <3>10. CASE n - o \in -1 .. 1
      <4>1. s = t BY <3>6, <3>7, <3>10
      <4>2. height(s) = 1 + Higher(n, o) BY <2>3, <3>7, <4>1 DEF Taller, Higher
      <4>3. height(s) = height(u) \/ (height(s) = height(u) + 1 /\ n - o < 0)
        BY <3>8, <3>9, <3>10, <3>13, <3>14, <4>2
      <4>4. k # key BY <1>4, <2>12
      <4>5. n - o < 0 => LeansTo(s, key) /\ s.key # key
        BY <1>2, <1>8, <2>3, <2>7, <3>7, <4>1, <4>4 DEF LeansTo
      <4> QED BY <3>6, <4>3, <4>5
    <3>11. CASE ~ n - o \in -1 .. 1
      <4>1. height(s) = Higher(n, o) BY <3>6, <3>7, <3>11 DEF Taller, Higher
      <4>2. height(s) = height(u) BY <3>9, <3>11, <3>13, <3>14, <4>1
      <4> QED BY <3>6, <4>2
    <3> QED BY <3>10, <3>11
  <2> QED BY <2>1, <2>8, <2>9, <2>10, <2>11, <2>12 DEF Inserted
<1> QED BY <1>7, <1>8

\* insert adds its interval under its key and keeps the order; it keeps the
\* balance when the key is new.
LEMMA InsertIs ==
  ASSUME NEW t, IsTree(t), NEW key \in Int, NEW itv
  PROVE  Inserted(t, insert(t, key, itv), key, itv)
<1>1. PICK f : InsertTo(f, Subtrees(t), key, itv) /\ insert(t, key, itv) = f[t]
  <2>1. \E f : InsertTo(f, Subtrees(t), key, itv) BY InsertExists
  <2>2. insert(t, key, itv) = (CHOOSE f : InsertTo(f, Subtrees(t), key, itv))[t]
    BY DEF insert, InsertTo, InsertOf
  <2> QED BY <2>1, <2>2
<1> DEFINE X == {u \in Subtrees(t) : Inserted(u, f[u], key, itv)}
<1>2. Whole(Subtrees(t)) /\ t \in Subtrees(t) /\ \A u \in Subtrees(t) : IsTree(u) BY SubtreesIs
<1>3. \A u \in Subtrees(t) : f[u] = InsertOf(u, f[u.left], f[u.right], key, itv)
  BY <1>1 DEF InsertTo
<1>4. Nil \in Subtrees(t) => Nil \in X
  <2>1. InsertOf(Nil, f[Nil.left], f[Nil.right], key, itv) = Leaf(key, itv) BY DEF InsertOf
  <2> QED BY <1>3, <2>1, InsertLeaf
<1>5. ASSUME NEW u \in Subtrees(t), u # Nil, u.left \in X, u.right \in X PROVE u \in X
  <2>1. Inserted(u.left, f[u.left], key, itv) /\ Inserted(u.right, f[u.right], key, itv)
    BY <1>5
  <2>2. Inserted(u, InsertOf(u, f[u.left], f[u.right], key, itv), key, itv)
    BY <1>2, <1>5, <2>1, InsertStep
  <2> QED BY <1>3, <2>2
<1>6. Subtrees(t) \subseteq X
  <2> HIDE DEF X
  <2> QED BY <1>2, <1>4, <1>5, Induct
<1> QED BY <1>1, <1>2, <1>6

----------------------------------------------------------------------------
(* Deletion. *)

\* Where keys are apart, each has one entry.
LEMMA KeysUnique ==
  ASSUME NEW t, IsTree(t), OrderedBy(t, 1), NEW e \in Entries(t), NEW g \in Entries(t), e[1] = g[1]
  PROVE  e = g
<1> DEFINE Single(u) == OrderedBy(u, 1) => \A x, y \in Entries(u) : x[1] = y[1] => x = y
           X == {u \in Subtrees(t) : Single(u)}
<1>1. Whole(Subtrees(t)) /\ t \in Subtrees(t) /\ \A u \in Subtrees(t) : IsTree(u) BY SubtreesIs
<1>2. Nil \in Subtrees(t) => Nil \in X BY EntriesNil
<1>3. ASSUME NEW u \in Subtrees(t), u # Nil, u.left \in X, u.right \in X PROVE u \in X
  <2>1. PICK k, i, l, r : k = u.key /\ i = u.itv /\ l = u.left /\ r = u.right OBVIOUS
  <2>2. k \in Int /\ IsTree(l) /\ IsTree(r) /\ u = Node(k, i, l, r) BY <1>1, <1>3, <2>1, TreeIs
  <2>3. Entries(u) = Around(<<k, i>>, Entries(l), Entries(r)) BY <2>2, EntriesNode
  <2>4. ASSUME OrderedBy(u, 1), NEW x \in Entries(u), NEW y \in Entries(u), x[1] = y[1] PROVE x = y
    <3>1. OrderedBy(l, 1) /\ OrderedBy(r, 1) /\ AllBelow(l, k - 1) /\ AllAbove(r, k + 1)
      BY <2>2, <2>4, ShapeNode
    <3>2. ASSUME NEW z \in Entries(l) PROVE z[1] \in Int /\ z[1] < k
      <4>1. z[1] \in Int BY <2>2, EntriesKeys
      <4> QED BY <2>2, <3>1, <4>1 DEF AllBelow
    <3>3. ASSUME NEW z \in Entries(r) PROVE z[1] \in Int /\ k < z[1]
      <4>1. z[1] \in Int BY <2>2, EntriesKeys
      <4> QED BY <2>2, <3>1, <4>1 DEF AllAbove
    <3>4. \A v, w \in Entries(l) : v[1] = w[1] => v = w BY <1>3, <2>1, <3>1
    <3>5. \A v, w \in Entries(r) : v[1] = w[1] => v = w BY <1>3, <2>1, <3>1
    <3>6. <<k, i>>[1] = k OBVIOUS
    <3>7. x = <<k, i>> \/ x \in Entries(l) \/ x \in Entries(r) BY <2>3 DEF Around
    <3>8. y = <<k, i>> \/ y \in Entries(l) \/ y \in Entries(r) BY <2>3 DEF Around
    <3>9. CASE x = <<k, i>> BY <2>2, <2>4, <3>2, <3>3, <3>6, <3>8, <3>9
    <3>10. CASE x \in Entries(l)
      <4>1. x[1] < k /\ x[1] \in Int BY <3>2, <3>10
      <4>2. y \in Entries(l) BY <2>2, <2>4, <3>3, <3>6, <3>8, <4>1
      <4> QED BY <2>4, <3>4, <3>10, <4>2
    <3>11. CASE x \in Entries(r)
      <4>1. k < x[1] /\ x[1] \in Int BY <3>3, <3>11
      <4>2. y \in Entries(r) BY <2>2, <2>4, <3>2, <3>6, <3>8, <4>1
      <4> QED BY <2>4, <3>5, <3>11, <4>2
    <3> QED BY <3>7, <3>9, <3>10, <3>11
  <2> QED BY <2>4
<1>4. Subtrees(t) \subseteq X
  <2> HIDE DEF X
  <2> QED BY <1>1, <1>2, <1>3, Induct
<1> QED BY <1>1, <1>4

LeastTo(f, D) == f = [u \in D \ {Nil} |-> IF u.left = Nil THEN u ELSE f[u.left]]

LEMMA LeastExists == ASSUME NEW t, IsTree(t) PROVE \E f : LeastTo(f, Subtrees(t))
<1> DEFINE D(n) == Lower(Subtrees(t), n)
           G == {n \in Nat : \E f : LeastTo(f, D(n))}
<1>1. 0 \in G
  <2>1. D(0) = {} BY LowerIs
  <2>2. LeastTo([u \in {} |-> 0], {}) BY DEF LeastTo
  <2> QED BY <2>1, <2>2
<1>2. ASSUME NEW n \in Nat, n \in G PROVE n + 1 \in G
  <2>1. PICK f : LeastTo(f, D(n)) BY <1>2
  <2>2. D(n) \subseteq D(n + 1) BY LowerIs
  <2>3. \A u \in D(n + 1) : u # Nil => u.left \in D(n) /\ u.right \in D(n) BY LowerIs
  <2> HIDE DEF D
  <2>4. PICK g : g = [u \in D(n + 1) \ {Nil} |->
                        IF u \in D(n) THEN f[u] ELSE IF u.left = Nil THEN u ELSE f[u.left]]
    OBVIOUS
  <2>5. ASSUME NEW u \in D(n + 1) \ {Nil} PROVE g[u] = IF u.left = Nil THEN u ELSE g[u.left]
    <3>1. g[u] = IF u.left = Nil THEN u ELSE f[u.left]
      <4>1. CASE u \in D(n) BY <2>1, <2>4, <4>1 DEF LeastTo
      <4>2. CASE u \notin D(n) BY <2>4, <4>2
      <4> QED BY <4>1, <4>2
    <3>2. u.left # Nil => g[u.left] = f[u.left] BY <2>2, <2>3, <2>4
    <3> QED BY <3>1, <3>2
  <2>6. LeastTo(g, D(n + 1)) BY <2>4, <2>5 DEF LeastTo
  <2> QED BY <2>6
<1>3. height(t) + 1 \in G
  <2> HIDE DEF G
  <2> QED BY <1>1, <1>2, NatInduct, LowerIs
<1> QED BY <1>3, LowerIs

\* minValueNode gives a node of the tree, below whose key there is none.
Least(t, m) ==
  /\ m.key \in Int /\ <<m.key, m.itv>> \in Entries(t)
  /\ \A d \in {0, 1} : OrderedBy(t, d) => AllAbove(t, m.key)

LEMMA MinIs ==
  ASSUME NEW t, IsTree(t), t # Nil PROVE Least(t, minValueNode(t))
<1>1. PICK f : LeastTo(f, Subtrees(t)) /\ minValueNode(t) = f[t]
  <2>1. \E f : LeastTo(f, Subtrees(t)) BY LeastExists
  <2>2. minValueNode(t) = (CHOOSE f : LeastTo(f, Subtrees(t)))[t] BY DEF minValueNode, LeastTo
  <2> QED BY <2>1, <2>2
<1> DEFINE X == {u \in Subtrees(t) : u # Nil => Least(u, f[u])}
<1>2. Whole(Subtrees(t)) /\ t \in Subtrees(t) /\ \A u \in Subtrees(t) : IsTree(u) BY SubtreesIs
<1>3. ASSUME NEW u \in Subtrees(t), u # Nil, u.left \in X, u.right \in X PROVE u \in X
  <2>1. PICK k, i, l, r : k = u.key /\ i = u.itv /\ l = u.left /\ r = u.right OBVIOUS
  <2>2. k \in Int /\ IsTree(l) /\ IsTree(r) /\ u = Node(k, i, l, r) BY <1>2, <1>3, <2>1, TreeIs
  <2>3. Entries(u) = Around(<<k, i>>, Entries(l), Entries(r)) BY <2>2, EntriesNode
  <2>4. ASSUME NEW d \in {0, 1}, OrderedBy(u, d)
        PROVE  OrderedBy(l, d) /\ AllBelow(l, k - d) /\ AllAbove(r, k + d)
    BY <2>2, <2>4, ShapeNode
  <2>5. f[u] = IF l = Nil THEN u ELSE f[l] BY <1>1, <1>3, <2>1 DEF LeastTo
  <2>6. ASSUME NEW x \in Int, x <= k, AllAbove(l, x), NEW d \in {0, 1}, AllAbove(r, k + d)
        PROVE  AllAbove(u, x)
    <3>1. <<k, i>>[1] = k OBVIOUS
    <3>2. ASSUME NEW e \in Entries(r) PROVE x <= e[1]
      <4>1. e[1] \in Int BY <2>2, EntriesKeys
      <4> QED BY <2>2, <2>6, <4>1 DEF AllAbove
    <3> QED BY <2>3, <2>6, <3>1, <3>2 DEF AllAbove, Around
  <2>7. CASE l = Nil
    <3>1. f[u] = u BY <2>5, <2>7
    <3>2. <<u.key, u.itv>> \in Entries(u) BY <2>1, <2>3 DEF Around
    <3>3. ASSUME NEW d \in {0, 1}, OrderedBy(u, d) PROVE AllAbove(u, u.key)
      <4>1. AllAbove(l, k) BY <2>7, EntriesNil
      <4> QED BY <2>1, <2>2, <2>4, <2>6, <3>3, <4>1
    <3> QED BY <2>1, <2>2, <3>1, <3>2, <3>3 DEF Least
  <2>8. CASE l # Nil
    <3>1. PICK m : m = f[l] OBVIOUS
    <3>2. f[u] = m BY <2>5, <2>8, <3>1
    <3>3. Least(l, m) BY <1>3, <2>1, <2>8, <3>1
    <3>4. m.key \in Int /\ <<m.key, m.itv>> \in Entries(u) BY <2>3, <3>3 DEF Least, Around
    <3>5. ASSUME NEW d \in {0, 1}, OrderedBy(u, d) PROVE AllAbove(u, m.key)
      <4>1. <<m.key, m.itv>>[1] = m.key OBVIOUS
      <4>2. m.key <= k - d BY <2>4, <3>3, <3>5, <4>1 DEF Least, AllBelow
      <4>3. m.key <= k BY <2>2, <3>4, <4>2
      <4>4. AllAbove(l, m.key) BY <2>4, <3>3, <3>5 DEF Least
      <4> QED BY <2>4, <2>6, <3>4, <3>5, <4>3, <4>4
    <3> QED BY <3>2, <3>4, <3>5 DEF Least
  <2> QED BY <2>7, <2>8
<1>4. Subtrees(t) \subseteq X
  <2>1. Nil \in Subtrees(t) => Nil \in X OBVIOUS
  <2> HIDE DEF X
  <2> QED BY <1>2, <1>3, <2>1, Induct
<1> QED BY <1>1, <1>2, <1>4

\* What is left without a key.
Without(E, key) == {e \in E : e[1] # key}

\* s is t without the first entry found with the key: nothing is added, the
\* order is kept and the balance, the height at most one less.  Where keys are
\* apart that entry is all that goes.
Deleted(t, s, key) ==
  /\ IsTree(s) /\ Entries(s) \subseteq Entries(t)
  /\ OrderedBy(t, 0) => OrderedBy(s, 0) /\ (~ Fresh(t, key) => Count(s) + 1 = Count(t))
  /\ OrderedBy(t, 1) => OrderedBy(s, 1) /\ Entries(s) = Without(Entries(t), key)
  /\ Balanced(t) => Balanced(s) /\ (height(s) = height(t) \/ height(s) + 1 = height(t))

\* A step of the recursion of delete, from what it gives for the subtrees, and
\* for the right one with the key of its leftmost node.
DeleteOf(u, key, a, b, c) ==
  IF u = Nil THEN Nil
  ELSE CASE key < u.key -> BalanceDeleted(Rebuild(u, a, u.right))
         [] key > u.key -> BalanceDeleted(Rebuild(u, u.left, b))
         [] OTHER       -> IF u.left = Nil /\ u.right = Nil THEN Nil
                           ELSE IF u.left = Nil \/ u.right = Nil THEN Replaced(OnlyChild(u))
                           ELSE Inherit(u, minValueNode(u.right), c)

DeleteTo(f, D) ==
  f = [u \in D |->
         [k \in Int |->
            DeleteOf(u, k, f[u.left][k], f[u.right][k], f[u.right][minValueNode(u.right).key])]]

LEMMA DeleteExists == ASSUME NEW t, IsTree(t) PROVE \E f : DeleteTo(f, Subtrees(t))
<1> DEFINE D(n) == Lower(Subtrees(t), n)
           G == {n \in Nat : \E f : DeleteTo(f, D(n))}
<1>1. 0 \in G
  <2>1. D(0) = {} BY LowerIs
  <2>2. DeleteTo([u \in {} |-> 0], {}) BY DEF DeleteTo
  <2> QED BY <2>1, <2>2
<1>2. ASSUME NEW n \in Nat, n \in G PROVE n + 1 \in G
  <2>1. PICK f : DeleteTo(f, D(n)) BY <1>2
  <2>2. D(n) \subseteq D(n + 1) BY LowerIs
  <2>3. \A u \in D(n + 1) : u # Nil => u.left \in D(n) /\ u.right \in D(n) BY LowerIs
  <2> HIDE DEF D
  <2> DEFINE Step(h, u) ==
        [k \in Int |-> DeleteOf(u, k, h[u.left][k], h[u.right][k], h[u.right][minValueNode(u.right).key])]
  <2>5. PICK g : g = [u \in D(n + 1) |-> IF u \in D(n) THEN f[u] ELSE Step(f, u)]
    OBVIOUS
  <2>6. ASSUME NEW u \in D(n) PROVE f[u] = Step(f, u) BY <2>1 DEF DeleteTo
  <2>7. ASSUME NEW u \in D(n) PROVE g[u] = f[u]
    <3> HIDE DEF Step
    <3> QED BY <2>2, <2>5
  <2>8. ASSUME NEW u \in D(n + 1) PROVE g[u] = Step(g, u)
    <3>1. g[u] = Step(f, u)
      <4> HIDE DEF Step
      <4> QED BY <2>5, <2>6
    <3>2. ASSUME NEW k \in Int
          PROVE  DeleteOf(u, k, f[u.left][k], f[u.right][k], f[u.right][minValueNode(u.right).key])
                   = DeleteOf(u, k, g[u.left][k], g[u.right][k], g[u.right][minValueNode(u.right).key])
      <4>1. CASE u = Nil BY <4>1 DEF DeleteOf
      <4>2. CASE u # Nil
        <5>1. u.left \in D(n) /\ u.right \in D(n) BY <2>3, <4>2
        <5> QED BY <2>7, <5>1
      <4> QED BY <4>1, <4>2
    <3>3. Step(f, u) = Step(g, u) BY <3>2
    <3> HIDE DEF Step
    <3> QED BY <3>1, <3>3
  <2>9. DeleteTo(g, D(n + 1))
    <3>1. g = [u \in D(n + 1) |-> g[u]] BY <2>5
    <3>2. g = [u \in D(n + 1) |-> Step(g, u)]
      <4> HIDE DEF Step
      <4> QED BY <2>8, <3>1
    <3> QED BY <3>2 DEF DeleteTo
  <2> QED BY <2>9
<1>3. height(t) + 1 \in G
  <2> HIDE DEF G
  <2> QED BY <1>1, <1>2, NatInduct, LowerIs
<1> QED BY <1>3, LowerIs

\* When one subtree of a balanced node has shrunk by one at most, the rotations
\* leave it balanced and at most one lower.
LEMMA ShrunkBalanced ==
  ASSUME NEW l, IsTree(l), NEW r, IsTree(r), height(l) - height(r) \in -1 .. 1,
         NEW k \in Int, NEW i, NEW a, IsTree(a), NEW b, IsTree(b), Balanced(a), Balanced(b),
         \/ height(b) = height(r) /\ (height(a) = height(l) \/ height(a) + 1 = height(l))
         \/ height(a) = height(l) /\ (height(b) = height(r) \/ height(b) + 1 = height(r))
  PROVE  /\ Balanced(BalanceDeleted(Node(k, i, a, b)))
         /\ \/ height(BalanceDeleted(Node(k, i, a, b))) = 1 + Taller(l, r)
            \/ height(BalanceDeleted(Node(k, i, a, b))) + 1 = 1 + Taller(l, r)
<1>1. PICK m, n, x, y : m = height(l) /\ n = height(r) /\ x = height(a) /\ y = height(b) OBVIOUS
<1>2. m \in Nat /\ n \in Nat /\ x \in Nat /\ y \in Nat BY <1>1, SubtreesIs
<1>3. m - n \in -1 .. 1 /\ ((y = n /\ (x = m \/ x + 1 = m)) \/ (x = m /\ (y = n \/ y + 1 = n)))
  BY <1>1
<1>4. x - y \in -2 .. 2 BY <1>2, <1>3
<1>5. Taller(l, r) = Higher(m, n) /\ Taller(a, b) = Higher(x, y) BY <1>1 DEF Taller, Higher
<1>6. PICK h : h = height(BalanceDeleted(Node(k, i, a, b))) OBVIOUS
<1>7. Balanced(BalanceDeleted(Node(k, i, a, b))) /\ (h = Higher(x, y) \/ h = 1 + Higher(x, y))
  BY <1>1, <1>4, <1>5, <1>6, DeletedBalanced
<1>8. x - y \in -1 .. 1 => h = 1 + Higher(x, y)
  <2>1. ASSUME x - y \in -1 .. 1 PROVE BalanceDeleted(Node(k, i, a, b)) = Node(k, i, a, b)
    BY <1>1, <1>4, <2>1, DeletedBalanced
  <2>2. height(Node(k, i, a, b)) = 1 + Taller(a, b) BY NodeTree
  <2> QED BY <1>5, <1>6, <2>1, <2>2
<1>9. h = 1 + Higher(m, n) \/ h + 1 = 1 + Higher(m, n)
  BY <1>2, <1>3, <1>7, <1>8 DEF Higher
<1> QED BY <1>5, <1>6, <1>7, <1>9

\* The step where the key is below that of the node, or above it.
LEMMA DeleteBelow ==
  ASSUME NEW k \in Int, NEW i, NEW l, IsTree(l), NEW r, IsTree(r),
         NEW key \in Int, key < k, NEW a, Deleted(l, a, key)
  PROVE  Deleted(Node(k, i, l, r), BalanceDeleted(Node(k, i, a, r)), key)
<1> DEFINE u == Node(k, i, l, r)
           t == Node(k, i, a, r)
           s == BalanceDeleted(t)
<1>1. IsTree(a) /\ Entries(a) \subseteq Entries(l) BY DEF Deleted
<1>2. Alike(s, t) BY <1>1, BalanceAlike
<1>3. Entries(u) = Around(<<k, i>>, Entries(l), Entries(r)) BY EntriesNode
<1>4. Entries(t) = Around(<<k, i>>, Entries(a), Entries(r)) BY <1>1, EntriesNode
<1>5. ASSUME NEW d \in {0, 1}
      PROVE  /\ OrderedBy(u, d) <=> /\ OrderedBy(l, d) /\ OrderedBy(r, d)
                                    /\ AllBelow(l, k - d) /\ AllAbove(r, k + d)
             /\ OrderedBy(t, d) <=> /\ OrderedBy(a, d) /\ OrderedBy(r, d)
                                    /\ AllBelow(a, k - d) /\ AllAbove(r, k + d)
  BY <1>1, ShapeNode
<1>6. ASSUME NEW x, AllBelow(l, x) PROVE AllBelow(a, x) BY <1>1, <1>6 DEF AllBelow
<1>7. /\ Count(u) = 1 + Count(l) + Count(r) /\ Count(t) = 1 + Count(a) + Count(r)
      /\ Count(l) \in Nat /\ Count(a) \in Nat /\ Count(r) \in Nat BY <1>1, CountNode
<1>8. <<k, i>>[1] = k OBVIOUS
<1>9. ASSUME NEW d \in {0, 1}, OrderedBy(u, d), NEW e \in Entries(r) PROVE e[1] # key
  <2>1. e[1] \in Int BY EntriesKeys
  <2>2. k + d <= e[1] BY <1>5, <1>9 DEF AllAbove
  <2> QED BY <2>1, <2>2
<1>10. Balanced(u) <=> Balanced(l) /\ Balanced(r) /\ height(l) - height(r) \in -1 .. 1
  BY ShapeNode
<1>11. height(u) = 1 + Taller(l, r) BY NodeTree
<1>12. ASSUME Balanced(u) PROVE Balanced(s) /\ (height(s) = height(u) \/ height(s) + 1 = height(u))
  <2>1. Balanced(a) /\ (height(a) = height(l) \/ height(a) + 1 = height(l)) BY <1>10, <1>12 DEF Deleted
  <2> QED BY <1>1, <1>10, <1>11, <1>12, <2>1, ShrunkBalanced
<1> HIDE DEF u, t, s
<1>13. IsTree(s) /\ Entries(s) = Entries(t) /\ Count(s) = Count(t) BY <1>2 DEF Alike
<1>14. Entries(s) \subseteq Entries(u) BY <1>1, <1>3, <1>4, <1>13 DEF Around
<1>15. ASSUME OrderedBy(u, 0) PROVE OrderedBy(s, 0) BY <1>2, <1>5, <1>6, <1>15 DEF Alike, Deleted
<1>16. ASSUME OrderedBy(u, 1) PROVE OrderedBy(s, 1) BY <1>2, <1>5, <1>6, <1>16 DEF Alike, Deleted
<1>17. ASSUME OrderedBy(u, 0), ~ Fresh(u, key) PROVE Count(s) + 1 = Count(u)
  <2>1. ~ Fresh(l, key) BY <1>3, <1>8, <1>9, <1>17 DEF Fresh, Around
  <2>2. Count(a) + 1 = Count(l) BY <1>5, <1>17, <2>1 DEF Deleted
  <2> QED BY <1>7, <1>13, <2>2
<1>18. ASSUME OrderedBy(u, 1) PROVE Entries(s) = Without(Entries(u), key)
  <2>1. Entries(a) = Without(Entries(l), key) BY <1>5, <1>18 DEF Deleted
  <2>2. \A e \in Entries(r) : e[1] # key BY <1>9, <1>18
  <2>3. k # key OBVIOUS
  <2> QED BY <1>3, <1>4, <1>8, <1>13, <2>1, <2>2, <2>3 DEF Without, Around
<1>19. Deleted(u, s, key) BY <1>12, <1>13, <1>14, <1>15, <1>16, <1>17, <1>18 DEF Deleted
<1> QED BY <1>19 DEF u, t, s

LEMMA DeleteAbove ==
  ASSUME NEW k \in Int, NEW i, NEW l, IsTree(l), NEW r, IsTree(r),
         NEW key \in Int, key > k, NEW b, Deleted(r, b, key)
  PROVE  Deleted(Node(k, i, l, r), BalanceDeleted(Node(k, i, l, b)), key)
<1> DEFINE u == Node(k, i, l, r)
           t == Node(k, i, l, b)
           s == BalanceDeleted(t)
<1>1. IsTree(b) /\ Entries(b) \subseteq Entries(r) BY DEF Deleted
<1>2. Alike(s, t) BY <1>1, BalanceAlike
<1>3. Entries(u) = Around(<<k, i>>, Entries(l), Entries(r)) BY EntriesNode
<1>4. Entries(t) = Around(<<k, i>>, Entries(l), Entries(b)) BY <1>1, EntriesNode
<1>5. ASSUME NEW d \in {0, 1}
      PROVE  /\ OrderedBy(u, d) <=> /\ OrderedBy(l, d) /\ OrderedBy(r, d)
                                    /\ AllBelow(l, k - d) /\ AllAbove(r, k + d)
             /\ OrderedBy(t, d) <=> /\ OrderedBy(l, d) /\ OrderedBy(b, d)
                                    /\ AllBelow(l, k - d) /\ AllAbove(b, k + d)
  BY <1>1, ShapeNode
<1>6. ASSUME NEW x, AllAbove(r, x) PROVE AllAbove(b, x) BY <1>1, <1>6 DEF AllAbove
<1>7. /\ Count(u) = 1 + Count(l) + Count(r) /\ Count(t) = 1 + Count(l) + Count(b)
      /\ Count(l) \in Nat /\ Count(b) \in Nat /\ Count(r) \in Nat BY <1>1, CountNode
<1>8. <<k, i>>[1] = k OBVIOUS
<1>9. ASSUME NEW d \in {0, 1}, OrderedBy(u, d), NEW e \in Entries(l) PROVE e[1] # key
  <2>1. e[1] \in Int BY EntriesKeys
  <2>2. e[1] <= k - d BY <1>5, <1>9 DEF AllBelow
  <2> QED BY <2>1, <2>2
<1>10. Balanced(u) <=> Balanced(l) /\ Balanced(r) /\ height(l) - height(r) \in -1 .. 1
  BY ShapeNode
<1>11. height(u) = 1 + Taller(l, r) BY NodeTree
<1>12. ASSUME Balanced(u) PROVE Balanced(s) /\ (height(s) = height(u) \/ height(s) + 1 = height(u))
  <2>1. Balanced(b) /\ (height(b) = height(r) \/ height(b) + 1 = height(r)) BY <1>10, <1>12 DEF Deleted
  <2> QED BY <1>1, <1>10, <1>11, <1>12, <2>1, ShrunkBalanced
<1> HIDE DEF u, t, s
<1>13. IsTree(s) /\ Entries(s) = Entries(t) /\ Count(s) = Count(t) BY <1>2 DEF Alike
<1>14. Entries(s) \subseteq Entries(u) BY <1>1, <1>3, <1>4, <1>13 DEF Around
<1>15. ASSUME OrderedBy(u, 0) PROVE OrderedBy(s, 0) BY <1>2, <1>5, <1>6, <1>15 DEF Alike, Deleted
<1>16. ASSUME OrderedBy(u, 1) PROVE OrderedBy(s, 1) BY <1>2, <1>5, <1>6, <1>16 DEF Alike, Deleted
<1>17. ASSUME OrderedBy(u, 0), ~ Fresh(u, key) PROVE Count(s) + 1 = Count(u)
  <2>1. ~ Fresh(r, key) BY <1>3, <1>8, <1>9, <1>17 DEF Fresh, Around
  <2>2. Count(b) + 1 = Count(r) BY <1>5, <1>17, <2>1 DEF Deleted
  <2> QED BY <1>7, <1>13, <2>2
<1>18. ASSUME OrderedBy(u, 1) PROVE Entries(s) = Without(Entries(u), key)
  <2>1. Entries(b) = Without(Entries(r), key) BY <1>5, <1>18 DEF Deleted
  <2>2. \A e \in Entries(l) : e[1] # key BY <1>9, <1>18
  <2>3. k # key OBVIOUS
  <2> QED BY <1>3, <1>4, <1>8, <1>13, <2>1, <2>2, <2>3 DEF Without, Around
<1>19. Deleted(u, s, key) BY <1>12, <1>13, <1>14, <1>15, <1>16, <1>17, <1>18 DEF Deleted
<1> QED BY <1>19 DEF u, t, s

\* The step where the node has the key: it is a leaf, or one subtree takes its
\* place, or the leftmost node of the right subtree does.
LEMMA DeleteLeaf ==
  ASSUME NEW k \in Int, NEW i PROVE Deleted(Node(k, i, Nil, Nil), Nil, k)
<1> DEFINE u == Node(k, i, Nil, Nil)
<1>1. IsTree(Nil) /\ height(Nil) = 0 BY NilIs
<1>2. Entries(u) = Around(<<k, i>>, Entries(Nil), Entries(Nil)) BY <1>1, EntriesNode
<1>3. Count(u) = 1 /\ Count(Nil) = 0
  <2>1. Count(Nil) = 0 BY CountTypes
  <2>2. Count(u) = 1 + Count(Nil) + Count(Nil) BY <1>1, CountNode
  <2> QED BY <2>1, <2>2
<1>4. height(u) = 1
  <2>1. height(u) = 1 + Taller(Nil, Nil) BY <1>1, NodeTree
  <2> QED BY <1>1, <2>1 DEF Taller
<1> HIDE DEF u
<1>5. Entries(Nil) = Without(Entries(u), k)
  <2>1. <<k, i>>[1] = k OBVIOUS
  <2> QED BY <1>2, <2>1, EntriesNil DEF Around, Without
<1>6. Entries(Nil) \subseteq Entries(u) BY EntriesNil
<1>7. OrderedBy(Nil, 0) /\ OrderedBy(Nil, 1) /\ Balanced(Nil) BY ShapeNil
<1>8. PICK v : v = Nil OBVIOUS
<1>9. /\ IsTree(v) /\ Entries(v) \subseteq Entries(u) /\ Entries(v) = Without(Entries(u), k)
      /\ OrderedBy(v, 0) /\ OrderedBy(v, 1) /\ Balanced(v)
      /\ Count(v) + 1 = Count(u) /\ height(v) + 1 = height(u)
  BY <1>1, <1>3, <1>4, <1>5, <1>6, <1>7, <1>8
<1>10. Deleted(u, v, k) BY <1>9 DEF Deleted
<1> QED BY <1>8, <1>10 DEF u

LEMMA DeleteOnly ==
  ASSUME NEW k \in Int, NEW i, NEW l, IsTree(l), NEW r, IsTree(r), NEW up, up # Nil,
         (l = Nil /\ up = r) \/ (r = Nil /\ up = l)
  PROVE  Deleted(Node(k, i, l, r), BalanceDeleted(Rebuild(up, up.left, up.right)), k)
<1> DEFINE u == Node(k, i, l, r)
           s == BalanceDeleted(up)
<1>1. /\ IsTree(up) /\ up.key \in Int /\ IsTree(up.left) /\ IsTree(up.right)
      /\ up = Node(up.key, up.itv, up.left, up.right) BY TreeIs
<1>2. Rebuild(up, up.left, up.right) = up BY <1>1, NodeIs, RebuildIs
<1>3. Alike(s, up) BY <1>1, BalanceAlike
<1>4. Entries(u) = Around(<<k, i>>, Entries(l), Entries(r)) BY EntriesNode
<1>5. ASSUME NEW d \in {0, 1}
      PROVE  OrderedBy(u, d) <=> /\ OrderedBy(l, d) /\ OrderedBy(r, d)
                                 /\ AllBelow(l, k - d) /\ AllAbove(r, k + d)
  BY ShapeNode
<1>6. Count(u) = 1 + Count(l) + Count(r) /\ Count(l) \in Nat /\ Count(r) \in Nat /\ Count(Nil) = 0
  BY CountNode, CountTypes
<1>7. Balanced(u) <=> Balanced(l) /\ Balanced(r) /\ height(l) - height(r) \in -1 .. 1
  BY ShapeNode
<1>8. /\ height(u) = 1 + Taller(l, r) /\ height(l) \in Nat /\ height(r) \in Nat /\ height(Nil) = 0
  BY NodeTree, NilIs
<1>9. <<k, i>>[1] = k OBVIOUS
<1>10. Entries(Nil) = {} BY EntriesNil
<1> HIDE DEF u
<1>11. \A e : e \in Entries(u) <=> e = <<k, i>> \/ e \in Entries(up)
  BY <1>4, <1>10 DEF Around
<1>12. ASSUME Balanced(u) PROVE Balanced(s) /\ height(s) + 1 = height(u)
  <2>1. Balanced(up) BY <1>7, <1>12
  <2>2. height(u) = 1 + height(up) BY <1>8 DEF Taller
  <2>3. getBalance(up) \in -1 .. 1 /\ Balanced(up.left) /\ Balanced(up.right)
        /\ getBalance(up) = height(up.left) - height(up.right) BY <1>1, <2>1, BalancedIs
  <2>4. height(up.left) - height(up.right) \in -2 .. 2 /\ height(up.left) - height(up.right) \in -1 .. 1
    BY <2>3
  <2>5. s = up BY <1>1, <2>3, <2>4, DeletedBalanced
  <2>6. height(up) \in Nat BY <1>1, SubtreesIs
  <2> QED BY <2>1, <2>2, <2>5, <2>6
<1> HIDE DEF s
<1>13. IsTree(s) /\ Entries(s) = Entries(up) /\ Count(s) = Count(up) BY <1>3 DEF Alike
<1>14. Entries(s) \subseteq Entries(u) BY <1>11, <1>13
<1>15. ASSUME OrderedBy(u, 0) PROVE OrderedBy(s, 0) BY <1>3, <1>5, <1>15 DEF Alike
<1>16. ASSUME OrderedBy(u, 1) PROVE OrderedBy(s, 1) BY <1>3, <1>5, <1>16 DEF Alike
<1>17. Count(s) + 1 = Count(u) BY <1>6, <1>13
<1>18. ASSUME OrderedBy(u, 1) PROVE Entries(s) = Without(Entries(u), k)
  <2>1. ASSUME NEW e \in Entries(up) PROVE e[1] # k
    <3>1. e[1] \in Int BY <1>1, EntriesKeys
    <3>2. CASE up = l
      <4>1. e[1] <= k - 1 BY <1>5, <1>18, <3>2 DEF AllBelow
      <4> QED BY <3>1, <4>1
    <3>3. CASE up = r
      <4>1. k + 1 <= e[1] BY <1>5, <1>18, <3>3 DEF AllAbove
      <4> QED BY <3>1, <4>1
    <3> QED BY <3>2, <3>3
  <2> QED BY <1>9, <1>11, <1>13, <2>1 DEF Without
<1>19. Deleted(u, s, k) BY <1>12, <1>13, <1>14, <1>15, <1>16, <1>17, <1>18 DEF Deleted
<1> QED BY <1>2, <1>19 DEF u, s

LEMMA DeleteHeir ==
  ASSUME NEW k \in Int, NEW i, NEW l, IsTree(l), NEW r, IsTree(r), NEW m, Least(r, m),
         NEW c, Deleted(r, c, m.key)
  PROVE  Deleted(Node(k, i, l, r), BalanceDeleted(Node(m.key, m.itv, l, c)), k)
<1> DEFINE u == Node(k, i, l, r)
           t == Node(m.key, m.itv, l, c)
           s == BalanceDeleted(t)
<1>1. IsTree(c) /\ Entries(c) \subseteq Entries(r) BY DEF Deleted
<1>2. PICK h, o : h = m.key /\ o = <<m.key, m.itv>> OBVIOUS
<1>3. h \in Int /\ o[1] = h /\ o \in Entries(r) BY <1>2 DEF Least
<1>4. Alike(s, t) BY <1>1, <1>2, <1>3, BalanceAlike
<1>5. Entries(u) = Around(<<k, i>>, Entries(l), Entries(r)) BY EntriesNode
<1>6. Entries(t) = Around(o, Entries(l), Entries(c)) BY <1>1, <1>2, <1>3, EntriesNode
<1>7. ASSUME NEW d \in {0, 1}
      PROVE  /\ OrderedBy(u, d) <=> /\ OrderedBy(l, d) /\ OrderedBy(r, d)
                                    /\ AllBelow(l, k - d) /\ AllAbove(r, k + d)
             /\ OrderedBy(t, d) <=> /\ OrderedBy(l, d) /\ OrderedBy(c, d)
                                    /\ AllBelow(l, h - d) /\ AllAbove(c, h + d)
  BY <1>1, <1>2, <1>3, ShapeNode
<1>8. /\ Count(u) = 1 + Count(l) + Count(r) /\ Count(t) = 1 + Count(l) + Count(c)
      /\ Count(l) \in Nat /\ Count(c) \in Nat /\ Count(r) \in Nat BY <1>1, <1>2, <1>3, CountNode
<1>9. Balanced(u) <=> Balanced(l) /\ Balanced(r) /\ height(l) - height(r) \in -1 .. 1
  BY ShapeNode
<1>10. height(u) = 1 + Taller(l, r) BY NodeTree
<1>11. ASSUME Balanced(u) PROVE Balanced(s) /\ (height(s) = height(u) \/ height(s) + 1 = height(u))
  <2>1. Balanced(c) /\ (height(c) = height(r) \/ height(c) + 1 = height(r)) BY <1>9, <1>11 DEF Deleted
  <2> QED BY <1>1, <1>2, <1>3, <1>9, <1>10, <1>11, <2>1, ShrunkBalanced
<1> HIDE DEF u, t, s
<1>12. IsTree(s) /\ Entries(s) = Entries(t) /\ Count(s) = Count(t) BY <1>4 DEF Alike
<1>13. Entries(s) \subseteq Entries(u) BY <1>1, <1>3, <1>5, <1>6, <1>12 DEF Around
<1>14. ASSUME NEW d \in {0, 1}, OrderedBy(u, d) PROVE AllBelow(l, h - d)
  <2>1. k + d <= h BY <1>3, <1>7, <1>14 DEF AllAbove
  <2>2. ASSUME NEW e \in Entries(l) PROVE e[1] <= h - d
    <3>1. e[1] \in Int BY EntriesKeys
    <3>2. e[1] <= k - d BY <1>7, <1>14 DEF AllBelow
    <3> QED BY <1>3, <2>1, <3>1, <3>2
  <2> QED BY <2>2 DEF AllBelow
<1>15. ASSUME OrderedBy(u, 0) PROVE OrderedBy(s, 0) /\ Count(s) + 1 = Count(u)
  <2>1. OrderedBy(r, 0) /\ OrderedBy(l, 0) BY <1>7, <1>15
  <2>2. OrderedBy(c, 0) BY <2>1 DEF Deleted
  <2>3. AllAbove(c, h + 0)
    <3>1. AllAbove(r, h) BY <1>2, <2>1 DEF Least
    <3>2. h + 0 = h BY <1>3
    <3> QED BY <1>1, <3>1, <3>2 DEF AllAbove
  <2>4. OrderedBy(t, 0) BY <1>7, <1>14, <1>15, <2>1, <2>2, <2>3
  <2>5. ~ Fresh(r, m.key) BY <1>2, <1>3 DEF Fresh
  <2>6. Count(c) + 1 = Count(r) BY <2>1, <2>5 DEF Deleted
  <2> QED BY <1>4, <1>8, <1>12, <2>4, <2>6 DEF Alike
<1>16. ASSUME OrderedBy(u, 1) PROVE OrderedBy(s, 1) /\ Entries(s) = Without(Entries(u), k)
  <2>1. OrderedBy(r, 1) /\ OrderedBy(l, 1) BY <1>7, <1>16
  <2>2. OrderedBy(c, 1) BY <2>1 DEF Deleted
  <2>3. Entries(c) = Without(Entries(r), h) BY <1>2, <2>1 DEF Deleted
  <2>4. AllAbove(c, h + 1)
    <3>1. AllAbove(r, h) BY <1>2, <2>1 DEF Least
    <3>2. ASSUME NEW e \in Entries(c) PROVE h + 1 <= e[1]
      <4>1. e[1] \in Int BY <1>1, EntriesKeys
      <4>2. e \in Entries(r) /\ e[1] # h BY <2>3 DEF Without
      <4>3. h <= e[1] BY <3>1, <4>2 DEF AllAbove
      <4> QED BY <1>3, <4>1, <4>2, <4>3
    <3> QED BY <3>2 DEF AllAbove
  <2>5. OrderedBy(t, 1) BY <1>7, <1>14, <1>16, <2>1, <2>2, <2>4
  <2>6. OrderedBy(s, 1) BY <1>4, <2>5 DEF Alike
  <2>7. ASSUME NEW e \in Entries(r), e[1] = h PROVE e = o BY <1>3, <2>1, <2>7, KeysUnique
  <2>8. ASSUME NEW e \in Entries(l) PROVE e[1] # k
    <3>1. e[1] \in Int BY EntriesKeys
    <3>2. e[1] <= k - 1 BY <1>7, <1>16 DEF AllBelow
    <3> QED BY <3>1, <3>2
  <2>9. ASSUME NEW e \in Entries(r) PROVE e[1] # k
    <3>1. e[1] \in Int BY EntriesKeys
    <3>2. k + 1 <= e[1] BY <1>7, <1>16 DEF AllAbove
    <3> QED BY <3>1, <3>2
  <2>10. <<k, i>>[1] = k OBVIOUS
  <2>11. ASSUME NEW e PROVE e \in Entries(t) <=> e \in Without(Entries(u), k)
    <3>1. e \in Entries(t) <=> e = o \/ e \in Entries(l) \/ e \in Entries(c) BY <1>6 DEF Around
    <3>2. e \in Entries(u) <=> e = <<k, i>> \/ e \in Entries(l) \/ e \in Entries(r) BY <1>5 DEF Around
    <3>3. e \in Entries(c) <=> e \in Entries(r) /\ e[1] # h BY <2>3 DEF Without
    <3>4. e \in Without(Entries(u), k) <=> e \in Entries(u) /\ e[1] # k BY DEF Without
    <3> QED BY <1>3, <2>7, <2>8, <2>9, <2>10, <3>1, <3>2, <3>3, <3>4
  <2>12. Entries(t) = Without(Entries(u), k) BY <2>11
  <2> QED BY <1>12, <2>6, <2>12
<1>17. Deleted(u, s, k) BY <1>11, <1>12, <1>13, <1>15, <1>16 DEF Deleted
<1> QED BY <1>17 DEF u, t, s

LEMMA DeleteIs ==
  ASSUME NEW t, IsTree(t), NEW key \in Int PROVE Deleted(t, delete(t, key), key)
<1>1. PICK f : DeleteTo(f, Subtrees(t)) /\ delete(t, key) = f[t][key]
  <2>1. \E f : DeleteTo(f, Subtrees(t)) BY DeleteExists
  <2>2. delete(t, key) = (CHOOSE f : DeleteTo(f, Subtrees(t)))[t][key]
    BY DEF delete, DeleteTo, DeleteOf
  <2> QED BY <2>1, <2>2
<1> DEFINE X == {u \in Subtrees(t) : \A k \in Int : Deleted(u, f[u][k], k)}
<1>2. Whole(Subtrees(t)) /\ t \in Subtrees(t) /\ \A u \in Subtrees(t) : IsTree(u) BY SubtreesIs
<1>3. ASSUME NEW u \in Subtrees(t), NEW k \in Int
      PROVE  f[u][k] = DeleteOf(u, k, f[u.left][k], f[u.right][k], f[u.right][minValueNode(u.right).key])
  <2>1. PICK a, b, m : a = f[u.left] /\ b = f[u.right] /\ m = minValueNode(u.right).key OBVIOUS
  <2>2. f[u] = [j \in Int |-> DeleteOf(u, j, f[u.left][j], f[u.right][j], f[u.right][minValueNode(u.right).key])]
    BY <1>1, Zenon DEF DeleteTo
  <2>3. f[u] = [j \in Int |-> DeleteOf(u, j, a[j], b[j], b[m])] BY <2>1, <2>2
  <2>4. f[u][k] = DeleteOf(u, k, a[k], b[k], b[m]) BY <2>3
  <2> QED BY <2>1, <2>4
<1>4. Nil \in Subtrees(t) => Nil \in X
  <2>1. ASSUME Nil \in Subtrees(t), NEW k \in Int PROVE Deleted(Nil, f[Nil][k], k)
    <3>1. f[Nil][k] = Nil BY <1>3, <2>1 DEF DeleteOf
    <3>2. PICK v : v = Nil OBVIOUS
    <3>3. /\ IsTree(v) /\ Entries(v) = {} BY <3>2, NilIs, EntriesNil
    <3>4. Fresh(v, k) /\ Without(Entries(v), k) = Entries(v) BY <3>3 DEF Fresh, Without
    <3>5. Deleted(v, v, k) BY <3>3, <3>4 DEF Deleted
    <3> QED BY <3>1, <3>2, <3>5
  <2> QED BY <2>1
<1>5. ASSUME NEW u \in Subtrees(t), u # Nil, u.left \in X, u.right \in X PROVE u \in X
  <2>1. PICK h, i, l, r : h = u.key /\ i = u.itv /\ l = u.left /\ r = u.right OBVIOUS
  <2>2. h \in Int /\ IsTree(l) /\ IsTree(r) /\ u = Node(h, i, l, r) /\ IsNode(u)
    BY <1>2, <1>5, <2>1, TreeIs, NodeIs
  <2>3. ASSUME NEW k \in Int PROVE Deleted(l, f[l][k], k) /\ Deleted(r, f[r][k], k)
    BY <1>5, <2>1
  <2>4. ASSUME NEW k \in Int PROVE Deleted(u, f[u][k], k)
    <3>1. PICK a, b, c : a = f[l][k] /\ b = f[r][k] /\ c = f[r][minValueNode(r).key] OBVIOUS
    <3>2. f[u][k] = DeleteOf(u, k, a, b, c) BY <1>3, <2>1, <3>1
    <3>3. Deleted(l, a, k) /\ Deleted(r, b, k) BY <2>3, <3>1
    <3>4. CASE k < h
      <4>1. f[u][k] = BalanceDeleted(Node(h, i, a, r))
        BY <1>5, <2>1, <2>2, <3>2, <3>4, RebuildIs DEF DeleteOf
      <4> QED BY <2>2, <3>3, <3>4, <4>1, DeleteBelow
    <3>5. CASE k > h
      <4>1. ~ k < h BY <2>2, <3>5
      <4>2. f[u][k] = BalanceDeleted(Node(h, i, l, b))
        BY <1>5, <2>1, <2>2, <3>2, <3>5, <4>1, RebuildIs DEF DeleteOf
      <4> QED BY <2>2, <3>3, <3>5, <4>2, DeleteAbove
    <3>6. CASE k = h
      <4>1. ~ k < h /\ ~ k > h BY <2>2, <3>6
      <4>2. CASE l = Nil /\ r = Nil
        <5>1. f[u][k] = Nil BY <1>5, <2>1, <3>2, <3>6, <4>1, <4>2 DEF DeleteOf
        <5>2. Deleted(Node(k, i, Nil, Nil), Nil, k) BY DeleteLeaf
        <5> QED BY <2>2, <3>6, <4>2, <5>1, <5>2
      <4>3. CASE (l = Nil /\ r # Nil) \/ (l # Nil /\ r = Nil)
        <5>1. PICK up : up = IF l = Nil THEN r ELSE l OBVIOUS
        <5>2. up # Nil /\ ((l = Nil /\ up = r) \/ (r = Nil /\ up = l)) BY <4>3, <5>1
        <5>3. f[u][k] = BalanceDeleted(Rebuild(up, up.left, up.right))
          BY <1>5, <2>1, <3>2, <3>6, <4>1, <4>3, <5>1 DEF DeleteOf, OnlyChild, Replaced
        <5>4. Deleted(Node(k, i, l, r), BalanceDeleted(Rebuild(up, up.left, up.right)), k)
          BY <2>2, <5>2, DeleteOnly
        <5> QED BY <2>2, <3>6, <5>3, <5>4
      <4>4. CASE l # Nil /\ r # Nil
        <5>1. PICK m : m = minValueNode(r) OBVIOUS
        <5>2. Least(r, m) /\ m.key \in Int BY <2>2, <4>4, <5>1, MinIs DEF Least
        <5>3. Deleted(r, c, m.key) BY <2>3, <3>1, <5>1, <5>2
        <5>4. PICK kept : kept = [u EXCEPT !.key = m.key, !.itv = m.itv] OBVIOUS
        <5>5. IsNode(kept) /\ kept.key = m.key /\ kept.itv = m.itv BY <2>2, <5>4 DEF IsNode, Node
        <5>6. f[u][k] = BalanceDeleted(Rebuild(kept, l, c))
          BY <1>5, <2>1, <3>2, <3>6, <4>1, <4>4, <5>1, <5>4 DEF DeleteOf, Inherit
        <5>7. Rebuild(kept, l, c) = Node(m.key, m.itv, l, c) BY <5>5, RebuildIs
        <5>8. Deleted(Node(k, i, l, r), BalanceDeleted(Node(m.key, m.itv, l, c)), k)
          BY <2>2, <5>2, <5>3, DeleteHeir
        <5> QED BY <2>2, <3>6, <5>6, <5>7, <5>8
      <4> QED BY <4>2, <4>3, <4>4
    <3> QED BY <2>2, <3>4, <3>5, <3>6
  <2> QED BY <2>4
<1>6. Subtrees(t) \subseteq X
  <2> HIDE DEF X
  <2> QED BY <1>2, <1>4, <1>5, Induct
<1> QED BY <1>1, <1>2, <1>6

----------------------------------------------------------------------------
(* The freeing of a tree. *)

RestTo(f, t, h) == f = [n \in 0 .. h |-> IF n = 0 THEN t ELSE Uprooted(f[n - 1])]

LEMMA RestExists == ASSUME NEW t, NEW h \in Nat PROVE \E f : RestTo(f, t, h)
<1> DEFINE G == {k \in Nat : \E f : RestTo(f, t, k)}
<1>1. 0 \in G
  <2>1. RestTo([n \in 0 .. 0 |-> t], t, 0) BY DEF RestTo
  <2> QED BY <2>1
<1>2. ASSUME NEW k \in Nat, k \in G PROVE k + 1 \in G
  <2>1. PICK f : RestTo(f, t, k) BY <1>2
  <2>2. ASSUME NEW n \in 0 .. k PROVE f[n] = IF n = 0 THEN t ELSE Uprooted(f[n - 1])
    BY <2>1 DEF RestTo
  <2>3. PICK g : g = [n \in 0 .. k + 1 |-> IF n = k + 1 THEN Uprooted(f[k]) ELSE f[n]] OBVIOUS
  <2>4. ASSUME NEW n \in 0 .. k + 1 PROVE g[n] = IF n = 0 THEN t ELSE Uprooted(g[n - 1])
    <3>1. CASE n = k + 1
      <4>1. n # 0 /\ n - 1 = k /\ k \in 0 .. k + 1 /\ k # k + 1 BY <3>1
      <4>2. g[n - 1] = f[k] /\ g[n] = Uprooted(f[k]) BY <2>3, <3>1, <4>1
      <4> QED BY <4>1, <4>2
    <3>2. CASE n # k + 1
      <4>1. n \in 0 .. k /\ g[n] = f[n] BY <2>3, <3>2
      <4>2. n # 0 => n - 1 \in 0 .. k + 1 /\ n - 1 # k + 1 BY <4>1
      <4>3. n # 0 => g[n - 1] = f[n - 1] BY <2>3, <4>2
      <4> QED BY <2>2, <4>1, <4>3
    <3> QED BY <3>1, <3>2
  <2>5. g = [n \in 0 .. k + 1 |-> IF n = 0 THEN t ELSE Uprooted(g[n - 1])] BY <2>3, <2>4
  <2>6. RestTo(g, t, k + 1) BY <2>5 DEF RestTo
  <2> QED BY <2>6
<1>3. h \in G
  <2> HIDE DEF G
  <2> QED BY <1>1, <1>2, NatInduct
<1> QED BY <1>3

LEMMA UprootedIs ==
  ASSUME NEW t, IsTree(t), OrderedBy(t, 0), t # Nil
  PROVE  IsTree(Uprooted(t)) /\ OrderedBy(Uprooted(t), 0) /\ Count(Uprooted(t)) + 1 = Count(t)
<1>1. /\ t.key \in Int /\ IsTree(t.left) /\ IsTree(t.right)
      /\ t = Node(t.key, t.itv, t.left, t.right) BY TreeIs
<1>2. PICK e : e = <<t.key, t.itv>> OBVIOUS
<1>3. Entries(t) = Around(e, Entries(t.left), Entries(t.right)) BY <1>1, <1>2, EntriesNode
<1>4. e \in Entries(t) /\ e[1] = t.key BY <1>2, <1>3 DEF Around
<1>5. ~ Fresh(t, t.key) BY <1>4 DEF Fresh
<1>6. PICK s : s = Uprooted(t) OBVIOUS
<1>7. Deleted(t, s, t.key) BY <1>1, <1>6, DeleteIs DEF Uprooted
<1>8. IsTree(s) /\ OrderedBy(s, 0) /\ Count(s) + 1 = Count(t) BY <1>5, <1>7 DEF Deleted
<1> QED BY <1>6, <1>8

\* A tree without nodes is Nil.
LEMMA CountZero == ASSUME NEW t, IsTree(t), Count(t) = 0 PROVE t = Nil
<1> SUFFICES ASSUME t # Nil PROVE FALSE OBVIOUS
<1>1. /\ t.key \in Int /\ IsTree(t.left) /\ IsTree(t.right)
      /\ t = Node(t.key, t.itv, t.left, t.right) BY TreeIs
<1>2. Count(t) = 1 + Count(t.left) + Count(t.right) BY <1>1, CountNode
<1>3. Count(t.left) \in Nat /\ Count(t.right) \in Nat BY <1>1, CountTypes
<1> QED BY <1>2, <1>3

\* The rounds leave nothing.
LEMMA FreeIs == ASSUME NEW t, IsTree(t), OrderedBy(t, 0) PROVE free(t) = Nil
<1> DEFINE h == Count(t)
<1>1. h \in Nat BY CountTypes
<1>2. PICK f : RestTo(f, t, h) /\ free(t) = f[h]
  <2>1. \E f : RestTo(f, t, h) BY <1>1, RestExists
  <2>2. free(t) = (CHOOSE f : RestTo(f, t, h))[h] BY DEF free, RestTo
  <2> QED BY <2>1, <2>2
<1> DEFINE Left(n) == IsTree(f[n]) /\ OrderedBy(f[n], 0) /\ Count(f[n]) + n = h
           G == {n \in Nat : n <= h => Left(n)}
<1>3. 0 \in G
  <2>1. f[0] = t BY <1>1, <1>2 DEF RestTo
  <2>2. Count(t) + 0 = h BY <1>1
  <2> QED BY <2>1, <2>2
<1>4. ASSUME NEW n \in Nat, n \in G PROVE n + 1 \in G
  <2> SUFFICES ASSUME n + 1 <= h PROVE Left(n + 1) OBVIOUS
  <2> HIDE DEF h
  <2>1. n <= h /\ n + 1 \in 0 .. h /\ n + 1 # 0 /\ (n + 1) - 1 = n BY <1>1
  <2>2. f[n + 1] = Uprooted(f[n]) BY <1>2, <2>1 DEF RestTo
  <2>3. PICK s : s = f[n] OBVIOUS
  <2>4. IsTree(s) /\ OrderedBy(s, 0) /\ Count(s) + n = h BY <1>4, <2>1, <2>3
  <2>5. Count(s) \in Nat BY <2>4, CountTypes
  <2>6. s # Nil
    <3>1. Count(s) # 0 BY <1>1, <2>1, <2>4, <2>5
    <3> QED BY <3>1, CountTypes
  <2>7. IsTree(Uprooted(s)) /\ OrderedBy(Uprooted(s), 0) /\ Count(Uprooted(s)) + 1 = Count(s)
    BY <2>4, <2>6, UprootedIs
  <2>8. Count(Uprooted(s)) \in Nat BY <2>7, CountTypes
  <2> QED BY <1>1, <2>2, <2>3, <2>4, <2>5, <2>7, <2>8
<1>5. Left(h)
  <2>1. h \in G
    <3> HIDE DEF G, h
    <3> QED BY <1>1, <1>3, <1>4, NatInduct
  <2> QED BY <1>1, <2>1
<1>6. Count(f[h]) = 0
  <2>1. Count(f[h]) \in Nat BY <1>5, CountTypes
  <2> QED BY <1>1, <1>5, <2>1
<1> QED BY <1>2, <1>5, <1>6, CountZero

----------------------------------------------------------------------------
(* The searches. *)

OverlapOf(u, a, b, i) ==
  IF u = Nil THEN NoInterval
  ELSE IF if_intersects(u.itv, i) THEN u.itv
  ELSE CASE i.low_bound < u.key -> a
         [] i.low_bound > u.key -> b
         [] OTHER               -> NoInterval

OverlapTo(f, D, i) == f = [u \in D |-> OverlapOf(u, f[u.left], f[u.right], i)]

LEMMA OverlapExists == ASSUME NEW t, IsTree(t), NEW i PROVE \E f : OverlapTo(f, Subtrees(t), i)
<1> DEFINE D(n) == Lower(Subtrees(t), n)
           G == {n \in Nat : \E f : OverlapTo(f, D(n), i)}
<1>1. 0 \in G
  <2>1. D(0) = {} BY LowerIs
  <2>2. OverlapTo([u \in {} |-> 0], {}, i) BY DEF OverlapTo
  <2> QED BY <2>1, <2>2
<1>2. ASSUME NEW n \in Nat, n \in G PROVE n + 1 \in G
  <2>1. PICK f : OverlapTo(f, D(n), i) BY <1>2
  <2>2. D(n) \subseteq D(n + 1) BY LowerIs
  <2>3. \A u \in D(n + 1) : u # Nil => u.left \in D(n) /\ u.right \in D(n) BY LowerIs
  <2> HIDE DEF D
  <2>4. PICK g : g = [u \in D(n + 1) |-> IF u \in D(n) THEN f[u] ELSE OverlapOf(u, f[u.left], f[u.right], i)]
    OBVIOUS
  <2>5. ASSUME NEW u \in D(n + 1) PROVE g[u] = OverlapOf(u, g[u.left], g[u.right], i)
    <3>1. g[u] = OverlapOf(u, f[u.left], f[u.right], i) BY <2>1, <2>4 DEF OverlapTo
    <3>2. CASE u = Nil BY <3>1, <3>2 DEF OverlapOf
    <3>3. CASE u # Nil
      <4>1. g[u.left] = f[u.left] /\ g[u.right] = f[u.right] BY <2>2, <2>3, <2>4, <3>3
      <4> QED BY <3>1, <4>1
    <3> QED BY <3>2, <3>3
  <2>6. OverlapTo(g, D(n + 1), i) BY <2>4, <2>5 DEF OverlapTo
  <2> QED BY <2>6
<1>3. height(t) + 1 \in G
  <2> HIDE DEF G
  <2> QED BY <1>1, <1>2, NatInduct, LowerIs
<1> QED BY <1>3, LowerIs

\* What overlap_search reports is in the tree and meets the interval.
LEMMA OverlapIs ==
  ASSUME NEW t, IsTree(t), NEW i, i.low_bound \in Int
  PROVE  \/ overlap_search(t, i) = NoInterval
         \/ \E e \in Entries(t) : overlap_search(t, i) = e[2] /\ if_intersects(e[2], i)
<1>1. PICK f : OverlapTo(f, Subtrees(t), i) /\ overlap_search(t, i) = f[t]
  <2>1. \E f : OverlapTo(f, Subtrees(t), i) BY OverlapExists
  <2>2. overlap_search(t, i) = (CHOOSE f : OverlapTo(f, Subtrees(t), i))[t]
    BY DEF overlap_search, OverlapTo, OverlapOf
  <2> QED BY <2>1, <2>2
<1> DEFINE Stored(u, x) == x = NoInterval \/ \E e \in Entries(u) : x = e[2] /\ if_intersects(e[2], i)
           X == {u \in Subtrees(t) : Stored(u, f[u])}
<1>2. Whole(Subtrees(t)) /\ t \in Subtrees(t) /\ \A u \in Subtrees(t) : IsTree(u) BY SubtreesIs
<1>3. ASSUME NEW u \in Subtrees(t) PROVE f[u] = OverlapOf(u, f[u.left], f[u.right], i)
  BY <1>1 DEF OverlapTo
<1>4. Nil \in Subtrees(t) => Nil \in X
  <2>1. Nil \in Subtrees(t) => f[Nil] = NoInterval BY <1>3 DEF OverlapOf
  <2> QED BY <2>1
<1>5. ASSUME NEW u \in Subtrees(t), u # Nil, u.left \in X, u.right \in X PROVE u \in X
  <2>1. PICK k, j, l, r : k = u.key /\ j = u.itv /\ l = u.left /\ r = u.right OBVIOUS
  <2>2. k \in Int /\ IsTree(l) /\ IsTree(r) /\ u = Node(k, j, l, r) BY <1>2, <1>5, <2>1, TreeIs
  <2>3. Entries(u) = Around(<<k, j>>, Entries(l), Entries(r)) BY <2>2, EntriesNode
  <2>4. PICK a, b : a = f[l] /\ b = f[r] OBVIOUS
  <2>5. Stored(l, a) /\ Stored(r, b) BY <1>5, <2>1, <2>4
  <2>6. f[u] = OverlapOf(u, a, b, i) BY <1>3, <2>1, <2>4
  <2>7. f[u] = a \/ f[u] = b \/ f[u] = NoInterval \/ (f[u] = j /\ if_intersects(j, i))
    BY <1>5, <2>1, <2>2, <2>6 DEF OverlapOf
  <2>8. Stored(u, a) /\ Stored(u, b) BY <2>3, <2>5 DEF Around
  <2>9. if_intersects(j, i) => Stored(u, j)
    <3>1. <<k, j>> \in Entries(u) /\ <<k, j>>[2] = j BY <2>3 DEF Around
    <3> QED BY <3>1
  <2> HIDE DEF Stored
  <2> QED BY <2>7, <2>8, <2>9 DEF Stored
<1>6. Subtrees(t) \subseteq X
  <2> HIDE DEF X
  <2> QED BY <1>2, <1>4, <1>5, Induct
<1> QED BY <1>1, <1>2, <1>6

FoundOf(u, a, b, id) ==
  IF u = Nil THEN NoInterval
  ELSE IF id = u.key THEN u.itv
  ELSE CASE id < u.key -> a
         [] id > u.key -> b
         [] OTHER      -> NoInterval

FoundTo(f, D, id) == f = [u \in D |-> FoundOf(u, f[u.left], f[u.right], id)]

LEMMA FoundExists == ASSUME NEW t, IsTree(t), NEW id PROVE \E f : FoundTo(f, Subtrees(t), id)
<1> DEFINE D(n) == Lower(Subtrees(t), n)
           G == {n \in Nat : \E f : FoundTo(f, D(n), id)}
<1>1. 0 \in G
  <2>1. D(0) = {} BY LowerIs
  <2>2. FoundTo([u \in {} |-> 0], {}, id) BY DEF FoundTo
  <2> QED BY <2>1, <2>2
<1>2. ASSUME NEW n \in Nat, n \in G PROVE n + 1 \in G
  <2>1. PICK f : FoundTo(f, D(n), id) BY <1>2
  <2>2. D(n) \subseteq D(n + 1) BY LowerIs
  <2>3. \A u \in D(n + 1) : u # Nil => u.left \in D(n) /\ u.right \in D(n) BY LowerIs
  <2> HIDE DEF D
  <2>4. PICK g : g = [u \in D(n + 1) |-> IF u \in D(n) THEN f[u] ELSE FoundOf(u, f[u.left], f[u.right], id)]
    OBVIOUS
  <2>5. ASSUME NEW u \in D(n + 1) PROVE g[u] = FoundOf(u, g[u.left], g[u.right], id)
    <3>1. g[u] = FoundOf(u, f[u.left], f[u.right], id) BY <2>1, <2>4 DEF FoundTo
    <3>2. CASE u = Nil BY <3>1, <3>2 DEF FoundOf
    <3>3. CASE u # Nil
      <4>1. g[u.left] = f[u.left] /\ g[u.right] = f[u.right] BY <2>2, <2>3, <2>4, <3>3
      <4> QED BY <3>1, <4>1
    <3> QED BY <3>2, <3>3
  <2>6. FoundTo(g, D(n + 1), id) BY <2>4, <2>5 DEF FoundTo
  <2> QED BY <2>6
<1>3. height(t) + 1 \in G
  <2> HIDE DEF G
  <2> QED BY <1>1, <1>2, NatInduct, LowerIs
<1> QED BY <1>3, LowerIs

\* find_interval_from_notif finds an interval of the tree with the key, and one
\* where there is one.
LEMMA FoundIs ==
  ASSUME NEW t, IsTree(t), NEW id \in Int
  PROVE  /\ \/ find_interval_from_notif(t, id) = NoInterval
            \/ \E e \in Entries(t) : find_interval_from_notif(t, id) = e[2] /\ e[1] = id
         /\ OrderedBy(t, 0) /\ ~ Fresh(t, id) =>
              \E e \in Entries(t) : find_interval_from_notif(t, id) = e[2] /\ e[1] = id
<1>1. PICK f : FoundTo(f, Subtrees(t), id) /\ find_interval_from_notif(t, id) = f[t]
  <2>1. \E f : FoundTo(f, Subtrees(t), id) BY FoundExists
  <2>2. find_interval_from_notif(t, id) = (CHOOSE f : FoundTo(f, Subtrees(t), id))[t]
    BY DEF find_interval_from_notif, FoundTo, FoundOf
  <2> QED BY <2>1, <2>2
<1> DEFINE Keyed(u, x) == \E e \in Entries(u) : x = e[2] /\ e[1] = id
           Found(u, x) == /\ x = NoInterval \/ Keyed(u, x)
                          /\ OrderedBy(u, 0) /\ ~ Fresh(u, id) => Keyed(u, x)
           X == {u \in Subtrees(t) : Found(u, f[u])}
<1>2. Whole(Subtrees(t)) /\ t \in Subtrees(t) /\ \A u \in Subtrees(t) : IsTree(u) BY SubtreesIs
<1>3. ASSUME NEW u \in Subtrees(t) PROVE f[u] = FoundOf(u, f[u.left], f[u.right], id)
  BY <1>1 DEF FoundTo
<1>4. Nil \in Subtrees(t) => Nil \in X
  <2>1. Nil \in Subtrees(t) => f[Nil] = NoInterval BY <1>3 DEF FoundOf
  <2>2. Fresh(Nil, id) BY EntriesNil DEF Fresh
  <2> QED BY <2>1, <2>2
<1>5. ASSUME NEW u \in Subtrees(t), u # Nil, u.left \in X, u.right \in X PROVE u \in X
  <2>1. PICK k, j, l, r : k = u.key /\ j = u.itv /\ l = u.left /\ r = u.right OBVIOUS
  <2>2. k \in Int /\ IsTree(l) /\ IsTree(r) /\ u = Node(k, j, l, r) BY <1>2, <1>5, <2>1, TreeIs
  <2>3. Entries(u) = Around(<<k, j>>, Entries(l), Entries(r)) BY <2>2, EntriesNode
  <2>4. PICK a, b : a = f[l] /\ b = f[r] OBVIOUS
  <2>5. Found(l, a) /\ Found(r, b) BY <1>5, <2>1, <2>4
  <2>6. f[u] = FoundOf(u, a, b, id) BY <1>3, <2>1, <2>4
  <2>7. <<k, j>> \in Entries(u) /\ <<k, j>>[1] = k /\ <<k, j>>[2] = j BY <2>3 DEF Around
  <2>8. (\A x : Keyed(l, x) => Keyed(u, x)) /\ \A x : Keyed(r, x) => Keyed(u, x) BY <2>3 DEF Around
  <2>9. ~ Fresh(u, id) => k = id \/ ~ Fresh(l, id) \/ ~ Fresh(r, id) BY <2>3, <2>7 DEF Fresh, Around
  <2>10. OrderedBy(u, 0) => /\ OrderedBy(l, 0) /\ OrderedBy(r, 0)
                            /\ AllBelow(l, k) /\ AllAbove(r, k)
    <3>1. k - 0 = k /\ k + 0 = k BY <2>2
    <3> QED BY <2>2, <3>1, ShapeNode
  <2> HIDE DEF Keyed
  <2>11. CASE id = k
    <3>1. f[u] = j BY <1>5, <2>1, <2>2, <2>6, <2>11 DEF FoundOf
    <3>2. Keyed(u, j) BY <2>7, <2>11 DEF Keyed
    <3> QED BY <3>1, <3>2
  <2>12. CASE id < k
    <3>1. f[u] = a BY <1>5, <2>1, <2>2, <2>6, <2>12 DEF FoundOf
    <3>2. ASSUME OrderedBy(u, 0), NEW e \in Entries(r) PROVE e[1] # id
      <4>1. e[1] \in Int BY <2>2, EntriesKeys
      <4>2. k <= e[1] BY <2>10, <3>2 DEF AllAbove
      <4> QED BY <2>2, <2>12, <4>1, <4>2
    <3>3. OrderedBy(u, 0) => Fresh(r, id) BY <3>2 DEF Fresh
    <3>4. k # id BY <2>2, <2>12
    <3> QED BY <2>5, <2>8, <2>9, <2>10, <3>1, <3>3, <3>4
  <2>13. CASE id > k
    <3>1. f[u] = b BY <1>5, <2>1, <2>2, <2>6, <2>13 DEF FoundOf
    <3>2. ASSUME OrderedBy(u, 0), NEW e \in Entries(l) PROVE e[1] # id
      <4>1. e[1] \in Int BY <2>2, EntriesKeys
      <4>2. e[1] <= k BY <2>10, <3>2 DEF AllBelow
      <4> QED BY <2>2, <2>13, <4>1, <4>2
    <3>3. OrderedBy(u, 0) => Fresh(l, id) BY <3>2 DEF Fresh
    <3>4. k # id BY <2>2, <2>13
    <3> QED BY <2>5, <2>8, <2>9, <2>10, <3>1, <3>3, <3>4
  <2> QED BY <2>2, <2>11, <2>12, <2>13
<1>6. Subtrees(t) \subseteq X
  <2> HIDE DEF X
  <2> QED BY <1>2, <1>4, <1>5, Induct
<1> QED BY <1>1, <1>2, <1>6

----------------------------------------------------------------------------
(* What the trees are to the properties of IntervalTree and NotifTrees. *)

LEMMA ItemsAre == ASSUME NEW t, NEW x PROVE x \in Items(t) <=> \E e \in Entries(t) : e[2] = x
<1>1. ASSUME NEW n PROVE <<n.key, n.itv>>[2] = n.itv OBVIOUS
<1> QED BY <1>1 DEF Items, Entries

LEMMA SortedIs == ASSUME NEW t, IsTree(t), OrderedBy(t, 0) PROVE Sorted(t)
<1> SUFFICES ASSUME NEW n \in Nodes(t)
             PROVE  (\A l \in Nodes(n.left) : l.key <= n.key) /\ \A r \in Nodes(n.right) : r.key >= n.key
  BY DEF Sorted
<1>1. n \in Subtrees(t) /\ n # Nil BY DEF Nodes
<1>2. IsTree(n) BY <1>1, SubtreesIs
<1>3. n.key \in Int /\ IsTree(n.left) /\ IsTree(n.right) BY <1>1, <1>2, TreeIs
<1>4. AllBelow(n.left, n.key) /\ AllAbove(n.right, n.key)
  <2>1. n.key - 0 = n.key /\ n.key + 0 = n.key BY <1>3
  <2> QED BY <2>1 DEF OrderedBy
<1>5. ASSUME NEW l \in Nodes(n.left) PROVE l.key <= n.key
  <2>1. <<l.key, l.itv>> \in Entries(n.left) /\ <<l.key, l.itv>>[1] = l.key BY DEF Entries
  <2> QED BY <1>4, <2>1 DEF AllBelow
<1>6. ASSUME NEW r \in Nodes(n.right) PROVE r.key >= n.key
  <2>1. <<r.key, r.itv>> \in Entries(n.right) /\ <<r.key, r.itv>>[1] = r.key BY DEF Entries
  <2>2. n.key <= r.key BY <1>4, <2>1 DEF AllAbove
  <2>3. r.key \in Int
    <3>1. r \in Subtrees(n.right) /\ r # Nil BY DEF Nodes
    <3>2. IsTree(r) BY <1>3, <3>1, SubtreesIs
    <3> QED BY <3>1, <3>2, TreeIs
  <2> QED BY <1>3, <2>2, <2>3
<1> QED BY <1>5, <1>6

LEMMA MeasuredIs == ASSUME NEW t, IsTree(t) PROVE Measured(t)
<1>1. ASSUME NEW n \in Nodes(t) PROVE n.height = 1 + Taller(n.left, n.right)
  <2>1. n \in Subtrees(t) /\ n # Nil BY DEF Nodes
  <2>2. Whole(Subtrees(t)) BY SubtreesIs
  <2>3. height(n) = 1 + Taller(n.left, n.right) BY <2>1, <2>2, Heights
  <2> QED BY <2>3 DEF height
<1> QED BY <1>1 DEF Measured

LEMMA ConflictsBothWays ==
  ASSUME NEW i, NEW j, i.low_bound \in Int, i.up_bound \in Int, j.low_bound \in Int, j.up_bound \in Int,
         if_intersects(i, j)
  PROVE  if_intersects(j, i)
<1>1. \A x, y : BitMax(x, y) = BitMax(y, x) BY DEF BitMax
<1>2. BitOr(i.access_type, j.access_type) = BitOr(j.access_type, i.access_type) BY <1>1 DEF BitOr
<1>3. check_access_rights(j, i) BY <1>2 DEF if_intersects, check_access_rights
<1>4. ~ (i.low_bound > j.up_bound \/ i.up_bound < j.low_bound) BY DEF if_intersects
<1>5. ~ (j.low_bound > i.up_bound \/ j.up_bound < i.low_bound) BY <1>4
<1> QED BY <1>3, <1>5 DEF if_intersects

LEMMA ItvsTypes ==
  ASSUME NEW i \in Itvs
  PROVE  /\ i.low_bound \in Int /\ i.up_bound \in Int /\ i.notification_id \in Int
         /\ i # NoInterval
<1>1. i.low_bound \in Addr /\ i.up_bound \in Addr /\ i.notification_id \in Int
  BY ItvsAssumption, IdsAssumption
<1>2. i.low_bound \in Int /\ i.up_bound \in Int /\ i.low_bound # -1
  BY <1>1, AddrSpaceAssumption DEF Addr
<1>3. NoInterval.low_bound = -1 BY DEF NoInterval
<1> QED BY <1>1, <1>2, <1>3

\* The search reports an interval or none.
LEMMA OverlapStored ==
  ASSUME NEW t, IsTree(t), \A e \in Entries(t) : e[2] \in Itvs, NEW i \in Itvs
  PROVE  overlap_search(t, i) # NoInterval => \E e \in Entries(t) : if_intersects(e[2], i)
BY OverlapIs, ItvsTypes

----------------------------------------------------------------------------
(* The two trees and the list, whatever the bounds and the IDs are. *)

BoundEntries(t) == \A e \in Entries(t) : e[2] \in Itvs /\ e[1] = e[2].low_bound

IdEntries(t) ==
  \A e \in Entries(t) : e[2] \in Itvs /\ Notified(e[2]) /\ e[1] = e[2].notification_id

LocalInv ==
  /\ IsTree(local_tree) /\ OrderedBy(local_tree, 0) /\ BoundEntries(local_tree)
  /\ saved \subseteq Itvs /\ race \in BOOLEAN

NotifInv == IsTree(notif_tree) /\ OrderedBy(notif_tree, 0) /\ IdEntries(notif_tree)

ListInv ==
  /\ local_list \subseteq Itvs /\ list_race \in BOOLEAN
  /\ list_race \/ \A e \in Entries(local_tree) : e[2] \in local_list
  /\ race => list_race

TreesInv == LocalInv /\ NotifInv /\ ListInv

LEMMA InitTrees == NotifInit => TreesInv
<1> SUFFICES ASSUME NotifInit PROVE TreesInv OBVIOUS
<1>1. /\ local_tree = Nil /\ saved = {} /\ race = FALSE /\ local_list = {} /\ list_race = FALSE
      /\ notif_tree = Nil BY DEF NotifInit, TreeInit
<1>2. IsTree(Nil) /\ OrderedBy(Nil, 0) /\ Entries(Nil) = {} BY NilIs, ShapeNil, EntriesNil
<1>3. IsTree(local_tree) /\ OrderedBy(local_tree, 0) /\ Entries(local_tree) = {} BY <1>1, <1>2
<1>4. IsTree(notif_tree) /\ OrderedBy(notif_tree, 0) /\ Entries(notif_tree) = {} BY <1>1, <1>2
<1>5. LocalInv BY <1>1, <1>3 DEF LocalInv, BoundEntries
<1>6. NotifInv BY <1>4 DEF NotifInv, IdEntries
<1>7. ListInv BY <1>1, <1>3 DEF ListInv
<1> QED BY <1>5, <1>6, <1>7 DEF TreesInv

\* A tree with an interval more is a search tree still.
LEMMA InsertKeeps ==
  ASSUME NEW t, IsTree(t), OrderedBy(t, 0), NEW key \in Int, NEW i
  PROVE  /\ IsTree(insert(t, key, i)) /\ OrderedBy(insert(t, key, i), 0)
         /\ \A e : e \in Entries(insert(t, key, i)) <=> e \in Entries(t) \/ e = <<key, i>>
<1>1. PICK s : s = insert(t, key, i) OBVIOUS
<1>2. Inserted(t, s, key, i) BY <1>1, InsertIs
<1>3. IsTree(s) /\ OrderedBy(s, 0) BY <1>2 DEF Inserted
<1>4. Entries(s) = With(Entries(t), <<key, i>>) BY <1>2 DEF Inserted, With
<1>5. \A e : e \in Entries(s) <=> e \in Entries(t) \/ e = <<key, i>> BY <1>4 DEF With
<1> QED BY <1>1, <1>3, <1>5

LEMMA DeleteKeeps ==
  ASSUME NEW t, IsTree(t), OrderedBy(t, 0), NEW key \in Int
  PROVE  /\ IsTree(delete(t, key)) /\ OrderedBy(delete(t, key), 0)
         /\ \A e : e \in Entries(delete(t, key)) => e \in Entries(t)
BY DeleteIs DEF Deleted

LEMMA SaveStep ==
  ASSUME TreesInv, NEW i \in Itvs, save_notified(i) PROVE TreesInv'
<1>1. /\ IsTree(local_tree) /\ OrderedBy(local_tree, 0) /\ BoundEntries(local_tree)
      /\ saved \subseteq Itvs /\ race \in BOOLEAN BY DEF TreesInv, LocalInv
<1>2. IsTree(notif_tree) /\ OrderedBy(notif_tree, 0) /\ IdEntries(notif_tree)
  BY DEF TreesInv, NotifInv
<1>3. /\ local_list \subseteq Itvs /\ list_race \in BOOLEAN /\ (race => list_race)
      /\ (list_race \/ \A e \in Entries(local_tree) : e[2] \in local_list)
  BY DEF TreesInv, ListInv
<1>4. i.low_bound \in Int /\ i.up_bound \in Int /\ i.notification_id \in Int BY ItvsTypes
<1>5. ~ race /\ i \notin saved /\ save_in_tree(i) /\ save_in_list(i) BY DEF save_notified, save_interval
<1>6. \/ race' = TRUE /\ local_tree' = local_tree /\ saved' = saved
         /\ \E e \in Entries(local_tree) : if_intersects(e[2], i)
      \/ race' = race /\ saved' = saved \union {i} /\ local_tree' = insert(local_tree, i.low_bound, i)
  <2>1. CASE overlap_search(local_tree, i) # NoInterval
    <3>1. race' = TRUE /\ local_tree' = local_tree /\ saved' = saved BY <1>5, <2>1 DEF save_in_tree
    <3>2. \A e \in Entries(local_tree) : e[2] \in Itvs BY <1>1 DEF BoundEntries
    <3> QED BY <1>1, <2>1, <3>1, <3>2, OverlapStored
  <2>2. CASE overlap_search(local_tree, i) = NoInterval BY <1>5, <2>2 DEF save_in_tree
  <2> QED BY <2>1, <2>2
<1>7. LocalInv'
  <2>1. CASE race' = TRUE /\ local_tree' = local_tree /\ saved' = saved
    BY <1>1, <2>1 DEF LocalInv, BoundEntries
  <2>2. CASE race' = race /\ saved' = saved \union {i} /\ local_tree' = insert(local_tree, i.low_bound, i)
    <3>1. PICK s : s = insert(local_tree, i.low_bound, i) OBVIOUS
    <3>2. /\ IsTree(s) /\ OrderedBy(s, 0)
          /\ \A e : e \in Entries(s) <=> e \in Entries(local_tree) \/ e = <<i.low_bound, i>>
      BY <1>1, <1>4, <3>1, InsertKeeps
    <3>3. <<i.low_bound, i>>[1] = i.low_bound /\ <<i.low_bound, i>>[2] = i OBVIOUS
    <3>4. BoundEntries(s) BY <1>1, <3>2, <3>3 DEF BoundEntries
    <3>5. local_tree' = s BY <2>2, <3>1
    <3> QED BY <1>1, <2>2, <3>2, <3>4, <3>5 DEF LocalInv, BoundEntries
  <2> QED BY <1>6, <2>1, <2>2
<1>8. NotifInv'
  <2>1. CASE notif_tree' = notif_tree BY <1>2, <2>1 DEF NotifInv, IdEntries
  <2>2. CASE Notified(i) /\ notif_tree' = insert_notif_tree(notif_tree, i)
    <3>1. PICK s : s = insert_notif_tree(notif_tree, i) OBVIOUS
    <3>2. /\ IsTree(s) /\ OrderedBy(s, 0)
          /\ \A e : e \in Entries(s) <=> e \in Entries(notif_tree) \/ e = <<i.notification_id, i>>
      BY <1>2, <1>4, <3>1, InsertKeeps DEF insert_notif_tree
    <3>3. <<i.notification_id, i>>[1] = i.notification_id /\ <<i.notification_id, i>>[2] = i OBVIOUS
    <3>4. IdEntries(s) BY <1>2, <2>2, <3>2, <3>3 DEF IdEntries
    <3>5. notif_tree' = s BY <2>2, <3>1
    <3> QED BY <3>2, <3>4, <3>5 DEF NotifInv, IdEntries
  <2> QED BY <2>1, <2>2 DEF save_notified
<1>9. ListInv'
  <2>1. CASE list_race
    <3>1. list_race' = list_race /\ local_list' = local_list BY <1>5, <2>1 DEF save_in_list
    <3> QED BY <1>3, <2>1, <3>1 DEF ListInv
  <2>2. CASE ~ list_race /\ if_intersects_interval_list(i, local_list)
    <3>1. list_race' = TRUE /\ local_list' = local_list BY <1>5, <2>2 DEF save_in_list
    <3> QED BY <1>3, <3>1 DEF ListInv
  <2>3. CASE ~ list_race /\ ~ if_intersects_interval_list(i, local_list)
    <3>1. list_race' = list_race /\ local_list' = local_list \union {i}
      BY <1>5, <2>3 DEF save_in_list, insert_interval_head
    <3>2. \A e \in Entries(local_tree) : e[2] \in local_list BY <1>3, <2>3
    <3>3. ASSUME NEW e \in Entries(local_tree), if_intersects(e[2], i) PROVE FALSE
      <4>1. e[2] \in Itvs BY <1>1, <3>3 DEF BoundEntries
      <4>2. e[2].low_bound \in Int /\ e[2].up_bound \in Int BY <4>1, ItvsTypes
      <4>3. PICK j : j = e[2] OBVIOUS
      <4>4. if_intersects(i, j) BY <1>4, <3>3, <4>2, <4>3, ConflictsBothWays
      <4> QED BY <2>3, <3>2, <4>3, <4>4 DEF if_intersects_interval_list
    <3>4. race' = race /\ local_tree' = insert(local_tree, i.low_bound, i) BY <1>6, <3>3
    <3>5. PICK s : s = insert(local_tree, i.low_bound, i) OBVIOUS
    <3>6. \A e \in Entries(s) : e[2] \in local_list \union {i}
      <4>1. \A e : e \in Entries(s) <=> e \in Entries(local_tree) \/ e = <<i.low_bound, i>>
        BY <1>1, <1>4, <3>5, InsertKeeps
      <4>2. <<i.low_bound, i>>[2] = i OBVIOUS
      <4> QED BY <3>2, <4>1, <4>2
    <3>7. local_tree' = s BY <3>4, <3>5
    <3>8. \A e \in Entries(local_tree') : e[2] \in local_list' BY <3>1, <3>6, <3>7
    <3> QED BY <1>3, <1>5, <3>1, <3>4, <3>8 DEF ListInv
  <2> QED BY <1>3, <2>1, <2>2, <2>3
<1> QED BY <1>7, <1>8, <1>9 DEF TreesInv

LEMMA ClearNotifStep ==
  ASSUME TreesInv, NEW id \in Int, clear_from_notif_id(id) PROVE TreesInv'
<1>1. /\ IsTree(local_tree) /\ OrderedBy(local_tree, 0) /\ BoundEntries(local_tree)
      /\ saved \subseteq Itvs /\ race \in BOOLEAN BY DEF TreesInv, LocalInv
<1>2. IsTree(notif_tree) /\ OrderedBy(notif_tree, 0) /\ IdEntries(notif_tree)
  BY DEF TreesInv, NotifInv
<1>3. PICK i : i = find_interval_from_notif(notif_tree, id) OBVIOUS
<1>4. i # NoInterval /\ delete_interval(i) /\ notif_tree' = delete(notif_tree, id)
  BY <1>3 DEF clear_from_notif_id, delete_notif_tree
<1>5. i \in Itvs
  <2>1. PICK e \in Entries(notif_tree) : i = e[2] BY <1>2, <1>3, <1>4, FoundIs
  <2> QED BY <1>2, <2>1 DEF IdEntries
<1>6. i.low_bound \in Int BY <1>5, ItvsTypes
<1>7. /\ local_tree' = delete(local_tree, i.low_bound) /\ saved' = saved \ {i} /\ race' = race
      /\ local_list' = local_list /\ list_race' = list_race BY <1>4 DEF delete_interval
<1>8. PICK s : s = delete(local_tree, i.low_bound) OBVIOUS
<1>9. IsTree(s) /\ OrderedBy(s, 0) /\ \A e : e \in Entries(s) => e \in Entries(local_tree)
  BY <1>1, <1>6, <1>8, DeleteKeeps
<1>10. PICK q : q = delete(notif_tree, id) OBVIOUS
<1>11. IsTree(q) /\ OrderedBy(q, 0) /\ \A e : e \in Entries(q) => e \in Entries(notif_tree)
  BY <1>2, <1>10, DeleteKeeps
<1>12. BoundEntries(s) /\ IdEntries(q) BY <1>1, <1>2, <1>9, <1>11 DEF BoundEntries, IdEntries
<1>13. local_tree' = s /\ notif_tree' = q BY <1>4, <1>7, <1>8, <1>10
<1>14. LocalInv' BY <1>1, <1>7, <1>9, <1>12, <1>13 DEF LocalInv, BoundEntries
<1>15. NotifInv' BY <1>11, <1>12, <1>13 DEF NotifInv, IdEntries
<1>16. ListInv'
  <2>1. ListInv BY DEF TreesInv
  <2> QED BY <1>7, <1>9, <1>13, <2>1 DEF ListInv
<1> QED BY <1>14, <1>15, <1>16 DEF TreesInv

LEMMA ClearTreesStep == ASSUME TreesInv, clear_trees PROVE TreesInv'
<1>1. IsTree(local_tree) /\ OrderedBy(local_tree, 0) /\ race \in BOOLEAN BY DEF TreesInv, LocalInv
<1>2. IsTree(notif_tree) /\ OrderedBy(notif_tree, 0) BY DEF TreesInv, NotifInv
<1>3. /\ local_tree' = Nil /\ notif_tree' = Nil
  BY <1>1, <1>2, FreeIs DEF clear_trees, free_stores
<1>4. saved' = {} /\ local_list' = {} /\ race' = race /\ list_race' = list_race
  BY DEF clear_trees, free_stores, free_interval_list
<1>5. IsTree(Nil) /\ OrderedBy(Nil, 0) /\ Entries(Nil) = {} BY NilIs, ShapeNil, EntriesNil
<1>6. PICK v : v = Nil OBVIOUS
<1>7. IsTree(v) /\ OrderedBy(v, 0) /\ Entries(v) = {} /\ local_tree' = v /\ notif_tree' = v
  BY <1>3, <1>5, <1>6
<1>8. LocalInv' BY <1>1, <1>4, <1>7 DEF LocalInv, BoundEntries
<1>9. NotifInv' BY <1>7 DEF NotifInv, IdEntries
<1>10. ListInv'
  <2>1. ListInv BY DEF TreesInv
  <2> QED BY <1>4, <1>7, <2>1 DEF ListInv
<1> QED BY <1>8, <1>9, <1>10 DEF TreesInv

LEMMA TreesInvCorrect == NotifSpec => []TreesInv
<1>1. NotifInit => TreesInv BY InitTrees
<1>2. TreesInv /\ [NotifNext]_notifVars => TreesInv'
  <2> SUFFICES ASSUME TreesInv, [NotifNext]_notifVars PROVE TreesInv' OBVIOUS
  <2>1. CASE clear_trees BY <2>1, ClearTreesStep
  <2>2. ASSUME NEW i \in Itvs, save_notified(i) PROVE TreesInv' BY <2>2, SaveStep
  <2>3. ASSUME NEW i \in Itvs, clear_from_notif_id(i.notification_id) PROVE TreesInv'
    <3>1. i.notification_id \in Int BY ItvsTypes
    <3> QED BY <2>3, <3>1, ClearNotifStep
  <2>4. CASE UNCHANGED notifVars
    BY <2>4 DEF notifVars, TreesInv, LocalInv, NotifInv, ListInv, BoundEntries, IdEntries
  <2> QED BY <2>1, <2>2, <2>3, <2>4 DEF NotifNext
<1> QED BY <1>1, <1>2, PTL DEF NotifSpec

\* What the two trees and the list hold are intervals of the program's accesses:
\* the rotations and the replacement of a deleted node keep them whole
\* (interval_avl_tree.c, interval_list.c).
THEOREM StoresHoldIntervals == NotifSpec => []TreeTypeOK
<1>1. TreesInv => TreeTypeOK
  <2> SUFFICES ASSUME TreesInv PROVE TreeTypeOK OBVIOUS
  <2>1. Items(local_tree) \subseteq Itvs BY ItemsAre DEF TreesInv, LocalInv, BoundEntries
  <2> QED BY <2>1 DEF TreesInv, LocalInv, ListInv, TreeTypeOK
<1> QED BY <1>1, TreesInvCorrect, PTL

\* Whatever the bounds and the IDs, equal ones included, insertions, deletions
\* and rotations leave search trees behind whose nodes know their heights.
THEOREM TreesStayOrdered ==
  NotifSpec => [](/\ Sorted(local_tree) /\ Measured(local_tree)
                  /\ Sorted(notif_tree) /\ Measured(notif_tree))
<1>1. TreesInv => /\ Sorted(local_tree) /\ Measured(local_tree)
                  /\ Sorted(notif_tree) /\ Measured(notif_tree)
  BY SortedIs, MeasuredIs DEF TreesInv, LocalInv, NotifInv
<1> QED BY <1>1, TreesInvCorrect, PTL

\* A race the build with the tree reports is one the build with the list has
\* reported, for what the tree stores the list stores as well.
THEOREM ListBuildReportsAll == NotifSpec => []ListReportsAll
<1>1. TreesInv => ListReportsAll
  <2> SUFFICES ASSUME TreesInv PROVE ListReportsAll OBVIOUS
  <2>1. ListInv BY DEF TreesInv
  <2>2. list_race \/ Items(local_tree) \subseteq local_list BY <2>1, ItemsAre DEF ListInv
  <2> QED BY <2>1, <2>2 DEF ListReportsAll, ListInv
<1> QED BY <1>1, TreesInvCorrect, PTL

----------------------------------------------------------------------------
(* The two trees where every key names one node. *)

ByBound(S) == {<<j.low_bound, j>> : j \in S}
ById(S)    == {<<j.notification_id, j>> : j \in {s \in S : Notified(s)}}

LEMMA ByKeys ==
  ASSUME NEW S, NEW e
  PROVE  /\ e \in ByBound(S) <=> \E j \in S : e = <<j.low_bound, j>>
         /\ e \in ById(S) <=> \E j \in S : Notified(j) /\ e = <<j.notification_id, j>>
BY DEF ByBound, ById

\* Balanced search trees without equal keys that hold what is saved, and what of
\* it waits for a notification.
ApartInv ==
  /\ OrderedBy(local_tree, 1) /\ Balanced(local_tree)
  /\ Entries(local_tree) = ByBound(saved)
  /\ OrderedBy(notif_tree, 1) /\ Balanced(notif_tree)
  /\ Entries(notif_tree) = ById(saved)

LEMMA InitApart == NotifInit => ApartInv
<1> SUFFICES ASSUME NotifInit PROVE ApartInv OBVIOUS
<1>1. local_tree = Nil /\ saved = {} /\ notif_tree = Nil BY DEF NotifInit, TreeInit
<1>2. PICK v : v = Nil OBVIOUS
<1>3. OrderedBy(v, 1) /\ Balanced(v) /\ Entries(v) = {} BY <1>2, ShapeNil, EntriesNil
<1>4. ByBound({}) = {} /\ ById({}) = {} BY DEF ByBound, ById
<1> QED BY <1>1, <1>2, <1>3, <1>4 DEF ApartInv

\* Inserting and deleting where keys are apart.
LEMMA InsertApart ==
  ASSUME NEW t, IsTree(t), OrderedBy(t, 1), Balanced(t), NEW key \in Int, NEW i, Fresh(t, key)
  PROVE  /\ OrderedBy(insert(t, key, i), 1) /\ Balanced(insert(t, key, i))
         /\ \A e : e \in Entries(insert(t, key, i)) <=> e \in Entries(t) \/ e = <<key, i>>
<1>1. PICK s : s = insert(t, key, i) OBVIOUS
<1>2. Inserted(t, s, key, i) BY <1>1, InsertIs
<1>3. OrderedBy(s, 1) /\ Balanced(s) BY <1>2 DEF Inserted
<1>4. Entries(s) = With(Entries(t), <<key, i>>) BY <1>2 DEF Inserted, With
<1>5. \A e : e \in Entries(s) <=> e \in Entries(t) \/ e = <<key, i>> BY <1>4 DEF With
<1> QED BY <1>1, <1>3, <1>5

LEMMA DeleteApart ==
  ASSUME NEW t, IsTree(t), OrderedBy(t, 1), Balanced(t), NEW key \in Int
  PROVE  /\ OrderedBy(delete(t, key), 1) /\ Balanced(delete(t, key))
         /\ \A e : e \in Entries(delete(t, key)) <=> e \in Entries(t) /\ e[1] # key
<1>1. PICK s : s = delete(t, key) OBVIOUS
<1>2. Deleted(t, s, key) BY <1>1, DeleteIs
<1>3. OrderedBy(s, 1) /\ Balanced(s) BY <1>2 DEF Deleted
<1>4. Entries(s) = Without(Entries(t), key) BY <1>2 DEF Deleted
<1>5. \A e : e \in Entries(s) <=> e \in Entries(t) /\ e[1] # key BY <1>4 DEF Without
<1> QED BY <1>1, <1>3, <1>5

\* What a save does, and to which entries.
LEMMA SaveApart ==
  ASSUME TreesInv, ApartInv, Apart', NEW i \in Itvs, save_notified(i) PROVE ApartInv'
<1>1. IsTree(local_tree) /\ IsTree(notif_tree) BY DEF TreesInv, LocalInv, NotifInv
<1>2. /\ OrderedBy(local_tree, 1) /\ Balanced(local_tree)
      /\ OrderedBy(notif_tree, 1) /\ Balanced(notif_tree)
      /\ Entries(local_tree) = ByBound(saved) /\ Entries(notif_tree) = ById(saved)
  BY DEF ApartInv
<1>3. i.low_bound \in Int /\ i.notification_id \in Int BY ItvsTypes
<1>4. ~ race /\ i \notin saved /\ save_in_tree(i)
      /\ notif_tree' = IF Notified(i) /\ ~ race' THEN insert_notif_tree(notif_tree, i) ELSE notif_tree
  BY DEF save_notified, save_interval
<1>5. CASE overlap_search(local_tree, i) # NoInterval
  <2>1. race' = TRUE /\ local_tree' = local_tree /\ saved' = saved BY <1>4, <1>5 DEF save_in_tree
  <2>2. notif_tree' = notif_tree BY <1>4, <2>1
  <2> QED BY <1>2, <2>1, <2>2 DEF ApartInv
<1>6. CASE overlap_search(local_tree, i) = NoInterval
  <2>1. race' = race /\ saved' = saved \union {i} /\ local_tree' = insert(local_tree, i.low_bound, i)
    BY <1>4, <1>6 DEF save_in_tree
  <2>2. PICK S : S = saved' OBVIOUS
  <2>3. \A j : j \in S <=> j \in saved \/ j = i BY <2>1, <2>2
  <2>4. /\ \A j \in saved : j.low_bound # i.low_bound
        /\ Notified(i) => \A j \in saved : Notified(j) => j.notification_id # i.notification_id
    BY <1>4, <2>2, <2>3 DEF Apart, BoundsApart, IdsApart
  <2>5. Fresh(local_tree, i.low_bound)
    <3>1. ASSUME NEW e \in Entries(local_tree) PROVE e[1] # i.low_bound
      <4>1. PICK j \in saved : e = <<j.low_bound, j>> BY <1>2, ByKeys
      <4>2. e[1] = j.low_bound BY <4>1
      <4> QED BY <2>4, <4>2
    <3> QED BY <3>1 DEF Fresh
  <2>6. PICK s : s = insert(local_tree, i.low_bound, i) OBVIOUS
  <2>7. /\ OrderedBy(s, 1) /\ Balanced(s)
        /\ \A e : e \in Entries(s) <=> e \in Entries(local_tree) \/ e = <<i.low_bound, i>>
    BY <1>1, <1>2, <1>3, <2>5, <2>6, InsertApart
  <2>8. Entries(s) = ByBound(S)
    <3>1. ASSUME NEW e PROVE e \in Entries(s) <=> e \in ByBound(S) BY <1>2, <2>3, <2>7, ByKeys
    <3> QED BY <3>1
  <2>9. local_tree' = s BY <2>1, <2>6
  <2>10. CASE Notified(i)
    <3>1. Fresh(notif_tree, i.notification_id)
      <4>1. ASSUME NEW e \in Entries(notif_tree) PROVE e[1] # i.notification_id
        <5>1. PICK j \in saved : Notified(j) /\ e = <<j.notification_id, j>> BY <1>2, ByKeys
        <5>2. e[1] = j.notification_id BY <5>1
        <5> QED BY <2>4, <2>10, <5>1, <5>2
      <4> QED BY <4>1 DEF Fresh
    <3>2. PICK q : q = insert(notif_tree, i.notification_id, i) OBVIOUS
    <3>3. /\ OrderedBy(q, 1) /\ Balanced(q)
          /\ \A e : e \in Entries(q) <=> e \in Entries(notif_tree) \/ e = <<i.notification_id, i>>
      BY <1>1, <1>2, <1>3, <3>1, <3>2, InsertApart
    <3>4. Entries(q) = ById(S)
      <4>1. ASSUME NEW e PROVE e \in Entries(q) <=> e \in ById(S)
        BY <1>2, <2>3, <2>10, <3>3, ByKeys
      <4> QED BY <4>1
    <3>5. notif_tree' = q BY <1>4, <2>1, <2>10, <3>2 DEF insert_notif_tree
    <3> QED BY <2>2, <2>7, <2>8, <2>9, <3>3, <3>4, <3>5 DEF ApartInv
  <2>11. CASE ~ Notified(i)
    <3>1. ById(S) = ById(saved)
      <4>1. ASSUME NEW e PROVE e \in ById(S) <=> e \in ById(saved) BY <2>3, <2>11, ByKeys
      <4> QED BY <4>1
    <3>2. notif_tree' = notif_tree BY <1>4, <2>11
    <3> QED BY <1>2, <2>2, <2>7, <2>8, <2>9, <3>1, <3>2 DEF ApartInv
  <2> QED BY <2>10, <2>11
<1> QED BY <1>5, <1>6

\* The interval a wait finds is one that is saved, and the only one to go.
LEMMA WaitFinds ==
  ASSUME TreesInv, ApartInv, NEW id \in Int, clear_from_notif_id(id)
  PROVE  \E i \in saved : /\ Notified(i) /\ i.notification_id = id
                          /\ delete_interval(i) /\ notif_tree' = delete(notif_tree, id)
<1>1. IsTree(notif_tree) BY DEF TreesInv, NotifInv
<1>2. PICK i : i = find_interval_from_notif(notif_tree, id) OBVIOUS
<1>3. i # NoInterval /\ delete_interval(i) /\ notif_tree' = delete(notif_tree, id)
  BY <1>2 DEF clear_from_notif_id, delete_notif_tree
<1>4. PICK e \in Entries(notif_tree) : i = e[2] /\ e[1] = id BY <1>1, <1>2, <1>3, FoundIs
<1>5. PICK j \in saved : Notified(j) /\ e = <<j.notification_id, j>> BY <1>4, ByKeys DEF ApartInv
<1>6. e[1] = j.notification_id /\ e[2] = j BY <1>5
<1> QED BY <1>3, <1>4, <1>5, <1>6

LEMMA ClearNotifApart ==
  ASSUME TreesInv, ApartInv, Apart, NEW id \in Int, clear_from_notif_id(id) PROVE ApartInv'
<1>1. IsTree(local_tree) /\ IsTree(notif_tree) /\ saved \subseteq Itvs
  BY DEF TreesInv, LocalInv, NotifInv
<1>2. /\ OrderedBy(local_tree, 1) /\ Balanced(local_tree)
      /\ OrderedBy(notif_tree, 1) /\ Balanced(notif_tree)
      /\ Entries(local_tree) = ByBound(saved) /\ Entries(notif_tree) = ById(saved)
  BY DEF ApartInv
<1>3. PICK i \in saved : /\ Notified(i) /\ i.notification_id = id
                         /\ delete_interval(i) /\ notif_tree' = delete(notif_tree, id)
  BY WaitFinds
<1>4. i.low_bound \in Int BY <1>1, ItvsTypes
<1>5. local_tree' = delete(local_tree, i.low_bound) /\ saved' = saved \ {i}
  BY <1>3 DEF delete_interval
<1>6. PICK S : S = saved' OBVIOUS
<1>7. \A j : j \in S <=> j \in saved /\ j # i BY <1>5, <1>6
<1>8. /\ \A j \in saved : j # i <=> j.low_bound # i.low_bound
      /\ \A j \in saved : Notified(j) => (j # i <=> j.notification_id # id)
  BY <1>3 DEF Apart, BoundsApart, IdsApart
<1>9. PICK s : s = delete(local_tree, i.low_bound) OBVIOUS
<1>10. /\ OrderedBy(s, 1) /\ Balanced(s)
       /\ \A e : e \in Entries(s) <=> e \in Entries(local_tree) /\ e[1] # i.low_bound
  BY <1>1, <1>2, <1>4, <1>9, DeleteApart
<1>11. Entries(s) = ByBound(S)
  <2>1. ASSUME NEW e PROVE e \in Entries(s) <=> e \in ByBound(S)
    <3>1. ASSUME NEW j PROVE <<j.low_bound, j>>[1] = j.low_bound OBVIOUS
    <3>2. e \in Entries(s) <=> \E j \in saved : e = <<j.low_bound, j>> /\ e[1] # i.low_bound
      BY <1>2, <1>10, ByKeys
    <3>3. e \in ByBound(S) <=> \E j \in S : e = <<j.low_bound, j>> BY ByKeys
    <3> QED BY <1>7, <1>8, <3>1, <3>2, <3>3
  <2> QED BY <2>1
<1>12. PICK q : q = delete(notif_tree, id) OBVIOUS
<1>13. /\ OrderedBy(q, 1) /\ Balanced(q)
       /\ \A e : e \in Entries(q) <=> e \in Entries(notif_tree) /\ e[1] # id
  BY <1>1, <1>2, <1>12, DeleteApart
<1>14. Entries(q) = ById(S)
  <2>1. ASSUME NEW e PROVE e \in Entries(q) <=> e \in ById(S)
    <3>1. ASSUME NEW j PROVE <<j.notification_id, j>>[1] = j.notification_id OBVIOUS
    <3>2. e \in Entries(q) <=> \E j \in saved : Notified(j) /\ e = <<j.notification_id, j>> /\ e[1] # id
      BY <1>2, <1>13, ByKeys
    <3>3. e \in ById(S) <=> \E j \in S : Notified(j) /\ e = <<j.notification_id, j>> BY ByKeys
    <3> QED BY <1>7, <1>8, <3>1, <3>2, <3>3
  <2> QED BY <2>1
<1>15. local_tree' = s /\ notif_tree' = q BY <1>3, <1>5, <1>9, <1>12
<1> QED BY <1>6, <1>10, <1>11, <1>13, <1>14, <1>15 DEF ApartInv

LEMMA ClearTreesApart == ASSUME TreesInv, clear_trees PROVE ApartInv'
<1>1. local_tree' = Nil /\ notif_tree' = Nil /\ saved' = {}
  BY FreeIs DEF TreesInv, LocalInv, NotifInv, clear_trees, free_stores
<1>2. PICK v : v = Nil OBVIOUS
<1>3. OrderedBy(v, 1) /\ Balanced(v) /\ Entries(v) = {} BY <1>2, ShapeNil, EntriesNil
<1>4. ByBound({}) = {} /\ ById({}) = {} BY DEF ByBound, ById
<1> QED BY <1>1, <1>2, <1>3, <1>4 DEF ApartInv

LEMMA ApartInvCorrect == NotifSpec /\ []Apart => []ApartInv
<1>1. NotifInit => ApartInv BY InitApart
<1>2. TreesInv /\ ApartInv /\ Apart /\ Apart' /\ [NotifNext]_notifVars => ApartInv'
  <2> SUFFICES ASSUME TreesInv, ApartInv, Apart, Apart', [NotifNext]_notifVars PROVE ApartInv'
    OBVIOUS
  <2>1. CASE clear_trees BY <2>1, ClearTreesApart
  <2>2. ASSUME NEW i \in Itvs, save_notified(i) PROVE ApartInv' BY <2>2, SaveApart
  <2>3. ASSUME NEW i \in Itvs, clear_from_notif_id(i.notification_id) PROVE ApartInv'
    <3>1. i.notification_id \in Int BY ItvsTypes
    <3> QED BY <2>3, <3>1, ClearNotifApart
  <2>4. CASE UNCHANGED notifVars BY <2>4 DEF notifVars, ApartInv
  <2> QED BY <2>1, <2>2, <2>3, <2>4 DEF NotifNext
<1> QED BY <1>1, <1>2, TreesInvCorrect, PTL DEF NotifSpec

LEMMA KeyedItems ==
  ASSUME NEW t, NEW S
  PROVE  /\ Entries(t) = ByBound(S) => Items(t) = S
         /\ Entries(t) = ById(S) => Items(t) = {i \in S : Notified(i)}
<1>1. ASSUME Entries(t) = ByBound(S) PROVE Items(t) = S
  <2>1. ASSUME NEW x \in Items(t) PROVE x \in S
    <3>1. PICK e \in Entries(t) : e[2] = x BY ItemsAre
    <3>2. PICK j \in S : e = <<j.low_bound, j>> BY <1>1, <3>1, ByKeys
    <3>3. e[2] = j BY <3>2
    <3> QED BY <3>1, <3>3
  <2>2. ASSUME NEW x \in S PROVE x \in Items(t)
    <3>1. PICK e : e = <<x.low_bound, x>> OBVIOUS
    <3>2. e \in Entries(t) /\ e[2] = x BY <1>1, <3>1, ByKeys
    <3> QED BY <3>2, ItemsAre
  <2> QED BY <2>1, <2>2
<1>2. ASSUME Entries(t) = ById(S) PROVE Items(t) = {i \in S : Notified(i)}
  <2>1. ASSUME NEW x \in Items(t) PROVE x \in S /\ Notified(x)
    <3>1. PICK e \in Entries(t) : e[2] = x BY ItemsAre
    <3>2. PICK j \in S : Notified(j) /\ e = <<j.notification_id, j>> BY <1>2, <3>1, ByKeys
    <3>3. e[2] = j BY <3>2
    <3> QED BY <3>1, <3>2, <3>3
  <2>2. ASSUME NEW x \in S, Notified(x) PROVE x \in Items(t)
    <3>1. PICK e : e = <<x.notification_id, x>> OBVIOUS
    <3>2. e \in Entries(t) /\ e[2] = x BY <1>2, <2>2, <3>1, ByKeys
    <3> QED BY <3>2, ItemsAre
  <2> QED BY <2>1, <2>2
<1> QED BY <1>1, <1>2

LEMMA ApartItems ==
  ASSUME ApartInv
  PROVE  /\ Items(local_tree) = saved
         /\ Items(notif_tree) = {i \in saved : Notified(i)}
BY KeyedItems DEF ApartInv

\* As long as the bounds of the intervals stored at one time differ, and the IDs
\* of those that wait for one, the local tree is a balanced search tree with
\* true heights after every call: "Update the balance factor of each node and
\* balance the tree".
THEOREM TreeStaysBalanced == NotifSpec /\ []Apart => []AvlShape
<1>1. TreesInv /\ ApartInv => AvlShape
  BY SortedIs, MeasuredIs DEF TreesInv, LocalInv, ApartInv, AvlShape
<1> QED BY <1>1, TreesInvCorrect, ApartInvCorrect, PTL

\* Then the tree holds what was saved and not deleted since: a deletion takes
\* away the interval a wait names, also where another node moves into its place.
THEOREM TreeHoldsSaved == NotifSpec /\ []Apart => []HoldsSaved
<1>1. ApartInv => HoldsSaved BY ApartItems DEF HoldsSaved
<1> QED BY <1>1, ApartInvCorrect, PTL

\* Then the notification tree points to intervals of the local tree, and to all
\* of them that wait for a notification.
THEOREM TreesInStep == NotifSpec /\ []Apart => []SameNotified
<1>1. ApartInv => SameNotified BY ApartItems DEF SameNotified
<1> QED BY <1>1, ApartInvCorrect, PTL

\* Then a wait finds the interval of its ID.
THEOREM WaitFindsInterval == NotifSpec /\ []Apart => []FoundById
<1>1. TreesInv /\ ApartInv => FoundById
  <2> SUFFICES ASSUME TreesInv, ApartInv, NEW i \in saved, Notified(i)
               PROVE  /\ find_interval_from_notif(notif_tree, i.notification_id) # NoInterval
                      /\ find_interval_from_notif(notif_tree, i.notification_id).notification_id
                           = i.notification_id
    BY DEF FoundById
  <2>1. IsTree(notif_tree) /\ OrderedBy(notif_tree, 0) /\ IdEntries(notif_tree) /\ i \in Itvs
    BY DEF TreesInv, LocalInv, NotifInv
  <2>2. PICK id, x : id = i.notification_id /\ x = find_interval_from_notif(notif_tree, id) OBVIOUS
  <2>3. id \in Int BY <2>1, <2>2, ItvsTypes
  <2>4. ~ Fresh(notif_tree, id)
    <3>1. <<i.notification_id, i>> \in Entries(notif_tree) BY ByKeys DEF ApartInv
    <3>2. <<i.notification_id, i>>[1] = id BY <2>2
    <3> QED BY <3>1, <3>2 DEF Fresh
  <2>5. PICK e \in Entries(notif_tree) : x = e[2] /\ e[1] = id BY <2>1, <2>2, <2>3, <2>4, FoundIs
  <2>6. x \in Itvs /\ x.notification_id = id BY <2>1, <2>5 DEF IdEntries
  <2> QED BY <2>2, <2>6, ItvsTypes
<1> QED BY <1>1, TreesInvCorrect, ApartInvCorrect, PTL

\* Then a wait removes no interval but its own.
THEOREM WaitsClearNoOther == NotifSpec /\ []Apart => ClearsNoOther
<1> DEFINE Spared == \A i \in saved \ saved', j \in Items(local_tree) :
                       saved' # {} /\ j.low_bound # i.low_bound => j \in Items(local_tree')
<1>1. ApartInv /\ ApartInv' /\ [NotifNext]_notifVars => [Spared]_notifVars
  <2> SUFFICES ASSUME ApartInv, ApartInv', [NotifNext]_notifVars, ~ UNCHANGED notifVars PROVE Spared
    OBVIOUS
  <2>1. Items(local_tree) = saved BY ApartItems
  <2>2. Items(local_tree') = saved' BY KeyedItems DEF ApartInv
  <2>3. CASE clear_trees
    <3>1. saved' = {} BY <2>3 DEF clear_trees, free_stores
    <3> QED BY <3>1
  <2>4. ASSUME NEW i \in Itvs, save_notified(i) PROVE Spared
    <3>1. saved \subseteq saved' BY <2>4 DEF save_notified, save_interval, save_in_tree
    <3> QED BY <3>1
  <2>5. ASSUME NEW id, clear_from_notif_id(id) PROVE Spared
    <3>1. PICK i : saved' = saved \ {i} BY <2>5 DEF clear_from_notif_id, delete_interval
    <3> QED BY <2>1, <2>2, <3>1
  <2> QED BY <2>3, <2>4, <2>5 DEF NotifNext
<1> QED BY <1>1, ApartInvCorrect, PTL DEF NotifSpec, ClearsNoOther

----------------------------------------------------------------------------
(* The tree as a store that may overlook races. *)

LEMMA StoreConflicts ==
  ASSUME NEW i PROVE Store!Conflicts(i) = {s \in Items(local_tree) : if_intersects(s, i)}
<1>1. ASSUME NEW a, NEW b PROVE Store!if_intersects(a, b) <=> if_intersects(a, b)
  BY DEF Store!if_intersects, if_intersects, Store!check_access_rights, check_access_rights,
         Store!BitOr, BitOr, Store!BitMax, BitMax, Store!RmaBit, RmaBit, Store!WriteBit, WriteBit,
         Store!RMA_WRITE, RMA_WRITE
<1> QED BY <1>1 DEF Store!Conflicts

LEMMA StoreInitially == NotifInit => Store!StoreInit
<1> SUFFICES ASSUME NotifInit PROVE Store!StoreInit OBVIOUS
<1>1. local_tree = Nil /\ race = FALSE BY DEF NotifInit, TreeInit
<1>2. \A x : x \notin Items(Nil) BY ItemsAre, EntriesNil
<1>3. Items(local_tree) = {} BY <1>1, <1>2
<1> QED BY <1>1, <1>3 DEF Store!StoreInit

\* A save stores the interval, or reports a race with one that is stored.
LEMMA SaveStores ==
  ASSUME TreesInv, ApartInv, ApartInv', NEW i \in Itvs, save_notified(i)
  PROVE  Store!Report(i) \/ Store!Store(i)
<1>1. Items(local_tree) = saved /\ Items(local_tree') = saved' BY KeyedItems DEF ApartInv
<1>2. ~ race /\ i \notin saved /\ save_in_tree(i) BY DEF save_notified, save_interval
<1>3. CASE overlap_search(local_tree, i) # NoInterval
  <2>1. race' = TRUE /\ local_tree' = local_tree /\ saved' = saved BY <1>2, <1>3 DEF save_in_tree
  <2>2. IsTree(local_tree) /\ \A e \in Entries(local_tree) : e[2] \in Itvs
    BY DEF TreesInv, LocalInv, BoundEntries
  <2>3. PICK e \in Entries(local_tree) : if_intersects(e[2], i) BY <1>3, <2>2, OverlapStored
  <2>4. PICK s : s = e[2] OBVIOUS
  <2>5. s \in Items(local_tree) /\ if_intersects(s, i) BY <2>3, <2>4, ItemsAre
  <2>6. Store!Conflicts(i) # {} BY <2>5, StoreConflicts
  <2> QED BY <1>1, <1>2, <2>1, <2>6 DEF Store!Report
<1>4. CASE overlap_search(local_tree, i) = NoInterval
  <2>1. race' = race /\ saved' = saved \union {i} BY <1>2, <1>4 DEF save_in_tree
  <2> QED BY <1>1, <1>2, <2>1 DEF Store!Store
<1> QED BY <1>3, <1>4

LEMMA StoreStep ==
  ASSUME TreesInv, ApartInv, ApartInv', [NotifNext]_notifVars
  PROVE  [Store!StoreNext]_<<Items(local_tree), race>>
<1>1. Items(local_tree) = saved /\ Items(local_tree') = saved' BY KeyedItems DEF ApartInv
<1>2. CASE clear_trees
  <2>1. ~ race /\ saved' = {} /\ race' = race BY <1>2 DEF clear_trees, free_stores
  <2>2. Store!Clear BY <1>1, <2>1 DEF Store!Clear
  <2> QED BY <2>2 DEF Store!StoreNext
<1>3. ASSUME NEW i \in Itvs, save_notified(i) PROVE Store!StoreNext
  BY <1>3, SaveStores DEF Store!StoreNext
<1>4. ASSUME NEW i \in Itvs, clear_from_notif_id(i.notification_id) PROVE Store!StoreNext
  <2>1. i.notification_id \in Int BY ItvsTypes
  <2>2. PICK j \in saved : delete_interval(j) BY <1>4, <2>1, WaitFinds
  <2>3. ~ race /\ saved' = saved \ {j} /\ race' = race BY <2>2 DEF delete_interval
  <2>4. Store!Remove(j) BY <1>1, <2>3 DEF Store!Remove
  <2>5. j \in Itvs BY DEF TreesInv, LocalInv
  <2> QED BY <2>4, <2>5 DEF Store!StoreNext
<1>5. CASE UNCHANGED notifVars BY <1>5 DEF notifVars
<1> QED BY <1>2, <1>3, <1>4, <1>5 DEF NotifNext

\* Under the same premise the tree implements the store: it takes away what it
\* is asked to and nothing else, and it reports a race only with an interval it
\* holds, though its search overlooks some.
THEOREM TreeImplementsStore == NotifSpec /\ []Apart => ImplementsStore
<1>1. NotifInit => Store!StoreInit BY StoreInitially
<1>2. TreesInv /\ ApartInv /\ ApartInv' /\ [NotifNext]_notifVars
        => [Store!StoreNext]_<<Items(local_tree), race>>
  BY StoreStep
<1> QED BY <1>1, <1>2, TreesInvCorrect, ApartInvCorrect, PTL
        DEF NotifSpec, ImplementsStore, Store!StoreSpec
=============================================================================
