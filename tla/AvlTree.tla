------------------------------ MODULE AvlTree ------------------------------
(***************************************************************************)
(* The balanced tree of core/interval_avl_tree.c, whose routines           *)
(* core/notif_avl_tree.c repeats with another key.  A tree is Nil or a     *)
(* node; a routine returns the tree the C routine leaves behind the        *)
(* pointer it returns.  Keys may be equal: the C code compares low bounds. *)
(* tree_size is left out: only the statistics printers read it, and their  *)
(* calls are commented out.  A routine that calls itself on the subtrees   *)
(* is a recursive function of the subtrees of the tree it is given.        *)
(***************************************************************************)
EXTENDS Integers

Nil == [height |-> 0]

\* Mutant: the node keeps the first byte of the interval.
LeafOfByte(key, itv) ==
  [key |-> key, itv |-> [itv EXCEPT !.up_bound = itv.low_bound], left |-> Nil, right |-> Nil, height |-> 1]

\* new_interval_tree
Leaf(key, itv) ==
  [key |-> key, itv |-> itv, left |-> Nil, right |-> Nil, height |-> 1]

height(t)     == t.height
getBalance(t) == IF t = Nil THEN 0 ELSE height(t.left) - height(t.right)

Taller(l, r) == IF height(l) > height(r) THEN height(l) ELSE height(r)

\* Node t with the subtrees l and r, its height updated.
Rebuild(t, l, r) ==
  [t EXCEPT !.left = l, !.right = r, !.height = 1 + Taller(l, r)]

\* Mutant: the middle subtree is lost.
rightRotateDrops(y) ==
  IF y = Nil \/ y.left = Nil THEN y
  ELSE Rebuild(y.left, y.left.left, Rebuild(y, Nil, y.right))

rightRotate(y) ==
  IF y = Nil \/ y.left = Nil THEN y
  ELSE Rebuild(y.left, y.left.left, Rebuild(y, y.left.right, y.right))

\* Mutant: the middle subtree is lost.
leftRotateDrops(x) ==
  IF x = Nil \/ x.right = Nil THEN x
  ELSE Rebuild(x.right, Rebuild(x, x.left, Nil), x.right.right)

leftRotate(x) ==
  IF x = Nil \/ x.right = Nil THEN x
  ELSE Rebuild(x.right, Rebuild(x, x.left, x.right.left), x.right.right)

\* Mutant: no double rotations.
BalanceInsertedSingle(t, key) ==
  CASE getBalance(t) > 1  /\ key < t.left.key  -> rightRotate(t)
    [] getBalance(t) < -1 /\ key > t.right.key -> leftRotate(t)
    [] OTHER -> t

\* The four rotations at the end of insert, by the inserted key: none when it
\* equals the key of the child it went below.
BalanceInserted(t, key) ==
  CASE getBalance(t) > 1  /\ key < t.left.key  -> rightRotate(t)
    [] getBalance(t) < -1 /\ key > t.right.key -> leftRotate(t)
    [] getBalance(t) > 1  /\ key > t.left.key  -> rightRotate([t EXCEPT !.left = leftRotate(@)])
    [] getBalance(t) < -1 /\ key < t.right.key -> leftRotate([t EXCEPT !.right = rightRotate(@)])
    [] OTHER -> t

\* A tree, its subtrees, theirs, and so on: what its height leaves room for.
Subtrees(t) ==
  LET below[n \in 0 .. height(t)] ==
        IF n = 0 THEN {t}
        ELSE LET above == below[n - 1] \ {Nil}
             IN  below[n - 1] \union {u.left : u \in above} \union {u.right : u \in above}
  IN  below[height(t)]

\* insert_interval_tree, insert_notif_tree
insert(t, key, itv) ==
  LET ins[u \in Subtrees(t)] ==
        IF u = Nil THEN Leaf(key, itv)
        ELSE BalanceInserted(IF key < u.key THEN Rebuild(u, ins[u.left], u.right)
                             ELSE Rebuild(u, u.left, ins[u.right]),
                             key)
  IN  ins[t]

minValueNode(t) ==
  LET least[u \in Subtrees(t) \ {Nil}] == IF u.left = Nil THEN u ELSE least[u.left]
  IN  least[t]

\* The rotations at the end of delete, by the balance of the heavier child.
BalanceDeleted(t) ==
  CASE getBalance(t) > 1  /\ getBalance(t.left) >= 0  -> rightRotate(t)
    [] getBalance(t) > 1  /\ getBalance(t.left) < 0   -> rightRotate([t EXCEPT !.left = leftRotate(@)])
    [] getBalance(t) < -1 /\ getBalance(t.right) <= 0 -> leftRotate(t)
    [] getBalance(t) < -1 /\ getBalance(t.right) > 0  -> leftRotate([t EXCEPT !.right = rightRotate(@)])
    [] OTHER -> t

\* The ways delete ends for the node it looks for: its only child is copied
\* over it, or it takes over the leftmost node of its right subtree.
OnlyChild(t) == IF t.left = Nil THEN t.right ELSE t.left

\* Mutant: the child goes with the node.
ReplacedByNone(child) == Nil

Replaced(child) == BalanceDeleted(Rebuild(child, child.left, child.right))

Inherit(t, heir, right) ==
  BalanceDeleted(Rebuild([t EXCEPT !.key = heir.key, !.itv = heir.itv], t.left, right))

\* delete_interval_tree, delete_notif_tree: the first node found with the key.
delete(t, key) ==
  LET del[u \in Subtrees(t)] ==
        [k \in Int |->
           IF u = Nil THEN Nil
           ELSE CASE k < u.key -> BalanceDeleted(Rebuild(u, del[u.left][k], u.right))
                  [] k > u.key -> BalanceDeleted(Rebuild(u, u.left, del[u.right][k]))
                  [] OTHER     -> IF u.left = Nil /\ u.right = Nil THEN Nil
                                  ELSE IF u.left = Nil \/ u.right = Nil THEN Replaced(OnlyChild(u))
                                  ELSE Inherit(u, minValueNode(u.right), del[u.right][minValueNode(u.right).key])]
  IN  del[t][key]

\* The number of nodes.
Count(t) ==
  LET nodes[u \in Subtrees(t)] == IF u = Nil THEN 0 ELSE 1 + nodes[u.left] + nodes[u.right]
  IN  nodes[t]

\* The rounds of free_interval_tree delete the root until there is none: what
\* is left after as many rounds as there are nodes.
Uprooted(t) == IF t = Nil THEN Nil ELSE delete(t, t.key)

free(t) ==
  LET rest[n \in 0 .. Count(t)] == IF n = 0 THEN t ELSE Uprooted(rest[n - 1])
  IN  rest[Count(t)]

----------------------------------------------------------------------------
(* What the shape of a tree should be. *)

Nodes(t) == Subtrees(t) \ {Nil}

Items(t) == {n.itv : n \in Nodes(t)}

Sorted(t) ==
  \A n \in Nodes(t) : /\ \A l \in Nodes(n.left) : l.key <= n.key
                      /\ \A r \in Nodes(n.right) : r.key >= n.key

Measured(t) == \A n \in Nodes(t) : n.height = 1 + Taller(n.left, n.right)

Balanced(t) == \A n \in Nodes(t) : getBalance(n) \in -1 .. 1
=============================================================================
