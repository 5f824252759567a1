------------------------------ MODULE HashTable -----------------------------
(***************************************************************************)
(* core/uthash.h as state_htbl uses it: a list of the items in the order   *)
(* they were added, and buckets of chains that a look-up walks.  A table   *)
(* is a record; the empty one is no table at all, as in the code.  Each    *)
(* operation is one step for those who look on: a chain is always whole,   *)
(* but while it expands, when the old buckets are freed.                   *)
(***************************************************************************)
EXTENDS Integers, Sequences, SequencesExt

CONSTANTS
  hashv,    \* the hash value of every key
  HASH_INITIAL_NUM_BUCKETS,
  HASH_BKT_CAPACITY_THRESH    \* a chain of this length makes the table expand

ASSUME HashAssumption ==
  HASH_INITIAL_NUM_BUCKETS \in Nat \ {0} /\ HASH_BKT_CAPACITY_THRESH \in Nat \ {0}

NULL == [items |-> <<>>, buckets |-> <<>>, ineff_expands |-> 0]

Elements(seq) == {seq[i] : i \in 1 .. Len(seq)}

num_buckets(t) == Len(t.buckets)

\* Buckets are numbered from 1 here.  A number of buckets is a power of two.
HASH_TO_BKT(k, n) == 1 + (hashv[k] % n)

HASH_MAKE_TABLE ==
  [NULL EXCEPT !.buckets = [b \in 1 .. HASH_INITIAL_NUM_BUCKETS |-> [chain |-> <<>>, expand_mult |-> 0]]]

----------------------------------------------------------------------------
\* ceil(n/b), for the number of buckets to come.
ideal_chain_maxlen(t) ==
  (Len(t.items) + 2 * num_buckets(t) - 1) \div (2 * num_buckets(t))

\* Of the first i items of a chain, those that go to bucket b of n, put in front
\* of one another.
Fronts(chain, n, b) ==
  LET put[i \in 0 .. Len(chain)] ==
        IF i = 0 THEN <<>>
        ELSE IF HASH_TO_BKT(chain[i], n) = b THEN <<chain[i]>> \o put[i - 1] ELSE put[i - 1]
  IN  put

\* Mutant: an item stays in the bucket it was in.
MovedStays(t, b) == IF b <= num_buckets(t) THEN t.buckets[b].chain ELSE <<>>

\* The chain of a new bucket, whose items come from one of the old.
Moved(t, b) ==
  LET chain == t.buckets[1 + ((b - 1) % num_buckets(t))].chain
  IN  Fronts(chain, 2 * num_buckets(t), b)[Len(chain)]

nonideal_items(t) ==
  FoldFunction(LAMBDA n, sum : sum + n, 0,
               [b \in 1 .. 2 * num_buckets(t) |->
                  IF Len(Moved(t, b)) > ideal_chain_maxlen(t)
                  THEN Len(Moved(t, b)) - ideal_chain_maxlen(t) ELSE 0])

HASH_EXPAND_BUCKETS(t) ==
  [items |-> t.items,
   buckets |-> [b \in 1 .. 2 * num_buckets(t) |->
                  [chain |-> Moved(t, b),
                   expand_mult |-> IF Len(Moved(t, b)) > ideal_chain_maxlen(t)
                                   THEN Len(Moved(t, b)) \div ideal_chain_maxlen(t) ELSE 0]],
   ineff_expands |-> IF nonideal_items(t) > Len(t.items) \div 2 THEN t.ineff_expands + 1 ELSE 0]

\* Two expansions of no effect are the last.
noexpand(t) == t.ineff_expands > 1

\* Mutant: the table expands before the item is linked.
HASH_ADD_TO_BKT_stale(t, k, b) ==
  LET full  == Len(t.buckets[b].chain) + 1 >= (t.buckets[b].expand_mult + 1) * HASH_BKT_CAPACITY_THRESH
      table == IF full /\ ~ noexpand(t) THEN HASH_EXPAND_BUCKETS(t) ELSE t
  IN  [table EXCEPT !.buckets[b].chain = <<k>> \o @]

HASH_ADD_TO_BKT(t, k, b) ==
  LET added == [t EXCEPT !.buckets[b].chain = <<k>> \o @]
      full  == Len(added.buckets[b].chain)
                 >= (added.buckets[b].expand_mult + 1) * HASH_BKT_CAPACITY_THRESH
  IN  IF full /\ ~ noexpand(added) THEN HASH_EXPAND_BUCKETS(added) ELSE added

HASH_ADD_KEYPTR(head, k) ==
  LET t == IF head = NULL THEN HASH_MAKE_TABLE ELSE head
  IN  HASH_ADD_TO_BKT([t EXCEPT !.items = Append(@, k)], k, HASH_TO_BKT(k, num_buckets(t)))

\* Mutant: the links go around the item after k.
WithoutNext(seq, k) ==
  [i \in 1 .. Len(seq) - 1 |-> IF \E j \in 1 .. i - 1 : seq[j] = k THEN seq[i + 1] ELSE seq[i]]

\* The items without k, which is one of them: those before it and those after.
Without(seq, k) ==
  [i \in 1 .. Len(seq) - 1 |-> IF \E j \in 1 .. i : seq[j] = k THEN seq[i + 1] ELSE seq[i]]

\* The last item takes the table with it.
HASH_DELETE(t, k) ==
  IF t.items = <<k>> THEN NULL
  ELSE [t EXCEPT !.items = Without(@, k),
                 !.buckets[HASH_TO_BKT(k, num_buckets(t))].chain = Without(@, k)]

HASH_FIND(t, k) ==
  t # NULL /\ k \in Elements(t.buckets[HASH_TO_BKT(k, num_buckets(t))].chain)

----------------------------------------------------------------------------
\* A table finds what it iterates over and nothing else, and no item is in two
\* chains or twice in one, however the table has grown and shrunk.
TableSound(t, Keys) ==
  /\ \A k \in Keys : HASH_FIND(t, k) <=> k \in Elements(t.items)
  /\ \A b \in 1 .. num_buckets(t) :
       LET chain == t.buckets[b].chain
       IN  Elements(chain) \subseteq Elements(t.items) /\ IsInjective(chain)
  /\ \A b, c \in 1 .. num_buckets(t) :
       b # c => Elements(t.buckets[b].chain) \intersect Elements(t.buckets[c].chain) = {}
=============================================================================
