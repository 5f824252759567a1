----------------------------- MODULE MCWindows ------------------------------
(* Two processes and two windows.  The processes are alike, and so are the *)
(* windows: a state is as good as one with their names exchanged.          *)
EXTENDS Windows, TLC

CONSTANTS p0, p1, v, w

TwoProcs == {p0, p1}
TwoWins  == {v, w}

\* Puts to the other process; RmaAnalyzer has puts to oneself as well.
Other == [p \in TwoProcs |-> TwoProcs \ {p}]

AllCalls == ({"create", "free", "open", "close"} \X TwoWins) \union {Barrier}
Alike == Permutations(TwoProcs) \union Permutations(TwoWins)

\* Two windows in one bucket, before and after the table expands, and keys that
\* share theirs until the fourth expansion.
Keys == 1 .. 9
Hashes == [x \in TwoWins |-> 5] @@ [k \in Keys |-> 8 * k]

\* The key added next: one removed is the first to come back.
NextKey(t) == CHOOSE k \in Keys \ Elements(t.items) : \A l \in Keys \ Elements(t.items) : k <= l

\* The tables that up to n insertions and deletions lead to.
Tables[n \in Nat] ==
  IF n = 0 THEN {NULL}
  ELSE LET before == Tables[n - 1]
       IN  before \union {HASH_ADD_KEYPTR(t, NextKey(t)) : t \in before}
                  \union UNION {{HASH_DELETE(t, k) : k \in Elements(t.items)} : t \in before}

\* A key is found in its bucket exactly while it is in the table: colliding keys,
\* added and removed, in a table that grows with effect, grows without, and at
\* last grows no more (HASH_EXPAND_BUCKETS and noexpand).  It is about the
\* operators alone and asked once, of the initial state.
TablesSound ==
  Init => LET tables == Tables[9] IN
      /\ \A t \in tables : TableSound(t, Keys)
      /\ \E t \in tables : noexpand(t)
=============================================================================
