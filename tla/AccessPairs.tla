---------------------------- MODULE AccessPairs ----------------------------
(***************************************************************************)
(* Two accesses of a program to the memory of one process, as the routines *)
(* the program is linked with describe them, and what the analyzer makes   *)
(* of the pair: if_intersects of the two intervals it stores.  A one-sided *)
(* call makes two accesses, to the origin's buffer and to the target's     *)
(* window.  The reference is the set of bytes MPI, a load or a store       *)
(* touches, and the kind of each access.                                   *)
(***************************************************************************)
EXTENDS Intervals

CONSTANTS
  win_base,    \* where the target's window starts
  disp_unit,   \* bytes of a unit of displacement: an argument of MPI_Win_create
  TypeSizes,   \* sizes of datatypes, in bytes
  MaxCount,    \* bound: elements of a buffer
  Languages,   \* of the program and of the handlers it calls
  count_at, disp_at   \* addresses of a Fortran program's arguments

ASSUME PairAssumption ==
  /\ win_base \in Addr /\ disp_unit \in Nat \ {0}
  /\ TypeSizes \subseteq Nat \ {0} /\ MaxCount \in Nat \ {0}
  /\ Languages \subseteq {"C", "Fortran"} /\ {count_at, disp_at} \subseteq Addr

VARIABLES first, second

\* at is an address or, for a target, a displacement; a LOAD or STORE has no
\* count.
Calls ==
  [call : {"LOAD", "STORE"}, language : Languages, side : {"memory"},
   at : Addr, count : {1}, type : TypeSizes]
  \union [call : {"Put", "Get", "Accumulate", "Put_notify", "Get_notify"}, language : Languages,
          side : {"origin", "target"}, at : Addr, count : 1 .. MaxCount, type : TypeSizes]

----------------------------------------------------------------------------
\* rma_analyzer_update_on_comm_send for one side of the call, and the way the
\* target's interval is moved into its window when it lands.
Described(c, at, size, local_type, target_type) ==
  IF c.side = "origin" THEN local_interval(at, size, local_type)
  ELSE landed_interval(target_interval(at, size, target_type), win_base)

\* Mutant: the target's elements are counted and not measured.
new_Put_counts(c) ==
  Described(c, c.at, IF c.side = "target" THEN c.count ELSE c.type * c.count, RMA_READ, RMA_WRITE)

\* The sizes are MPI_Type_size times the count of each side.
new_Put(c)        == Described(c, c.at, c.type * c.count, RMA_READ, RMA_WRITE)
new_Get(c)        == Described(c, c.at, c.type * c.count, RMA_WRITE, RMA_READ)
new_Accumulate(c) == Described(c, c.at, c.type * c.count, RMA_READ, RMA_WRITE)
new_Put_notify(c) == Described(c, c.at, c.type * c.count, RMA_READ, RMA_WRITE)
new_Get_notify(c) == Described(c, c.at, c.type * c.count, RMA_WRITE, RMA_READ)

\* The Fortran handlers get addresses of arguments, and take some for the
\* values: only what a put says of its target is dereferenced.  (The pass
\* renames no notified call of a Fortran program: they are called by name.)
fort_at(c) == IF c.side = "origin" THEN c.at ELSE disp_at

new_put_(c) ==
  Described(c, c.at, c.type * IF c.side = "origin" THEN count_at ELSE c.count, RMA_READ, RMA_WRITE)
new_put_notify_(c) ==
  Described(c, c.at, c.type * IF c.side = "origin" THEN count_at ELSE c.count, RMA_READ, RMA_WRITE)
new_get_(c)        == Described(c, fort_at(c), c.type * count_at, RMA_WRITE, RMA_READ)
new_get_notify_(c) == Described(c, fort_at(c), c.type * count_at, RMA_WRITE, RMA_READ)
new_accumulate_(c) == Described(c, fort_at(c), c.type * count_at, RMA_READ, RMA_WRITE)

\* The pass gives LOAD and STORE a size in bits.
STORE(c) == load_store_interval(c.at, 8 * c.type, LOCAL_WRITE)
LOAD(c)  == load_store_interval(c.at, 8 * c.type, LOCAL_READ)

StoredInterval(c) ==
  CASE c.call = "Put"        -> IF c.language = "C" THEN new_Put(c) ELSE new_put_(c)
    [] c.call = "Get"        -> IF c.language = "C" THEN new_Get(c) ELSE new_get_(c)
    [] c.call = "Accumulate" -> IF c.language = "C" THEN new_Accumulate(c) ELSE new_accumulate_(c)
    [] c.call = "Put_notify" -> IF c.language = "C" THEN new_Put_notify(c) ELSE new_put_notify_(c)
    [] c.call = "Get_notify" -> IF c.language = "C" THEN new_Get_notify(c) ELSE new_get_notify_(c)
    [] c.call = "STORE"      -> STORE(c)
    [] c.call = "LOAD"       -> LOAD(c)

----------------------------------------------------------------------------
(* The reference. *)

Start(c) == IF c.side = "target" THEN win_base + c.at * disp_unit ELSE c.at
Bytes(c) == Start(c) .. Start(c) + c.count * c.type - 1

ByRma(c)   == c.side # "memory"
Gets(c)    == c.call \in {"Get", "Get_notify"}
Writes(c)  == c.call = "STORE" \/ (ByRma(c) /\ (Gets(c) <=> c.side = "origin"))

\* Accesses that exist: no byte lies beyond the address space.
Accesses == {c \in Calls : Start(c) + c.count * c.type <= AddrSpace}

\* One access is by an RMA call and one, maybe the same, writes.  As in the
\* code an accumulate is a put, though MPI lets two accumulates overlap.
Racing(c, d) == (ByRma(c) \/ ByRma(d)) /\ (Writes(c) \/ Writes(d))

\* The descriptions made of values.  The Fortran handlers make the others of the
\* addresses of a count or a displacement, and describe whatever that gives.
OfValues(c) == c.language = "C" \/ c.side = "memory" \/ (c.side = "target" /\ c.call \in {"Put", "Put_notify"})

\* The accesses described where they are.  A displacement counts units, which the
\* analyzer is not told the size of and takes for bytes.
InPlace(c) == c.side = "target" => c.at * disp_unit = c.at

PairInit == first \in Accesses /\ second = first

\* A program is of one language: rma_analyzer_start asserts it.
PairNext == second' \in {c \in Accesses : c.language = first.language} /\ UNCHANGED first
PairSpec == PairInit /\ [][PairNext]_<<first, second>>

----------------------------------------------------------------------------
(* Correctness. *)

\* The analyzer reports a pair of accesses exactly when they share a byte and
\* race: the bounds the handlers compute, the shift into the window and the OR
\* of the access types agree with what the program does to the memory.
DetectsSharedBytes ==
  OfValues(first) /\ OfValues(second) /\ InPlace(first) /\ InPlace(second) =>
    (if_intersects(StoredInterval(first), StoredInterval(second))
     <=> (Bytes(first) \intersect Bytes(second) # {} /\ Racing(first, second)))

\* Whatever the displacement unit, and though their intervals may be stored at
\* other addresses than the window's own, no race between two accesses from
\* other processes is overlooked.
RemoteRacesDetected ==
  /\ OfValues(first) /\ OfValues(second) /\ first.side = "target" /\ second.side = "target"
  /\ Bytes(first) \intersect Bytes(second) # {} /\ Racing(first, second)
  => if_intersects(StoredInterval(first), StoredInterval(second))
=============================================================================
