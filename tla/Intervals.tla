----------------------------- MODULE Intervals -----------------------------
(***************************************************************************)
(* Memory accesses as the analyzer stores them: core/interval.h and        *)
(* core/interval.c.  An interval is two 64-bit bounds and an access type;  *)
(* two intervals are in conflict when they intersect and the bitwise OR of *)
(* their access types is RMA_WRITE.  The debug fields (line, filename) are *)
(* not modelled: no decision of the analyzer reads them.                   *)
(***************************************************************************)
EXTENDS Integers

CONSTANT AddrSpace    \* number of addresses: 2^64 in the build (uint64_t)

ASSUME AddrSpaceAssumption == AddrSpace \in Nat \ {0}

Addr == 0 .. AddrSpace - 1

----------------------------------------------------------------------------
\* The access types, numbered as the enumeration of interval.h numbers them.
LOCAL_READ  == 0
LOCAL_WRITE == 1
RMA_READ    == 2
RMA_WRITE   == 3
Access_type == {LOCAL_READ, LOCAL_WRITE, RMA_READ, RMA_WRITE}

\* The two bits of an access type: a store, and an access of an RMA call.
WriteBit(t) == t % 2
RmaBit(t)   == t \div 2

BitMax(x, y) == IF x = 1 \/ y = 1 THEN 1 ELSE 0

\* C's bitwise OR on access types.
BitOr(s, t) == 2 * BitMax(RmaBit(s), RmaBit(t)) + BitMax(WriteBit(s), WriteBit(t))

Interval == [low_bound : Addr, up_bound : Addr, access_type : Access_type]

\* The sums and differences the callers pass are uint64_t: they wrap.
create_interval(low, up, type) ==
  [low_bound |-> low % AddrSpace, up_bound |-> up % AddrSpace, access_type |-> type]

check_access_rights(a, b) == BitOr(a.access_type, b.access_type) = RMA_WRITE

\* True when the two intervals share an address and their types conflict.
if_intersects(a, b) ==
  /\ ~ (a.low_bound > b.up_bound \/ a.up_bound < b.low_bound)
  /\ check_access_rights(a, b)

----------------------------------------------------------------------------
\* What the handlers build.  A one-sided communication describes its origin
\* buffer by address and its target by displacement, both with an inclusive
\* upper bound; LOAD and STORE pass (size / 8) - 1, the size being in bits.
local_interval(address, size, type)    == create_interval(address, address + size - 1, type)
target_interval(disp, size, type)      == create_interval(disp, disp + size - 1, type)

\* Mutant: the upper bound is exclusive.
load_store_exclusive(address, bits, type) ==
  create_interval(address, address + (bits \div 8), type)

load_store_interval(address, bits, type) ==
  create_interval(address, address + (bits \div 8) - 1, type)

\* The check thread moves a received interval to the addresses of the window.
landed_interval(itv, win_base) ==
  create_interval(itv.low_bound + win_base, itv.up_bound + win_base, itv.access_type)

\* save_interval keeps an interval that lies inside the window.  win_base +
\* win_size is a uint64_t sum as well.
in_window(itv, win_base, win_size) ==
  /\ itv.low_bound >= win_base
  /\ itv.up_bound < (win_base + win_size) % AddrSpace
=============================================================================
