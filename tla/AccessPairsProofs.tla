------------------------- MODULE AccessPairsProofs --------------------------
(***************************************************************************)
(* What AccessPairs says, for every address space, window, displacement    *)
(* unit, datatype size and count.                                          *)
(***************************************************************************)
EXTENDS AccessPairs, TLAPS

Size(c) == c.count * c.type

Type(c) ==
  CASE c.call = "LOAD"  -> LOCAL_READ
    [] c.call = "STORE" -> LOCAL_WRITE
    [] OTHER            -> IF Gets(c) <=> c.side = "origin" THEN RMA_WRITE ELSE RMA_READ

\* The sums the handlers compute stay within the address space.
LEMMA NoWrap ==
  ASSUME NEW x \in Nat, x < AddrSpace PROVE x % AddrSpace = x
BY AddrSpaceAssumption

\* A whole number of bytes is that number of bits.
LEMMA BitsToBytes == ASSUME NEW n \in Nat PROVE (8 * n) \div 8 = n
OBVIOUS

\* A displacement in units is at least itself in bytes, and units keep the
\* distance of two displacements or widen it.
LEMMA UnitsWiden ==
  ASSUME NEW a \in Nat, NEW b \in Nat, a <= b, NEW u \in Nat \ {0}
  PROVE  /\ a * u \in Nat /\ b * u \in Nat
         /\ a <= a * u /\ b * u - a * u >= b - a
<1>1. \A m, n \in Nat : m * n \in Nat OBVIOUS
<1>2. PICK d \in Nat, v \in Nat : b = a + d /\ u = v + 1
  <2>1. b - a \in Nat /\ u - 1 \in Nat /\ b = a + (b - a) /\ u = (u - 1) + 1 OBVIOUS
  <2> QED BY <2>1
<1>3. a * u = a * v + a /\ b * u = a * v + d * v + a + d BY <1>2
<1>4. a * v \in Nat /\ d * v \in Nat BY <1>1
<1>5. a * u \in Nat /\ b * u \in Nat BY <1>1
<1> QED BY <1>2, <1>3, <1>4, <1>5

\* An access has at least one byte, and all of them are addresses.
LEMMA AccessFields ==
  ASSUME NEW c \in Accesses
  PROVE  /\ c.at \in Nat /\ c.count \in Nat \ {0} /\ c.type \in Nat \ {0}
         /\ c.side \in {"memory", "origin", "target"}
         /\ c.side = "memory" <=> c.call \in {"LOAD", "STORE"}
         /\ c.call \in {"LOAD", "STORE", "Put", "Get", "Accumulate", "Put_notify", "Get_notify"}
         /\ c.side = "memory" => c.count = 1
         /\ Size(c) \in Nat \ {0} /\ Start(c) \in Nat /\ Start(c) + Size(c) <= AddrSpace
         /\ Start(c) = IF c.side = "target" THEN win_base + c.at * disp_unit ELSE c.at
         /\ c.at * disp_unit \in Nat /\ c.at <= c.at * disp_unit
<1> USE PairAssumption, AddrSpaceAssumption
<1>1. c \in Calls /\ Start(c) + Size(c) <= AddrSpace BY DEF Accesses, Size
<1>2. /\ c.at \in Nat /\ c.count \in Nat \ {0} /\ c.type \in Nat \ {0}
      /\ c.side \in {"memory", "origin", "target"}
      /\ c.side = "memory" <=> c.call \in {"LOAD", "STORE"}
      /\ c.call \in {"LOAD", "STORE", "Put", "Get", "Accumulate", "Put_notify", "Get_notify"}
      /\ c.side = "memory" => c.count = 1
  <2>1. c.at \in Addr /\ c.type \in TypeSizes BY <1>1 DEF Calls
  <2>2. \/ c.side = "memory" /\ c.call \in {"LOAD", "STORE"} /\ c.count = 1
        \/ /\ c.side \in {"origin", "target"} /\ c.count \in 1 .. MaxCount
           /\ c.call \in {"Put", "Get", "Accumulate", "Put_notify", "Get_notify"}
    BY <1>1 DEF Calls
  <2>3. c.count \in Nat \ {0} BY <2>2
  <2>4. c.at \in Nat /\ c.type \in Nat \ {0}
    <3>1. Addr \subseteq Nat BY DEF Addr
    <3>2. TypeSizes \subseteq Nat \ {0} OBVIOUS
    <3> QED BY <2>1, <3>1, <3>2
  <2> QED BY <2>2, <2>3, <2>4
<1>3. ASSUME NEW m \in Nat \ {0}, NEW n \in Nat \ {0} PROVE m * n \in Nat \ {0}
  OBVIOUS
<1>4. Size(c) \in Nat \ {0} BY <1>2, <1>3 DEF Size
<1>5. c.at * disp_unit \in Nat /\ c.at <= c.at * disp_unit BY <1>2, UnitsWiden
<1>6. Start(c) = IF c.side = "target" THEN win_base + c.at * disp_unit ELSE c.at BY DEF Start
<1>7. Start(c) \in Nat BY <1>2, <1>5, <1>6 DEF Addr
<1> QED BY <1>1, <1>2, <1>4, <1>5, <1>6, <1>7

\* Where an access is described: a target's displacement taken for bytes.
Place(c) == IF c.side = "target" THEN win_base + c.at ELSE c.at

\* The place is not after the access itself, and is where it is if InPlace.
LEMMA Places ==
  ASSUME NEW c \in Accesses
  PROVE  /\ Place(c) \in Nat /\ Place(c) <= Start(c) /\ Place(c) + Size(c) <= AddrSpace
         /\ InPlace(c) => Place(c) = Start(c)
<1>1. /\ c.at \in Nat /\ c.at * disp_unit \in Nat /\ c.at <= c.at * disp_unit
      /\ Start(c) = IF c.side = "target" THEN win_base + c.at * disp_unit ELSE c.at
      /\ Size(c) \in Nat \ {0} /\ Start(c) + Size(c) <= AddrSpace
  BY AccessFields
<1>2. win_base \in Nat /\ AddrSpace \in Nat BY PairAssumption, AddrSpaceAssumption DEF Addr
<1>3. Place(c) = IF c.side = "target" THEN win_base + c.at ELSE c.at BY DEF Place
<1>4. InPlace(c) => (c.side = "target" => c.at * disp_unit = c.at) BY DEF InPlace
<1> QED BY <1>1, <1>2, <1>3, <1>4

\* An origin's buffer, and a target's part of the window once it has landed,
\* are described by a first and a last byte.
LEMMA DescribedBytes ==
  ASSUME NEW c \in Accesses, c.side # "memory", NEW local_type, NEW target_type
  PROVE  Described(c, c.at, Size(c), local_type, target_type) =
           [low_bound |-> Place(c), up_bound |-> Place(c) + Size(c) - 1,
            access_type |-> IF c.side = "origin" THEN local_type ELSE target_type]
<1> DEFINE at == c.at
           n  == Size(c)
<1>1. /\ at \in Nat /\ n \in Nat \ {0} /\ c.side \in {"origin", "target"}
      /\ Place(c) = IF c.side = "target" THEN win_base + at ELSE at
      /\ Place(c) + n <= AddrSpace
  BY AccessFields, Places DEF Place
<1>2. win_base \in Nat /\ AddrSpace \in Nat \ {0} BY PairAssumption, AddrSpaceAssumption DEF Addr
<1> HIDE DEF at, n
<1>3. at % AddrSpace = at /\ (at + n - 1) % AddrSpace = at + n - 1
  <2>1. at \in Nat /\ at < AddrSpace /\ at + n - 1 \in Nat /\ at + n - 1 < AddrSpace BY <1>1, <1>2
  <2> QED BY <2>1, NoWrap
<1>4. CASE c.side = "origin" BY <1>1, <1>3, <1>4 DEF Described, local_interval, create_interval, at, n
<1>5. CASE c.side = "target"
  <2>1. (at + win_base) % AddrSpace = Place(c) /\ (at + n - 1 + win_base) % AddrSpace = Place(c) + n - 1
    <3>1. at + win_base = Place(c) /\ at + n - 1 + win_base = Place(c) + n - 1 BY <1>1, <1>2, <1>5
    <3>2. Place(c) \in Nat /\ Place(c) < AddrSpace /\ Place(c) + n - 1 \in Nat /\ Place(c) + n - 1 < AddrSpace
      BY <1>1, <1>2, <1>5
    <3> QED BY <3>1, <3>2, NoWrap
  <2> QED BY <1>3, <1>5, <2>1
    DEF Described, landed_interval, target_interval, create_interval, at, n
<1> QED BY <1>1, <1>4, <1>5

\* So is what a load or a store touches.
LEMMA LoadStoreBytes ==
  ASSUME NEW c \in Accesses, c.side = "memory", NEW type
  PROVE  load_store_interval(c.at, 8 * c.type, type) =
           [low_bound |-> Place(c), up_bound |-> Place(c) + Size(c) - 1, access_type |-> type]
<1>1. /\ c.at \in Nat /\ c.type \in Nat \ {0} /\ Place(c) = c.at /\ Size(c) = c.type
      /\ c.at + c.type <= AddrSpace
  BY AccessFields DEF Size, Place
<1>2. (8 * c.type) \div 8 = c.type BY <1>1, BitsToBytes
<1>3. AddrSpace \in Nat BY AddrSpaceAssumption
<1>4. c.at < AddrSpace /\ c.at + c.type - 1 \in Nat /\ c.at + c.type - 1 < AddrSpace BY <1>1, <1>3
<1>5. c.at % AddrSpace = c.at /\ (c.at + c.type - 1) % AddrSpace = c.at + c.type - 1
  BY <1>1, <1>4, NoWrap
<1> QED BY <1>1, <1>2, <1>5 DEF load_store_interval, create_interval

\* The interval stored for an access: its place, its size and its kind.
LEMMA StoredBytes ==
  ASSUME NEW c \in Accesses, OfValues(c)
  PROVE  StoredInterval(c) =
           [low_bound |-> Place(c), up_bound |-> Place(c) + Size(c) - 1, access_type |-> Type(c)]
<1>1. /\ c.side \in {"memory", "origin", "target"} /\ c.type * c.count = Size(c)
      /\ c.side = "memory" <=> c.call \in {"LOAD", "STORE"}
      /\ c.call \in {"LOAD", "STORE", "Put", "Get", "Accumulate", "Put_notify", "Get_notify"}
  BY AccessFields DEF Size
<1>2. CASE c.call = "LOAD"
  BY <1>1, <1>2, LoadStoreBytes DEF StoredInterval, LOAD, Type
<1>3. CASE c.call = "STORE"
  BY <1>1, <1>3, LoadStoreBytes DEF StoredInterval, STORE, Type
<1> DEFINE Bounds(lt, tt) == [low_bound |-> Place(c), up_bound |-> Place(c) + Size(c) - 1,
                              access_type |-> IF c.side = "origin" THEN lt ELSE tt]
<1>4. c.side # "memory" => /\ Described(c, c.at, c.type * c.count, RMA_READ, RMA_WRITE) = Bounds(RMA_READ, RMA_WRITE)
                           /\ Described(c, c.at, c.type * c.count, RMA_WRITE, RMA_READ) = Bounds(RMA_WRITE, RMA_READ)
  BY <1>1, DescribedBytes
<1>5. CASE c.call = "Put"
  <2>1. StoredInterval(c) = Bounds(RMA_READ, RMA_WRITE)
    BY <1>1, <1>4, <1>5 DEF StoredInterval, new_Put, new_put_, OfValues
  <2> QED BY <1>5, <2>1 DEF Type, Gets
<1>6. CASE c.call = "Put_notify"
  <2>1. StoredInterval(c) = Bounds(RMA_READ, RMA_WRITE)
    BY <1>1, <1>4, <1>6 DEF StoredInterval, new_Put_notify, new_put_notify_, OfValues
  <2> QED BY <1>6, <2>1 DEF Type, Gets
<1>7. CASE c.call = "Accumulate"
  <2>1. StoredInterval(c) = Bounds(RMA_READ, RMA_WRITE)
    BY <1>1, <1>4, <1>7 DEF StoredInterval, new_Accumulate, OfValues
  <2> QED BY <1>7, <2>1 DEF Type, Gets
<1>8. CASE c.call = "Get"
  <2>1. StoredInterval(c) = Bounds(RMA_WRITE, RMA_READ)
    BY <1>1, <1>4, <1>8 DEF StoredInterval, new_Get, OfValues
  <2> QED BY <1>8, <2>1 DEF Type, Gets
<1>9. CASE c.call = "Get_notify"
  <2>1. StoredInterval(c) = Bounds(RMA_WRITE, RMA_READ)
    BY <1>1, <1>4, <1>9 DEF StoredInterval, new_Get_notify, OfValues
  <2> QED BY <1>9, <2>1 DEF Type, Gets
<1> QED BY <1>1, <1>2, <1>3, <1>5, <1>6, <1>7, <1>8, <1>9

----------------------------------------------------------------------------
(* The pairs. *)

\* The access types conflict when one access is by an RMA call and one writes.
LEMMA TypesRace ==
  ASSUME NEW c \in Accesses, NEW d \in Accesses
  PROVE  BitOr(Type(c), Type(d)) = RMA_WRITE <=> Racing(c, d)
<1> USE DEF LOCAL_READ, LOCAL_WRITE, RMA_READ, RMA_WRITE
<1>1. ASSUME NEW a \in Accesses
      PROVE  /\ Type(a) \in {0, 1, 2, 3}
             /\ RmaBit(Type(a)) = IF ByRma(a) THEN 1 ELSE 0
             /\ WriteBit(Type(a)) = IF Writes(a) THEN 1 ELSE 0
  <2>1. /\ a.side \in {"memory", "origin", "target"}
        /\ a.side = "memory" <=> a.call \in {"LOAD", "STORE"}
        /\ a.call \in {"LOAD", "STORE", "Put", "Get", "Accumulate", "Put_notify", "Get_notify"}
    BY AccessFields
  <2>2. /\ RmaBit(0) = 0 /\ RmaBit(1) = 0 /\ RmaBit(2) = 1 /\ RmaBit(3) = 1
        /\ WriteBit(0) = 0 /\ WriteBit(1) = 1 /\ WriteBit(2) = 0 /\ WriteBit(3) = 1
    BY DEF RmaBit, WriteBit
  <2>3. CASE a.side = "memory" BY <2>1, <2>2, <2>3 DEF Type, ByRma, Writes
  <2>4. CASE a.side # "memory" BY <2>1, <2>2, <2>4 DEF Type, ByRma, Writes
  <2> QED BY <2>3, <2>4
<1> QED BY <1>1 DEF BitOr, BitMax, Racing

\* Intervals overlap when they share an address.
LEMMA OverlapShares ==
  ASSUME NEW l1 \in Int, NEW u1 \in Int, NEW l2 \in Int, NEW u2 \in Int, l1 <= u1, l2 <= u2
  PROVE  ~ (l1 > u2 \/ u1 < l2) <=> (l1 .. u1) \intersect (l2 .. u2) # {}
<1>1. ASSUME l1 <= u2, l2 <= u1 PROVE (l1 .. u1) \intersect (l2 .. u2) # {}
  <2>1. CASE l1 <= l2
    <3>1. l2 \in l1 .. u1 /\ l2 \in l2 .. u2 BY <1>1, <2>1
    <3> QED BY <3>1
  <2>2. CASE l2 <= l1
    <3>1. l1 \in l1 .. u1 /\ l1 \in l2 .. u2 BY <1>1, <2>2
    <3> QED BY <3>1
  <2> QED BY <2>1, <2>2
<1>2. ASSUME NEW b \in l1 .. u1, b \in l2 .. u2 PROVE l1 <= u2 /\ l2 <= u1 BY <1>2
<1> QED BY <1>1, <1>2

\* The two accesses TLC goes through.
PairTypeOK == first \in Accesses /\ second \in Accesses

\* Both accesses are ones that exist.
LEMMA PairTypes == PairSpec => []PairTypeOK
<1>1. PairInit => PairTypeOK BY DEF PairInit, PairTypeOK
<1>2. PairTypeOK /\ [PairNext]_<<first, second>> => PairTypeOK' BY DEF PairNext, PairTypeOK
<1> QED BY <1>1, <1>2, PTL DEF PairSpec

\* What if_intersects says of two stored intervals: the places overlap and the
\* accesses race.
LEMMA Verdict ==
  ASSUME NEW c \in Accesses, NEW d \in Accesses, OfValues(c), OfValues(d)
  PROVE  if_intersects(StoredInterval(c), StoredInterval(d))
           <=> /\ Place(c) <= Place(d) + Size(d) - 1 /\ Place(d) <= Place(c) + Size(c) - 1
               /\ Racing(c, d)
<1> DEFINE i == StoredInterval(c)
           j == StoredInterval(d)
<1>1. /\ i.low_bound = Place(c) /\ i.up_bound = Place(c) + Size(c) - 1 /\ i.access_type = Type(c)
      /\ j.low_bound = Place(d) /\ j.up_bound = Place(d) + Size(d) - 1 /\ j.access_type = Type(d)
  BY StoredBytes
<1>2. /\ Place(c) \in Nat /\ Size(c) \in Nat /\ Place(d) \in Nat /\ Size(d) \in Nat
  BY AccessFields, Places
<1>3. check_access_rights(i, j) <=> Racing(c, d) BY <1>1, TypesRace DEF check_access_rights
<1> HIDE DEF i, j
<1>4. if_intersects(i, j) <=> /\ ~ (Place(c) > Place(d) + Size(d) - 1 \/ Place(c) + Size(c) - 1 < Place(d))
                              /\ Racing(c, d)
  BY <1>1, <1>3 DEF if_intersects
<1>5. if_intersects(i, j) <=> /\ Place(c) <= Place(d) + Size(d) - 1 /\ Place(d) <= Place(c) + Size(c) - 1
                              /\ Racing(c, d)
  BY <1>2, <1>4
<1> QED BY <1>5 DEF i, j

\* Two accesses share a byte when neither ends before the other starts.
LEMMA BytesShared ==
  ASSUME NEW c \in Accesses, NEW d \in Accesses
  PROVE  Bytes(c) \intersect Bytes(d) # {}
           <=> Start(c) <= Start(d) + Size(d) - 1 /\ Start(d) <= Start(c) + Size(c) - 1
<1>1. /\ Start(c) \in Nat /\ Size(c) \in Nat \ {0} /\ Start(d) \in Nat /\ Size(d) \in Nat \ {0}
  BY AccessFields
<1>2. Bytes(c) = Start(c) .. Start(c) + Size(c) - 1 /\ Bytes(d) = Start(d) .. Start(d) + Size(d) - 1
  BY DEF Bytes, Size
<1>3. PICK lc \in Int, uc \in Int, ld \in Int, ud \in Int :
        /\ lc = Start(c) /\ uc = Start(c) + Size(c) - 1 /\ ld = Start(d) /\ ud = Start(d) + Size(d) - 1
        /\ lc <= uc /\ ld <= ud
  BY <1>1
<1>4. ~ (lc > ud \/ uc < ld) <=> (lc .. uc) \intersect (ld .. ud) # {}
  <2>1. lc <= uc /\ ld <= ud BY <1>3
  <2> QED BY <2>1, OverlapShares, Zenon
<1> QED BY <1>2, <1>3, <1>4

\* The analyzer reports two accesses exactly when they share a byte and race,
\* for every address space, window, datatype and count, and for every
\* displacement unit if the displacements are the same in bytes: a program's
\* loads, stores and origin buffers, and targets at the start of the window.
THEOREM PairsDetected == PairSpec => []DetectsSharedBytes
<1>1. ASSUME NEW c \in Accesses, NEW d \in Accesses, OfValues(c), OfValues(d), InPlace(c), InPlace(d)
      PROVE  if_intersects(StoredInterval(c), StoredInterval(d))
               <=> (Bytes(c) \intersect Bytes(d) # {} /\ Racing(c, d))
  <2>1. Place(c) = Start(c) /\ Place(d) = Start(d) BY <1>1, Places
  <2> QED BY <1>1, <2>1, Verdict, BytesShared
<1>2. PairTypeOK => DetectsSharedBytes BY <1>1 DEF PairTypeOK, DetectsSharedBytes
<1> QED BY <1>2, PairTypes, PTL DEF PairSpec

\* No race of two accesses from other processes is overlooked, for every
\* displacement unit: units only widen the distance of two displacements, so
\* accesses that share a byte share one where their intervals are stored.
THEOREM RemoteRacesReported == PairSpec => []RemoteRacesDetected
<1>1. ASSUME NEW c \in Accesses, NEW d \in Accesses, OfValues(c), OfValues(d),
             c.side = "target", d.side = "target", Bytes(c) \intersect Bytes(d) # {}, Racing(c, d)
      PROVE  if_intersects(StoredInterval(c), StoredInterval(d))
  <2>1. /\ c.at \in Nat /\ d.at \in Nat /\ Size(c) \in Nat \ {0} /\ Size(d) \in Nat \ {0}
        /\ Start(c) = win_base + c.at * disp_unit /\ Start(d) = win_base + d.at * disp_unit
        /\ c.at * disp_unit \in Nat /\ d.at * disp_unit \in Nat
    BY <1>1, AccessFields
  <2>2. Start(c) <= Start(d) + Size(d) - 1 /\ Start(d) <= Start(c) + Size(c) - 1
    BY <1>1, BytesShared
  <2>3. win_base \in Nat /\ disp_unit \in Nat \ {0} BY PairAssumption DEF Addr
  <2>4. /\ c.at <= d.at => d.at * disp_unit - c.at * disp_unit >= d.at - c.at
        /\ d.at <= c.at => c.at * disp_unit - d.at * disp_unit >= c.at - d.at
    BY <2>1, <2>3, UnitsWiden
  <2>5. PICK a \in Nat, b \in Nat, A \in Nat, B \in Nat :
          a = c.at /\ b = d.at /\ A = c.at * disp_unit /\ B = d.at * disp_unit
    BY <2>1
  <2>6. a <= b + Size(d) - 1 /\ b <= a + Size(c) - 1
    <3>1. A <= B + Size(d) - 1 /\ B <= A + Size(c) - 1 BY <2>1, <2>2, <2>3, <2>5
    <3>2. (a <= b => B - A >= b - a) /\ (b <= a => A - B >= a - b) BY <2>4, <2>5
    <3> QED BY <2>1, <3>1, <3>2
  <2>7. Place(c) = win_base + a /\ Place(d) = win_base + b BY <1>1, <2>5 DEF Place
  <2>8. Place(c) <= Place(d) + Size(d) - 1 /\ Place(d) <= Place(c) + Size(c) - 1
    BY <2>1, <2>3, <2>6, <2>7
  <2> QED BY <1>1, <2>8, Verdict
<1>2. PairTypeOK => RemoteRacesDetected BY <1>1 DEF PairTypeOK, RemoteRacesDetected
<1> QED BY <1>2, PairTypes, PTL DEF PairSpec
=============================================================================
