--------------------------- MODULE FeltDictProofs ---------------------------
(***************************************************************************)
(* Proofs about FeltDict, for any keys, elements, capacities the hash map  *)
(* may choose, and numbers of accesses and buffers.  The inductive         *)
(* invariant adds to Placed how accesses are accounted for: count is the   *)
(* number of keys touched plus the number of repeated accesses.            *)
(***************************************************************************)
EXTENDS FeltDict, FiniteSetTheorems, TLAPS

Accounted ==
  /\ touched \subseteq DOMAIN mappings
  /\ count = Cardinality(touched) + repeats
  /\ ~hostMade => touched = DOMAIN mappings

IInv == TypeOK /\ Placed /\ Accounted

-----------------------------------------------------------------------------
(* Facts about states. *)

\* A load finds an element or memory nobody has written.
LEMMA LoadType ==
  ASSUME TypeOK, NEW b, NEW i
  PROVE  Load(b, i) \in Values \cup {Undef}
<1>1. CASE b \in DOMAIN heap /\ i \in DOMAIN heap[b]
  <2>1. heap \in Seq(Buffers)
    BY DEF TypeOK
  <2>2. heap[b] \in Buffers
    BY <1>1, <2>1
  <2>3. PICK c \in Capacities : heap[b] \in [0..(c - 1) -> Values \cup {Undef}]
    BY <2>2 DEF Buffers
  <2> QED
    BY <1>1, <2>3 DEF Load
<1>2. CASE ~(b \in DOMAIN heap /\ i \in DOMAIN heap[b])
  BY <1>2 DEF Load
<1> QED
  BY <1>1, <1>2

\* The number of keys is a number.
LEMMA SizeType ==
  ASSUME TypeOK
  PROVE  Size \in Nat
BY FS_CardinalityType DEF TypeOK, Size

\* Adding a key counts one more, unless it is there already.
LEMMA SizeOfMore ==
  ASSUME NEW S, NEW k, IsFiniteSet(S)
  PROVE  /\ IsFiniteSet(S \cup {k})
         /\ Cardinality(S \cup {k}) = IF k \in S THEN Cardinality(S) ELSE Cardinality(S) + 1
         /\ Cardinality(S) \in Nat
BY FS_AddElement, FS_CardinalityType

\* A squash under the accounting refunds repeated accesses only.
LEMMA AccountedRefund ==
  ASSUME TypeOK, Accounted
  PROVE  RefundEarned
<1>1. Size \in Nat /\ Cardinality(touched) \in Nat
  BY SizeType, FS_CardinalityType DEF TypeOK
<1>2. Cardinality(touched) <= Size
  BY FS_Subset DEF TypeOK, Accounted, Size
<1>3. ~hostMade => Cardinality(touched) = Size
  BY DEF Accounted, Size
<1> QED
  BY <1>1, <1>2, <1>3 DEF RefundEarned, Repeated, Accounted, TypeOK

-----------------------------------------------------------------------------
(* The invariant holds initially. *)

LEMMA InitInv == Init => IInv
<1> SUFFICES ASSUME Init PROVE IInv
  OBVIOUS
<1>1. DOMAIN mappings = {} /\ touched = {} /\ IsFiniteSet({}) /\ Cardinality({}) = 0
  BY FS_EmptySet DEF Init, NoMappings
<1>2. TypeOK
  <2>1. mappings \in [DOMAIN mappings -> Nat]
    BY <1>1 DEF Init, NoMappings
  <2>2. heap \in Seq(Buffers) /\ elements \in 0..Len(heap)
    <3>1. <<>> \in Seq(Buffers) /\ Len(<<>>) = 0
      OBVIOUS
    <3> QED
      BY <3>1 DEF Init
  <2>3. entry \in [buf : Nat, off : Nat]
    BY DEF Init, NullEntry
  <2>4. DOMAIN mappings \subseteq Keys /\ IsFiniteSet(DOMAIN mappings)
    BY <1>1
  <2>5. touched \subseteq Keys /\ IsFiniteSet(touched)
    BY <1>1
  <2> QED
    BY <2>1, <2>2, <2>3, <2>4, <2>5 DEF Init, TypeOK
<1>3. Placed
  BY <1>1 DEF Init, Placed, Distinct, Packed, EntryLive, Written, Size, NullEntry
<1>4. Accounted
  BY <1>1 DEF Init, Accounted
<1> QED
  BY <1>2, <1>3, <1>4 DEF IInv

-----------------------------------------------------------------------------
(* Operations that leave the dictionary as it is. *)

\* Squash, IntoEntries and ReadBack read a dictionary that has no open entry.
LEMMA ReadersKeep ==
  ASSUME IInv, form \in {"dict", "squashed"}, form' \in {"none", "squashed"},
         UNCHANGED <<heap, dictVars, entry, history>>
  PROVE  IInv'
<1> USE DEF dictVars, history
<1>1. TypeOK'
  BY DEF IInv, TypeOK
<1>2. Distinct' /\ Packed' /\ Size' = Size
  BY DEF IInv, Placed, Distinct, Packed, Size
<1>3. EntryLive'
  BY DEF EntryLive
<1>4. Written'
  BY DEF IInv, Placed, Written, Load
<1>5. Accounted'
  BY DEF IInv, Accounted
<1> QED
  BY <1>1, <1>2, <1>3, <1>4, <1>5 DEF IInv, Placed

LEMMA StutterKeeps == IInv /\ UNCHANGED vars => IInv'
<1> SUFFICES ASSUME IInv, UNCHANGED vars PROVE IInv'
  OBVIOUS
<1> USE DEF vars, dictVars, history
<1>1. TypeOK'
  BY DEF IInv, TypeOK
<1>2. Distinct' /\ Packed'
  BY DEF IInv, Placed, Distinct, Packed, Size
<1>3. EntryLive'
  BY DEF IInv, Placed, EntryLive
<1>4. Written'
  BY DEF IInv, Placed, Written, Load
<1>5. Accounted'
  BY DEF IInv, Accounted
<1> QED
  BY <1>1, <1>2, <1>3, <1>4, <1>5 DEF IInv, Placed

-----------------------------------------------------------------------------
(* Creation. *)

LEMMA NewKeeps == IInv /\ New => IInv'
<1> SUFFICES ASSUME IInv, New PROVE IInv'
  OBVIOUS
<1>1. /\ mappings' = NoMappings /\ DOMAIN mappings' = {} /\ mappings' \in [{} -> Nat]
      /\ touched' = {} /\ IsFiniteSet({}) /\ Cardinality({}) = 0
  BY FS_EmptySet DEF New, NoMappings
<1>2. TypeOK'
  <2>1. heap' \in Seq(Buffers) /\ elements' \in 0..Len(heap')
    BY DEF New, IInv, TypeOK
  <2>2. entry' \in [buf : Nat, off : Nat]
    BY DEF New, IInv, TypeOK
  <2> QED
    BY <1>1, <2>1, <2>2 DEF New, TypeOK
<1>3. Placed'
  BY <1>1 DEF New, Placed, Distinct, Packed, EntryLive, Written, Size
<1>4. Accounted'
  BY <1>1 DEF New, Accounted
<1> QED
  BY <1>2, <1>3, <1>4 DEF IInv

\* The host fills the cells of the keys, in the order its own map yields them.
LEMMA FromHostKeeps ==
  ASSUME IInv, NEW S \in HostKeys, FromHost(S)
  PROVE  IInv'
<1> DEFINE n == Cardinality(S)
<1>1. IsFiniteSet(S) /\ S \subseteq Keys /\ n \in Nat /\ (n = 0 <=> S = {})
  BY HostAssumption, FS_CardinalityType, FS_EmptySet
<1>2. /\ mappings' \in [S -> 0..(n - 1)] /\ DOMAIN mappings' = S
      /\ \A k, l \in S : mappings'[k] = mappings'[l] => k = l
  BY DEF FromHost, Orders
<1>3. Size' = n
  BY <1>2 DEF Size
<1>4. /\ touched' = {} /\ Cardinality({}) = 0 /\ IsFiniteSet({})
      /\ count' = 0 /\ repeats' = 0 /\ hostMade' = TRUE /\ form' = "dict"
      /\ entry' = entry
  BY FS_EmptySet DEF FromHost
<1>5. Accounted'
  BY <1>4 DEF Accounted
<1>6. /\ heap' \in Seq(Buffers) /\ capacity' \in Capacities \cup {0}
      /\ elements' \in 0..Len(heap') /\ (elements' = 0 <=> capacity' = 0)
      /\ n <= capacity'
      /\ elements' # 0 => DOMAIN heap'[elements'] = 0..(capacity' - 1)
      /\ \A k \in S : Load(elements, mappings[k])' \in Values
  <2>0. heap \in Seq(Buffers) /\ Len(heap) \in Nat
    BY DEF IInv, TypeOK
  <2>1. CASE S = {}
    BY <1>1, <2>0, <2>1 DEF FromHost
  <2>2. CASE S # {}
    <3> DEFINE Cells(value) == [j \in 0..(capacity' - 1) |->
                 IF \E k \in S : mappings'[k] = j
                 THEN value[CHOOSE k \in S : mappings'[k] = j] ELSE Undef]
    <3>1. capacity' \in Capacities /\ capacity' >= n /\ elements' = Len(heap) + 1
      BY <2>2 DEF FromHost
    <3>2. PICK value \in [S -> Values] : heap' = Append(heap, Cells(value))
      BY <2>2 DEF FromHost
    <3>3. Cells(value) \in [0..(capacity' - 1) -> Values \cup {Undef}]
      OBVIOUS
    <3>4. Cells(value) \in Buffers
      BY <3>1, <3>3 DEF Buffers
    <3> HIDE DEF Cells
    <3>5. heap' \in Seq(Buffers) /\ Len(heap') = Len(heap) + 1
          /\ heap'[Len(heap) + 1] = Cells(value)
      BY <2>0, <3>2, <3>4
    <3>6. capacity' # 0 /\ capacity' \in Nat
      BY <3>1, CapacitiesAssumption
    <3>7. DOMAIN heap'[elements'] = 0..(capacity' - 1)
      BY <3>1, <3>5, <3>3
    <3>8. ASSUME NEW k \in S PROVE Load(elements, mappings[k])' \in Values
      <4>1. mappings'[k] \in 0..(capacity' - 1)
        BY <1>1, <1>2, <3>1, <3>6
      <4>2. elements' \in DOMAIN heap'
        BY <2>0, <3>1, <3>5
      <4>3. Load(elements, mappings[k])' = heap'[elements'][mappings'[k]]
        BY <4>1, <4>2, <3>7 DEF Load
      <4>4. Cells(value)[mappings'[k]] \in Values
        BY <4>1, <3>2 DEF Cells
      <4> QED
        BY <4>3, <4>4, <3>1, <3>5
    <3> QED
      BY <2>0, <3>1, <3>5, <3>6, <3>7, <3>8
  <2> QED
    BY <2>1, <2>2
<1>7. TypeOK'
  <2>1. mappings' \in [S -> Nat]
    BY <1>1, <1>2
  <2>2. entry' \in [buf : Nat, off : Nat]
    BY <1>4 DEF IInv, TypeOK
  <2> QED
    BY <1>1, <1>2, <1>4, <1>6, <2>1, <2>2 DEF TypeOK
<1>8. Distinct' /\ EntryLive'
  BY <1>2, <1>4 DEF Distinct, EntryLive
<1>9. Packed'
  BY <1>1, <1>2, <1>3, <1>6 DEF Packed
<1>10. Written'
  BY <1>2, <1>6 DEF Written
<1> QED
  BY <1>5, <1>7, <1>8, <1>9, <1>10 DEF IInv, Placed

-----------------------------------------------------------------------------
(* Entries. *)

\* A store changes one cell and no buffer's shape.
LEMMA StoreType ==
  ASSUME TypeOK, NEW b, NEW i, NEW v \in Values
  PROVE  /\ StoreIn(b, i, v) \in Seq(Buffers)
         /\ Len(StoreIn(b, i, v)) = Len(heap)
         /\ DOMAIN StoreIn(b, i, v) = DOMAIN heap
<1>1. heap \in Seq(Buffers) /\ DOMAIN heap = 1..Len(heap) /\ Len(heap) \in Nat
  BY DEF TypeOK
<1>2. ASSUME NEW c \in DOMAIN heap
      PROVE  [j \in DOMAIN heap[c] |-> IF c = b /\ j = i THEN v ELSE heap[c][j]] \in Buffers
  <2>1. heap[c] \in Buffers
    BY <1>1
  <2>2. PICK size \in Capacities : heap[c] \in [0..(size - 1) -> Values \cup {Undef}]
    BY <2>1 DEF Buffers
  <2>3. [j \in DOMAIN heap[c] |-> IF c = b /\ j = i THEN v ELSE heap[c][j]]
          \in [0..(size - 1) -> Values \cup {Undef}]
    BY <2>2
  <2> QED
    BY <2>3 DEF Buffers
<1>3. StoreIn(b, i, v) \in [1..Len(heap) -> Buffers]
  BY <1>1, <1>2 DEF StoreIn
<1> QED
  BY <1>1, <1>3

LEMMA FinalizeKeeps ==
  ASSUME IInv, NEW v \in Values, Finalize(v)
  PROVE  IInv'
<1> USE DEF dictVars, history
<1>1. /\ form = "entry" /\ form' = "dict" /\ entry' = NullEntry
      /\ heap' = StoreIn(entry.buf, entry.off, v)
      /\ mappings' = mappings /\ capacity' = capacity /\ elements' = elements
      /\ count' = count /\ touched' = touched /\ repeats' = repeats /\ hostMade' = hostMade
  BY DEF Finalize
<1>2. /\ heap' \in Seq(Buffers) /\ Len(heap') = Len(heap) /\ DOMAIN heap' = DOMAIN heap
      /\ Len(heap) \in Nat /\ DOMAIN heap = 1..Len(heap)
  BY <1>1, StoreType DEF IInv, TypeOK
<1>3. TypeOK'
  <2>1. entry' \in [buf : Nat, off : Nat]
    BY <1>1 DEF NullEntry
  <2> QED
    BY <1>1, <1>2, <2>1 DEF IInv, TypeOK
<1>4. entry.buf = elements /\ elements \in DOMAIN heap
  <2>1. PICK k \in DOMAIN mappings : mappings[k] = entry.off
    BY <1>1 DEF IInv, Placed, EntryLive
  <2>2. mappings[k] \in Nat /\ mappings[k] < Size /\ Size <= capacity /\ Size \in Nat
    BY SizeType DEF IInv, TypeOK, Placed, Packed
  <2>3. capacity # 0
    BY <2>2, CapacitiesAssumption DEF IInv, TypeOK
  <2> QED
    BY <1>1, <1>2, <2>3 DEF IInv, TypeOK, Placed, EntryLive
<1>5. DOMAIN heap'[elements] = DOMAIN heap[elements]
  BY <1>1, <1>4 DEF StoreIn
<1>6. Distinct' /\ EntryLive'
  BY <1>1 DEF IInv, Placed, Distinct, EntryLive
<1>7. Packed'
  BY <1>1, <1>5 DEF IInv, Placed, Packed, Size
<1>8. ASSUME NEW k \in DOMAIN mappings PROVE Load(elements, mappings[k])' \in Values
  <2>1. Load(elements, mappings[k])' =
          IF mappings[k] \in DOMAIN heap[elements] THEN heap'[elements][mappings[k]] ELSE Undef
    BY <1>1, <1>2, <1>4, <1>5 DEF Load
  <2>2. mappings[k] \in DOMAIN heap[elements]
    <3>1. mappings[k] \in Nat /\ mappings[k] < Size /\ Size <= capacity /\ Size \in Nat
      BY SizeType DEF IInv, TypeOK, Placed, Packed
    <3>2. capacity \in Nat
      BY CapacitiesAssumption DEF IInv, TypeOK
    <3>3. DOMAIN heap[elements] = 0..(capacity - 1)
      BY <1>2, <1>4 DEF IInv, Placed, Packed
    <3> QED
      BY <3>1, <3>2, <3>3
  <2>3. heap'[elements][mappings[k]] =
          IF mappings[k] = entry.off THEN v ELSE heap[elements][mappings[k]]
    BY <1>1, <1>4, <2>2 DEF StoreIn
  <2>4. CASE mappings[k] = entry.off
    BY <2>1, <2>2, <2>3, <2>4
  <2>5. CASE mappings[k] # entry.off
    <3>1. Load(elements, mappings[k]) \in Values
      BY <2>5 DEF IInv, Placed, Written
    <3> QED
      BY <1>4, <2>1, <2>2, <2>3, <2>5, <3>1 DEF Load
  <2> QED
    BY <2>4, <2>5
<1>9. Written'
  BY <1>1, <1>8 DEF Written
<1>10. Accounted'
  BY <1>1 DEF IInv, Accounted
<1> QED
  BY <1>3, <1>6, <1>7, <1>9, <1>10 DEF IInv, Placed

\* The elements so far move with the map: every key keeps its value, the buffer has
\* the capacity the map reports.
LEMMA GetCells ==
  ASSUME IInv, NEW k \in Keys, Get(k)
  PROVE  /\ heap' \in Seq(Buffers)
         /\ elements' \in DOMAIN heap' /\ capacity' \in Capacities
         /\ DOMAIN heap'[elements'] = 0..(capacity' - 1)
         /\ Size <= capacity' /\ (k \notin DOMAIN mappings => Size < capacity')
         /\ \A x \in DOMAIN mappings :
              heap'[elements'][mappings[x]] = Load(elements, mappings[x])
<1>0. /\ heap \in Seq(Buffers) /\ Len(heap) \in Nat /\ DOMAIN heap = 1..Len(heap)
      /\ capacity \in Nat /\ elements \in 0..Len(heap) /\ (elements = 0 <=> capacity = 0)
      /\ Size \in Nat /\ Size <= capacity
      /\ \A x \in DOMAIN mappings : mappings[x] \in Nat /\ mappings[x] < Size
      /\ elements # 0 => DOMAIN heap[elements] = 0..(capacity - 1)
  BY SizeType, CapacitiesAssumption DEF IInv, TypeOK, Placed, Packed
<1>1. CASE Size = capacity /\ k \notin DOMAIN mappings
  <2>1. capacity' \in Capacities /\ capacity' > Size /\ capacity' \in Nat
    BY <1>0, <1>1, CapacitiesAssumption DEF Get, MapCapacity
  <2>2. heap' = Append(heap, Moved(capacity')) /\ elements' = Len(heap) + 1
    BY <1>1 DEF Get, Grow
  <2> DEFINE new == Moved(capacity')
  <2>3. new \in [0..(capacity' - 1) -> Values \cup {Undef}]
    BY LoadType DEF Moved, IInv
  <2>4. new \in Buffers
    BY <2>1, <2>3 DEF Buffers
  <2> HIDE DEF new
  <2>5. /\ heap' \in Seq(Buffers) /\ elements' \in DOMAIN heap'
        /\ heap'[elements'] = new
    BY <1>0, <2>2, <2>4 DEF new
  <2>6. ASSUME NEW x \in DOMAIN mappings
        PROVE  new[mappings[x]] = Load(elements, mappings[x])
    <3>1. mappings[x] \in 0..(capacity' - 1) /\ mappings[x] < Size
      BY <1>0, <2>1
    <3> QED
      BY <3>1 DEF new, Moved
  <2> QED
    BY <1>0, <2>1, <2>3, <2>5, <2>6
<1>2. CASE Size # capacity \/ k \in DOMAIN mappings
  <2>1. capacity' = capacity /\ (k \notin DOMAIN mappings => Size < capacity)
    BY <1>0, <1>2 DEF Get, MapCapacity
  <2>2. heap' = heap /\ elements' = elements
    BY <1>2 DEF Get, Grow
  <2>3. capacity # 0
    BY <1>0, <1>2, CapacitiesAssumption
  <2>4. elements \in DOMAIN heap /\ capacity \in Capacities
    BY <1>0, <2>3 DEF IInv, TypeOK
  <2>5. ASSUME NEW x \in DOMAIN mappings
        PROVE  heap[elements][mappings[x]] = Load(elements, mappings[x])
    <3>1. mappings[x] \in DOMAIN heap[elements]
      BY <1>0, <2>4
    <3> QED
      BY <2>4, <3>1 DEF Load
  <2> QED
    BY <1>0, <2>1, <2>2, <2>3, <2>4, <2>5
<1> QED
  BY <1>1, <1>2

LEMMA GetKeeps ==
  ASSUME IInv, NEW k \in Keys, Get(k)
  PROVE  IInv'
<1> DEFINE i == IndexOf(k)
<1>1. /\ form = "dict" /\ form' = "entry"
      /\ mappings' = [x \in DOMAIN mappings \cup {k} |-> IF x = k THEN i ELSE mappings[x]]
      /\ DOMAIN mappings' = DOMAIN mappings \cup {k}
      /\ entry' = [buf |-> elements', off |-> i]
      /\ count' = count + 1
      /\ touched' = touched \cup {k}
      /\ repeats' = (IF k \in touched THEN repeats + 1 ELSE repeats)
      /\ hostMade' = hostMade
  BY DEF Get, Access
<1>2. /\ heap' \in Seq(Buffers) /\ DOMAIN heap' = 1..Len(heap') /\ Len(heap') \in Nat
      /\ elements' \in DOMAIN heap' /\ capacity' \in Capacities
      /\ DOMAIN heap'[elements'] = 0..(capacity' - 1)
      /\ Size <= capacity' /\ (k \notin DOMAIN mappings => Size < capacity')
      /\ \A x \in DOMAIN mappings :
           heap'[elements'][mappings[x]] = Load(elements, mappings[x])
  BY GetCells
<1>3. /\ Size \in Nat /\ capacity' \in Nat /\ capacity' # 0
      /\ \A x \in DOMAIN mappings : mappings[x] \in Nat /\ mappings[x] < Size
      /\ IsFiniteSet(DOMAIN mappings) /\ IsFiniteSet(touched)
  BY <1>2, SizeType, CapacitiesAssumption DEF IInv, TypeOK, Placed, Packed
<1>4. /\ i = IF k \in DOMAIN mappings THEN mappings[k] ELSE Size
      /\ i \in Nat
  BY <1>3 DEF IndexOf
<1> HIDE DEF i
<1>5. /\ IsFiniteSet(DOMAIN mappings')
      /\ Size' = IF k \in DOMAIN mappings THEN Size ELSE Size + 1
  BY <1>1, <1>3, SizeOfMore DEF Size
<1>6. /\ IsFiniteSet(touched') /\ Cardinality(touched) \in Nat
      /\ Cardinality(touched') = IF k \in touched THEN Cardinality(touched)
                                 ELSE Cardinality(touched) + 1
  BY <1>1, <1>3, SizeOfMore
<1>7. TypeOK'
  <2>1. mappings' \in [DOMAIN mappings' -> Nat]
    BY <1>1, <1>3, <1>4
  <2>2. entry' \in [buf : Nat, off : Nat]
    BY <1>1, <1>2, <1>4
  <2>3. DOMAIN mappings' \subseteq Keys /\ touched' \subseteq Keys
    BY <1>1 DEF IInv, TypeOK
  <2>4. count' \in Nat /\ repeats' \in Nat /\ hostMade' \in BOOLEAN
    BY <1>1 DEF IInv, TypeOK
  <2>5. elements' \in 0..Len(heap') /\ elements' # 0
    BY <1>2
  <2> QED
    BY <1>1, <1>2, <1>3, <1>5, <1>6, <2>1, <2>2, <2>3, <2>4, <2>5 DEF TypeOK
<1>8. Distinct'
  <2> SUFFICES ASSUME NEW x \in DOMAIN mappings', NEW y \in DOMAIN mappings',
                      mappings'[x] = mappings'[y]
               PROVE  x = y
    BY DEF Distinct
  <2>1. CASE k \in DOMAIN mappings
    BY <1>1, <1>4, <2>1 DEF IInv, Placed, Distinct
  <2>2. CASE k \notin DOMAIN mappings
    <3>1. \A z \in DOMAIN mappings : mappings[z] # i
      BY <1>3, <1>4, <2>2
    <3> QED
      BY <1>1, <2>2, <3>1 DEF IInv, Placed, Distinct
  <2> QED
    BY <2>1, <2>2
<1>9. Packed'
  <2>1. ASSUME NEW x \in DOMAIN mappings' PROVE mappings'[x] < Size'
    BY <1>1, <1>3, <1>4, <1>5
  <2>2. Size' <= capacity'
    BY <1>2, <1>3, <1>5
  <2> QED
    BY <1>2, <2>1, <2>2 DEF Packed
<1>10. EntryLive'
  BY <1>1 DEF EntryLive
<1>11. Written'
  <2>1. ASSUME NEW x \in DOMAIN mappings', mappings'[x] # i
        PROVE  Load(elements, mappings[x])' \in Values
    <3>1. x \in DOMAIN mappings /\ mappings'[x] = mappings[x]
      BY <1>1, <2>1
    <3>2. Load(elements, mappings[x]) \in Values
      BY <1>1, <3>1 DEF IInv, Placed, Written
    <3>3. mappings[x] \in DOMAIN heap'[elements']
      BY <1>2, <1>3, <3>1
    <3> QED
      BY <1>2, <3>1, <3>2, <3>3 DEF Load
  <2> QED
    BY <1>1, <2>1 DEF Written
<1>12. Accounted'
  <2>1. count = Cardinality(touched) + repeats /\ repeats \in Nat
    BY DEF IInv, TypeOK, Accounted
  <2>2. count' = Cardinality(touched') + repeats'
    BY <1>1, <1>6, <2>1
  <2> QED
    BY <1>1, <2>2 DEF IInv, Accounted
<1> QED
  BY <1>7, <1>8, <1>9, <1>10, <1>11, <1>12 DEF IInv, Placed

-----------------------------------------------------------------------------
(* Theorems. *)

LEMMA NextKeeps == IInv /\ [Next]_vars => IInv'
<1> SUFFICES ASSUME IInv, [Next]_vars PROVE IInv'
  OBVIOUS
<1>1. CASE New
  BY <1>1, NewKeeps
<1>2. ASSUME NEW S \in HostKeys, FromHost(S) PROVE IInv'
  BY <1>2, FromHostKeeps
<1>3. ASSUME NEW k \in Keys, Get(k) PROVE IInv'
  BY <1>3, GetKeeps
<1>4. ASSUME NEW v \in Values, Finalize(v) PROVE IInv'
  BY <1>4, FinalizeKeeps
<1>5. CASE Squash
  BY <1>5, ReadersKeep DEF Squash
<1>6. CASE IntoEntries
  BY <1>6, ReadersKeep DEF IntoEntries
<1>7. CASE ReadBack
  BY <1>7, ReadersKeep DEF ReadBack
<1>8. CASE UNCHANGED vars
  BY <1>8, StutterKeeps
<1> QED
  BY <1>1, <1>2, <1>3, <1>4, <1>5, <1>6, <1>7, <1>8 DEF Next

LEMMA Invariance == Spec => []IInv
BY InitInv, NextKeeps, PTL DEF Spec

\* Every field of a dictionary keeps its type, and a buffer exists exactly when the
\* hash map has room (runtime.rs, cairo_native__dict_new and cairo_native__dict_get).
THEOREM TypeCorrect == Spec => []TypeOK
<1>1. IInv => TypeOK
  BY DEF IInv
<1> QED
  BY <1>1, Invariance, PTL

\* Whatever capacities the hash map chooses, indices are distinct and inside the current
\* buffer, an open entry points into that buffer, and what can be read has been written.
THEOREM PointersPlaced == Spec => []Placed
<1>1. IInv => Placed
  BY DEF IInv
<1> QED
  BY <1>1, Invariance, PTL

\* A squash never refunds an access that was not repeated, and refunds all that were
\* for a dictionary the program made (cairo_native__dict_squash).
THEOREM RefundsEarned == Spec => []RefundEarned
<1>1. IInv => RefundEarned
  BY AccountedRefund DEF IInv
<1> QED
  BY <1>1, Invariance, PTL

-----------------------------------------------------------------------------
(* The dictionary implements the partial function of DictSpec. *)

\* Cells no key has been given are as the arena left them.
Fresh ==
  elements # 0 => \A j \in Size..(capacity - 1) : heap[elements][j] = Undef

FreshInv == IInv /\ Fresh

LEMMA FreshKept == FreshInv /\ IInv' /\ [Next]_vars => Fresh'
<1> SUFFICES ASSUME FreshInv, IInv', [Next]_vars PROVE Fresh'
  OBVIOUS
<1>0. /\ heap \in Seq(Buffers) /\ Len(heap) \in Nat /\ DOMAIN heap = 1..Len(heap)
      /\ capacity \in Nat /\ elements \in 0..Len(heap) /\ (elements = 0 <=> capacity = 0)
      /\ Size \in Nat /\ Size <= capacity
      /\ \A x \in DOMAIN mappings : mappings[x] \in Nat /\ mappings[x] < Size
      /\ elements # 0 => DOMAIN heap[elements] = 0..(capacity - 1)
  <2>1. TypeOK /\ Packed
    BY DEF FreshInv, IInv, Placed
  <2>2. heap \in Seq(Buffers) /\ Len(heap) \in Nat /\ DOMAIN heap = 1..Len(heap)
    BY <2>1 DEF TypeOK
  <2>3. capacity \in Nat /\ Size \in Nat
    BY <2>1, SizeType, CapacitiesAssumption DEF TypeOK
  <2>4. \A x \in DOMAIN mappings : mappings[x] \in Nat /\ mappings[x] < Size
    BY <2>1 DEF TypeOK, Packed
  <2>5. elements \in 0..Len(heap) /\ (elements = 0 <=> capacity = 0)
    BY <2>1 DEF TypeOK
  <2>6. Size <= capacity /\ (elements # 0 => DOMAIN heap[elements] = 0..(capacity - 1))
    BY <2>1 DEF Packed
  <2> QED
    BY <2>2, <2>3, <2>4, <2>5, <2>6
<1>1. CASE New
  BY <1>1 DEF New, Fresh
<1>2. ASSUME NEW S \in HostKeys, FromHost(S) PROVE Fresh'
  <2>1. CASE S = {}
    BY <1>2, <2>1 DEF FromHost, Fresh
  <2>2. CASE S # {}
    <3> DEFINE Cells(value) == [j \in 0..(capacity' - 1) |->
                 IF \E k \in S : mappings'[k] = j
                 THEN value[CHOOSE k \in S : mappings'[k] = j] ELSE Undef]
    <3>1. elements' = Len(heap) + 1 /\ capacity' \in Nat
      BY <1>2, <2>2, CapacitiesAssumption DEF FromHost
    <3>2. PICK value \in [S -> Values] : heap' = Append(heap, Cells(value))
      BY <1>2, <2>2 DEF FromHost
    <3>3. heap'[elements'] = Cells(value)
      <4> HIDE DEF Cells
      <4> QED
        BY <1>0, <3>1, <3>2
    <3>4. /\ mappings' \in [S -> 0..(Cardinality(S) - 1)] /\ Size' = Cardinality(S)
          /\ Cardinality(S) \in Nat
      BY <1>2, HostAssumption, FS_CardinalityType DEF FromHost, Orders, Size
    <3>5. ASSUME NEW j, j \in Cardinality(S)..(capacity' - 1) PROVE Cells(value)[j] = Undef
      <4>1. j \in 0..(capacity' - 1) /\ \A k \in S : mappings'[k] # j
        <5> DEFINE cap == capacity'
        <5>0. j \in Cardinality(S)..(cap - 1)
          BY <3>5, Zenon
        <5>1. cap \in Nat /\ Cardinality(S) \in Nat
          BY <3>1, <3>4
        <5>2. \A k \in S : mappings'[k] \in 0..(Cardinality(S) - 1)
          BY <3>4
        <5> HIDE DEF cap
        <5>3. j \in 0..(cap - 1) /\ \A k \in S : mappings'[k] # j
          BY <5>0, <5>1, <5>2
        <5> QED
          BY <5>3 DEF cap
      <4> QED
        BY <4>1
    <3> QED
      BY <3>3, <3>4, <3>5 DEF Fresh
  <2> QED
    BY <2>1, <2>2
<1>3. ASSUME NEW k \in Keys, Get(k) PROVE Fresh'
  <2>0. mappings' = [x \in DOMAIN mappings \cup {k} |-> IF x = k THEN IndexOf(k) ELSE mappings[x]]
    BY <1>3 DEF Get
  <2>1. Size' = (IF k \in DOMAIN mappings THEN Size ELSE Size + 1)
    BY <2>0, SizeOfMore DEF FreshInv, IInv, TypeOK, Size
  <2>2. CASE Size = capacity /\ k \notin DOMAIN mappings
    <3>1. capacity' \in Capacities /\ capacity' > Size /\ capacity' \in Nat
      BY <1>0, <1>3, <2>2, CapacitiesAssumption DEF Get, MapCapacity
    <3>2. heap' = Append(heap, Moved(capacity')) /\ elements' = Len(heap) + 1
      BY <1>3, <2>2 DEF Get, Grow
    <3>3. heap'[elements'] = Moved(capacity')
      BY <1>0, <3>2
    <3>4. ASSUME NEW j, j \in (Size + 1)..(capacity' - 1) PROVE Moved(capacity')[j] = Undef
      <4>1. j \in 0..(capacity' - 1) /\ ~(j < Size)
        <5> DEFINE cap == capacity'
        <5>0. j \in (Size + 1)..(cap - 1)
          BY <3>4, Zenon
        <5>1. cap \in Nat /\ Size \in Nat
          BY <1>0, <3>1
        <5> HIDE DEF cap
        <5>2. j \in 0..(cap - 1) /\ ~(j < Size)
          BY <5>0, <5>1
        <5> QED
          BY <5>2 DEF cap
      <4> QED
        BY <4>1 DEF Moved
    <3> QED
      BY <2>1, <2>2, <3>3, <3>4 DEF Fresh
  <2>3. CASE Size # capacity \/ k \in DOMAIN mappings
    <3>1. capacity' = capacity
      BY <1>0, <1>3, <2>3 DEF Get, MapCapacity
    <3>2. heap' = heap /\ elements' = elements
      BY <1>3, <2>3 DEF Get, Grow
    <3> QED
      BY <1>0, <2>1, <3>1, <3>2 DEF FreshInv, Fresh
  <2> QED
    BY <2>2, <2>3
<1>4. ASSUME NEW v \in Values, Finalize(v) PROVE Fresh'
  <2>1. /\ heap' = StoreIn(entry.buf, entry.off, v) /\ form = "entry"
        /\ elements' = elements /\ capacity' = capacity /\ Size' = Size
    BY <1>4 DEF Finalize, dictVars, Size
  <2>2. entry.off < Size /\ entry.off \in Nat
    BY <1>0, <2>1 DEF FreshInv, IInv, Placed, EntryLive
  <2>3. ASSUME elements # 0, NEW j \in Size..(capacity - 1)
        PROVE  heap'[elements][j] = Undef
    <3>1. j # entry.off /\ j \in DOMAIN heap[elements] /\ elements \in DOMAIN heap
      BY <1>0, <2>2, <2>3
    <3>2. heap[elements][j] = Undef
      BY <2>3 DEF FreshInv, Fresh
    <3> QED
      BY <2>1, <3>1, <3>2 DEF StoreIn
  <2> QED
    BY <2>1, <2>3 DEF Fresh
<1>5. CASE UNCHANGED <<heap, dictVars>>
  BY <1>5 DEF FreshInv, Fresh, dictVars, Size
<1> QED
  BY <1>1, <1>2, <1>3, <1>4, <1>5 DEF Next, Squash, IntoEntries, ReadBack, vars

\* Outside an open entry the contents are what loads return, all of them elements.
LEMMA ContentsLoaded ==
  ASSUME IInv, form # "entry"
  PROVE  /\ Contents = [x \in DOMAIN mappings |-> Load(elements, mappings[x])]
         /\ \A x \in DOMAIN mappings : Load(elements, mappings[x]) \in Values
         /\ OpenKeys = {}
BY DEF Contents, OpenKeys, IInv, Placed, Written

\* The instance's copy of Cardinality is Cardinality.
LEMMA SameCardinality == \A S : Abstract!Cardinality(S) = Cardinality(S)
BY DEF Cardinality, Abstract!Cardinality

LEMMA InitAbstract == Init => Abstract!Init
<1> SUFFICES ASSUME Init PROVE Abstract!Init
  OBVIOUS
<1>1. DOMAIN mappings = {}
  BY DEF Init, NoMappings
<1>2. Contents = [k \in {} |-> Zero] /\ OpenKeys = {}
  BY <1>1 DEF Contents, OpenKeys
<1> QED
  BY <1>2 DEF Init, Abstract!Init, Nothing, Abstract!Nothing

LEMMA NewAbstract == FreshInv /\ New /\ IInv' => Abstract!New
<1> SUFFICES ASSUME FreshInv, New, IInv' PROVE Abstract!New
  OBVIOUS
<1>1. DOMAIN mappings' = {} /\ form = "none" /\ form' = "dict"
  BY DEF New, NoMappings
<1>2. Contents' = [k \in {} |-> Zero] /\ OpenKeys' = {} /\ OpenKeys = {}
  BY <1>1 DEF Contents, OpenKeys
<1> QED
  BY <1>2 DEF New, Abstract!New, Nothing, Abstract!Nothing

LEMMA FromHostAbstract ==
  ASSUME FreshInv, IInv', NEW S \in HostKeys, FromHost(S)
  PROVE  Abstract!FromHost
<1>1. form = "none" /\ form' = "dict" /\ DOMAIN mappings' = S
  BY DEF FromHost, Orders
<1>2. OpenKeys = {} /\ OpenKeys' = {}
  BY <1>1 DEF OpenKeys
<1>3. Contents' \in [S -> Values]
  <2>1. \A x \in DOMAIN mappings' : Load(elements, mappings[x])' \in Values
    BY <1>1 DEF IInv, Placed, Written
  <2> QED
    BY <1>1, <2>1 DEF Contents
<1>4. S \in SUBSET Keys
  BY HostAssumption
<1> QED
  BY <1>1, <1>2, <1>3, <1>4 DEF FromHost, Abstract!FromHost, Nothing, Abstract!Nothing

\* The cell a new key gets is as the arena left it.
LEMMA GetFresh ==
  ASSUME IInv, Fresh, NEW k \in Keys, Get(k), k \notin DOMAIN mappings
  PROVE  heap'[elements'][Size] = Undef
<1>1. /\ heap \in Seq(Buffers) /\ Len(heap) \in Nat /\ capacity \in Nat
      /\ (elements = 0 <=> capacity = 0) /\ Size \in Nat /\ Size <= capacity
  BY SizeType, CapacitiesAssumption DEF IInv, TypeOK, Placed, Packed
<1>2. CASE Size = capacity
  <2>1. capacity' > Size /\ capacity' \in Nat
    BY <1>1, <1>2, CapacitiesAssumption DEF Get, MapCapacity
  <2>2. heap' = Append(heap, Moved(capacity')) /\ elements' = Len(heap) + 1
    BY <1>2 DEF Get, Grow
  <2>3. heap'[elements'] = Moved(capacity')
    BY <1>1, <2>2
  <2>4. Size \in 0..(capacity' - 1) /\ ~(Size < Size)
    <3> DEFINE cap == capacity'
    <3>1. cap > Size /\ cap \in Nat
      BY <2>1
    <3> HIDE DEF cap
    <3>2. Size \in 0..(cap - 1) /\ ~(Size < Size)
      BY <1>1, <3>1
    <3> QED
      BY <3>2 DEF cap
  <2> QED
    BY <2>3, <2>4 DEF Moved
<1>3. CASE Size # capacity
  <2>1. heap' = heap /\ elements' = elements
    BY <1>3 DEF Get, Grow
  <2>2. Size \in Size..(capacity - 1) /\ elements # 0
    BY <1>1, <1>3
  <2> QED
    BY <2>1, <2>2 DEF Fresh
<1> QED
  BY <1>2, <1>3

LEMMA GetAbstract ==
  ASSUME FreshInv, IInv', NEW k \in Keys, Get(k)
  PROVE  Abstract!Get(k)
<1> DEFINE value == IF k \in DOMAIN Contents THEN Contents[k] ELSE Zero
<1> DEFINE i == IndexOf(k)
<1>1. /\ form = "dict" /\ form' = "entry" /\ count' = count + 1
      /\ mappings' = [x \in DOMAIN mappings \cup {k} |-> IF x = k THEN i ELSE mappings[x]]
      /\ DOMAIN mappings' = DOMAIN mappings \cup {k}
      /\ mappings'[k] = i
      /\ entry' = [buf |-> elements', off |-> i]
      /\ entry'.off = i
  BY DEF Get
<1> HIDE DEF i
<1>2. /\ Contents = [x \in DOMAIN mappings |-> Load(elements, mappings[x])]
      /\ \A x \in DOMAIN mappings : Load(elements, mappings[x]) \in Values
      /\ OpenKeys = {} /\ IInv
  BY <1>1, ContentsLoaded DEF FreshInv
<1>3. /\ elements' \in DOMAIN heap' /\ capacity' \in Capacities
      /\ DOMAIN heap'[elements'] = 0..(capacity' - 1)
      /\ Size <= capacity' /\ (k \notin DOMAIN mappings => Size < capacity')
      /\ \A x \in DOMAIN mappings :
           heap'[elements'][mappings[x]] = Load(elements, mappings[x])
  BY <1>2, GetCells
<1>4. ASSUME NEW x \in DOMAIN mappings
      PROVE  heap'[elements'][mappings[x]] = Contents[x] /\ Contents[x] \in Values
             /\ Contents[x] # Undef
  BY <1>2, <1>3, ValuesAssumption
<1>5. \A x \in DOMAIN mappings' : x # k => mappings'[x] # i
  BY <1>1 DEF IInv, Placed, Distinct
<1>6. OpenKeys' = {k}
  BY <1>1, <1>5 DEF OpenKeys
<1>7. ASSUME NEW x \in DOMAIN mappings
      PROVE  Load(elements, mappings[x])' = IF x = k THEN heap'[elements'][i]
                                            ELSE Contents[x]
  <2>1. mappings[x] \in DOMAIN heap'[elements']
    <3>1. mappings[x] \in Nat /\ mappings[x] < Size /\ Size \in Nat
      BY <1>2, SizeType DEF IInv, TypeOK, Placed, Packed
    <3>2. capacity' \in Nat
      BY <1>3, CapacitiesAssumption
    <3> QED
      BY <1>3, <3>1, <3>2
  <2>2. x # k => mappings'[x] = mappings[x]
    BY <1>1
  <2>3. x = k => mappings'[x] = mappings[x]
    BY <1>1 DEF i, IndexOf
  <2> QED
    BY <1>1, <1>3, <1>4, <2>1, <2>2, <2>3 DEF Load
<1>8. ASSUME NEW x \in DOMAIN mappings'
      PROVE  Contents'[x] = IF x = k THEN value ELSE Contents[x]
  <2>1. Contents'[x] = IF mappings'[x] = i /\ Load(elements, mappings[x])' = Undef
                       THEN Zero ELSE Load(elements, mappings[x])'
    BY <1>1 DEF Contents
  <2>2. CASE x # k
    BY <1>1, <1>5, <1>7, <2>1, <2>2
  <2>3. CASE x = k /\ k \in DOMAIN mappings
    <3>1. i = mappings[k]
      BY <2>3 DEF i, IndexOf
    <3>2. Load(elements, mappings[x])' = Contents[k] /\ Contents[k] # Undef
      BY <1>4, <1>7, <2>3, <3>1
    <3>3. value = Contents[k]
      BY <1>2, <2>3
    <3> QED
      BY <2>1, <2>3, <3>2, <3>3
  <2>4. CASE x = k /\ k \notin DOMAIN mappings
    <3>1. i = Size
      BY <2>4 DEF i, IndexOf
    <3>2. Load(elements, mappings[x])' = Undef
      <4>1. Get(k) /\ Fresh
        BY DEF FreshInv
      <4>2. Load(elements, mappings[x])' = heap'[elements'][Size] \/
            Load(elements, mappings[x])' = Undef
        BY <1>1, <2>4, <3>1 DEF Load
      <4>3. heap'[elements'][Size] = Undef
        BY <1>2, <2>4, <4>1, GetFresh
      <4> QED
        BY <4>2, <4>3
    <3>3. value = Zero
      BY <1>2, <2>4
    <3> QED
      BY <1>1, <2>1, <2>4, <3>1, <3>2, <3>3
  <2> QED
    BY <2>2, <2>3, <2>4
<1>9. Contents' = [x \in DOMAIN Contents \cup {k} |->
                     IF x = k THEN value ELSE Contents[x]]
  <2>1. DOMAIN Contents' = DOMAIN mappings' /\ DOMAIN Contents = DOMAIN mappings
    BY DEF Contents
  <2>2. Contents' = [x \in DOMAIN mappings' |-> Contents'[x]]
    BY DEF Contents
  <2> HIDE DEF value
  <2> QED
    BY <1>1, <1>8, <2>1, <2>2
<1>10. reply' = [Abstract!Nothing EXCEPT !.value = value]
  <2>1. reply' = [Nothing EXCEPT !.value =
                    IF k \in DOMAIN mappings THEN Load(elements, mappings[k]) ELSE Zero]
    BY DEF Get
  <2>2. value = IF k \in DOMAIN mappings THEN Load(elements, mappings[k]) ELSE Zero
    BY <1>2
  <2> QED
    BY <2>1, <2>2 DEF Nothing, Abstract!Nothing
<1> QED
  BY <1>1, <1>6, <1>9, <1>10 DEF Abstract!Get

LEMMA FinalizeAbstract ==
  ASSUME FreshInv, IInv', NEW v \in Values, Finalize(v)
  PROVE  Abstract!Finalize(v)
<1>1. /\ form = "entry" /\ form' = "dict" /\ mappings' = mappings /\ elements' = elements
      /\ heap' = StoreIn(entry.buf, entry.off, v) /\ count' = count /\ reply' = Nothing
  BY DEF Finalize, dictVars
<1>2. IInv /\ OpenKeys' = {}
  BY <1>1 DEF FreshInv, OpenKeys
<1>3. DOMAIN heap' = DOMAIN heap /\ entry.buf = elements
  BY <1>1, <1>2 DEF StoreIn, IInv, Placed, EntryLive
<1>4. ASSUME NEW x \in DOMAIN mappings
      PROVE  Load(elements, mappings[x])' = IF mappings[x] = entry.off THEN v ELSE Contents[x]
  <2>1. Load(elements, mappings[x])' \in Values
    BY <1>1 DEF IInv, Placed, Written
  <2>2. elements \in DOMAIN heap' /\ mappings[x] \in DOMAIN heap'[elements]
    BY <1>1, <2>1, ValuesAssumption DEF Load
  <2>3. /\ mappings[x] \in DOMAIN heap[elements]
        /\ heap'[elements][mappings[x]] =
             IF mappings[x] = entry.off THEN v ELSE heap[elements][mappings[x]]
    BY <1>1, <1>3, <2>2 DEF StoreIn
  <2>4. Load(elements, mappings[x])' = heap'[elements][mappings[x]]
    BY <1>1, <2>2 DEF Load
  <2>5. mappings[x] # entry.off => Contents[x] = heap[elements][mappings[x]]
    BY <1>3, <2>2, <2>3 DEF Contents, Load
  <2> QED
    BY <2>3, <2>4, <2>5
<1>5. ASSUME NEW x \in DOMAIN mappings
      PROVE  Contents'[x] = IF x \in OpenKeys THEN v ELSE Contents[x]
  <2>1. Contents'[x] = Load(elements, mappings[x])'
    BY <1>1 DEF Contents
  <2>2. x \in OpenKeys <=> mappings[x] = entry.off
    BY <1>1 DEF OpenKeys
  <2> QED
    BY <1>4, <2>1, <2>2
<1>6. Contents' = [x \in DOMAIN Contents |-> IF x \in OpenKeys THEN v ELSE Contents[x]]
  <2>1. DOMAIN Contents = DOMAIN mappings
    BY DEF Contents
  <2>2. Contents' = [x \in DOMAIN mappings |-> Contents'[x]]
    BY <1>1 DEF Contents
  <2> QED
    BY <1>5, <2>1, <2>2
<1> QED
  BY <1>1, <1>2, <1>6 DEF Abstract!Finalize, Nothing, Abstract!Nothing

\* Operations without an open entry before or after leave the contents alone.
LEMMA ReadersAbstract ==
  ASSUME FreshInv, form \in {"dict", "squashed"}, form' \in {"none", "squashed"},
         UNCHANGED <<heap, dictVars, entry, history>>
  PROVE  Contents' = Contents /\ OpenKeys' = OpenKeys
BY DEF Contents, OpenKeys, Load, dictVars

LEMMA SquashAbstract == FreshInv /\ Squash => Abstract!Squash
<1> SUFFICES ASSUME FreshInv, Squash PROVE Abstract!Squash
  OBVIOUS
<1>1. form = "dict" /\ form' = "squashed" /\ count' = count
      /\ Contents' = Contents /\ OpenKeys' = OpenKeys
  BY ReadersAbstract DEF Squash, dictVars
<1>2. Abstract!Cardinality(DOMAIN Contents) = Size
  BY SameCardinality DEF Contents, Size
<1>3. Abstract!Repeated = Repeated
  BY <1>2 DEF Abstract!Repeated, Repeated
<1>4. Abstract!SquashChecks = RangeChecks
  <2>1. Size \in Nat /\ Repeated \in Nat
    BY SizeType DEF FreshInv, IInv, TypeOK, Repeated
  <2>2. (Size = 0) <=> (DOMAIN mappings = {})
    BY FS_EmptySet DEF FreshInv, IInv, TypeOK, Size
  <2>3. NoBigKeys <=> ~ \E k \in DOMAIN Contents : k > SmallMax
    <3>1. \A k \in DOMAIN mappings : k \in Nat /\ SmallMax \in Nat
      BY KeysAssumption DEF FreshInv, IInv, TypeOK
    <3> QED
      BY <3>1 DEF NoBigKeys, Contents
  <2>4. CASE Size = 0
    <3>1. NoBigKeys
      BY <2>2, <2>4 DEF NoBigKeys
    <3> QED
      BY <1>2, <1>3, <2>1, <2>4, <3>1 DEF Abstract!SquashChecks, RangeChecks
  <2>5. CASE Size # 0 /\ NoBigKeys
    BY <1>2, <1>3, <2>1, <2>3, <2>5 DEF Abstract!SquashChecks, RangeChecks
  <2>6. CASE Size # 0 /\ ~NoBigKeys
    <3>1. \E k \in DOMAIN Contents : k > SmallMax
      BY <2>3, <2>6
    <3>2. Abstract!SquashChecks = 2 + (2 + 6 * (Size - 1)) + Repeated
      BY <1>2, <1>3, <2>6, <3>1 DEF Abstract!SquashChecks
    <3>3. RangeChecks = 2 + 0 + 2 * Size + (IF Size > 1 THEN 4 * (Size - 1) ELSE 0) + Repeated
      BY <2>6 DEF RangeChecks
    <3> QED
      BY <2>1, <2>6, <3>2, <3>3
  <2> QED
    BY <2>4, <2>5, <2>6
<1> QED
  BY <1>1, <1>3, <1>4 DEF Squash, Abstract!Squash, Nothing, Abstract!Nothing

LEMMA IntoEntriesAbstract == FreshInv /\ IntoEntries => Abstract!IntoEntries
<1> SUFFICES ASSUME FreshInv, IntoEntries PROVE Abstract!IntoEntries
  OBVIOUS
<1>1. form = "squashed" /\ form' = "none" /\ count' = count
      /\ Contents' = Contents /\ OpenKeys' = OpenKeys
  BY ReadersAbstract DEF IntoEntries, dictVars
<1>2. Contents = [x \in DOMAIN mappings |-> Load(elements, mappings[x])]
  BY <1>1, ContentsLoaded DEF FreshInv
<1>3. DOMAIN Contents = DOMAIN mappings
      /\ \A k \in DOMAIN mappings : Contents[k] = Load(elements, mappings[k])
  BY <1>2
<1>4. {<<Cardinality({j \in DOMAIN mappings : j <= k}), k, Zero,
          Load(elements, mappings[k])>> : k \in DOMAIN mappings}
      = {<<Abstract!Cardinality({j \in DOMAIN Contents : j <= k}), k, Zero, Contents[k]>> :
           k \in DOMAIN Contents}
  BY <1>3, SameCardinality
<1> QED
  BY <1>1, <1>4 DEF IntoEntries, Abstract!IntoEntries, Nothing, Abstract!Nothing

LEMMA ReadBackAbstract == FreshInv /\ ReadBack => Abstract!ReadBack
<1> SUFFICES ASSUME FreshInv, ReadBack PROVE Abstract!ReadBack
  OBVIOUS
<1>1. form \in {"dict", "squashed"} /\ form' = "none" /\ count' = count
      /\ Contents' = Contents /\ OpenKeys' = OpenKeys
  BY ReadersAbstract DEF ReadBack, dictVars
<1>2. Contents = [x \in DOMAIN mappings |-> Load(elements, mappings[x])]
  BY <1>1, ContentsLoaded DEF FreshInv
<1>3. {<<k, Load(elements, mappings[k])>> : k \in DOMAIN mappings} = Abstract!Graph(Contents)
  BY <1>2 DEF Abstract!Graph
<1> QED
  BY <1>1, <1>3 DEF ReadBack, Abstract!ReadBack, Nothing, Abstract!Nothing

LEMMA StepAbstract ==
  FreshInv /\ IInv' /\ [Next]_vars => [Abstract!Next]_(Abstract!vars)
<1> SUFFICES ASSUME FreshInv, IInv', [Next]_vars PROVE [Abstract!Next]_(Abstract!vars)
  OBVIOUS
<1>1. CASE New
  BY <1>1, NewAbstract DEF Abstract!Next
<1>2. ASSUME NEW S \in HostKeys, FromHost(S) PROVE Abstract!Next
  BY <1>2, FromHostAbstract DEF Abstract!Next
<1>3. ASSUME NEW k \in Keys, Get(k) PROVE Abstract!Next
  BY <1>3, GetAbstract DEF Abstract!Next
<1>4. ASSUME NEW v \in Values, Finalize(v) PROVE Abstract!Next
  BY <1>4, FinalizeAbstract DEF Abstract!Next
<1>5. CASE Squash
  BY <1>5, SquashAbstract DEF Abstract!Next
<1>6. CASE IntoEntries
  BY <1>6, IntoEntriesAbstract DEF Abstract!Next
<1>7. CASE ReadBack
  BY <1>7, ReadBackAbstract DEF Abstract!Next
<1>8. CASE UNCHANGED vars
  BY <1>8 DEF vars, dictVars, history, Abstract!vars, Contents, OpenKeys, Load
<1> QED
  BY <1>1, <1>2, <1>3, <1>4, <1>5, <1>6, <1>7, <1>8 DEF Next

\* Through any growth of the hash map, any order of accesses and any dictionary the host
\* passes in, a FeltDict behaves as the interpreter's partial function: what get, squash,
\* into_entries and read-back report is what that function would report.
THEOREM ImplementsMap == Spec => MapSemantics
<1>1. Init => FreshInv
  BY InitInv DEF FreshInv, Fresh, Init
<1>2. FreshInv /\ [Next]_vars => FreshInv'
  BY NextKeeps, FreshKept DEF FreshInv
<1>3. FreshInv /\ FreshInv' /\ [Next]_vars => [Abstract!Next]_(Abstract!vars)
  BY StepAbstract DEF FreshInv
<1> QED
  BY <1>1, <1>2, <1>3, InitAbstract, PTL DEF Spec, MapSemantics, Abstract!Spec
=============================================================================
