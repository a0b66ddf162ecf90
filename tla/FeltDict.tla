------------------------------ MODULE FeltDict ------------------------------
(***************************************************************************)
(* Dictionaries as compiled code and the runtime execute them (runtime.rs, *)
(* libfuncs/felt252_dict*.rs, squashed_dict.rs, values.rs).  A FeltDict is *)
(* a hash map from keys to indices, a buffer of elements in the arena      *)
(* sized to the map's capacity, and a count of accesses.  An open entry is *)
(* a raw pointer into the buffer, which moves when the map grows; a fresh  *)
(* cell holds whatever the arena had there until the entry is finalized.   *)
(*                                                                         *)
(* The hash map is the standard library's: all that is known of it is that *)
(* it keeps its capacity while it has room and reports the capacity it has.*)
(***************************************************************************)
EXTENDS Integers, Sequences, FiniteSets

CONSTANTS
  Keys,             \* felts, as numbers
  Values,           \* elements
  Zero,             \* the default of the element type
  Undef,            \* content of memory nobody has written
  SmallMax,         \* 2^128 - 1: greater keys are big
  Capacities,       \* capacities a hash map may have (3, 7, 14, 28, ...)
  HostKeys,         \* sets of keys of the dictionaries the host passes in
  MaxCount,         \* bound: accesses to one dictionary
  MaxBuffers        \* bound: buffers in the arena

ASSUME KeysAssumption == Keys \subseteq Nat /\ SmallMax \in Nat
ASSUME ValuesAssumption == Zero \in Values /\ Undef \notin Values
ASSUME CapacitiesAssumption == Capacities \subseteq Nat \ {0}
ASSUME HostAssumption == HostKeys \subseteq SUBSET Keys /\ \A S \in HostKeys : IsFiniteSet(S)
ASSUME BoundsAssumption == MaxCount \in Nat /\ MaxBuffers \in Nat

VARIABLES
  heap,             \* the arena's element buffers, each a function from 0..capacity-1
  form,             \* what the program holds: "none", "dict", "entry", "squashed"
  mappings,         \* FeltDict::mappings
  capacity,         \* mappings.capacity()
  elements,         \* FeltDict::elements: a buffer, 0 is null
  count,            \* FeltDict::count
  entry,            \* value pointer of the entry: buffer and index
  reply,            \* what the last operation handed to the program
  \* History, read by properties only:
  touched,          \* keys accessed since the program got the dictionary
  repeats,          \* accesses to keys that had been accessed before
  hostMade          \* the dictionary came from the host

dictVars == <<mappings, capacity, elements, count>>
history == <<touched, repeats, hostMade>>
vars == <<heap, form, dictVars, entry, reply, history>>

NullEntry == [buf |-> 0, off |-> 0]
NoMappings == [k \in {} |-> 0]

\* Fields of a reply: a value, refunded accesses, range checks, uses of the segment
\* arena, the entries of a squashed dictionary, the map the host read.
Nothing == [value |-> Zero, refund |-> 0, checks |-> 0, segments |-> 0,
            entries |-> {}, map |-> {}]

Size == Cardinality(DOMAIN mappings)

\* A load outside a buffer finds bytes that mean nothing; a store there changes no
\* buffer of the program (the invariant Placed excludes both).
Load(b, i) ==
  IF b \in DOMAIN heap /\ i \in DOMAIN heap[b] THEN heap[b][i] ELSE Undef

StoreIn(b, i, v) ==
  [c \in DOMAIN heap |-> [j \in DOMAIN heap[c] |->
     IF c = b /\ j = i THEN v ELSE heap[c][j]]]

Init ==
  /\ heap = <<>>
  /\ form = "none"
  /\ mappings = NoMappings
  /\ capacity = 0
  /\ elements = 0
  /\ count = 0
  /\ entry = NullEntry
  /\ reply = Nothing
  /\ touched = {}
  /\ repeats = 0
  /\ hostMade = FALSE

-----------------------------------------------------------------------------
(* Creation. *)

\* felt252_dict_new: cairo_native__dict_new; the elements are allocated on first use.
New ==
  /\ form = "none"
  /\ form' = "dict"
  /\ mappings' = NoMappings
  /\ capacity' = 0
  /\ elements' = 0
  /\ count' = 0
  /\ reply' = [Nothing EXCEPT !.segments = 1]
  /\ touched' = {}
  /\ repeats' = 0
  /\ hostMade' = FALSE
  /\ UNCHANGED <<heap, entry>>

\* Any order of S: the one in which the host's hash map yields its keys.
Orders(S) ==
  {f \in [S -> 0..(Cardinality(S) - 1)] : \A k, l \in S : f[k] = f[l] => k = l}

\* Value::to_ptr: reserve first, then size the buffer by the capacity it gave.
FromHost(S) ==
  /\ form = "none"
  /\ form' = "dict"
  /\ mappings' \in Orders(S)
  /\ capacity' \in IF S = {} THEN {0} ELSE {c \in Capacities : c >= Cardinality(S)}
  /\ IF S = {}
     THEN elements' = 0 /\ UNCHANGED heap
     ELSE /\ Len(heap) < MaxBuffers
          /\ \E value \in [S -> Values] :
               heap' = Append(heap, [j \in 0..(capacity' - 1) |->
                         IF \E k \in S : mappings'[k] = j
                         THEN value[CHOOSE k \in S : mappings'[k] = j]
                         ELSE Undef])
          /\ elements' = Len(heap) + 1
  /\ count' = 0
  /\ reply' = Nothing
  /\ touched' = {}
  /\ repeats' = 0
  /\ hostMade' = TRUE
  /\ UNCHANGED entry

-----------------------------------------------------------------------------
(* Entries: cairo_native__dict_get and the felt252_dict_entry libfuncs. *)

\* The capacity of the hash map once a key is in it (HashMap::entry, insert).
MapCapacity(k) ==
  IF k \in DOMAIN mappings \/ Size < capacity
  THEN {capacity}
  ELSE {c \in Capacities : c > Size}

\* A buffer for a map of capacity c, with the elements so far copied.
Moved_LastLeft(c) ==
  [j \in 0..(c - 1) |-> IF j < Size - 1 THEN Load(elements, j) ELSE Undef]
Moved(c) == [j \in 0..(c - 1) |-> IF j < Size THEN Load(elements, j) ELSE Undef]

IndexOf_Count(k) == IF k \in DOMAIN mappings THEN mappings[k] ELSE count
IndexOf(k) == IF k \in DOMAIN mappings THEN mappings[k] ELSE Size

\* The elements move when the map was full and the key is new.
Grow_CapacityReadLate(k) ==
  IF Size = capacity' /\ k \notin DOMAIN mappings
  THEN heap' = Append(heap, Moved(capacity')) /\ elements' = Len(heap) + 1
  ELSE UNCHANGED <<heap, elements>>
Grow(k) ==
  IF Size = capacity /\ k \notin DOMAIN mappings
  THEN heap' = Append(heap, Moved(capacity')) /\ elements' = Len(heap) + 1
  ELSE UNCHANGED <<heap, elements>>

\* The bookkeeping of the properties.
Access(k) ==
  /\ touched' = touched \cup {k}
  /\ repeats' = IF k \in touched THEN repeats + 1 ELSE repeats
  /\ UNCHANGED hostMade

\* felt252_dict_entry_get: a present value is loaded, an absent one built as default.
Get(k) ==
  /\ form = "dict"
  /\ count < MaxCount /\ Len(heap) < MaxBuffers
  /\ form' = "entry"
  /\ capacity' \in MapCapacity(k)
  /\ Grow(k)
  /\ mappings' = [x \in DOMAIN mappings \cup {k} |->
                    IF x = k THEN IndexOf(k) ELSE mappings[x]]
  /\ entry' = [buf |-> elements', off |-> IndexOf(k)]
  /\ count' = count + 1
  /\ reply' = [Nothing EXCEPT !.value =
                 IF k \in DOMAIN mappings THEN Load(elements, mappings[k]) ELSE Zero]
  /\ Access(k)

\* felt252_dict_entry_finalize stores through the pointer, wherever it points.
Finalize(v) ==
  /\ form = "entry"
  /\ form' = "dict"
  /\ heap' = StoreIn(entry.buf, entry.off, v)
  /\ entry' = NullEntry
  /\ reply' = Nothing
  /\ UNCHANGED <<dictVars, history>>

-----------------------------------------------------------------------------
(* The end of a dictionary. *)

\* count.saturating_sub(mappings.len())
Repeated_Wrapping == (count - Size) % (2 * MaxCount + 1)
Repeated == IF count > Size THEN count - Size ELSE 0

NoBigKeys == \A k \in DOMAIN mappings : k <= SmallMax

\* cairo_native__dict_squash, one line per addition to the range check counter.
RangeChecks ==
  2 + (IF NoBigKeys THEN Size ELSE 0)
    + 2 * Size
    + (IF ~NoBigKeys /\ Size > 1 THEN 4 * (Size - 1) ELSE 0)
    + Repeated

\* felt252_dict_squash: the dictionary itself stays as it is.
Squash ==
  /\ form = "dict"
  /\ form' = "squashed"
  /\ reply' = [Nothing EXCEPT !.refund = Repeated, !.checks = RangeChecks, !.segments = 1]
  /\ UNCHANGED <<heap, dictVars, entry, history>>

\* create_dict_entries_array: a triple (key, zero, element) per key, in key order.
IntoEntries ==
  /\ form = "squashed"
  /\ form' = "none"
  /\ reply' = [Nothing EXCEPT !.entries =
                 {<<Cardinality({j \in DOMAIN mappings : j <= k}), k, Zero,
                    Load(elements, mappings[k])>> : k \in DOMAIN mappings}]
  /\ UNCHANGED <<heap, dictVars, entry, history>>

\* Value::from_ptr: the host reads the dictionary the program returned.
ReadBack ==
  /\ form \in {"dict", "squashed"}
  /\ form' = "none"
  /\ reply' = [Nothing EXCEPT !.map =
                 {<<k, Load(elements, mappings[k])>> : k \in DOMAIN mappings}]
  /\ UNCHANGED <<heap, dictVars, entry, history>>

Next ==
  \/ New
  \/ \E S \in HostKeys : FromHost(S)
  \/ \E k \in Keys : Get(k)
  \/ \E v \in Values : Finalize(v)
  \/ Squash \/ IntoEntries \/ ReadBack

Spec == Init /\ [][Next]_vars

-----------------------------------------------------------------------------
(* Properties. *)

\* A buffer has one cell per key the map has room for.
Buffers == UNION {[0..(c - 1) -> Values \cup {Undef}] : c \in Capacities}

\* Types; a buffer exists exactly when the map has room for keys.
TypeOK ==
  /\ heap \in Seq(Buffers)
  /\ form \in {"none", "dict", "entry", "squashed"}
  /\ DOMAIN mappings \subseteq Keys /\ IsFiniteSet(DOMAIN mappings)
  /\ mappings \in [DOMAIN mappings -> Nat]
  /\ capacity \in Capacities \cup {0}
  /\ elements \in 0..Len(heap)
  /\ (elements = 0 <=> capacity = 0)
  /\ count \in Nat
  /\ entry \in [buf : Nat, off : Nat]
  /\ touched \subseteq Keys /\ IsFiniteSet(touched)
  /\ repeats \in Nat
  /\ hostMade \in BOOLEAN

\* No two keys share a cell.
Distinct == \A k, l \in DOMAIN mappings : mappings[k] = mappings[l] => k = l

\* Every index is below the number of keys, which fits the current buffer.
Packed ==
  /\ \A k \in DOMAIN mappings : mappings[k] < Size
  /\ Size <= capacity
  /\ elements # 0 => DOMAIN heap[elements] = 0..(capacity - 1)

\* The open entry points into the current buffer, at the cell of one key.
EntryLive ==
  form = "entry" => /\ entry.buf = elements
                    /\ \E k \in DOMAIN mappings : mappings[k] = entry.off

\* Every other cell has been written.
Written ==
  \A k \in DOMAIN mappings :
    \/ form = "entry" /\ mappings[k] = entry.off
    \/ Load(elements, mappings[k]) \in Values

\* The pointer arithmetic of runtime.rs and values.rs, which no type system checks: the
\* index map, the buffer and the entry pointer agree across every growth.
Placed == Distinct /\ Packed /\ EntryLive /\ Written

\* A squash refunds the accesses that repeated a key, no more; exactly those, unless
\* the host made the dictionary (its keys then count as accessed once already).
RefundEarned ==
  /\ Repeated <= repeats
  /\ ~hostMade => Repeated = repeats

\* The dictionary as the program sees it (an open fresh cell stands for the zero).
Contents ==
  [k \in DOMAIN mappings |->
     IF form = "entry" /\ mappings[k] = entry.off
        /\ Load(elements, mappings[k]) = Undef
     THEN Zero ELSE Load(elements, mappings[k])]

OpenKeys == {k \in DOMAIN mappings : form = "entry" /\ mappings[k] = entry.off}

Abstract == INSTANCE DictSpec WITH
  data <- Contents,
  open <- OpenKeys

\* Whatever buffers it moves through, a dictionary is the partial function the
\* interpreter works with, and squash, entries and read-back report that function.
MapSemantics == Abstract!Spec
=============================================================================
