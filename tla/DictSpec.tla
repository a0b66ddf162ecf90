------------------------------ MODULE DictSpec ------------------------------
(***************************************************************************)
(* What the dictionary libfuncs mean: a dictionary is a partial function   *)
(* from felts to values, absent keys reading as the type's zero; taking an *)
(* entry inserts the key, counts an access and locks the dictionary until  *)
(* the entry is finalized.  This is the semantics of the interpreter,      *)
(* debug_utils/sierra-emu/src/vm/felt252_dict.rs and                       *)
(* felt252_dict_entry.rs; the builtin counters, which the interpreter      *)
(* leaves out, are those the comments of cairo_native__dict_squash derive. *)
(***************************************************************************)
EXTENDS Integers, FiniteSets

CONSTANTS
  Keys,             \* felts, as numbers
  Values,           \* elements
  Zero,             \* the default of the element type
  SmallMax          \* 2^128 - 1: greater keys are big

VARIABLES
  form,             \* "none", "dict", "entry" or "squashed"
  data,             \* the partial function
  count,            \* accesses since the program got the dictionary
  open,             \* key of the open entry
  reply             \* what the last operation handed to the program

vars == <<form, data, count, open, reply>>

\* Fields of a reply: a value, refunded accesses, range checks, uses of the segment
\* arena, the entries of a squashed dictionary, the map the host read.
Nothing == [value |-> Zero, refund |-> 0, checks |-> 0, segments |-> 0,
            entries |-> {}, map |-> {}]

\* A partial function as the set of its pairs.
Graph(f) == {<<k, f[k]>> : k \in DOMAIN f}

Init ==
  /\ form = "none"
  /\ data = [k \in {} |-> Zero]
  /\ count = 0
  /\ open = {}
  /\ reply = Nothing

New ==
  /\ form = "none"
  /\ form' = "dict"
  /\ data' = [k \in {} |-> Zero]
  /\ count' = 0
  /\ reply' = [Nothing EXCEPT !.segments = 1]
  /\ UNCHANGED open

\* A dictionary passed in by the host.
FromHost ==
  /\ form = "none"
  /\ form' = "dict"
  /\ \E S \in SUBSET Keys : data' \in [S -> Values]
  /\ count' = 0
  /\ reply' = Nothing
  /\ UNCHANGED open

Get(k) ==
  LET value == IF k \in DOMAIN data THEN data[k] ELSE Zero
  IN  /\ form = "dict"
      /\ form' = "entry"
      /\ data' = [x \in DOMAIN data \cup {k} |-> IF x = k THEN value ELSE data[x]]
      /\ count' = count + 1
      /\ open' = {k}
      /\ reply' = [Nothing EXCEPT !.value = value]

Finalize(v) ==
  /\ form = "entry"
  /\ form' = "dict"
  /\ data' = [x \in DOMAIN data |-> IF x \in open THEN v ELSE data[x]]
  /\ open' = {}
  /\ reply' = Nothing
  /\ UNCHANGED count

\* Accesses beyond the first of each key (a host's keys have no first one: saturating).
Repeated ==
  LET n == Cardinality(DOMAIN data) IN IF count > n THEN count - n ELSE 0

\* 2 always; then per key 3, or with a big key 2 for the first and 6 for the others.
SquashChecks ==
  LET n == Cardinality(DOMAIN data)
      big == \E k \in DOMAIN data : k > SmallMax
      perKeys == IF n = 0 THEN 0 ELSE IF big THEN 2 + 6 * (n - 1) ELSE 3 * n
  IN  2 + perKeys + Repeated

Squash ==
  /\ form = "dict"
  /\ form' = "squashed"
  /\ reply' = [Nothing EXCEPT !.refund = Repeated, !.checks = SquashChecks, !.segments = 1]
  /\ UNCHANGED <<data, count, open>>

\* The triples (position, key, zero, value), in the order of the keys.
IntoEntries ==
  /\ form = "squashed"
  /\ form' = "none"
  /\ reply' = [Nothing EXCEPT !.entries =
                 {<<Cardinality({j \in DOMAIN data : j <= k}), k, Zero, data[k]>> :
                    k \in DOMAIN data}]
  /\ UNCHANGED <<data, count, open>>

\* The host reads a dictionary the program returned.
ReadBack ==
  /\ form \in {"dict", "squashed"}
  /\ form' = "none"
  /\ reply' = [Nothing EXCEPT !.map = Graph(data)]
  /\ UNCHANGED <<data, count, open>>

Next ==
  \/ New \/ FromHost
  \/ \E k \in Keys : Get(k)
  \/ \E v \in Values : Finalize(v)
  \/ Squash \/ IntoEntries \/ ReadBack

Spec == Init /\ [][Next]_vars
=============================================================================
